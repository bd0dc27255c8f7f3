----------------------------- MODULE DomainVerify -----------------------------
(* A customer's hostname (services/domainverify): it is added, verified by   *)
(* its DNS records within a time to live that may be extended twice, watched *)
(* afterwards, and released when the records are gone for a week.  A poller  *)
(* of the leader verifies, watches and expires from lists; calls of the      *)
(* service come in between.  No handler calls this library yet: the store is *)
(* modelled from its interface and the one the tests use.                    *)
(*                                                                           *)
(* Left out: the two kinds of records and the apex, the plan, audit rows.    *)
(* One hostname; the records are looked up when the binding is read.  A day  *)
(* is the unit of time.                                                      *)
EXTENDS Naturals

CONSTANTS
    Adds,       \* requests that add the hostname, and the bindings they insert
    Calls,      \* calls of Verify by users
    Extends,    \* calls of Extend by users
    Poller,
    NoAdd,
    NoMark,
    GraceWindow,
    MaxTime,    \* bound: the clock
    MaxFaults   \* bound: failed statements and calls

VARIABLES
    row,        \* row[a]: the binding that request a inserted
    cf,         \* cf[a]: the custom hostname at Cloudflare: "none", "registered", "active"
    add,        \* add[a]: how far the request is, and the expiry it planned
    verify,     \* verify[v]: how far a Verify is, and the binding it read
    extend,     \* extend[e]: how far an Extend is, and what it will write
    sweep,      \* the sweep the poller is in, or "idle"
    list,       \* what the sweep listed and has not come to yet
    releasing,  \* the binding whose custom hostname the sweep deleted last
    dns,        \* the records of the hostname are right
    clock,
    passed,     \* history: when the records were last found right
    faults

vars == <<row, cf, add, verify, extend, sweep, list, releasing, dns, clock, passed, faults>>

TTL == 1
MaxExtends == 2

NoRow == [status |-> "none", used |-> 0, expires |-> 0, failed |-> NoMark, cf |-> FALSE]
Idle == [at |-> "idle", of |-> NoAdd, cf |-> FALSE]
NoExtend == [of |-> NoAdd, used |-> 0, expires |-> 0]

Init ==
    /\ row = [a \in Adds |-> NoRow]
    /\ cf = [a \in Adds |-> "none"]
    /\ add = [a \in Adds |-> [at |-> "idle", expires |-> 0]]
    /\ verify = [v \in Calls \cup {Poller} |-> Idle]
    /\ extend = [e \in Extends |-> NoExtend]
    /\ sweep = "idle" /\ list = {} /\ releasing = NoAdd
    /\ dns \in BOOLEAN
    /\ clock = 0
    /\ passed = [a \in Adds |-> 0]
    /\ faults = 0

Bound(a) == row[a].status # "none"
Fault == faults < MaxFaults /\ faults' = faults + 1

Tick ==
    /\ clock < MaxTime
    /\ clock' = clock + 1
    /\ UNCHANGED <<row, cf, add, verify, extend, sweep, list, releasing, dns, passed, faults>>

RecordsChange ==
    /\ dns' = ~dns
    /\ UNCHANGED <<row, cf, add, verify, extend, sweep, list, releasing, clock, passed, faults>>

------------------------------------------------------------------------------
(* PlanAdd and ConfirmAdd.                                                   *)

Goto(a, at) == add' = [add EXCEPT ![a].at = at]

\* Planned while the longest life it may come to still fits the clock.
PlanAdd(a) ==
    /\ add[a].at = "idle" /\ \A b \in Adds : ~Bound(b)
    /\ clock + TTL + MaxExtends < MaxTime
    /\ add' = [add EXCEPT ![a] = [at |-> "planned", expires |-> clock + TTL]]
    /\ UNCHANGED <<row, cf, verify, extend, sweep, list, releasing, dns, clock, passed, faults>>

Insert(a) ==
    /\ add[a].at = "planned"
    /\ \/ /\ \A b \in Adds : ~Bound(b)
          /\ row' = [row EXCEPT ![a] = [NoRow EXCEPT !.status = "pending",
                                                     !.expires = add[a].expires]]
          /\ Goto(a, "inserted")
       \/ /\ \E b \in Adds : Bound(b)
          /\ Goto(a, "failed")
          /\ UNCHANGED row
    /\ UNCHANGED <<cf, verify, extend, sweep, list, releasing, dns, clock, passed, faults>>

\* Refused when the hostname is registered, or when the call fails.
RegisterCustomHostname(a) ==
    /\ add[a].at = "inserted"
    /\ \/ /\ \A b \in Adds : cf[b] = "none"
          /\ cf' = [cf EXCEPT ![a] = "registered"]
          /\ \/ Goto(a, "registered") /\ UNCHANGED faults
             \/ Goto(a, "undo row") /\ Fault
       \/ /\ Goto(a, "undo row") /\ UNCHANGED cf
          /\ \/ (\E b \in Adds : cf[b] # "none") /\ UNCHANGED faults
             \/ Fault
    /\ UNCHANGED <<row, verify, extend, sweep, list, releasing, dns, clock, passed>>

SetCloudflareHostnameID(a) ==
    /\ add[a].at = "registered"
    /\ \/ row' = [row EXCEPT ![a].cf = TRUE] /\ Goto(a, "done") /\ UNCHANGED faults
       \/ Goto(a, "undo hostname") /\ Fault /\ UNCHANGED row
    /\ UNCHANGED <<cf, verify, extend, sweep, list, releasing, dns, clock, passed>>

\* The compensation stops at the first step that fails.
UndoHostname(a) ==
    /\ add[a].at = "undo hostname"
    /\ \/ cf' = [cf EXCEPT ![a] = "none"] /\ Goto(a, "undo row") /\ UNCHANGED faults
       \/ Goto(a, "failed") /\ Fault /\ UNCHANGED cf
    /\ UNCHANGED <<row, verify, extend, sweep, list, releasing, dns, clock, passed>>

UndoRow(a) ==
    /\ add[a].at = "undo row"
    /\ Goto(a, "failed")
    /\ \/ row' = [row EXCEPT ![a] = NoRow] /\ UNCHANGED faults
       \/ Fault /\ UNCHANGED row
    /\ UNCHANGED <<cf, verify, extend, sweep, list, releasing, dns, clock, passed>>

------------------------------------------------------------------------------
(* Verify, called by users and by the first sweep of the poller.             *)

\* The poller goes on with its list, or gives the tick up.
Served(v, goesOn) ==
    /\ verify' = [verify EXCEPT ![v] = Idle]
    /\ IF v # Poller THEN UNCHANGED <<sweep, list>>
       ELSE IF goesOn THEN (\E b \in list : list' = list \ {b}) /\ UNCHANGED sweep
       ELSE sweep' = "idle" /\ list' = {}

\* By hostname: the binding may be another one than was listed.
GetByHostname(v) ==
    /\ verify[v].at = "idle"
    /\ v = Poller => sweep = "pending" /\ list # {}
    /\ \/ \E a \in Adds :
             /\ row[a].status = "pending" /\ dns
             /\ verify' = [verify EXCEPT ![v] = [at |-> "passed", of |-> a, cf |-> row[a].cf]]
             /\ passed' = [passed EXCEPT ![a] = clock]
             /\ UNCHANGED <<sweep, list>>
       \/ /\ ~dns \/ \A a \in Adds : row[a].status # "pending"
          /\ Served(v, TRUE) /\ UNCHANGED passed
    /\ UNCHANGED <<row, cf, add, extend, releasing, dns, clock, faults>>

\* By id; activated only if the id at Cloudflare was known when it was read.
UpdateVerified(v) ==
    /\ verify[v].at = "passed"
    /\ LET a == verify[v].of IN
       \/ /\ Bound(a)
          /\ row' = [row EXCEPT ![a].status = "verified"]
          /\ \/ verify[v].cf /\ verify' = [verify EXCEPT ![v].at = "verified"]
                             /\ UNCHANGED <<sweep, list>>
             \/ ~verify[v].cf /\ Served(v, TRUE)
          /\ UNCHANGED faults
       \/ /\ IF Bound(a) THEN Fault /\ Served(v, FALSE)
             ELSE UNCHANGED faults /\ Served(v, TRUE)
          /\ UNCHANGED row
    /\ UNCHANGED <<cf, add, extend, releasing, dns, clock, passed>>

\* A call that fails is not made again: the binding is not pending any more.
ActivateCustomHostname(v) ==
    /\ verify[v].at = "verified"
    /\ LET a == verify[v].of IN
       \/ cf[a] # "none" /\ cf' = [cf EXCEPT ![a] = "active"] /\ Served(v, TRUE)
          /\ UNCHANGED faults
       \/ /\ IF cf[a] = "none" THEN UNCHANGED faults ELSE Fault
          /\ Served(v, FALSE) /\ UNCHANGED cf
    /\ UNCHANGED <<row, add, extend, releasing, dns, clock, passed>>

------------------------------------------------------------------------------
(* Extend: what is written is computed from what was read.                   *)

Verified(a) == row[a].status \in {"verified", "unhealthy", "released"}

ApplyExtend(e) ==
    /\ extend[e] = NoExtend
    /\ \E a \in Adds :
          /\ Bound(a) /\ ~Verified(a)
          /\ row[a].expires > clock /\ row[a].used < MaxExtends
          /\ extend' = [extend EXCEPT ![e] =
                           [of |-> a, used |-> row[a].used + 1, expires |-> row[a].expires + 1]]
    /\ UNCHANGED <<row, cf, add, verify, sweep, list, releasing, dns, clock, passed, faults>>

UpdateExtendsUsed(e) ==
    LET a == extend[e].of IN
    /\ extend[e] # NoExtend
    /\ row' = IF Bound(a)
              THEN [row EXCEPT ![a].used = extend[e].used, ![a].expires = extend[e].expires]
              ELSE row
    /\ extend' = [extend EXCEPT ![e] = NoExtend]
    /\ UNCHANGED <<cf, add, verify, sweep, list, releasing, dns, clock, passed, faults>>

------------------------------------------------------------------------------
(* The poller: three sweeps of a tick, each over a list.                     *)

IsOver(a) == row[a].status = "pending" /\ row[a].expires <= clock

ListPending ==
    /\ sweep = "idle"
    /\ sweep' = "pending"
    /\ list' = {a \in Adds : row[a].status = "pending"}
    /\ UNCHANGED <<row, cf, add, verify, extend, releasing, dns, clock, passed, faults>>

ListVerified ==
    /\ sweep = "pending" /\ list = {}
    /\ sweep' = "health"
    /\ list' = {a \in Adds : row[a].status \in {"verified", "unhealthy"}}
    /\ UNCHANGED <<row, cf, add, verify, extend, releasing, dns, clock, passed, faults>>

ListExpiredCandidates ==
    /\ sweep = "health" /\ list = {} /\ releasing = NoAdd
    /\ sweep' = "expiry"
    /\ list' = {a \in Adds : IsOver(a)}
    /\ UNCHANGED <<row, cf, add, verify, extend, releasing, dns, clock, passed, faults>>

EndTick ==
    /\ sweep = "expiry" /\ list = {}
    /\ sweep' = "idle"
    /\ UNCHANGED <<row, cf, add, verify, extend, list, releasing, dns, clock, passed, faults>>

\* Mutant: the mark stays when the records are back.
KeepsMark(a) ==
    CASE dns -> row' = [row EXCEPT ![a].status = "verified"]
      [] ~dns /\ row[a].failed = NoMark ->
            row' = [row EXCEPT ![a].failed = clock, ![a].status = "unhealthy"]
      [] OTHER -> UNCHANGED row

\* UpdateUnhealthyMark: set at the first failure, cleared when the records are back.
Mark(a) ==
    CASE dns /\ row[a].failed # NoMark ->
            row' = [row EXCEPT ![a].failed = NoMark, ![a].status = "verified"]
      [] ~dns /\ row[a].failed = NoMark ->
            row' = [row EXCEPT ![a].failed = clock, ![a].status = "unhealthy"]
      [] OTHER -> UNCHANGED row

GraceIsOver(a) == ~dns /\ row[a].failed # NoMark /\ clock - row[a].failed > GraceWindow

\* Only sweeps change a binding that is verified: it is as it was listed.
EvaluateGrace(a) ==
    /\ sweep = "health" /\ a \in list /\ releasing = NoAdd
    /\ Bound(a) /\ ~GraceIsOver(a)
    /\ Mark(a)
    /\ passed' = IF dns THEN [passed EXCEPT ![a] = clock] ELSE passed
    /\ list' = list \ {a}
    /\ UNCHANGED <<cf, add, verify, extend, sweep, releasing, dns, clock, faults>>

DeleteCustomHostname(a) ==
    /\ sweep = "health" /\ a \in list /\ releasing = NoAdd
    /\ Bound(a) /\ GraceIsOver(a)
    /\ cf' = IF row[a].cf THEN [cf EXCEPT ![a] = "none"] ELSE cf
    /\ releasing' = a
    /\ UNCHANGED <<row, add, verify, extend, sweep, list, dns, clock, passed, faults>>

UpdateReleased ==
    /\ releasing # NoAdd /\ Bound(releasing)
    /\ row' = [row EXCEPT ![releasing].status = "released"]
    /\ list' = list \ {releasing}
    /\ releasing' = NoAdd
    /\ UNCHANGED <<cf, add, verify, extend, sweep, dns, clock, passed, faults>>

\* By id, whatever has become of the binding since it was listed.
UpdateExpired(a) ==
    /\ sweep = "expiry" /\ a \in list /\ Bound(a)
    /\ row' = [row EXCEPT ![a].status = "expired"]
    /\ list' = list \ {a}
    /\ UNCHANGED <<cf, add, verify, extend, sweep, releasing, dns, clock, passed, faults>>

\* A binding whose request was undone meanwhile: a statement on it ends the
\* tick, and a healthy one needs none.
BindingNotFound ==
    /\ sweep \in {"health", "expiry"}
    /\ \E a \in list :
          /\ ~Bound(a)
          /\ \/ sweep = "health" /\ dns /\ a # releasing /\ list' = list \ {a} /\ UNCHANGED <<sweep, releasing>>
             \/ sweep' = "idle" /\ list' = {} /\ releasing' = NoAdd
    /\ UNCHANGED <<row, cf, add, verify, extend, dns, clock, passed, faults>>

\* An error ends the tick, and with it the sweeps that were still to come.
TickFails ==
    /\ sweep # "idle" /\ verify[Poller] = Idle /\ Fault
    /\ sweep' = "idle" /\ list' = {} /\ releasing' = NoAdd
    /\ UNCHANGED <<row, cf, add, verify, extend, dns, clock, passed>>

Sweep ==
    \/ GetByHostname(Poller) \/ UpdateVerified(Poller) \/ ActivateCustomHostname(Poller)
    \/ ListPending \/ ListVerified \/ ListExpiredCandidates \/ EndTick
    \/ \E a \in Adds : EvaluateGrace(a) \/ DeleteCustomHostname(a) \/ UpdateExpired(a)
    \/ UpdateReleased \/ BindingNotFound

Next ==
    \/ \E a \in Adds : PlanAdd(a) \/ Insert(a) \/ RegisterCustomHostname(a)
          \/ SetCloudflareHostnameID(a) \/ UndoHostname(a) \/ UndoRow(a)
    \/ \E v \in Calls : GetByHostname(v) \/ UpdateVerified(v) \/ ActivateCustomHostname(v)
    \/ \E e \in Extends : ApplyExtend(e) \/ UpdateExtendsUsed(e)
    \/ Sweep \/ TickFails
    \/ Tick \/ RecordsChange

Spec == Init /\ [][Next]_vars

------------------------------------------------------------------------------
(* Properties.                                                               *)

\* A verified hostname is released only when its records were not once found
\* right for the whole grace window.
GraceIsGranted ==
    [][\A a \in Adds :
          row[a].status # "released" /\ row'[a].status = "released" =>
              clock - passed[a] > GraceWindow]_vars

-----------------------------------------------------------------------------
(* What the property rests on: the inductive invariant.                      *)

Statuses == {"none", "pending", "verified", "unhealthy", "released", "expired"}
AddStages == {"idle", "planned", "inserted", "registered", "undo row", "undo hostname",
              "done", "failed"}

\* The type of what the property depends on: the bindings, the lists and times.
TypeOK ==
    /\ row \in [Adds -> [status : Statuses, used : Nat, expires : Nat,
                         failed : Nat \cup {NoMark}, cf : BOOLEAN]]
    /\ passed \in [Adds -> Nat]
    /\ clock \in Nat
    /\ list \subseteq Adds
    /\ add \in [Adds -> [at : AddStages, expires : Nat]]
    /\ extend \in [Extends -> [of : Adds \cup {NoAdd}, used : Nat, expires : Nat]]
    /\ verify \in [Calls \cup {Poller} ->
                      [at : {"idle", "passed", "verified"}, of : Adds \cup {NoAdd}, cf : BOOLEAN]]

\* A request that has inserted nothing is nobody's business yet.
Fresh(a) == add[a].at \in {"idle", "planned"}

NothingBeforeInsert ==
    \A a \in Adds : Fresh(a) => ~Bound(a) /\ a \notin list /\ releasing # a

\* Marks are of bindings that are not pending any more.
PendingIsUnmarked == \A a \in Adds : row[a].status \in {"none", "pending"} => row[a].failed = NoMark

\* What the health sweep goes through is never pending again.
WatchedIsVerified ==
    \A a \in Adds : (sweep = "health" /\ a \in list) \/ releasing = a => row[a].status # "pending"

\* The records were last right no later than now, nor than the mark.
MarksAreLater ==
    \A a \in Adds : /\ passed[a] <= clock
                    /\ row[a].failed # NoMark => passed[a] <= row[a].failed

ReleasesAreDue == \A a \in Adds : releasing = a => clock - passed[a] > GraceWindow

IInv ==
    /\ TypeOK /\ NothingBeforeInsert /\ PendingIsUnmarked /\ WatchedIsVerified
    /\ MarksAreLater /\ ReleasesAreDue
=============================================================================
