----------------------------- MODULE RateLimit ------------------------------
(* The limiter of requests (middleware/ratelimit) and the client that backs  *)
(* off when it is refused (backendclient.do).  A bucket per token, and one   *)
(* per team, is found or made in a concurrent map, is made anew when the     *)
(* plan of the request is not its own, and is dropped by a sweeper when it   *)
(* has been idle.  A request that found a bucket may use it after it was     *)
(* dropped.                                                                  *)
(*                                                                           *)
(* One category of requests and one replica.  The unit of time is the one in *)
(* which a bucket gains a token, whatever its plan.  InvalidateKey, which    *)
(* nothing calls, is left out.                                               *)
EXTENDS Integers, Sequences, FiniteSets

CONSTANTS
    Requests, Tokens, Team, TokenOf,
    Scoped,         \* requests to a route of the team; the others are /v1/me's
    Plans, Free,
    Quota,          \* Quota[k][p]: tokens a bucket of key k holds, 0: no limit
    IdleTTL,        \* 24 hours: no less than a bucket takes to fill
    RetryMax,       \* the retries of the client
    NoBucket, NoKey,
    MaxClock,       \* bound: time
    MaxPlanChanges  \* bound: changes of the plan

Keys == Tokens \cup {Team}

VARIABLES
    plan,       \* the plan of the team
    bucket,     \* bucket[k]: the entry in the map
    entry,      \* every entry made: plan, tokens at time used, whether dropped
    request,    \* request[r]: how far it is, with what
    sweep,      \* the key the sweeper found idle, and when
    clock,
    changes,
    admitted,   \* history: the tokens that were taken: key, time, number at that time
    renewed     \* history: renewed[k]: times a part-used bucket was replaced, or used although dropped

vars == <<plan, bucket, entry, request, sweep, clock, changes, admitted, renewed>>

NoSweep == [key |-> NoKey, at |-> 0]

Init ==
    /\ plan \in Plans
    /\ bucket = [k \in Keys |-> NoBucket]
    /\ entry = <<>>
    /\ request = [r \in Requests |->
         [at |-> "idle", plan |-> Free, key |-> NoKey, entry |-> NoBucket,
          tries |-> 0, due |-> 0]]
    /\ sweep = NoSweep
    /\ clock = 0
    /\ changes = 0
    /\ admitted = {}
    /\ renewed = [k \in Keys |-> 0]

Tick ==
    /\ clock < MaxClock
    /\ clock' = clock + 1
    /\ UNCHANGED <<plan, bucket, entry, request, sweep, changes, admitted, renewed>>

\* The team changes to another plan; requests under way keep the one they read.
ChangePlan ==
    /\ changes < MaxPlanChanges
    /\ changes' = changes + 1
    /\ plan' \in Plans \ {plan}
    /\ UNCHANGED <<bucket, entry, request, sweep, clock, admitted, renewed>>

\* The tokens in entry e now.
Level(e) ==
    LET full == Quota[e.key][e.plan]
        level == e.tokens + (clock - e.used)
    IN IF level > full THEN full ELSE level

PartUsed(e) == Level(e) < Quota[e.key][e.plan]

\* The middleware: the token's bucket first; without a team the plan is free.
Arrive(r) ==
    /\ \/ request[r].at = "idle"
       \/ request[r].at = "refused" /\ request[r].tries < RetryMax
          /\ clock >= request[r].due
    /\ request' = [request EXCEPT ![r] =
         [at |-> "lookup", plan |-> IF r \in Scoped THEN plan ELSE Free,
          key |-> TokenOf[r], entry |-> NoBucket, due |-> 0,
          tries |-> IF @.at = "idle" THEN 0 ELSE @.tries + 1]]
    /\ UNCHANGED <<plan, bucket, entry, sweep, clock, changes, admitted, renewed>>

\* A key has let the request pass: the team's bucket is next, or the handler.
Passed(q, r) ==
    IF q.key = Team \/ r \notin Scoped
    THEN [q EXCEPT !.at = "served"]
    ELSE [q EXCEPT !.at = "lookup", !.key = Team, !.entry = NoBucket]

\* What the request's plan gives the bucket it needs; 0 is no limit.
QuotaFor(q) == Quota[q.key][q.plan]

\* The entry of the map serves if it is of the request's plan.
Lookup(r) ==
    LET q == request[r]
        e == bucket[q.key]
    IN /\ q.at = "lookup"
       /\ request' = [request EXCEPT ![r] =
            IF QuotaFor(q) = 0 THEN Passed(@, r)
            ELSE IF e = NoBucket THEN [@ EXCEPT !.at = "store"]
            ELSE IF entry[e].plan = q.plan
                 THEN [@ EXCEPT !.at = "take", !.entry = e]
            ELSE [@ EXCEPT !.at = "rebuild"]]
       /\ UNCHANGED <<plan, bucket, entry, sweep, clock, changes, admitted, renewed>>

\* The bucket of key k is dropped; excused: history counts it if part-used.
Drop(k, excused) ==
    LET e == bucket[k]
    IN /\ bucket' = [bucket EXCEPT ![k] = NoBucket]
       /\ IF e = NoBucket THEN UNCHANGED <<entry, renewed>>
          ELSE /\ entry' = [entry EXCEPT ![e].dropped = TRUE]
               /\ renewed' = [renewed EXCEPT ![k] =
                    IF excused /\ PartUsed(entry[e]) THEN @ + 1 ELSE @]

\* Whatever is in the map is deleted, the bucket another request made included.
Rebuild(r) ==
    /\ request[r].at = "rebuild"
    /\ Drop(request[r].key, TRUE)
    /\ request' = [request EXCEPT ![r].at = "store"]
    /\ UNCHANGED <<plan, sweep, clock, changes, admitted>>

\* Mutant: Store, and not LoadOrStore.
StoresAlways(k) == TRUE

\* A new bucket is stored if there is still none.
Stores(k) == bucket[k] = NoBucket

LoadOrStore(r) ==
    LET q == request[r]
    IN /\ q.at = "store"
       /\ IF Stores(q.key)
          THEN /\ entry' = Append(entry,
                    [key |-> q.key, plan |-> q.plan, used |-> clock,
                     tokens |-> QuotaFor(q), dropped |-> FALSE])
               /\ bucket' = [bucket EXCEPT ![q.key] = Len(entry) + 1]
               /\ request' = [request EXCEPT ![r].at = "take",
                                             ![r].entry = Len(entry) + 1]
          ELSE /\ request' = [request EXCEPT ![r].at = "take",
                                             ![r].entry = bucket[q.key]]
               /\ UNCHANGED <<entry, bucket>>
       /\ UNCHANGED <<plan, sweep, clock, changes, admitted, renewed>>

\* The tokens of key k that were taken in from .. to.
AdmittedIn(k, from, to) == Cardinality({x \in admitted : x.key = k /\ x.at \in from..to})

\* A token, or a refusal with the time to wait for one.
Take(r) ==
    LET q == request[r]
        e == entry[q.entry]
        level == Level(e)
        left == IF level > 0 THEN level - 1 ELSE 0
    IN /\ q.at = "take"
       /\ entry' = [entry EXCEPT ![q.entry].tokens = left, ![q.entry].used = clock]
       /\ IF level > 0
          THEN /\ request' = [request EXCEPT ![r] = Passed(@, r)]
               /\ admitted' = admitted \cup
                    {[key |-> q.key, at |-> clock, n |-> AdmittedIn(q.key, clock, clock) + 1]}
               /\ renewed' = [renewed EXCEPT ![q.key] =
                    IF e.dropped THEN @ + 1 ELSE @]
          ELSE /\ request' = [request EXCEPT ![r].at = "refused",
                                             ![r].due = clock + 1]
               /\ UNCHANGED <<admitted, renewed>>
       /\ UNCHANGED <<plan, bucket, sweep, clock, changes>>

Stale(e) == e.used < clock - IdleTTL

\* The sweeper finds a bucket idle, under the bucket's lock, ...
FindIdle(k) ==
    /\ sweep = NoSweep
    /\ bucket[k] # NoBucket /\ Stale(entry[bucket[k]])
    /\ sweep' = [key |-> k, at |-> clock]
    /\ UNCHANGED <<plan, bucket, entry, request, clock, changes, admitted, renewed>>

\* ... and deletes what the map has under that key, without it.
SweepIdle ==
    /\ sweep # NoSweep
    /\ Drop(sweep.key,
            bucket[sweep.key] # NoBucket /\ entry[bucket[sweep.key]].used >= sweep.at)
    /\ sweep' = NoSweep
    /\ UNCHANGED <<plan, request, clock, changes, admitted>>

Next ==
    \/ Tick \/ ChangePlan \/ SweepIdle
    \/ \E r \in Requests :
         Arrive(r) \/ Lookup(r) \/ Rebuild(r) \/ LoadOrStore(r) \/ Take(r)
    \/ \E k \in Keys : FindIdle(k)

Spec == Init /\ [][Next]_vars

MostOf(k) == CHOOSE q \in {Quota[k][p] : p \in Plans} :
                \A p \in Plans : Quota[k][p] <= q

\* In no stretch of time does a key admit more than a full bucket and what it
\* gains meanwhile, whatever requests race to make its bucket; but for a full
\* bucket each time a part-used one is replaced for another plan or swept while
\* a request uses it, or is used after it was dropped (entry, Allow, SweepIdle).
QuotaHolds ==
    \A k \in Keys : \A from \in 0..clock : \A to \in from..clock :
        AdmittedIn(k, from, to) <= MostOf(k) * (1 + renewed[k]) + (to - from)

-----------------------------------------------------------------------------
(* The inductive invariant of the quota.                                     *)

Entries == [key : Keys, plan : Plans, used : Nat, tokens : Nat, dropped : BOOLEAN]

Stages == {"idle", "lookup", "rebuild", "store", "take", "refused", "served"}

TypeOK ==
    /\ plan \in Plans
    /\ bucket \in [Keys -> Nat \cup {NoBucket}]
    /\ entry \in Seq(Entries)
    /\ request \in [Requests -> [at : Stages, plan : Plans, key : Keys \cup {NoKey},
                                 entry : Nat \cup {NoBucket}, tries : Nat, due : Nat]]
    /\ sweep \in [key : Keys \cup {NoKey}, at : Nat]
    /\ clock \in Nat /\ changes \in Nat
    /\ renewed \in [Keys -> Nat]
    /\ IsFiniteSet(admitted) /\ admitted \subseteq [key : Keys, at : 0..clock, n : Nat]

\* A request holds an entry of the key it asks for.
EntriesAreOfTheirKey ==
    \A r \in Requests :
        /\ request[r].at \in {"lookup", "rebuild", "store", "take"} => request[r].key \in Keys
        /\ request[r].at = "take" =>
              /\ request[r].entry \in DOMAIN entry
              /\ entry[request[r].entry].key = request[r].key

\* The map has the one entry of a key that was not dropped.
MapHasTheLive ==
    \A k \in Keys : bucket[k] # NoBucket =>
        /\ bucket[k] \in DOMAIN entry
        /\ entry[bucket[k]].key = k /\ ~entry[bucket[k]].dropped

OthersAreDropped ==
    \A e \in DOMAIN entry : ~entry[e].dropped => bucket[entry[e].key] = e

\* No bucket is fuller than its plan allows, and none was used in the future.
BucketsAreBounded ==
    \A e \in DOMAIN entry :
        entry[e].used <= clock /\ entry[e].tokens <= Quota[entry[e].key][entry[e].plan]

\* What the sweeper found idle is full, unless it was used since.
SweptAreFull ==
    sweep # NoSweep =>
        /\ sweep.key \in Keys /\ sweep.at <= clock
        /\ bucket[sweep.key] # NoBucket /\ entry[bucket[sweep.key]].used < sweep.at
              => entry[bucket[sweep.key]].used < sweep.at - IdleTTL

\* The tokens of a key and a time are numbered.
TokensAreNumbered == \A x \in admitted : x.n <= AdmittedIn(x.key, x.at, x.at)

\* What the bucket of a key lacks.
Lacks(k) ==
    IF bucket[k] = NoBucket THEN 0
    ELSE Quota[k][entry[bucket[k]].plan] - Level(entry[bucket[k]])

\* What was admitted is lacking in the bucket, or was gained, or is excused.
AdmittedIsLacking ==
    \A k \in Keys : \A from \in 0..clock :
        AdmittedIn(k, from, clock) <= MostOf(k) * renewed[k] + (clock - from) + Lacks(k)

IInv == /\ TypeOK /\ EntriesAreOfTheirKey /\ MapHasTheLive /\ OthersAreDropped
        /\ BucketsAreBounded /\ SweptAreFull /\ TokensAreNumbered /\ AdmittedIsLacking
        /\ QuotaHolds
=============================================================================
