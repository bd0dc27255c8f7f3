----------------------------- MODULE UsageLedger -----------------------------
(* Usage metering of one app: the allocation ledger, one interval per pod,   *)
(* and the daily totals integrated from it (services/usage, db/usage.go).    *)
(*                                                                           *)
(* Three goroutines of the leader write: the pod watch, the reconcile pass   *)
(* and the rollup pass.  None holds a lock or a transaction across its       *)
(* statements, so every statement is a step.  The cluster is its watch log:  *)
(* the versions of each pod object in order, of which the watch delivers the *)
(* next one late and a list returns the last one.                            *)
EXTENDS Integers, Sequences, FiniteSetsExt

CONSTANTS
    Pods,        \* pod UIDs of the app
    DayLen,      \* seconds of a UTC day
    Horizon,     \* bound on the clock
    Retention,   \* defaultIntervalRetention (13 months)
    Lookback,    \* how far back pending days are looked for (14 months)
    MaxFaults,   \* bound on crashes, failed statements and gaps of the watch
    NoPod        \* the watch handler has no pod in hand

VARIABLES
    now,      \* wall clock
    log,      \* log[p]: versions of the pod object, newest last
    shown,    \* shown[p]: how many of them the watch has delivered
    interval, \* interval[p]: the row usage_allocation_interval
    rollup,   \* rollup[d]: the row usage_daily_rollup
    watch,    \* the watch handler: the event in hand
    pass,     \* the reconcile pass: what it listed and planned
    roll,     \* the rollup pass: pending days, the day in hand and its total
    faults

cluster == <<now, log>>
vars == <<cluster, shown, interval, rollup, watch, pass, roll, faults>>

Times == 0 .. Horizon
Days  == 0 .. (Horizon \div DayLen)
Never == Horizon + 1

\* What PodSnapshotFrom keeps of a version; an unscheduled pod has no version here.
Snapshots == [started : Times, deleted : Times \cup {Never},
              ended : Times \cup {Never}, gone : BOOLEAN]

Present(p) == log[p] # <<>> /\ ~log[p][Len(log[p])].gone
Newest(p)  == log[p][Len(log[p])]

\* finishedAt is stronger than deletionTimestamp; Never for a pod that runs.
AuthoritativeEnd(v) == IF v.ended # Never THEN v.ended ELSE v.deleted

NoRow     == [state |-> "absent", from |-> 0, end |-> Never, seen |-> 0]
NoRollup  == [made |-> FALSE, total |-> 0, knew |-> {}, settled |-> {}]
Watching  == [at |-> "idle", pod |-> NoPod, end |-> Never]
NoPods    == [p \in {} |-> Never]
NoPass    == [at |-> "idle", pods |-> NoPods, opens |-> {}, closes |-> {}, touches |-> {}]
NoRoll    == [at |-> "idle", days |-> {}, day |-> 0, total |-> 0]

TypeOK ==
    /\ now \in Times /\ faults \in 0 .. MaxFaults
    /\ \A p \in Pods :
         /\ Len(log[p]) <= 4 /\ \A i \in DOMAIN log[p] : log[p][i] \in Snapshots
         /\ shown[p] \in 0 .. Len(log[p])
         /\ interval[p].state \in {"absent", "open", "closed", "guessed"}
         /\ (interval[p].end = Never) <=> (interval[p].state \in {"absent", "open"})
    /\ \A d \in Days : rollup[d].settled \subseteq rollup[d].knew
    /\ watch.at \in {"idle", "open", "reopen", "close"}
    /\ pass.at \in {"idle", "listed", "apply"}
    /\ roll.at \in {"idle", "next", "write"} /\ roll.days \subseteq Days

Init ==
    /\ now = 0 /\ faults = 0
    /\ log = [p \in Pods |-> <<>>]
    /\ shown = [p \in Pods |-> 0]
    /\ interval = [p \in Pods |-> NoRow]
    /\ rollup = [d \in Days |-> NoRollup]
    /\ watch = Watching /\ pass = NoPass /\ roll = NoRoll

Fault == faults < MaxFaults /\ faults' = faults + 1

----------------------------------------------------------------------------
(* The cluster.                                                              *)

\* The cluster collects the object of a finished pod long before the ledger
\* expires its interval.
Tick ==
    /\ now < Horizon
    /\ \A p \in Pods : Present(p) => now + 1 <= AuthoritativeEnd(Newest(p)) + Retention
    /\ now' = now + 1
    /\ UNCHANGED <<log, shown, interval, rollup, watch, pass, roll, faults>>

Version(p, v) ==
    /\ log' = [log EXCEPT ![p] = Append(@, v)]
    /\ UNCHANGED <<now, shown, interval, rollup, watch, pass, roll, faults>>

PodStarts(p) ==
    /\ log[p] = <<>>
    /\ Version(p, [started |-> now, deleted |-> Never, ended |-> Never, gone |-> FALSE])

DeletionRequested(p) ==
    /\ Present(p) /\ Newest(p).deleted = Never
    /\ Version(p, [Newest(p) EXCEPT !.deleted = now])

\* The pod reaches Succeeded or Failed with every container terminated.
Terminates(p) ==
    /\ Present(p) /\ Newest(p).ended = Never
    /\ Version(p, [Newest(p) EXCEPT !.ended = now])

\* Removed from the API server, without grace in the worst case.
Removed(p) ==
    /\ Present(p)
    /\ Version(p, [Newest(p) EXCEPT !.gone = TRUE])

----------------------------------------------------------------------------
(* The statements on the ledger.  A rollup is fresh for an interval when its *)
(* computed_at is not before COALESCE(closed_at, created_at): knew[d] holds  *)
(* the rows created before it was computed, settled[d] those closed before.  *)

\* INSERT ... ON CONFLICT (pod_uid) DO NOTHING; every version of the pod shows
\* the same startTime.
OpenAllocationInterval(p) ==
    IF interval[p].state = "absent"
    THEN /\ interval' = [interval EXCEPT ![p] =
                [state |-> "open", from |-> log[p][1].started, end |-> Never, seen |-> now]]
         /\ rollup' = [d \in Days |-> [rollup[d] EXCEPT !.knew = @ \ {p}, !.settled = @ \ {p}]]
    ELSE UNCHANGED <<interval, rollup>>

\* Mutant: every close is undone.
ReopensAnyInterval(p) ==
    IF interval[p].state \in {"guessed", "closed"}
    THEN /\ interval' = [interval EXCEPT ![p] =
                [@ EXCEPT !.state = "open", !.end = Never, !.seen = now]]
         /\ UNCHANGED rollup
    ELSE UNCHANGED <<interval, rollup>>

\* Mutant: a guessed end stands.
ReopensNothing(p) == interval' = [interval EXCEPT ![p].seen = @] /\ UNCHANGED rollup

\* Only a close by inference is undone; closed_at becomes NULL again.
ReopenGuessedInterval(p) ==
    IF interval[p].state = "guessed"
    THEN /\ interval' = [interval EXCEPT ![p] =
                [@ EXCEPT !.state = "open", !.end = Never, !.seen = now]]
         /\ UNCHANGED rollup
    ELSE UNCHANGED <<interval, rollup>>

\* UPDATE ... WHERE ended_at IS NULL; closed_at is the time of the statement,
\* and last_seen_at is not read again before a reopening replaces it.
CloseAllocationInterval(p, end, state) ==
    IF interval[p].state = "open"
    THEN /\ interval' = [interval EXCEPT ![p] =
                [@ EXCEPT !.state = state, !.end = end, !.seen = end]]
         /\ rollup' = [d \in Days |-> [rollup[d] EXCEPT !.settled = @ \ {p}]]
    ELSE UNCHANGED <<interval, rollup>>

TouchAllocationIntervals(touched) ==
    interval' = [p \in Pods |-> IF p \in touched /\ interval[p].state = "open"
                                THEN [interval[p] EXCEPT !.seen = now] ELSE interval[p]]

----------------------------------------------------------------------------
(* The watch.                                                                *)

\* A delete that shows when the pod ended is an authoritative close; one that
\* does not is left to the reconcile pass.
Deliver(p) ==
    /\ watch.at = "idle" /\ shown[p] < Len(log[p])
    /\ shown' = [shown EXCEPT ![p] = @ + 1]
    /\ LET v == log[p][shown[p] + 1]
       IN  watch' = IF ~v.gone
                    THEN [at |-> "open", pod |-> p, end |-> AuthoritativeEnd(v)]
                    ELSE IF AuthoritativeEnd(v) # Never
                    THEN [at |-> "close", pod |-> p, end |-> AuthoritativeEnd(v)]
                    ELSE watch
    /\ UNCHANGED <<cluster, interval, rollup, pass, roll, faults>>

AfterOpen == IF watch.end = Never THEN Watching ELSE [watch EXCEPT !.at = "close"]

WatchOpen ==
    /\ watch.at = "open"
    /\ OpenAllocationInterval(watch.pod)
    /\ watch' = IF interval[watch.pod].state = "absent"
                THEN AfterOpen ELSE [watch EXCEPT !.at = "reopen"]
    /\ UNCHANGED <<cluster, shown, pass, roll, faults>>

WatchReopen ==
    /\ watch.at = "reopen"
    /\ ReopenGuessedInterval(watch.pod)
    /\ watch' = AfterOpen
    /\ UNCHANGED <<cluster, shown, pass, roll, faults>>

WatchClose ==
    /\ watch.at = "close"
    /\ CloseAllocationInterval(watch.pod, watch.end, "closed")
    /\ watch' = Watching
    /\ UNCHANGED <<cluster, shown, pass, roll, faults>>

\* A statement fails: the event is logged and forgotten, except that a failed
\* reopen goes on to the close.
WatchFails ==
    /\ watch.at # "idle" /\ Fault
    /\ watch' = IF watch.at = "reopen" THEN AfterOpen ELSE Watching
    /\ UNCHANGED <<cluster, shown, interval, rollup, pass, roll>>

\* A new informer starts from a list: pods that are there come as an add, the
\* deletion of the others is never heard of.
Relisted == [p \in Pods |-> IF Present(p) THEN Len(log[p]) - 1 ELSE Len(log[p])]

WatchGap ==
    /\ watch.at = "idle" /\ Fault
    /\ shown' = Relisted
    /\ UNCHANGED <<cluster, interval, rollup, watch, pass, roll>>

----------------------------------------------------------------------------
(* The reconcile pass.                                                       *)

ListManagedPods ==
    /\ pass.at = "idle"
    /\ pass' = [NoPass EXCEPT !.at = "listed",
                    !.pods = [p \in {q \in Pods : Present(q)} |-> AuthoritativeEnd(Newest(p))]]
    /\ UNCHANGED <<cluster, shown, interval, rollup, watch, roll, faults>>

\* The open intervals are read after the pods, and the plan is computed from
\* the two lists; an empty plan runs no statement.
Reconcile ==
    LET listed == pass.pods
        open   == {p \in Pods : interval[p].state = "open"}
        ended  == {p \in DOMAIN listed : listed[p] # Never}
        plan   == [at |-> "apply", pods |-> NoPods,
                   opens |-> {<<p, "open">> : p \in DOMAIN listed \ open},
                   closes |-> {<<p, listed[p], "closed">> : p \in ended} \cup
                              {<<p, interval[p].seen, "guessed">> : p \in open \ DOMAIN listed},
                   touches |-> (DOMAIN listed \cap open) \ ended]
    IN  /\ pass.at = "listed"
        /\ pass' = IF plan.opens = {} /\ plan.closes = {} /\ plan.touches = {}
                   THEN NoPass ELSE plan
        /\ UNCHANGED <<cluster, shown, interval, rollup, watch, roll, faults>>

\* Every insert, with the reopening it may need, comes before any close.
ApplyOpen ==
    /\ pass.at = "apply"
    /\ \E o \in pass.opens :
         LET p == o[1]
             created == interval[p].state = "absent"
         IN  /\ o[2] = "open" => OpenAllocationInterval(p)
             /\ o[2] = "reopen" => ReopenGuessedInterval(p)
             /\ pass' = [pass EXCEPT !.opens = (@ \ {o}) \cup
                    IF o[2] = "open" /\ ~created THEN {<<p, "reopen">>} ELSE {}]
    /\ UNCHANGED <<cluster, shown, watch, roll, faults>>

ApplyClose ==
    /\ pass.at = "apply" /\ pass.opens = {}
    /\ \E c \in pass.closes :
         /\ CloseAllocationInterval(c[1], c[2], c[3])
         /\ pass' = [pass EXCEPT !.closes = @ \ {c}]
    /\ UNCHANGED <<cluster, shown, watch, roll, faults>>

ApplyTouches ==
    /\ pass.at = "apply" /\ pass.opens = {} /\ pass.closes = {}
    /\ TouchAllocationIntervals(pass.touches)
    /\ pass' = NoPass
    /\ UNCHANGED <<cluster, shown, rollup, watch, roll, faults>>

\* Any error ends the pass where it is; the next one starts from the lists.
PassFails ==
    /\ pass.at # "idle" /\ Fault
    /\ pass' = NoPass
    /\ UNCHANGED <<cluster, shown, interval, rollup, watch, roll>>

----------------------------------------------------------------------------
(* The rollup pass.                                                          *)

Ended(p) == interval[p].state \in {"closed", "guessed"}
Least(a, b) == IF a < b THEN a ELSE b

\* The days generate_series gives for an interval.
DaysOf(p) == (interval[p].from \div DayLen)
                .. ((IF Ended(p) THEN interval[p].end ELSE now) \div DayLen)

Fresh(p, d) == /\ rollup[d].made
               /\ p \in IF Ended(p) THEN rollup[d].settled ELSE rollup[d].knew

PendingDays ==
    {d \in Days : /\ d < now \div DayLen
                  /\ \E p \in Pods : /\ interval[p].state # "absent"
                                     /\ d \in DaysOf(p)
                                     /\ interval[p].from >= now - Lookback
                                     /\ ~Fresh(p, d)}

\* The seconds of interval p inside day d: an open one is clamped to its end.
Overlap(p, d) ==
    LET from == Max({interval[p].from, d * DayLen})
        to   == Least(interval[p].end, (d + 1) * DayLen)
    IN  IF interval[p].state # "absent" /\ to > from THEN to - from ELSE 0

Integrate(d) == MapThenSumSet(LAMBDA p : Overlap(p, d), Pods)

ListPendingRollupDays ==
    /\ roll.at = "idle"
    /\ roll' = [NoRoll EXCEPT !.at = "next", !.days = PendingDays]
    /\ UNCHANGED <<cluster, shown, interval, rollup, watch, pass, faults>>

\* Oldest first: the intervals of the day are read ...
RollupForDay ==
    /\ roll.at = "next" /\ roll.days # {}
    /\ LET d == Min(roll.days)
       IN  roll' = [at |-> "write", days |-> roll.days \ {d}, day |-> d,
                    total |-> Integrate(d)]
    /\ UNCHANGED <<cluster, shown, interval, rollup, watch, pass, faults>>

\* Mutant: computed_at keeps the time of the first rollup.
UpsertKeepsTime ==
    /\ roll.at = "write"
    /\ rollup' = [rollup EXCEPT ![roll.day] =
          IF @.made THEN [@ EXCEPT !.total = roll.total]
          ELSE [made |-> TRUE, total |-> roll.total,
                knew |-> {p \in Pods : interval[p].state # "absent"},
                settled |-> {p \in Pods : Ended(p)}]]
    /\ roll' = [NoRoll EXCEPT !.at = "next", !.days = roll.days]
    /\ UNCHANGED <<cluster, shown, interval, watch, pass, faults>>

\* ... and its row is replaced by another statement, computed_at being NOW().
UpsertDailyRollup ==
    /\ roll.at = "write"
    /\ rollup' = [rollup EXCEPT ![roll.day] =
          [made |-> TRUE, total |-> roll.total,
           knew |-> {p \in Pods : interval[p].state # "absent"},
           settled |-> {p \in Pods : Ended(p)}]]
    /\ roll' = [NoRoll EXCEPT !.at = "next", !.days = roll.days]
    /\ UNCHANGED <<cluster, shown, interval, watch, pass, faults>>

\* The tick ends by deleting what closed longer ago than the retention.
Expired(p) == Ended(p) /\ interval[p].end < now - Retention

ExpireIntervals ==
    /\ roll.at = "next" /\ roll.days = {}
    /\ interval' = [p \in Pods |-> IF Expired(p) THEN NoRow ELSE interval[p]]
    /\ roll' = NoRoll
    /\ UNCHANGED <<cluster, shown, rollup, watch, pass, faults>>

RollFails ==
    /\ roll.at # "idle" /\ Fault
    /\ roll' = NoRoll
    /\ UNCHANGED <<cluster, shown, interval, rollup, watch, pass>>

----------------------------------------------------------------------------

\* The leader dies or is replaced: nothing of the three goroutines survives.  A
\* new process starts its informer from a list; the informer of a replica that
\* was running all along has shown everything to a handler that dropped it.
Crash ==
    /\ Fault
    /\ watch' = Watching /\ pass' = NoPass /\ roll' = NoRoll
    /\ shown' \in {Relisted, [p \in Pods |-> Len(log[p])]}
    /\ UNCHANGED <<cluster, interval, rollup>>

WatchStep  == (\E p \in Pods : Deliver(p)) \/ WatchOpen \/ WatchReopen \/ WatchClose
PassStep   == ListManagedPods \/ Reconcile \/ ApplyOpen \/ ApplyClose \/ ApplyTouches
RollupStep == ListPendingRollupDays \/ RollupForDay \/ UpsertDailyRollup \/ ExpireIntervals

Next ==
    \/ Tick
    \/ \E p \in Pods : PodStarts(p) \/ DeletionRequested(p) \/ Terminates(p) \/ Removed(p)
    \/ WatchStep \/ PassStep \/ RollupStep
    \/ WatchFails \/ WatchGap \/ PassFails \/ RollFails \/ Crash

Spec == Init /\ [][Next]_vars

\* The two loops of the runner and the informer go on while the leader lives.
Fairness == WF_vars(WatchStep) /\ WF_vars(PassStep) /\ WF_vars(RollupStep)

FairSpec == Spec /\ Fairness

----------------------------------------------------------------------------
(* Properties.                                                               *)

\* An end that was read off the pod object is never moved, undone or replaced,
\* neither by a late event nor by a pass that planned on older lists; the row
\* only goes when its retention is over.
AuthoritativeEndsStay ==
    [][\A p \in Pods : interval[p].state = "closed" =>
          \/ interval'[p] = interval[p]
          \/ interval'[p].state = "absent" /\ Expired(p)]_vars

\* Whatever was guessed, missed or delivered late, in the end the ledger holds
\* an interval open exactly for the pods that are there and have not ended.
LedgerCatchesUp ==
    \A p \in Pods :
        <>[]((interval[p].state = "open") <=>
                (Present(p) /\ AuthoritativeEnd(Newest(p)) = Never))

\* No day stays pending for good: the rollup pass does not chase its own tail.
BooksClose == <>[](PendingDays = {})

\* A rolled-up day whose seconds change comes back for another rollup: so says
\* the specification, or it is billed wrong for good.  Two things break it: an
\* interval that closes before the day starts (the day is not one of its days
\* any more), and one that is reopened (closed_at is NULL again).
ChangedDaysComeBack ==
    [][\A d \in Days :
          rollup[d].made /\ Integrate(d)' # Integrate(d) /\ ~(\E p \in Pods : Expired(p))
              => d \in PendingDays' \/ d \in roll.days \/ (roll.at = "write" /\ d = roll.day)]_vars
==============================================================================
