------------------------------ MODULE UsageQuery ------------------------------
(* What a team is told of its usage (usage_handlers.go,                      *)
(* services/usage/query.go, db/usage.go).  A query reads the daily totals    *)
(* and then the intervals, in statements of their own, while pods come and   *)
(* go, midnight passes, and the leader rolls closed days up and deletes the  *)
(* intervals that are past their retention.                                  *)
(*                                                                           *)
(* How the intervals and the totals are written is UsageLedger's subject:    *)
(* here a statement of the leader is one step and only one thing of it goes  *)
(* wrong, that an end is learnt a day late.  A row the leader deleted is     *)
(* kept as "expired", so that the truth can still be told.                   *)
EXTENDS Integers, FiniteSets, Functions

CONSTANTS
    Apps,       \* apps of the team
    Pods,       \* pods of the apps
    AppOf,      \* [Pods -> Apps]
    DayLen,     \* seconds of a UTC day
    Horizon,    \* bound on the clock
    Retention,  \* seconds an ended interval is kept (390 days in the code), more
                \* than a life and a day, and than the backlog and a day
    DetailDays, \* IntervalRetentionDays: how far back detail is answered (395)
    MaxLife,    \* bound on the life of a pod, in seconds
    Backlog,    \* bound on how many days the rollup pass lags behind
    MaxRows     \* MaxIntervalRows

VARIABLES
    now,    \* wall clock
    row,    \* row[p]: the row of usage_allocation_interval
    rollup, \* <<app, day>> -> its row of usage_daily_rollup
    ask     \* the query in progress

vars == <<now, row, rollup, ask>>

Times == 0 .. Horizon
Never == Horizon + 1

\* The day of a time, and the midnight a day starts at.
DayOf(t)   == t \div DayLen
StartOf(d) == d * DayLen

Days  == 0 .. DayOf(Horizon)
Today == DayOf(now)

NoRow    == [state |-> "absent", from |-> 0, end |-> Never, late |-> FALSE]
NoRollup == [made |-> FALSE, total |-> 0, settled |-> {}]
NoAsk    == [at |-> "idle", apps |-> {}, from |-> 0, to |-> 0, today |-> 0,
             detail |-> FALSE, since |-> 0, rollups |-> [k \in Apps \X Days |-> NoRollup]]

Init ==
    /\ now = 0
    /\ row = [p \in Pods |-> NoRow]
    /\ rollup = [k \in Apps \X Days |-> NoRollup]
    /\ ask = NoAsk

----------------------------------------------------------------------------
(* The intervals and their totals.                                           *)

Kept(p) == row[p].state \in {"open", "ended"}
PodsOf(a) == {p \in Pods : AppOf[p] = a}
Least(i, j) == IF i < j THEN i ELSE j
Most(i, j)  == IF i < j THEN j ELSE i

\* The seconds of p in [from, to): an interval still open is clamped at `to`.
Overlap(p, from, to) ==
    LET start == Most(row[p].from, from)
        end   == Least(row[p].end, to)
    IN  IF row[p].state # "absent" /\ end > start THEN end - start ELSE 0

Integrate(pods, from, to) == SumFunction([p \in pods |-> Overlap(p, from, to)])
IntegrateDay(pods, d) == Integrate(pods, StartOf(d), StartOf(d + 1))

Spans(p, d) == d \in DayOf(row[p].from)
                       .. (IF row[p].state = "open" THEN Today ELSE DayOf(row[p].end))

\* A closed day without a total, or with one older than the end of an interval.
Pending(a, d) ==
    /\ d < Today
    /\ \E p \in PodsOf(a) :
         /\ Kept(p) /\ Spans(p, d)
         /\ ~rollup[<<a, d>>].made \/ (row[p].state = "ended" /\ p \notin rollup[<<a, d>>].settled)

\* The pass runs every hour, a day lasts twenty-four, a query some seconds.
Tick ==
    /\ now < Horizon
    /\ \A p \in Pods : row[p].state = "open" => now < row[p].from + MaxLife
    /\ \A a \in Apps, d \in Days : Pending(a, d) => DayOf(now + 1) <= d + Backlog
    /\ ask.at # "idle" => now = ask.since
    /\ now' = now + 1
    /\ UNCHANGED <<row, rollup, ask>>

PodStarts(p) ==
    /\ row[p].state = "absent"
    /\ row' = [row EXCEPT ![p] = [NoRow EXCEPT !.state = "open", !.from = now]]
    /\ UNCHANGED <<now, rollup, ask>>

PodEnds(p) ==
    /\ row[p].state = "open"
    /\ row' = [row EXCEPT ![p].state = "ended", ![p].end = now]
    /\ UNCHANGED <<now, rollup, ask>>

\* Days that passed in between have been answered, and perhaps rolled up, with
\* the interval still open.
EndIsLearntLate(p) ==
    /\ row[p].state = "open"
    /\ \E end \in (now - DayLen) .. (now - 1) :
         /\ end >= row[p].from
         /\ row' = [row EXCEPT ![p].state = "ended", ![p].end = end, ![p].late = TRUE]
    /\ UNCHANGED <<now, rollup, ask>>

RollupDay(a, d) ==
    /\ Pending(a, d)
    /\ LET kept == {p \in PodsOf(a) : Kept(p)}
       IN  rollup' = [rollup EXCEPT ![<<a, d>>] =
               [made |-> TRUE, total |-> IntegrateDay(kept, d),
                settled |-> {p \in kept : row[p].state = "ended"}]]
    /\ UNCHANGED <<now, row, ask>>

Expirable(p) == row[p].state = "ended" /\ row[p].end < now - Retention

ExpireIntervals ==
    /\ \E p \in Pods : Expirable(p)
    /\ row' = [p \in Pods |-> IF Expirable(p) THEN [row[p] EXCEPT !.state = "expired"]
                              ELSE row[p]]
    /\ UNCHANGED <<now, rollup, ask>>

----------------------------------------------------------------------------
(* The query.                                                                *)

\* What `0ops usage` may ask for: every app of the team or one, and a window.
Questions == [apps : {{a} : a \in Apps} \cup {Apps}, from : Days, to : Days, detail : BOOLEAN]

\* A window that ends before it starts is refused, and so is detail from before
\* what is said to be kept.
Admitted(q) == q.from <= q.to /\ (q.detail => q.from >= Today - DetailDays)

Ask ==
    /\ ask.at = "idle"
    /\ \E q \in Questions :
         /\ Admitted(q)
         /\ ask' = [NoAsk EXCEPT !.at = "rollups", !.apps = q.apps, !.from = q.from, !.to = q.to,
                                 !.detail = q.detail, !.today = Today, !.since = now]
    /\ UNCHANGED <<now, row, rollup>>

\* Closed days only, and none when the window starts today.
ListDailyRollups ==
    /\ ask.at = "rollups"
    /\ LET rollupTo == Least(ask.to, ask.today - 1)
           asked == ask.apps \X (ask.from .. rollupTo)
       IN  ask' = [ask EXCEPT !.at = "intervals",
                              !.rollups = [k \in Apps \X Days |->
                                              IF k \in asked THEN rollup[k] ELSE NoRollup]]
    /\ UNCHANGED <<now, row, rollup>>

\* The days that may be answered from intervals, and where the last one ends.
LiveDays  == ask.from .. Least(ask.to, ask.today)
WindowEnd == Least(now, StartOf(Most(ask.from, Least(ask.to, ask.today)) + 1))

Listed(from, to) == {p \in Pods : /\ AppOf[p] \in ask.apps /\ Kept(p)
                                  /\ row[p].from < to /\ row[p].end > from}

InWindow  == Listed(StartOf(ask.from), WindowEnd)

\* The part of a day that is in the window, and over.
EndOf(d) == Least(StartOf(d + 1), WindowEnd)
Live(a, d) == Integrate(PodsOf(a) \cap InWindow, StartOf(d), EndOf(d))

\* Mutant: days are answered live whenever there are intervals of them.
LiveFirst(a, d) ==
    IF Live(a, d) > 0 \/ ~ask.rollups[<<a, d>>].made THEN Live(a, d)
    ELSE ask.rollups[<<a, d>>].total

\* A day is settled when it has a total; any other is integrated here and now.
Answer(a, d) ==
    IF ask.rollups[<<a, d>>].made THEN ask.rollups[<<a, d>>].total ELSE Live(a, d)

AppTotal(a) == SumFunction([d \in LiveDays |-> Answer(a, d)])

\* Truncating silently would understate usage: the request fails.
TooMany(rows) == Cardinality(rows) > MaxRows

\* The intervals are read even where every day is settled, but not for a window
\* that starts after today.
ListIntervals ==
    /\ ask.at = "intervals"
    /\ ask' = IF ask.detail /\ (LiveDays = {} \/ ~TooMany(InWindow))
              THEN [ask EXCEPT !.at = "detail"] ELSE NoAsk
    /\ UNCHANGED <<now, row, rollup>>

\* detail=interval reads the intervals of the whole window once more, and fails
\* in the same way.
ListDetail ==
    /\ ask.at = "detail"
    /\ ask' = NoAsk
    /\ UNCHANGED <<now, row, rollup>>

----------------------------------------------------------------------------

Next ==
    \/ Tick \/ ExpireIntervals
    \/ \E p \in Pods : PodStarts(p) \/ PodEnds(p) \/ EndIsLearntLate(p)
    \/ \E a \in Apps, d \in Days : RollupDay(a, d)
    \/ Ask \/ ListDailyRollups \/ ListIntervals \/ ListDetail

Spec == Init /\ [][Next]_vars

----------------------------------------------------------------------------
(* Properties.                                                               *)

\* The total stands although an interval it counts turned out to end earlier.
Outdated(a, d) ==
    /\ ask.rollups[<<a, d>>].made
    /\ \E p \in PodsOf(a) : row[p].late /\ Spans(p, d) /\ p \notin ask.rollups[<<a, d>>].settled

\* Whichever source a figure comes from, and whatever was rolled up, expired or
\* passed midnight between the reads, it is the pod seconds of that day, the
\* expired intervals' too: neither missing, nor counted twice, nor cut short.
\* And the days add up to what the pods had of the window.
AnswersAreExact ==
    ask.at = "intervals" =>
        \A a \in ask.apps :
            /\ \A d \in LiveDays :
                 \/ Answer(a, d) = Integrate(PodsOf(a), StartOf(d), EndOf(d))
                 \/ Outdated(a, d)
            /\ \/ AppTotal(a) = Integrate(PodsOf(a), StartOf(ask.from), WindowEnd)
               \/ \E d \in LiveDays : Outdated(a, d)

\* Detail that is not refused is not silently short: so says the handler, but
\* it refuses from 395 days on what is deleted from 390 days on.
DetailIsWhole ==
    ask.at = "detail" =>
        \A p \in Pods : /\ row[p].state = "expired" /\ AppOf[p] \in ask.apps
                        /\ row[p].from < StartOf(ask.to + 1)
                        => row[p].end <= StartOf(ask.from)

-----------------------------------------------------------------------------
(* What the answers rest on: the inductive invariant.                        *)

Totals == [made : BOOLEAN, total : Int, settled : SUBSET Pods]

TypeOK ==
    /\ now \in Times
    /\ row \in [Pods -> [state : {"absent", "open", "ended", "expired"}, from : Times,
                         end : 0 .. Never, late : BOOLEAN]]
    /\ rollup \in [Apps \X Days -> Totals]
    /\ ask \in [at : {"idle", "rollups", "intervals", "detail"}, apps : SUBSET Apps, from : Days,
                to : Days, today : Days, detail : BOOLEAN, since : Times,
                rollups : [Apps \X Days -> Totals]]

Over(p) == row[p].state \in {"ended", "expired"}

\* An interval is no longer than a life, and one that is gone ended long ago.
RowsAreReal ==
    \A p \in Pods :
        /\ row[p].state \in {"absent", "open"} => row[p].end = Never /\ ~row[p].late
        /\ row[p].state = "open" => row[p].from <= now /\ now <= row[p].from + MaxLife
        /\ Over(p) => row[p].from <= row[p].end /\ row[p].end <= now
        /\ row[p].state = "expired" => row[p].end < now - Retention

\* A day that waits for its total is younger than what expires.
PendingIsYoung ==
    \A a \in Apps, d \in Days : Pending(a, d) => now - Retention <= StartOf(d)

\* An interval that ended so early as to expire has its seconds in a total.
ExpiredIsBooked ==
    \A p \in Pods, d \in Days :
        /\ row[p].state = "expired"
        /\ Overlap(p, StartOf(d), StartOf(d + 1)) > 0
        => rollup[<<AppOf[p], d>>].made

\* A total is right, or an interval turned out to end earlier after it was made.
Stands(total, a, d) ==
    /\ d < Today
    /\ \A p \in total.settled : Over(p)
    /\ \/ total.total = IntegrateDay(PodsOf(a), d)
       \/ \E p \in PodsOf(a) : row[p].late /\ Spans(p, d) /\ p \notin total.settled

TotalsStand ==
    /\ \A a \in Apps, d \in Days : rollup[<<a, d>>].made => Stands(rollup[<<a, d>>], a, d)
    /\ ask.at = "intervals" => \A a \in Apps, d \in Days :
          ask.rollups[<<a, d>>].made => Stands(ask.rollups[<<a, d>>], a, d)

\* A query takes less than a tick.
QueryIsShort ==
    ask.at # "idle" =>
        /\ ask.from <= ask.to
        /\ ask.today = DayOf(ask.since)
        /\ ask.since <= now /\ now <= ask.since + 1

\* What may expire while the query is under way is in the totals it has read.
ExpiringIsRead ==
    ask.at = "intervals" =>
        \A p \in Pods, d \in ask.from .. ask.to :
            /\ Over(p) /\ row[p].end <= ask.since - Retention
            /\ AppOf[p] \in ask.apps
            /\ Overlap(p, StartOf(d), StartOf(d + 1)) > 0
            => ask.rollups[<<AppOf[p], d>>].made

IInv ==
    /\ TypeOK /\ RowsAreReal /\ PendingIsYoung /\ ExpiredIsBooked /\ TotalsStand
    /\ QueryIsShort /\ ExpiringIsRead
=============================================================================
