---------------------------- MODULE UsageSamples ----------------------------
(* The observation track of usage (services/usage/sampler.go, query.go,      *)
(* db/usage.go): every five minutes the leader reads what the pods consume,  *)
(* files one sample for each app, and forgets the old ones; an answer gives  *)
(* the mean and the peak of each UTC day and of the window.                  *)
(*                                                                           *)
(* The metrics, the pods and the apps are read one after the other and the   *)
(* samples are written in one batch.  CPU and memory are treated alike, so a *)
(* reading is a number; whether a pod was ready is written and never read,   *)
(* and left out.                                                             *)
EXTENDS Integers, FiniteSetsExt, Functions

CONSTANTS
    Apps,       \* apps, each with a slug of its own
    Pods,       \* pods
    AppOf,      \* [Pods -> Apps]: the app whose namespace and slug a pod bears
    Samplers,   \* replicas: two may be half-way while the lease changes hands
    Loads,      \* what a pod may be found to consume
    DayLen,     \* ticks of the clock in a UTC day
    Horizon,    \* bound on the clock
    Retention,  \* SampleRetention (thirty days)
    MaxSamples  \* bound on the samples of the table

VARIABLES
    now,      \* wall clock
    apps,     \* the table app
    pod,      \* pod[p]: "absent", "running" or "gone"
    sampler,  \* sampler[s]: how far its tick is and what it has read
    samples   \* the table usage_sample, a bag of rows [app, at, cpu]

Times == 0 .. Horizon

vars == <<now, apps, pod, sampler, samples>>

Nothing == [p \in {} |-> 0]
Resting == [at |-> "idle", usage |-> Nothing, refs |-> {}]

\* A bag of rows is a function that counts them: how many it has, and the bag
\* with each row of a set once more.
Size(B) == SumFunction(B)
Filed(B, rows) ==
    [x \in DOMAIN B \cup rows |-> (IF x \in DOMAIN B THEN B[x] ELSE 0) + (IF x \in rows THEN 1 ELSE 0)]

Running == {p \in Pods : pod[p] = "running"}

Init ==
    /\ now = 0
    /\ apps = Apps
    /\ pod = [p \in Pods |-> "absent"]
    /\ sampler = [s \in Samplers |-> Resting]
    /\ samples = Nothing

----------------------------------------------------------------------------
(* The world.                                                                *)

Tick ==
    /\ now < Horizon
    /\ now' = now + 1
    /\ UNCHANGED <<apps, pod, sampler, samples>>

\* What is left when the older rows are deleted.
UsageSamplesSince(t) == Restrict(samples, {x \in DOMAIN samples : x.at >= t})

\* The samples of an app go with its row; its pods may be there a while longer.
DeleteAppByID(a) ==
    /\ a \in apps
    /\ apps' = apps \ {a}
    /\ samples' = Restrict(samples, {x \in DOMAIN samples : x.app # a})
    /\ UNCHANGED <<now, pod, sampler>>

PodStarts(p) ==
    /\ pod[p] = "absent"
    /\ pod' = [pod EXCEPT ![p] = "running"]
    /\ UNCHANGED <<now, apps, sampler, samples>>

PodGoes(p) ==
    /\ p \in Running
    /\ pod' = [pod EXCEPT ![p] = "gone"]
    /\ UNCHANGED <<now, apps, sampler, samples>>

----------------------------------------------------------------------------
(* A tick of the sampler.                                                    *)

\* A pod that was not scraped yet has no metrics.  Without the metrics API the
\* tick fails: what pods declare is never filed as what they consume.
ListPodUsage(s) ==
    /\ sampler[s].at = "idle"
    /\ \E scraped \in SUBSET Running :
         \E usage \in [scraped -> Loads] :
           sampler' = [sampler EXCEPT ![s] = [Resting EXCEPT !.at = "pods", !.usage = usage]]
    /\ UNCHANGED <<now, apps, pod, samples>>

\* A reading counts if its pod is listed too.
ListManagedPods(s) ==
    /\ sampler[s].at = "pods"
    /\ sampler' = [sampler EXCEPT ![s].at = "refs",
                      ![s].usage = Restrict(@, DOMAIN @ \cap Running)]
    /\ UNCHANGED <<now, apps, pod, samples>>

ListAppRefs(s) ==
    /\ sampler[s].at = "refs"
    /\ sampler' = [sampler EXCEPT ![s].at = "write", ![s].refs = apps]
    /\ UNCHANGED <<now, apps, pod, samples>>

\* One row for each app that has a reading, of the sum of its pods' readings.
AggregateSamples(s) ==
    LET usage == sampler[s].usage
        of(a) == {p \in DOMAIN usage : AppOf[p] = a}
    IN  {[app |-> a, at |-> now, cpu |-> SumFunctionOnSet(usage, of(a))] :
            a \in {b \in sampler[s].refs : of(b) # {}}}

\* One batch: it is refused when the app of one of its rows is gone.
InsertUsageSamples(s) ==
    /\ sampler[s].at = "write"
    /\ \A x \in AggregateSamples(s) : x.app \in apps
    /\ Size(samples) + Cardinality(AggregateSamples(s)) <= MaxSamples
    /\ samples' = Filed(samples, AggregateSamples(s))
    /\ sampler' = [sampler EXCEPT ![s] = [Resting EXCEPT !.at = "expire"]]
    /\ UNCHANGED <<now, apps, pod>>

DeleteUsageSamplesBefore(s) ==
    /\ sampler[s].at = "expire"
    /\ samples' = UsageSamplesSince(now - Retention)
    /\ sampler' = [sampler EXCEPT ![s] = Resting]
    /\ UNCHANGED <<now, apps, pod>>

\* An error ends the tick where it is, and so does the death of the replica.
Fails(s) ==
    /\ sampler[s].at # "idle"
    /\ sampler' = [sampler EXCEPT ![s] = Resting]
    /\ UNCHANGED <<now, apps, pod, samples>>

Next ==
    \/ Tick
    \/ \E a \in Apps : DeleteAppByID(a)
    \/ \E p \in Pods : PodStarts(p) \/ PodGoes(p)
    \/ \E s \in Samplers :
         \/ ListPodUsage(s) \/ ListManagedPods(s) \/ ListAppRefs(s)
         \/ InsertUsageSamples(s) \/ DeleteUsageSamplesBefore(s) \/ Fails(s)

Spec == Init /\ [][Next]_vars

----------------------------------------------------------------------------
(* The answer: one statement groups the samples by day, and the handler      *)
(* merges the days.                                                          *)

Peak(B)  == Max({x.cpu : x \in DOMAIN B})
Total(B) == SumFunction([x \in DOMAIN B |-> x.cpu * B[x]])

OfDays(a, from, to) ==
    Restrict(samples, {x \in DOMAIN samples : x.app = a /\ x.at \div DayLen \in from .. to})

\* ROUND(AVG(...)), MAX(...) and COUNT(*) of each day that has samples: one that
\* has none is left out, and is not a day without consumption.
SummarizeObservedUsage(a, from, to) ==
    [d \in {x.at \div DayLen : x \in DOMAIN OfDays(a, from, to)} |->
        LET B == OfDays(a, d, d)
            n == Size(B)
        IN  [avg |-> (2 * Total(B) + n) \div (2 * n), max |-> Peak(B), count |-> n]]

Count(days)    == SumFunction([d \in DOMAIN days |-> days[d].count])
Weighted(days) == SumFunction([d \in DOMAIN days |-> days[d].avg * days[d].count])

\* Mutant: the mean of the daily means.
MergeUnweighted(days) ==
    [avg |-> SumFunction([d \in DOMAIN days |-> days[d].avg]) \div Cardinality(DOMAIN days),
     max |-> Max({days[d].max : d \in DOMAIN days}),
     count |-> Count(days)]

\* A day weighs as much as the samples it has.
MergeObserved(days) ==
    [avg |-> Weighted(days) \div Count(days),
     max |-> Max({days[d].max : d \in DOMAIN days}),
     count |-> Count(days)]

\* What an answer says was observed of an app in the days from .. to.
AttachObserved(a, from, to) == MergeObserved(SummarizeObservedUsage(a, from, to))

----------------------------------------------------------------------------
(* Properties.                                                               *)

\* However samples are spread over the days of a window, and whichever of them
\* have expired, what an answer says of the window is their number, their peak,
\* and their mean but for the two roundings on its way: less than one and a half
\* below, no more than a half above (SummarizeObservedUsage, mergeObserved).
ObservedIsMeasured ==
    \A a \in apps : \A from, to \in 0 .. (Horizon \div DayLen) :
        LET B      == OfDays(a, from, to)
            n      == Size(B)
            answer == AttachObserved(a, from, to)
        IN  n > 0 =>
              /\ answer.count = n /\ answer.max = Peak(B)
              /\ 2 * n * answer.avg <= 2 * Total(B) + n
              /\ 2 * n * answer.avg > 2 * Total(B) - 3 * n

-----------------------------------------------------------------------------
(* What the answers rest on: the type of the rows.                           *)

Rows     == [app : Apps, at : Times, cpu : Nat]
Readings == UNION {[S -> Nat] : S \in SUBSET Pods}

TypeOK ==
    /\ now \in Times
    /\ apps \in SUBSET Apps
    /\ sampler \in [Samplers -> [at : {"idle", "pods", "refs", "write", "expire"},
                                 usage : Readings, refs : SUBSET Apps]]
    /\ DOMAIN samples \in SUBSET Rows /\ IsFiniteSet(DOMAIN samples)
    /\ \A x \in DOMAIN samples : samples[x] \in Nat \ {0}
=============================================================================
