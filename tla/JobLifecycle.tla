---------------------------- MODULE JobLifecycle ----------------------------
(* What the reconciliation job queue promises its callers.  A job is a       *)
(* resource that at most one replica holds at a time: a replica takes a      *)
(* queued job, and gives it back, completes it or gives it up for good; a    *)
(* replica that loses the job halfway leaves it abandoned.  Nothing is said  *)
(* of attempts, back-off, batches, leadership, the database or the handler:  *)
(* JobQueue, which has them all, is shown to implement this module.          *)

CONSTANTS Jobs, Workers, NoJob    \* NoJob is not one of Jobs

VARIABLES state,    \* state[j]: the public life of job j
          holds     \* holds[w]: the job replica w works on, or NoJob

vars == <<state, holds>>

Terminal == {"completed", "failed_permanently"}

States == {"absent", "pending", "in_progress"} \cup Terminal

Init ==
    /\ state = [j \in Jobs |-> "absent"]
    /\ holds = [w \in Workers |-> NoJob]

Submit(j) ==
    /\ state[j] = "absent"
    /\ state' = [state EXCEPT ![j] = "pending"]
    /\ UNCHANGED holds

\* The take succeeds for one replica only, because it needs a queued job.
Take(w, j) ==
    /\ holds[w] = NoJob
    /\ state[j] = "pending"
    /\ state' = [state EXCEPT ![j] = "in_progress"]
    /\ holds' = [holds EXCEPT ![w] = j]

\* The job leaves its holder for one of the states a holder may put it in.
Release(w, next) ==
    /\ holds[w] # NoJob
    /\ next \in Terminal \cup {"pending"}
    /\ state' = [state EXCEPT ![holds[w]] = next]
    /\ holds' = [holds EXCEPT ![w] = NoJob]

\* The holder is lost, and nobody else will ever take the job.
Abandon(w) ==
    /\ holds[w] # NoJob
    /\ holds' = [holds EXCEPT ![w] = NoJob]
    /\ UNCHANGED state

\* A take whose answer is lost: the job is taken, by nobody.
Strand(j) ==
    /\ state[j] = "pending"
    /\ state' = [state EXCEPT ![j] = "in_progress"]
    /\ UNCHANGED holds

Next ==
    \/ \E j \in Jobs : Submit(j) \/ Strand(j)
    \/ \E w \in Workers, j \in Jobs : Take(w, j)
    \/ \E w \in Workers, next \in Terminal \cup {"pending"} : Release(w, next)
    \/ \E w \in Workers : Abandon(w)

Spec == Init /\ [][Next]_vars
=============================================================================
