------------------------------ MODULE JobQueue ------------------------------
(* The reconciliation_job queue: the table, the replicas whose job_queue     *)
(* loop scans it (services/reconciler/runner.go, jobs.go), the SQL that      *)
(* moves a row (db/reconciler.go, db/deleteapp.go), the attempt bookkeeping  *)
(* of the only registered handler (services/deleteapp) and the incident a    *)
(* permanent failure opens.                                                  *)
(*                                                                           *)
(* Every SQL statement is one step.  Between two statements of one replica   *)
(* any other replica may run, the lease may move, and the process may die.   *)
(* A replica that loses the lease keeps working on the batch it has listed:  *)
(* the loop asks IsLeader once per tick, and its flag falls a little late.   *)
EXTENDS Integers, FiniteSets

CONSTANTS
    Jobs,         \* rows of reconciliation_job, identified by id
    Workers,      \* backend replicas, each with one job_queue loop
    Registered,   \* the jobs whose kind has a handler
    MaxAttempts,  \* MaxAttempts = residueMaxAttempts (8 in the code)
    BatchSize,    \* JobBatchSize (32 in the code)
    AlwaysLeader, \* OPS_LEADER_MODE is always, not lease
    MaxFaults,    \* bound on crashes, panics and database errors
    NoJob,        \* no row
    NoWorker      \* nobody holds the lease

ASSUME ConstantsAssumption ==
    /\ IsFiniteSet(Workers)
    /\ Registered \subseteq Jobs
    /\ MaxAttempts \in Nat \ {0}
    /\ BatchSize \in Nat \ {0}
    /\ AlwaysLeader \in BOOLEAN
    /\ MaxFaults \in Nat
    /\ NoJob \notin Jobs
    /\ NoWorker \notin Workers

VARIABLES
    status,       \* status[j]: column status, "absent" before the INSERT
    attempts,     \* attempts[j]: column attempts
    due,          \* due[j]: next_attempt_at IS NULL or has passed
    incidents,    \* incidents[j]: incident rows opened for job j
    runs,         \* runs[j]: times job j was claimed (bookkeeping only)
    holder,       \* the replica that holds the lease
    leading,      \* replicas whose elector has set the flag IsLeader() reads
    campaigning,  \* replicas whose elector goroutine still runs
    pc,           \* pc[w]: where the job_queue loop of w is
    batch,        \* batch[w]: rows listed by this tick, not processed yet
    row,          \* row[w]: the row being processed
    result,       \* result[w]: the handler's outcome for that row
    faults        \* faults spent

tableVars == <<status, attempts, due, incidents, runs>>
leaseVars == <<holder, leading, campaigning>>
loopVars  == <<pc, batch, row, result>>
vars == <<tableVars, leaseVars, loopVars, faults>>

Terminal == {"completed", "failed_permanently"}
Statuses == {"absent", "pending", "in_progress"} \cup Terminal

\* A listed row is a snapshot: the id and the attempts read with it.  "runs" is
\* no column: it tells how often the job had been claimed by then.
Rows  == [job : Jobs, attempts : Nat, runs : Nat]
NoRow == [job |-> NoJob, attempts |-> 0, runs |-> 0]

Snapshot(j) == [job |-> j, attempts |-> attempts[j], runs |-> runs[j]]

Outcomes == {"none", "completed", "retry", "failed"}

TypeOK ==
    /\ status \in [Jobs -> Statuses]
    /\ attempts \in [Jobs -> Nat]
    /\ due \in [Jobs -> BOOLEAN]
    /\ incidents \in [Jobs -> Nat]
    /\ runs \in [Jobs -> Nat]
    /\ holder \in Workers \cup {NoWorker}
    /\ leading \in SUBSET Workers
    /\ campaigning \in SUBSET Workers
    /\ pc \in [Workers -> {"idle", "scan", "handle", "settle", "incident", "dead"}]
    /\ batch \in [Workers -> SUBSET Rows]
    /\ row \in [Workers -> Rows \cup {NoRow}]
    /\ result \in [Workers -> Outcomes]
    /\ faults \in Nat

\* The lease and the flags, as the election moves them.
Gate == INSTANCE LeaderGate WITH Replicas <- Workers, Nobody <- NoWorker

-----------------------------------------------------------------------------
(* How a database call ends.  "lost": it failed and changed nothing.         *)
(* "unknown": the statement was applied and the answer never arrived, so the *)
(* caller sees an error all the same.                                        *)
Answers == {"ok", "lost", "unknown"}

Applied(answer) == answer # "lost"

Call(answer) ==
    /\ answer # "ok" => faults < MaxFaults
    /\ faults' = IF answer = "ok" THEN faults ELSE faults + 1

\* The loop of w is past the claim of row[w] and has not settled it yet.
Executing(w) == pc[w] \in {"handle", "settle"}

\* The row w is working on.
Current(w) == row[w].job

ShouldFailPermanently(n) == n > MaxAttempts

Go(w, label) == pc' = [pc EXCEPT ![w] = label]

\* processJob returns: the loop goes on to the next listed row.
Return(w) ==
    /\ Go(w, "scan")
    /\ row' = [row EXCEPT ![w] = NoRow]
    /\ result' = [result EXCEPT ![w] = "none"]

Init ==
    /\ status = [j \in Jobs |-> "absent"]
    /\ attempts = [j \in Jobs |-> 0]
    /\ due = [j \in Jobs |-> FALSE]
    /\ incidents = [j \in Jobs |-> 0]
    /\ runs = [j \in Jobs |-> 0]
    /\ holder = NoWorker
    /\ leading = {}
    /\ campaigning = IF AlwaysLeader THEN {} ELSE Workers
    /\ pc = [w \in Workers |-> "idle"]
    /\ batch = [w \in Workers |-> {}]
    /\ row = [w \in Workers |-> NoRow]
    /\ result = [w \in Workers |-> "none"]
    /\ faults = 0

-----------------------------------------------------------------------------
(* The rest of the system: producers, time and the lease.                    *)

\* delete_app (or an operator's retry) inserts a row, due at once.
EnqueueReconciliationJob(j) ==
    /\ status[j] = "absent"
    /\ status' = [status EXCEPT ![j] = "pending"]
    /\ due' = [due EXCEPT ![j] = TRUE]
    /\ UNCHANGED <<attempts, incidents, runs, leaseVars, loopVars, faults>>

\* next_attempt_at passes.  NextBackoff is at most MaxBackoff, so it does.
BackoffElapses(j) ==
    /\ status[j] = "pending"
    /\ ~due[j]
    /\ due' = [due EXCEPT ![j] = TRUE]
    /\ UNCHANGED <<status, attempts, incidents, runs, leaseVars, loopVars, faults>>

\* The lease moves as the election lets it.  The job_queue loop of a replica
\* that loses it is not told: what it has listed it will process.
AcquireLease(w) == Gate!Win(w)  /\ UNCHANGED <<tableVars, loopVars, faults>>
LoseLease(w)    == Gate!Lose(w) /\ UNCHANGED <<tableVars, loopVars, faults>>
StopLeading(w)  == Gate!Fall(w) /\ UNCHANGED <<tableVars, loopVars, faults>>

\* The process of w is lost and started anew: memory goes, rows stay.
Reset(w) ==
    /\ pc' = [pc EXCEPT ![w] = "idle"]
    /\ batch' = [batch EXCEPT ![w] = {}]
    /\ row' = [row EXCEPT ![w] = NoRow]
    /\ result' = [result EXCEPT ![w] = "none"]
    /\ IF AlwaysLeader THEN UNCHANGED leaseVars ELSE Gate!Restart(w)
    /\ UNCHANGED tableVars

Crash(w) ==
    /\ pc[w] # "dead"
    /\ faults < MaxFaults
    /\ faults' = faults + 1
    /\ Reset(w)

RestartDead(w) ==
    /\ pc[w] = "dead"
    /\ Reset(w)
    /\ UNCHANGED faults

\* A panic unwinds to recoverPanic, which logs and ends the loop for good;
\* the process, and with it the elector, lives on.
Panic(w) ==
    /\ pc[w] = "handle"
    /\ faults < MaxFaults
    /\ faults' = faults + 1
    /\ Go(w, "dead")
    /\ batch' = [batch EXCEPT ![w] = {}]
    /\ row' = [row EXCEPT ![w] = NoRow]
    /\ UNCHANGED <<tableVars, leaseVars, result>>

-----------------------------------------------------------------------------
(* One tick of the job_queue loop.                                           *)

\* Mutant of the WHERE clause of ListPendingReconciliationJobs: it leaves
\* exhausted rows out.
ListsUnspent(j) == status[j] = "pending" /\ due[j] /\ attempts[j] < MaxAttempts

Listed(j) == status[j] = "pending" /\ due[j]

\* A replica scans only while IsLeader() holds.
TickGuard(w) == AlwaysLeader \/ w \in leading

\* runJobQueue: the leader lists at most BatchSize due rows.
RunJobQueue(w) ==
    LET dueJobs == {j \in Jobs : Listed(j)}
    IN  /\ pc[w] = "idle"
        /\ TickGuard(w)
        /\ \E js \in SUBSET dueJobs :
              /\ js # {}
              /\ Cardinality(js) <= BatchSize
              /\ Cardinality(js) < BatchSize => js = dueJobs
              /\ batch' = [batch EXCEPT ![w] = {Snapshot(j) : j \in js}]
        /\ Go(w, "scan")
        /\ UNCHANGED <<tableVars, leaseVars, row, result, faults>>

EndTick(w) ==
    /\ pc[w] = "scan"
    /\ batch[w] = {}
    /\ Go(w, "idle")
    /\ UNCHANGED <<tableVars, leaseVars, batch, row, result, faults>>

\* Mutant: the claim takes a row another replica holds.
ClaimsHeldRows(j) == status[j] \notin Terminal

\* The WHERE clause of ClaimReconciliationJob.
ClaimGuard(j) == status[j] = "pending"

\* processJob: claim a listed row, then look its handler up.
Claim(w) ==
    \E r \in batch[w], answer \in Answers :
        /\ pc[w] = "scan"
        /\ Call(answer)
        /\ batch' = [batch EXCEPT ![w] = @ \ {r}]
        /\ IF ClaimGuard(r.job) /\ Applied(answer)
           THEN /\ status' = [status EXCEPT ![r.job] = "in_progress"]
                /\ runs' = [runs EXCEPT ![r.job] = @ + 1]
           ELSE UNCHANGED <<status, runs>>
        /\ IF ClaimGuard(r.job) /\ answer = "ok"
           THEN /\ row' = [row EXCEPT ![w] = r]
                /\ IF r.job \in Registered
                   THEN Go(w, "handle") /\ UNCHANGED result
                   ELSE Go(w, "settle") /\ result' = [result EXCEPT ![w] = "retry"]
           ELSE UNCHANGED <<pc, row, result>>
        /\ UNCHANGED <<attempts, due, incidents, leaseVars>>

\* HandleResidue ends.  It stamps the row itself (MarkReconciliationJobAttempt)
\* whatever the outcome, and ignores the error of that statement.
Handle(w) ==
    \E done \in BOOLEAN, answer \in Answers :
        LET j == Current(w)
            outcome == IF done THEN "completed"
                       ELSE IF ShouldFailPermanently(row[w].attempts + 1)
                            THEN "failed" ELSE "retry"
        IN  /\ pc[w] = "handle"
            /\ Call(answer)
            /\ IF Applied(answer)
               THEN /\ attempts' = [attempts EXCEPT ![j] = @ + 1]
                    /\ due' = [due EXCEPT ![j] = outcome # "retry"]
               ELSE UNCHANGED <<attempts, due>>
            /\ result' = [result EXCEPT ![w] = outcome]
            /\ Go(w, "settle")
            /\ UNCHANGED <<status, incidents, runs, leaseVars, batch, row>>

\* CompleteReconciliationJob: any status but failed_permanently is overwritten.
Complete(w) ==
    \E answer \in Answers :
        LET j == Current(w)
        IN  /\ pc[w] = "settle"
            /\ result[w] = "completed"
            /\ Call(answer)
            /\ status' = IF Applied(answer) /\ status[j] # "failed_permanently"
                         THEN [status EXCEPT ![j] = "completed"] ELSE status
            /\ Return(w)
            /\ UNCHANGED <<attempts, due, incidents, runs, leaseVars, batch>>

\* The runner gives up when the handler says so, or when the snapshot it
\* listed, plus one, is past the cap.
GivesUp(w) ==
    \/ result[w] = "failed"
    \/ result[w] = "retry" /\ ShouldFailPermanently(row[w].attempts + 1)

\* reschedule: the UPDATE has no guard on the status.
Reschedule(w) ==
    \E answer \in Answers :
        LET j == Current(w)
        IN  /\ pc[w] = "settle"
            /\ result[w] = "retry"
            /\ ~GivesUp(w)
            /\ Call(answer)
            /\ IF Applied(answer)
               THEN /\ status' = [status EXCEPT ![j] = "pending"]
                    /\ attempts' = [attempts EXCEPT ![j] = @ + 1]
                    /\ due' = [due EXCEPT ![j] = FALSE]
               ELSE UNCHANGED <<status, attempts, due>>
            /\ Return(w)
            /\ UNCHANGED <<incidents, runs, leaseVars, batch>>

\* Mutant: the UPDATE ends a failure.
ReportsNothing(answer) == FALSE

\* An error of the UPDATE skips the incident.
Reports(answer) == answer = "ok"

\* failPermanently, first half: the UPDATE.
FailPermanently(w) ==
    \E answer \in Answers :
        LET j == Current(w)
        IN  /\ pc[w] = "settle"
            /\ GivesUp(w)
            /\ Call(answer)
            /\ status' = IF Applied(answer)
                         THEN [status EXCEPT ![j] = "failed_permanently"] ELSE status
            /\ IF Reports(answer) THEN Go(w, "incident") /\ UNCHANGED <<row, result>>
                                  ELSE Return(w)
            /\ UNCHANGED <<attempts, due, incidents, runs, leaseVars, batch>>

\* failPermanently, second half: Incidents.Open; an error is only logged.
OpenIncident(w) ==
    \E answer \in Answers :
        LET j == Current(w)
        IN  /\ pc[w] = "incident"
            /\ Call(answer)
            /\ incidents' = IF Applied(answer)
                            THEN [incidents EXCEPT ![j] = @ + 1] ELSE incidents
            /\ Return(w)
            /\ UNCHANGED <<status, attempts, due, runs, leaseVars, batch>>

Loop(w) ==
    \/ RunJobQueue(w) \/ Claim(w) \/ Handle(w) \/ Complete(w) \/ Reschedule(w)
    \/ FailPermanently(w) \/ OpenIncident(w) \/ EndTick(w)

Next ==
    \/ \E j \in Jobs : EnqueueReconciliationJob(j) \/ BackoffElapses(j)
    \/ \E w \in Workers :
          \/ AcquireLease(w) \/ LoseLease(w) \/ StopLeading(w)
          \/ Crash(w) \/ RestartDead(w) \/ Panic(w)
          \/ Loop(w)

Spec == Init /\ [][Next]_vars

\* The ticker fires for ever, a statement or a handler call returns, time
\* passes, and an elector that campaigns for a free lease gets it.  Nothing is
\* assumed of losing the lease, crashing, panicking or being restarted.
Fairness ==
    /\ \A w \in Workers : WF_vars(Loop(w)) /\ WF_vars(AcquireLease(w))
    /\ \A j \in Jobs : WF_vars(BackoffElapses(j))

FairSpec == Spec /\ Fairness

-----------------------------------------------------------------------------
(* Safety.                                                                   *)

\* No two replicas ever run the handler of one job at the same time, and the
\* row of a job that is being run says in_progress, whatever moves the lease
\* and whoever restarts (the compare-and-set of ClaimReconciliationJob).
ExclusiveExecution ==
    \A w \in Workers : Executing(w) =>
        /\ status[Current(w)] = "in_progress"
        /\ \A v \in Workers : Executing(v) /\ v # w => Current(v) # Current(w)

\* A completed or permanently failed row never changes status again, although
\* reschedule and failPermanently write it without looking at the status.
TerminalIsFinal ==
    [][\A j \in Jobs : status[j] \in Terminal => status'[j] = status[j]]_vars

\* A job has at most one incident, and only a permanently failed job has one.
IncidentsAreEarned ==
    \A j \in Jobs : /\ incidents[j] <= 1
                    /\ incidents[j] = 1 => status[j] = "failed_permanently"

\* The attempts column overshoots its cap by at most two per replica: each
\* replica may still hold one old snapshot of the row when it gets there.
AttemptsOvershootIsBounded ==
    \A j \in Jobs : attempts[j] <= MaxAttempts + 2 * Cardinality(Workers)

\* A job fails for good only after claims enough to have spent half its budget:
\* the handler and the runner each count an execution once, so it counts twice,
\* and no stale list, lost answer or crash makes it count more.
FailureTakesHalfTheBudget ==
    \A j \in Jobs : status[j] = "failed_permanently" => 2 * (runs[j] - 1) >= MaxAttempts

\* What a tick has listed stays true until the tick reaches it, unless some
\* replica has claimed the row since: it is still pending, due (so no claim
\* runs ahead of its back-off), and has the attempts that were listed.
ListedRowsStayFresh ==
    \A w \in Workers : \A r \in batch[w] : runs[r.job] = r.runs =>
        status[r.job] = "pending" /\ due[r.job] /\ attempts[r.job] = r.attempts

\* Jobs that nobody will look at again: in_progress and run by no replica, or
\* failed for good without the incident that tells an operator.
LostJobs ==
    {j \in Jobs :
        \/ /\ status[j] = "in_progress"
           /\ \A w \in Workers : Executing(w) => Current(w) # j
        \/ /\ status[j] = "failed_permanently"
           /\ incidents[j] = 0
           /\ \A w \in Workers : pc[w] = "incident" => Current(w) # j}

\* Losing a job takes a failure, and no failure loses two: nothing else, no
\* move of the lease, stale list or race of claims, leaves a job behind or hides
\* that it failed, although claim, outcome and incident are three statements.
EachLossTakesAFault == Cardinality(LostJobs) <= faults

\* The queue implements the life of a job that JobLifecycle promises.
Lifecycle == INSTANCE JobLifecycle WITH
    state <- status,
    holds <- [w \in Workers |-> IF Executing(w) THEN Current(w) ELSE NoJob]

ImplementsLifecycle == Lifecycle!Spec

\* In lease mode the lease and the flags move as LeaderGate says, which is what
\* LeaderElection implements: the loops take no other liberty with them.
RunsUnderTheGate == Gate!Spec

-----------------------------------------------------------------------------
(* Liveness, when nothing fails but the lease.                               *)

\* While some replica can still be elected, every queued job gets to a terminal
\* status: retries are counted, so none is retried for ever.
QueuedJobsSettle ==
    [](AlwaysLeader \/ campaigning # {}) =>
        \A j \in Jobs : (status[j] = "pending") ~> (status[j] \in Terminal)

=============================================================================
