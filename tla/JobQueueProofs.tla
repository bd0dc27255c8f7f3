--------------------------- MODULE JobQueueProofs ---------------------------
(* Proofs about JobQueue, for any jobs, replicas, caps and fault budget.     *)
EXTENDS JobQueue, FiniteSetTheorems, TLAPS

\* A replica between listing a row and returning from processJob has a row.
HasRow == \A w \in Workers :
    Executing(w) \/ pc[w] = "incident" => row[w] \in Rows

\* A replica about to open an incident is alone to do so for its job, the job
\* has failed and has no incident yet.
IncidentsAreOwedOnce ==
    \A w \in Workers : pc[w] = "incident" =>
        /\ status[Current(w)] = "failed_permanently"
        /\ incidents[Current(w)] = 0
        /\ \A v \in Workers : pc[v] = "incident" /\ v # w => Current(v) # Current(w)

\* The inductive invariant.
IInv == /\ TypeOK
        /\ HasRow
        /\ ExclusiveExecution
        /\ IncidentsAreOwedOnce
        /\ IncidentsAreEarned

-----------------------------------------------------------------------------
LEMMA InitEstablishes == Init => IInv
BY ConstantsAssumption DEF Init, IInv, TypeOK, HasRow, ExclusiveExecution,
   IncidentsAreOwedOnce, IncidentsAreEarned, Executing, Current, NoRow, Rows,
   Outcomes, Statuses, Terminal

LEMMA TypePreserved == TypeOK /\ HasRow /\ [Next]_vars => TypeOK'
<1> SUFFICES ASSUME TypeOK, HasRow, [Next]_vars PROVE TypeOK'
  OBVIOUS
<1> USE ConstantsAssumption DEF TypeOK
<1>1. ASSUME NEW j \in Jobs, EnqueueReconciliationJob(j) PROVE TypeOK'
  BY <1>1 DEF EnqueueReconciliationJob, leaseVars, loopVars, Statuses
<1>2. ASSUME NEW j \in Jobs, BackoffElapses(j) PROVE TypeOK'
  BY <1>2 DEF BackoffElapses, leaseVars, loopVars
<1>3. ASSUME NEW w \in Workers, AcquireLease(w) \/ LoseLease(w) \/ StopLeading(w) PROVE TypeOK'
  BY <1>3 DEF AcquireLease, LoseLease, StopLeading, Gate!Win, Gate!Lose, Gate!Fall, tableVars, loopVars
<1>4. ASSUME NEW w \in Workers, Crash(w) \/ RestartDead(w) PROVE TypeOK'
  <2>1. /\ UNCHANGED tableVars /\ faults' \in Nat
        /\ pc' = [pc EXCEPT ![w] = "idle"] /\ batch' = [batch EXCEPT ![w] = {}]
        /\ row' = [row EXCEPT ![w] = NoRow] /\ result' = [result EXCEPT ![w] = "none"]
        /\ UNCHANGED leaseVars \/ Gate!Restart(w)
    BY <1>4 DEF Crash, RestartDead, Reset
  <2>2. holder' \in Workers \cup {NoWorker} /\ leading' \in SUBSET Workers /\ campaigning' \in SUBSET Workers
    BY <2>1 DEF leaseVars, Gate!Restart
  <2>. QED
    BY <2>1, <2>2 DEF tableVars, Outcomes
<1>5. ASSUME NEW w \in Workers, Panic(w) PROVE TypeOK'
  BY <1>5 DEF Panic, Go, tableVars, leaseVars
<1>6. ASSUME NEW w \in Workers, RunJobQueue(w) PROVE TypeOK'
  BY <1>6 DEF RunJobQueue, Snapshot, Go, Rows, tableVars, leaseVars
<1>. DEFINE Known(w) == Current(w) \in Jobs
<1>0. ASSUME NEW w \in Workers, Executing(w) \/ pc[w] = "incident" PROVE Known(w)
  BY <1>0 DEF HasRow, Rows, Current
<1>7. ASSUME NEW w \in Workers, Claim(w) PROVE TypeOK'
  <2>1. PICK r \in batch[w], answer \in Answers : Claim(w)!(r, answer)
    BY <1>7 DEF Claim
  <2>2. r \in Rows /\ r.job \in Jobs
    BY DEF Rows
  <2>3. faults' \in Nat /\ batch' \in [Workers -> SUBSET Rows]
    BY <2>1, <2>2 DEF Call
  <2>4. status' \in [Jobs -> Statuses] /\ runs' \in [Jobs -> Nat]
    BY <2>1, <2>2 DEF Statuses
  <2>5. row' \in [Workers -> Rows \cup {NoRow}]
    BY <2>1, <2>2
  <2>6. /\ pc' \in [Workers -> {"idle", "scan", "handle", "settle", "incident", "dead"}]
        /\ result' \in [Workers -> Outcomes]
    BY <2>1 DEF Go, Outcomes
  <2>. QED
    BY <2>1, <2>3, <2>4, <2>5, <2>6 DEF leaseVars
<1>8. ASSUME NEW w \in Workers, Handle(w) PROVE TypeOK'
  <2>1. Known(w)
    BY <1>0, <1>8 DEF Handle, Executing
  <2>2. PICK done \in BOOLEAN, answer \in Answers : Handle(w)!(done, answer)
    BY <1>8 DEF Handle
  <2>3. faults' \in Nat
    BY <2>2 DEF Call
  <2>4. attempts' \in [Jobs -> Nat]
    BY <2>1, <2>2
  <2>6. \E b \in BOOLEAN : due' = [due EXCEPT ![Current(w)] = b] \/ due' = due
    BY <2>2, Zenon
  <2>7. due' \in [Jobs -> BOOLEAN]
    BY <2>1, <2>6
  <2>5. result' \in [Workers -> Outcomes]
    BY <2>2 DEF Outcomes
  <2>. QED
    BY <2>2, <2>3, <2>4, <2>5, <2>7 DEF Go, leaseVars
<1>9. ASSUME NEW w \in Workers, Complete(w) PROVE TypeOK'
  BY <1>0, <1>9 DEF Complete, Executing, Call, Return, Go, Outcomes, Statuses,
                    Terminal, leaseVars
<1>10. ASSUME NEW w \in Workers, Reschedule(w) PROVE TypeOK'
  <2>1. Known(w)
    BY <1>0, <1>10 DEF Reschedule, Executing
  <2>2. PICK answer \in Answers : Reschedule(w)!(answer)
    BY <1>10 DEF Reschedule
  <2>3. faults' \in Nat
    BY <2>2 DEF Call
  <2>4. status' \in [Jobs -> Statuses]
    BY <2>1, <2>2 DEF Statuses
  <2>5. attempts' \in [Jobs -> Nat]
    BY <2>1, <2>2
  <2>6. due' = [due EXCEPT ![Current(w)] = FALSE] \/ due' = due
    BY <2>2
  <2>7. due' \in [Jobs -> BOOLEAN]
    BY <2>1, <2>6
  <2>. QED
    BY <2>2, <2>3, <2>4, <2>5, <2>7 DEF Return, Go, Outcomes, leaseVars
<1>11. ASSUME NEW w \in Workers, FailPermanently(w) PROVE TypeOK'
  BY <1>0, <1>11 DEF FailPermanently, Executing, Call, Return, Go, Outcomes,
                     Statuses, Terminal, leaseVars
<1>12. ASSUME NEW w \in Workers, OpenIncident(w) PROVE TypeOK'
  BY <1>0, <1>12 DEF OpenIncident, Call, Return, Go, Outcomes, leaseVars
<1>13. ASSUME NEW w \in Workers, EndTick(w) PROVE TypeOK'
  BY <1>13 DEF EndTick, Go, tableVars, leaseVars
<1>14. CASE UNCHANGED vars
  BY <1>14 DEF vars, tableVars, leaseVars, loopVars
<1>. QED
  BY <1>1, <1>2, <1>3, <1>4, <1>5, <1>6, <1>7, <1>8, <1>9, <1>10, <1>11, <1>12,
     <1>13, <1>14 DEF Next, Loop

-----------------------------------------------------------------------------
\* The parts of the inductive invariant that speak of rows and replicas.
Core == HasRow /\ ExclusiveExecution /\ IncidentsAreOwedOnce /\ IncidentsAreEarned

LEMMA CorePreserved == IInv /\ [Next]_vars => Core'
<1> SUFFICES ASSUME IInv, [Next]_vars PROVE Core'
  OBVIOUS
<1> USE DEF IInv, TypeOK, Core, HasRow, ExclusiveExecution, IncidentsAreOwedOnce,
            IncidentsAreEarned, Executing, Current
<1>1. ASSUME NEW j \in Jobs, EnqueueReconciliationJob(j) PROVE Core'
  BY <1>1 DEF EnqueueReconciliationJob, leaseVars, loopVars, Rows
<1>2. ASSUME NEW j \in Jobs, BackoffElapses(j) PROVE Core'
  BY <1>2 DEF BackoffElapses, leaseVars, loopVars
<1>3. ASSUME NEW w \in Workers, AcquireLease(w) \/ LoseLease(w) \/ StopLeading(w) PROVE Core'
  BY <1>3 DEF AcquireLease, LoseLease, StopLeading, Gate!Win, Gate!Lose, Gate!Fall, tableVars, loopVars
<1>4. ASSUME NEW w \in Workers, Crash(w) \/ RestartDead(w) PROVE Core'
  BY <1>4 DEF Crash, RestartDead, Reset, tableVars
<1>5. ASSUME NEW w \in Workers, Panic(w) PROVE Core'
  BY <1>5 DEF Panic, Go, tableVars, leaseVars
<1>6. ASSUME NEW w \in Workers, RunJobQueue(w) PROVE Core'
  BY <1>6 DEF RunJobQueue, Go, tableVars, leaseVars
<1>7. ASSUME NEW w \in Workers, Claim(w) PROVE Core'
  <2>1. PICK r \in batch[w], answer \in Answers : Claim(w)!(r, answer)
    BY <1>7 DEF Claim
  <2>2. r \in Rows /\ r.job \in Jobs
    BY DEF Rows
  <2>3. CASE ~ClaimGuard(r.job) \/ ~Applied(answer)
    <3>1. UNCHANGED <<status, pc, row, incidents>>
      BY <2>1, <2>3 DEF Applied, Answers
    <3>. QED
      BY <3>1
  <2>4. CASE ClaimGuard(r.job) /\ answer = "unknown"
    <3>1. /\ status' = [status EXCEPT ![r.job] = "in_progress"]
          /\ UNCHANGED <<pc, row, incidents>>
      BY <2>1, <2>4 DEF Applied
    <3>. QED
      BY <2>2, <2>4, <3>1 DEF ClaimGuard
  <2>5. CASE ClaimGuard(r.job) /\ answer = "ok"
    <3>1. /\ status' = [status EXCEPT ![r.job] = "in_progress"]
          /\ row' = [row EXCEPT ![w] = r]
          /\ \/ pc' = [pc EXCEPT ![w] = "handle"]
             \/ pc' = [pc EXCEPT ![w] = "settle"]
          /\ UNCHANGED incidents
      BY <2>1, <2>5 DEF Applied, Go
    <3>. QED
      BY <2>2, <2>5, <3>1 DEF ClaimGuard
  <2>. QED
    BY <2>3, <2>4, <2>5 DEF Applied, Answers
<1>8. ASSUME NEW w \in Workers, Handle(w) PROVE Core'
  BY <1>8 DEF Handle, Go, leaseVars
<1>9. ASSUME NEW w \in Workers, Complete(w) PROVE Core'
  BY <1>9 DEF Complete, Return, Go, Rows, leaseVars
<1>10. ASSUME NEW w \in Workers, Reschedule(w) PROVE Core'
  BY <1>10 DEF Reschedule, Return, Go, Rows, leaseVars
<1>11. ASSUME NEW w \in Workers, FailPermanently(w) PROVE Core'
  <2>1. PICK answer \in Answers : FailPermanently(w)!(answer)
    BY <1>11 DEF FailPermanently
  <2>2. Executing(w) /\ Current(w) \in Jobs
    BY <2>1 DEF Rows
  <2>3. CASE answer = "ok"
    <3>1. /\ status' = [status EXCEPT ![Current(w)] = "failed_permanently"]
          /\ pc' = [pc EXCEPT ![w] = "incident"]
          /\ UNCHANGED <<row, incidents>>
      BY <2>1, <2>3 DEF Applied, Reports, Go
    <3>2. HasRow'
      BY <2>2, <3>1
    <3>3. ExclusiveExecution'
      BY <2>2, <3>1
    <3>4. IncidentsAreEarned'
      BY <2>2, <3>1
    <3>5. status[Current(w)] = "in_progress" /\ incidents[Current(w)] = 0
      BY <2>2
    <3>6. \A v \in Workers : pc[v] = "incident" => Current(v) # Current(w)
      BY <3>5
    <3>7. IncidentsAreOwedOnce'
      BY <2>2, <3>1, <3>5, <3>6
    <3>. QED
      BY <3>2, <3>3, <3>4, <3>7
  <2>4. CASE answer # "ok"
    <3>1. /\ \/ status' = [status EXCEPT ![Current(w)] = "failed_permanently"]
             \/ UNCHANGED status
          /\ pc' = [pc EXCEPT ![w] = "scan"]
          /\ row' = [row EXCEPT ![w] = NoRow]
          /\ UNCHANGED incidents
      BY <2>1, <2>4 DEF Applied, Reports, Return, Go
    <3>2. /\ pc'[w] = "scan"
          /\ \A v \in Workers : v # w => pc'[v] = pc[v] /\ row'[v] = row[v]
      BY <3>1
    <3>3. \A i \in Jobs : i # Current(w) => status'[i] = status[i]
      BY <2>2, <3>1
    <3>4. status[Current(w)] = "in_progress" /\ incidents[Current(w)] = 0
      BY <2>2
    <3>5. HasRow'
      BY <3>2
    <3>6. ExclusiveExecution'
      BY <2>2, <3>2, <3>3 DEF Rows
    <3>7. IncidentsAreEarned'
      BY <3>1, <3>3, <3>4
    <3>8. IncidentsAreOwedOnce'
      BY <3>1, <3>2, <3>3, <3>4 DEF Rows
    <3>. QED
      BY <3>5, <3>6, <3>7, <3>8
  <2>. QED
    BY <2>3, <2>4
<1>12. ASSUME NEW w \in Workers, OpenIncident(w) PROVE Core'
  BY <1>12 DEF OpenIncident, Return, Go, Rows, leaseVars
<1>13. ASSUME NEW w \in Workers, EndTick(w) PROVE Core'
  BY <1>13 DEF EndTick, Go, tableVars, leaseVars
<1>14. CASE UNCHANGED vars
  BY <1>14 DEF vars, tableVars, leaseVars, loopVars
<1>. QED
  BY <1>1, <1>2, <1>3, <1>4, <1>5, <1>6, <1>7, <1>8, <1>9, <1>10, <1>11, <1>12,
     <1>13, <1>14 DEF Next, Loop

\* The inductive invariant holds in every reachable state.
THEOREM InductiveInvariant == Spec => []IInv
<1>1. IInv /\ [Next]_vars => IInv'
  BY TypePreserved, CorePreserved DEF IInv, Core
<1>. QED
  BY InitEstablishes, <1>1, PTL DEF Spec

\* Type correctness of the queue.
THEOREM TypeCorrect == Spec => []TypeOK
BY InductiveInvariant, PTL DEF IInv

\* Two replicas never execute one job at the same time, and a job being
\* executed is in_progress in the table.
THEOREM Exclusion == Spec => []ExclusiveExecution
BY InductiveInvariant, PTL DEF IInv

\* A job has at most one incident, and has one only when it failed permanently.
THEOREM OneIncident == Spec => []IncidentsAreEarned
BY InductiveInvariant, PTL DEF IInv

-----------------------------------------------------------------------------
(* Finality.  The writers of a terminal status and of 'pending' carry no     *)
(* guard on the status: what protects a terminal row is that its only writer *)
(* is the replica that claimed it while it was pending.                      *)

Final(j) == status[j] \in Terminal => status'[j] = status[j]

LEMMA StepKeepsFinal ==
    ASSUME IInv, [Next]_vars, NEW j \in Jobs
    PROVE  Final(j)
<1> USE DEF IInv, TypeOK, Final, Terminal
<1>1. ASSUME NEW w \in Workers, Executing(w),
             status' = status \/ \E s \in Statuses :
                                   status' = [status EXCEPT ![Current(w)] = s]
      PROVE  Final(j)
  <2>1. status[Current(w)] = "in_progress"
    BY <1>1 DEF ExclusiveExecution
  <2>. QED
    BY <1>1, <2>1
<1>2. ASSUME NEW i \in Jobs, EnqueueReconciliationJob(i) \/ BackoffElapses(i)
      PROVE  Final(j)
  BY <1>2 DEF EnqueueReconciliationJob, BackoffElapses
<1>3. ASSUME NEW w \in Workers,
             \/ AcquireLease(w) \/ LoseLease(w) \/ StopLeading(w)
             \/ Crash(w) \/ RestartDead(w) \/ Panic(w)
             \/ RunJobQueue(w) \/ Handle(w) \/ OpenIncident(w)
             \/ EndTick(w)
      PROVE  Final(j)
  BY <1>3 DEF AcquireLease, LoseLease, StopLeading, Crash, RestartDead, Reset, Panic,
              RunJobQueue, Handle, OpenIncident, EndTick, tableVars
<1>4. ASSUME NEW w \in Workers, Claim(w) PROVE Final(j)
  BY <1>4 DEF Claim, ClaimGuard
<1>5. ASSUME NEW w \in Workers, Complete(w) PROVE Final(j)
  BY <1>1, <1>5 DEF Complete, Executing, Statuses
<1>6. ASSUME NEW w \in Workers, Reschedule(w) PROVE Final(j)
  BY <1>1, <1>6 DEF Reschedule, Executing, Statuses
<1>7. ASSUME NEW w \in Workers, FailPermanently(w) PROVE Final(j)
  BY <1>1, <1>7 DEF FailPermanently, Executing, Statuses
<1>8. CASE UNCHANGED vars
  BY <1>8 DEF vars, tableVars
<1>. QED
  BY <1>2, <1>3, <1>4, <1>5, <1>6, <1>7, <1>8 DEF Next, Loop

\* A completed or permanently failed job stays as it is for ever.
THEOREM Finality == Spec => TerminalIsFinal
<1>1. IInv /\ [Next]_vars =>
        [\A j \in Jobs : status[j] \in Terminal => status'[j] = status[j]]_vars
  BY StepKeepsFinal DEF Final
<1>. QED
  BY InductiveInvariant, <1>1, PTL DEF Spec, TerminalIsFinal

-----------------------------------------------------------------------------
(* Lists and budgets.  What a replica has listed it may use much later: what *)
(* it can still rely on is that a job nobody claimed since has not changed.  *)

\* A snapshot is not ahead of the table, and had at most two attempts a claim.
ListsArePast ==
    \A w \in Workers : \A r \in batch[w] :
        r.runs <= runs[r.job] /\ r.attempts <= 2 * r.runs

\* A queued job has at most two attempts for every claim; a job being executed
\* had that many before the claim, and one more once the handler has ended.
ClaimsPayForAttempts ==
    /\ \A j \in Jobs : status[j] \in {"absent", "pending"} => attempts[j] <= 2 * runs[j]
    /\ \A w \in Workers : Executing(w) =>
          /\ row[w].attempts <= 2 * (runs[Current(w)] - 1)
          /\ pc[w] = "handle" => attempts[Current(w)] <= 2 * (runs[Current(w)] - 1)
          /\ pc[w] = "settle" => attempts[Current(w)] <= 2 * (runs[Current(w)] - 1) + 1
          /\ pc[w] = "settle" /\ result[w] = "failed"
                => ShouldFailPermanently(row[w].attempts + 1)

Budget == /\ ListsArePast
          /\ ListedRowsStayFresh
          /\ ClaimsPayForAttempts
          /\ FailureTakesHalfTheBudget

LEMMA InitBudget == Init => Budget
BY ConstantsAssumption DEF Init, Budget, ListsArePast, ListedRowsStayFresh,
   ClaimsPayForAttempts, FailureTakesHalfTheBudget, Executing

LEMMA BudgetPreserved == IInv /\ Budget /\ [Next]_vars => Budget'
<1> SUFFICES ASSUME IInv, Budget, [Next]_vars PROVE Budget'
  OBVIOUS
<1> USE ConstantsAssumption
    DEF IInv, TypeOK, HasRow, ExclusiveExecution, Budget, ListsArePast, ListedRowsStayFresh,
        ClaimsPayForAttempts, FailureTakesHalfTheBudget, Executing, Current, Rows
<1>1. ASSUME NEW j \in Jobs, EnqueueReconciliationJob(j) PROVE Budget'
  BY <1>1 DEF EnqueueReconciliationJob, leaseVars, loopVars
<1>2. ASSUME NEW j \in Jobs, BackoffElapses(j) PROVE Budget'
  BY <1>2 DEF BackoffElapses, leaseVars, loopVars
<1>3. ASSUME NEW w \in Workers, AcquireLease(w) \/ LoseLease(w) \/ StopLeading(w) PROVE Budget'
  BY <1>3 DEF AcquireLease, LoseLease, StopLeading, Gate!Win, Gate!Lose, Gate!Fall, tableVars, loopVars
<1>4. ASSUME NEW w \in Workers, Crash(w) \/ RestartDead(w) PROVE Budget'
  BY <1>4 DEF Crash, RestartDead, Reset, tableVars
<1>5. ASSUME NEW w \in Workers, Panic(w) PROVE Budget'
  BY <1>5 DEF Panic, Go, tableVars, leaseVars
<1>6. ASSUME NEW w \in Workers, RunJobQueue(w) PROVE Budget'
  BY <1>6 DEF RunJobQueue, Snapshot, Listed, Go, tableVars, leaseVars
<1>7. ASSUME NEW w \in Workers, Claim(w) PROVE Budget'
  <2>1. PICK r \in batch[w], answer \in Answers : Claim(w)!(r, answer)
    BY <1>7 DEF Claim
  <2>2. r \in Rows /\ r.job \in Jobs /\ r.attempts \in Nat /\ r.runs \in Nat
    BY <2>1
  <2>3. batch' = [batch EXCEPT ![w] = @ \ {r}] /\ UNCHANGED <<attempts, due>>
    BY <2>1
  <2>4. CASE ClaimGuard(r.job) /\ Applied(answer)
    <3>1. /\ status[r.job] = "pending"
          /\ status' = [status EXCEPT ![r.job] = "in_progress"]
          /\ runs' = [runs EXCEPT ![r.job] = @ + 1]
      BY <2>1, <2>4 DEF ClaimGuard
    <3>2. ListsArePast'
      BY <2>2, <2>3, <3>1
    <3>3. ListedRowsStayFresh'
      <4>1. ASSUME NEW v \in Workers, NEW q \in batch'[v], q.job = r.job
            PROVE  runs'[q.job] # q.runs
        BY <2>2, <2>3, <3>1, <4>1
      <4>2. ASSUME NEW v \in Workers, NEW q \in batch'[v], q.job # r.job
            PROVE  /\ q \in batch[v] /\ q.job \in Jobs
                   /\ status'[q.job] = status[q.job] /\ runs'[q.job] = runs[q.job]
        BY <2>2, <2>3, <3>1, <4>2
      <4>. QED
        BY <2>3, <4>1, <4>2
    <3>4. \A v \in Workers : Executing(v) => Current(v) # r.job
      BY <3>1
    <3>5. r.attempts <= 2 * runs[r.job] /\ attempts[r.job] <= 2 * runs[r.job]
      BY <2>1, <2>2, <3>1
    <3>6. \/ UNCHANGED <<pc, row, result>>
          \/ /\ row' = [row EXCEPT ![w] = r]
             /\ \/ pc' = [pc EXCEPT ![w] = "handle"] /\ UNCHANGED result
                \/ /\ pc' = [pc EXCEPT ![w] = "settle"]
                   /\ result' = [result EXCEPT ![w] = "retry"]
      BY <2>1 DEF Go
    <3>7. ClaimsPayForAttempts'
      <4>1. \A j \in Jobs : status'[j] \in {"absent", "pending"} => attempts'[j] <= 2 * runs'[j]
        BY <2>2, <2>3, <3>1
      <4>2. pc[w] = "scan"
        BY <2>1
      <4>3. CASE UNCHANGED <<pc, row, result>>
        BY <2>2, <2>3, <3>1, <3>4, <4>1, <4>2, <4>3
      <4>4. CASE /\ row' = [row EXCEPT ![w] = r]
                 /\ pc' = [pc EXCEPT ![w] = "handle"] /\ UNCHANGED result
        BY <2>2, <2>3, <3>1, <3>4, <3>5, <4>1, <4>2, <4>4
      <4>5. CASE /\ row' = [row EXCEPT ![w] = r]
                 /\ pc' = [pc EXCEPT ![w] = "settle"]
                 /\ result' = [result EXCEPT ![w] = "retry"]
        BY <2>2, <2>3, <3>1, <3>4, <3>5, <4>1, <4>2, <4>5
      <4>. QED
        BY <3>6, <4>3, <4>4, <4>5
    <3>8. FailureTakesHalfTheBudget'
      BY <2>2, <3>1
    <3>. QED
      BY <3>2, <3>3, <3>7, <3>8
  <2>5. CASE ~(ClaimGuard(r.job) /\ Applied(answer))
    <3>1. UNCHANGED <<status, runs, pc, row, result>>
      BY <2>1, <2>5 DEF Applied
    <3>. QED
      BY <2>2, <2>3, <3>1
  <2>. QED
    BY <2>4, <2>5
<1>8. ASSUME NEW w \in Workers, Handle(w) PROVE Budget'
  BY <1>8 DEF Handle, Go, leaseVars
<1>9. ASSUME NEW w \in Workers, Complete(w) PROVE Budget'
  BY <1>9 DEF Complete, Return, Go, leaseVars
<1>10. ASSUME NEW w \in Workers, Reschedule(w) PROVE Budget'
  BY <1>10 DEF Reschedule, Return, Go, leaseVars
<1>11. ASSUME NEW w \in Workers, FailPermanently(w) PROVE Budget'
  BY <1>11 DEF FailPermanently, GivesUp, ShouldFailPermanently, Return, Go, leaseVars
<1>12. ASSUME NEW w \in Workers, OpenIncident(w) \/ EndTick(w) PROVE Budget'
  BY <1>12 DEF OpenIncident, EndTick, Return, Go, tableVars, leaseVars
<1>13. CASE UNCHANGED vars
  BY <1>13 DEF vars, tableVars, leaseVars, loopVars
<1>. QED
  BY <1>1, <1>2, <1>3, <1>4, <1>5, <1>6, <1>7, <1>8, <1>9, <1>10, <1>11, <1>12, <1>13
     DEF Next, Loop

\* Lists go stale only through claims, and failing for good takes claims.
THEOREM BudgetInvariant == Spec => []Budget
BY InitBudget, InductiveInvariant, BudgetPreserved, PTL DEF Spec

\* What a tick has listed is still true unless the row was claimed since.
THEOREM Freshness == Spec => []ListedRowsStayFresh
BY BudgetInvariant, PTL DEF Budget

\* No job fails for good before it was claimed for half its attempts.
THEOREM HalfTheBudget == Spec => []FailureTakesHalfTheBudget
BY BudgetInvariant, PTL DEF Budget

-----------------------------------------------------------------------------
(* The overshoot of the attempts.  A snapshot that is old makes the runner   *)
(* reschedule a row whose attempts have passed the cap since; what bounds    *)
(* that is how many old snapshots are about.                                 *)

\* The snapshot r does not make the runner give its row up.
Renews(r) == ~ShouldFailPermanently(r.attempts + 1)

\* The replicas that may still count two attempts of j, or one, on a snapshot
\* that renews; and whether j may be counted once more by an execution that
\* ends it.
OwesTwo(j) == {w \in Workers : \/ \E r \in batch[w] : r.job = j /\ Renews(r)
                               \/ pc[w] = "handle" /\ Current(w) = j /\ Renews(row[w])}
OwesOne(j) == {w \in Workers : /\ pc[w] = "settle" /\ Current(w) = j
                               /\ result[w] = "retry" /\ Renews(row[w])}
OwesLast(j) == \/ status[j] \in {"absent", "pending"}
               \/ \E w \in Workers : pc[w] = "handle" /\ Current(w) = j
               \/ OwesOne(j) # {}

Owed(j) == 2 * Cardinality(OwesTwo(j)) + Cardinality(OwesOne(j)) + (IF OwesLast(j) THEN 1 ELSE 0)
Most    == MaxAttempts + 2 * Cardinality(Workers)

\* From the cap on, what was counted and what is owed stay within the bound.
Paid(j) == attempts[j] >= MaxAttempts => attempts[j] + Owed(j) <= Most

\* A list has one snapshot of a job, none of the job being executed, and none
\* is ahead of the table.
ListsAreTidy ==
    \A w \in Workers :
        /\ \A r, q \in batch[w] : r.job = q.job => r = q
        /\ \A r \in batch[w] : r.attempts <= attempts[r.job]
        /\ Executing(w) => /\ \A r \in batch[w] : r.job # Current(w)
                           /\ row[w].attempts <= attempts[Current(w)]

Overshoot == ListsAreTidy /\ \A j \in Jobs : Paid(j)

\* Whoever owes is a replica: the sums are numbers.
LEMMA OwedType ==
    ASSUME TypeOK, NEW j \in Jobs
    PROVE  /\ IsFiniteSet(OwesTwo(j)) /\ IsFiniteSet(OwesOne(j)) /\ IsFiniteSet(Workers)
           /\ Cardinality(OwesTwo(j)) \in Nat /\ Cardinality(OwesOne(j)) \in Nat
           /\ Cardinality(Workers) \in Nat
<1>1. OwesTwo(j) \subseteq Workers /\ OwesOne(j) \subseteq Workers /\ IsFiniteSet(Workers)
  BY ConstantsAssumption DEF OwesTwo, OwesOne
<1>2. IsFiniteSet(OwesTwo(j)) /\ IsFiniteSet(OwesOne(j))
  BY <1>1, FS_Subset
<1>. QED
  BY <1>1, <1>2, FS_CardinalityType

\* Part of a set has no more elements, and fewer if it lacks one of them.
LEMMA FewerOf ==
    ASSUME NEW S, IsFiniteSet(S), NEW T \in SUBSET S
    PROVE  /\ Cardinality(T) \in Nat /\ Cardinality(S) \in Nat
           /\ Cardinality(T) <= Cardinality(S)
           /\ \A x \in S : x \notin T => Cardinality(T) + 1 <= Cardinality(S)
<1>1. IsFiniteSet(T) /\ Cardinality(T) \in Nat /\ Cardinality(S) \in Nat /\ Cardinality(T) <= Cardinality(S)
  BY FS_Subset, FS_CardinalityType
<1>2. ASSUME NEW x \in S, x \notin T PROVE Cardinality(T) + 1 <= Cardinality(S)
  <2>1. T \in SUBSET (S \ {x}) /\ IsFiniteSet(S \ {x}) /\ Cardinality(S \ {x}) = Cardinality(S) - 1
    BY <1>2, FS_RemoveElement
  <2>2. Cardinality(T) <= Cardinality(S \ {x}) /\ Cardinality(S \ {x}) \in Nat
    BY <2>1, FS_Subset, FS_CardinalityType
  <2>. QED
    BY <1>1, <2>1, <2>2
<1>. QED
  BY <1>1, <1>2

LEMMA AtMostOne ==
    ASSUME NEW x, NEW T \in SUBSET {x}
    PROVE  Cardinality(T) \in Nat /\ Cardinality(T) <= 1
<1>1. IsFiniteSet({x}) /\ Cardinality({x}) = 1
  BY FS_Singleton
<1>. QED
  BY <1>1, FewerOf

\* A step that counts nothing and lets nobody owe more.
LEMMA NothingCounted ==
    ASSUME TypeOK, TypeOK', NEW j \in Jobs, Paid(j), attempts'[j] = attempts[j],
           OwesTwo(j)' \subseteq OwesTwo(j), OwesOne(j)' \subseteq OwesOne(j),
           OwesLast(j)' => OwesLast(j)
    PROVE  Paid(j)'
<1>1. /\ Cardinality(OwesTwo(j)') <= Cardinality(OwesTwo(j)) /\ Cardinality(OwesTwo(j)') \in Nat
      /\ Cardinality(OwesOne(j)') <= Cardinality(OwesOne(j)) /\ Cardinality(OwesOne(j)') \in Nat
  BY OwedType, FewerOf
<1>2. /\ Cardinality(OwesTwo(j)) \in Nat /\ Cardinality(OwesOne(j)) \in Nat
      /\ Cardinality(Workers) \in Nat /\ attempts[j] \in Nat
  BY OwedType DEF TypeOK
<1>. QED
  BY <1>1, <1>2, ConstantsAssumption DEF Paid, Owed, Most

\* A replica that owed two has counted one at most, and owes one at most.
LEMMA OneOfTwoCounted ==
    ASSUME TypeOK, TypeOK', NEW j \in Jobs, Paid(j), NEW w \in OwesTwo(j),
           attempts'[j] <= attempts[j] + 1, OwesLast(j),
           OwesTwo(j)' \subseteq OwesTwo(j), w \notin OwesTwo(j)', OwesOne(j)' \subseteq {w}
    PROVE  Paid(j)'
<1>1. /\ Cardinality(OwesTwo(j)') \in Nat /\ Cardinality(OwesTwo(j)') + 1 <= Cardinality(OwesTwo(j))
      /\ Cardinality(OwesOne(j)') \in Nat /\ Cardinality(OwesOne(j)') <= 1
      /\ Cardinality(OwesTwo(j)) <= Cardinality(Workers)
  BY OwedType, FewerOf, AtMostOne DEF OwesTwo
<1>2. /\ Cardinality(OwesTwo(j)) \in Nat /\ Cardinality(OwesOne(j)) \in Nat
      /\ Cardinality(Workers) \in Nat /\ attempts[j] \in Nat /\ attempts'[j] \in Nat
  BY OwedType DEF TypeOK
<1>. QED
  BY <1>1, <1>2, ConstantsAssumption DEF Paid, Owed, Most

\* A replica that owed one has counted it, and owes nothing.
LEMMA TheOtherCounted ==
    ASSUME TypeOK, TypeOK', NEW j \in Jobs, Paid(j), NEW w \in OwesOne(j),
           attempts'[j] <= attempts[j] + 1,
           OwesTwo(j)' \subseteq OwesTwo(j), w \notin OwesTwo(j)', OwesOne(j)' = {}
    PROVE  Paid(j)'
<1>1. /\ Cardinality(OwesTwo(j)') \in Nat /\ Cardinality(OwesTwo(j)') <= Cardinality(OwesTwo(j))
      /\ Cardinality(OwesTwo(j)') + 1 <= Cardinality(Workers)
      /\ Cardinality(OwesOne(j)') = 0
  <2>1. OwesTwo(j)' \in SUBSET Workers /\ w \in Workers
    BY DEF OwesTwo, OwesOne
  <2>2. Cardinality(OwesTwo(j)') + 1 <= Cardinality(Workers)
    BY <2>1, OwedType, FewerOf
  <2>. QED
    BY <2>2, OwedType, FewerOf, FS_EmptySet
<1>2. Cardinality(OwesOne(j)) \in Nat /\ 1 <= Cardinality(OwesOne(j))
  <2>1. {} \in SUBSET OwesOne(j) /\ w \notin {}
    OBVIOUS
  <2>. QED
    BY <2>1, OwedType, FewerOf, FS_EmptySet
<1>3. OwesLast(j)
  BY DEF OwesLast
<1>4. /\ Cardinality(OwesTwo(j)) \in Nat /\ Cardinality(Workers) \in Nat
      /\ attempts[j] \in Nat /\ attempts'[j] \in Nat
  BY OwedType DEF TypeOK
<1>. QED
  BY <1>1, <1>2, <1>3, <1>4, ConstantsAssumption DEF Paid, Owed, Most

\* The last one was counted: nobody will renew the row.
LEMMA LastCounted ==
    ASSUME TypeOK, TypeOK', NEW j \in Jobs, Paid(j), MaxAttempts <= attempts[j],
           attempts'[j] <= attempts[j] + 1,
           OwesTwo(j)' \subseteq OwesTwo(j), OwesOne(j)' \subseteq OwesOne(j),
           OwesLast(j), ~OwesLast(j)'
    PROVE  Paid(j)'
<1>1. /\ Cardinality(OwesTwo(j)') <= Cardinality(OwesTwo(j)) /\ Cardinality(OwesTwo(j)') \in Nat
      /\ Cardinality(OwesOne(j)') <= Cardinality(OwesOne(j)) /\ Cardinality(OwesOne(j)') \in Nat
  BY OwedType, FewerOf
<1>2. /\ Cardinality(OwesTwo(j)) \in Nat /\ Cardinality(OwesOne(j)) \in Nat
      /\ Cardinality(Workers) \in Nat /\ attempts[j] \in Nat /\ attempts'[j] \in Nat
  BY OwedType DEF TypeOK
<1>. QED
  BY <1>1, <1>2, ConstantsAssumption DEF Paid, Owed, Most

-----------------------------------------------------------------------------
LEMMA InitOvershoot == Init => Overshoot
BY ConstantsAssumption DEF Init, Overshoot, ListsAreTidy, Paid, Executing

\* A step of w that leaves the counts alone lets the other replicas owe what
\* they owed.
LEMMA OthersOwe ==
    ASSUME TypeOK, NEW w \in Workers, NEW j \in Jobs,
           \A v \in Workers : v # w => UNCHANGED <<pc[v], batch[v], row[v], result[v]>>
    PROVE  \A v \in Workers : v # w =>
               /\ (v \in OwesTwo(j)') <=> (v \in OwesTwo(j))
               /\ (v \in OwesOne(j)') <=> (v \in OwesOne(j))
BY DEF OwesTwo, OwesOne, Current

LEMMA TidyPreserved == IInv /\ ListsAreTidy /\ [Next]_vars => ListsAreTidy'
<1> SUFFICES ASSUME IInv, ListsAreTidy, [Next]_vars PROVE ListsAreTidy'
  OBVIOUS
<1> USE ConstantsAssumption DEF IInv, TypeOK, HasRow, ListsAreTidy, Executing, Current, Rows
<1>1. ASSUME NEW j \in Jobs, EnqueueReconciliationJob(j) \/ BackoffElapses(j) PROVE ListsAreTidy'
  BY <1>1 DEF EnqueueReconciliationJob, BackoffElapses, leaseVars, loopVars
<1>2. ASSUME NEW w \in Workers, AcquireLease(w) \/ LoseLease(w) \/ StopLeading(w) PROVE ListsAreTidy'
  BY <1>2 DEF AcquireLease, LoseLease, StopLeading, Gate!Win, Gate!Lose, Gate!Fall, tableVars, loopVars
<1>3. ASSUME NEW w \in Workers, Crash(w) \/ RestartDead(w) PROVE ListsAreTidy'
  BY <1>3 DEF Crash, RestartDead, Reset, tableVars
<1>4. ASSUME NEW w \in Workers, Panic(w) PROVE ListsAreTidy'
  BY <1>4 DEF Panic, Go, tableVars, leaseVars
<1>5. ASSUME NEW w \in Workers, RunJobQueue(w) PROVE ListsAreTidy'
  BY <1>5 DEF RunJobQueue, Snapshot, Listed, Go, tableVars, leaseVars
<1>6. ASSUME NEW w \in Workers, Claim(w) PROVE ListsAreTidy'
  <2>1. PICK r \in batch[w], answer \in Answers : Claim(w)!(r, answer)
    BY <1>6 DEF Claim
  <2>2. /\ batch' = [batch EXCEPT ![w] = @ \ {r}] /\ UNCHANGED attempts /\ r \in Rows
        /\ \/ UNCHANGED <<pc, row>>
           \/ row' = [row EXCEPT ![w] = r] /\ \E l \in {"handle", "settle"} : pc' = [pc EXCEPT ![w] = l]
    BY <2>1 DEF Go
  <2>. QED
    BY <2>1, <2>2
<1>7. ASSUME NEW w \in Workers, Handle(w) PROVE ListsAreTidy'
  BY <1>7 DEF Handle, Go, leaseVars
<1>8. ASSUME NEW w \in Workers, Complete(w) \/ FailPermanently(w) PROVE ListsAreTidy'
  BY <1>8 DEF Complete, FailPermanently, Return, Go, leaseVars
<1>9. ASSUME NEW w \in Workers, Reschedule(w) PROVE ListsAreTidy'
  BY <1>9 DEF Reschedule, Return, Go, leaseVars
<1>10. ASSUME NEW w \in Workers, OpenIncident(w) \/ EndTick(w) PROVE ListsAreTidy'
  BY <1>10 DEF OpenIncident, EndTick, Return, Go, tableVars, leaseVars
<1>11. CASE UNCHANGED vars
  BY <1>11 DEF vars, tableVars, leaseVars, loopVars
<1>. QED
  BY <1>1, <1>2, <1>3, <1>4, <1>5, <1>6, <1>7, <1>8, <1>9, <1>10, <1>11 DEF Next, Loop

\* A replica alone owes one of a job, and who owes one owes no two.
LEMMA OneOwes ==
    ASSUME IInv, ListsAreTidy, NEW j \in Jobs, NEW w \in Workers, Executing(w), Current(w) = j
    PROVE  /\ OwesOne(j) \subseteq {w}
           /\ w \in OwesTwo(j) <=> pc[w] = "handle" /\ Renews(row[w])
           /\ \A v \in Workers : pc[v] = "handle" /\ Current(v) = j => v = w
           /\ status[j] = "in_progress"
BY DEF IInv, ListsAreTidy, ExclusiveExecution, Executing, OwesOne, OwesTwo

\* The moves that count nothing and claim nothing.
LEMMA PaidByOthers ==
    ASSUME IInv, Overshoot, TypeOK', NEW j \in Jobs, attempts'[j] = attempts[j],
           \A v \in Workers : \/ UNCHANGED <<pc[v], batch[v], row[v], result[v]>>
                              \/ /\ pc'[v] \notin {"handle", "settle"}
                                 /\ \A r \in batch'[v] : r.job = j =>
                                       r \in batch[v] \/ r.attempts >= MaxAttempts,
           status'[j] \in {"absent", "pending"} => OwesLast(j)
    PROVE  Paid(j)'
<1>1. \A r \in Rows : r.attempts >= MaxAttempts => ~Renews(r)
  BY ConstantsAssumption DEF Renews, ShouldFailPermanently, Rows
<1>2. \A v \in Workers : \A r \in batch'[v] : r \in Rows
  BY DEF TypeOK
<1>3. OwesTwo(j)' \subseteq OwesTwo(j) /\ OwesOne(j)' \subseteq OwesOne(j)
  BY <1>1, <1>2 DEF OwesTwo, OwesOne, Current, Renews
<1>4. \A v \in Workers : pc'[v] = "handle" /\ Current(v)' = j => pc[v] = "handle" /\ Current(v) = j
  BY DEF Current
<1>5. OwesLast(j)' => OwesLast(j)
  BY <1>3, <1>4 DEF OwesLast
<1>. QED
  BY <1>3, <1>5, NothingCounted DEF IInv, Overshoot

LEMMA PaidByClaim ==
    ASSUME IInv, Overshoot, TypeOK', NEW j \in Jobs, NEW w \in Workers, Claim(w)
    PROVE  Paid(j)'
<1>1. PICK r \in batch[w], answer \in Answers : Claim(w)!(r, answer)
  BY DEF Claim
<1>2. /\ r \in Rows /\ r.job \in Jobs /\ pc[w] = "scan" /\ UNCHANGED attempts
      /\ batch' = [batch EXCEPT ![w] = @ \ {r}]
  BY <1>1 DEF IInv, TypeOK, Rows
<1>3. CASE UNCHANGED <<pc, row, result>>
  <2>1. \A v \in Workers : \/ UNCHANGED <<pc[v], batch[v], row[v], result[v]>>
                           \/ /\ pc'[v] \notin {"handle", "settle"}
                              /\ \A q \in batch'[v] : q \in batch[v]
    BY <1>2, <1>3 DEF IInv, TypeOK
  <2>2. status'[j] = status[j] \/ status'[j] = "in_progress"
    BY <1>1, <1>2 DEF IInv, TypeOK
  <2>. QED
    BY <1>2, <2>1, <2>2, PaidByOthers DEF OwesLast
<1>4. CASE ~UNCHANGED <<pc, row, result>>
  <2>1. /\ status[r.job] = "pending" /\ status' = [status EXCEPT ![r.job] = "in_progress"]
        /\ row' = [row EXCEPT ![w] = r]
        /\ \/ pc' = [pc EXCEPT ![w] = "handle"] /\ UNCHANGED result
           \/ pc' = [pc EXCEPT ![w] = "settle"] /\ result' = [result EXCEPT ![w] = "retry"]
    BY <1>1, <1>4 DEF ClaimGuard, Applied, Go
  <2>2. \A v \in Workers : v # w => UNCHANGED <<pc[v], batch[v], row[v], result[v]>>
    BY <1>2, <2>1 DEF IInv, TypeOK
  <2>3. \A v \in Workers : v # w => /\ (v \in OwesTwo(j)') <=> (v \in OwesTwo(j))
                                    /\ (v \in OwesOne(j)') <=> (v \in OwesOne(j))
    BY <2>2, OthersOwe DEF IInv
  <2>4. /\ row'[w] = r /\ batch'[w] = batch[w] \ {r} /\ pc'[w] \in {"handle", "settle"}
        /\ pc'[w] = "settle" => result'[w] = "retry"
    BY <1>2, <2>1 DEF IInv, TypeOK
  <2>5. CASE r.job # j
    <3>1. w \in OwesTwo(j)' => w \in OwesTwo(j)
      BY <2>4, <2>5 DEF OwesTwo, Current, Renews
    <3>2. w \notin OwesOne(j)'
      BY <2>4, <2>5 DEF OwesOne, Current
    <3>3. OwesTwo(j)' \subseteq OwesTwo(j) /\ OwesOne(j)' \subseteq OwesOne(j)
      BY <2>3, <3>1, <3>2 DEF OwesTwo, OwesOne
    <3>4. status'[j] = status[j]
      BY <1>2, <2>1, <2>5 DEF IInv, TypeOK
    <3>5. \A v \in Workers : pc'[v] = "handle" /\ Current(v)' = j => pc[v] = "handle" /\ Current(v) = j
      BY <2>2, <2>4, <2>5 DEF Current
    <3>6. OwesLast(j)' => OwesLast(j)
      BY <3>3, <3>4, <3>5 DEF OwesLast
    <3>. QED
      BY <1>2, <3>3, <3>6, NothingCounted DEF IInv, Overshoot
  <2>6. CASE r.job = j
    <3>1. OwesLast(j)
      BY <2>1, <2>6 DEF OwesLast
    <3>2. OwesOne(j) = {}
      BY <2>1, <2>6 DEF IInv, ExclusiveExecution, Executing, OwesOne
    <3>3. OwesOne(j)' \subseteq {w}
      BY <2>3, <3>2 DEF OwesOne
    <3>4. Renews(r) => w \in OwesTwo(j)
      BY <2>6 DEF OwesTwo
    <3>5. \A q \in batch'[w] : q.job # j
      BY <2>4, <2>6 DEF Overshoot, ListsAreTidy
    <3>6. w \in OwesTwo(j)' <=> pc'[w] = "handle" /\ Renews(r)
      BY <2>4, <2>6, <3>5 DEF OwesTwo, Current, Renews
    <3>7. w \in OwesOne(j)' <=> pc'[w] = "settle" /\ Renews(r)
      BY <2>4, <2>6 DEF OwesOne, Current, Renews
    <3>8. OwesTwo(j)' \subseteq OwesTwo(j)
      BY <2>3, <3>4, <3>6 DEF OwesTwo
    <3>9. CASE pc'[w] = "settle" /\ Renews(r)
      <4>1. w \in OwesTwo(j) /\ w \notin OwesTwo(j)'
        BY <3>4, <3>6, <3>9
      <4>2. attempts'[j] <= attempts[j] + 1
        BY <1>2 DEF IInv, TypeOK
      <4>. QED
        BY <3>1, <3>3, <3>8, <4>1, <4>2, OneOfTwoCounted DEF IInv, Overshoot
    <3>10. CASE ~(pc'[w] = "settle" /\ Renews(r))
      <4>1. OwesOne(j)' \subseteq OwesOne(j)
        BY <3>3, <3>7, <3>10
      <4>. QED
        BY <1>2, <3>1, <3>8, <4>1, NothingCounted DEF IInv, Overshoot
    <3>. QED
      BY <3>9, <3>10
  <2>. QED
    BY <2>5, <2>6
<1>. QED
  BY <1>3, <1>4

LEMMA PaidByHandle ==
    ASSUME IInv, Overshoot, TypeOK', NEW j \in Jobs, NEW w \in Workers, Handle(w)
    PROVE  Paid(j)'
<1>1. /\ pc[w] = "handle" /\ pc' = [pc EXCEPT ![w] = "settle"] /\ UNCHANGED <<status, batch, row>>
      /\ \/ UNCHANGED attempts
         \/ attempts' = [attempts EXCEPT ![Current(w)] = @ + 1]
      /\ \A v \in Workers : v # w => result'[v] = result[v]
  BY DEF Handle, Go, IInv, TypeOK
<1>2. pc'[w] = "settle" /\ \A v \in Workers : v # w => UNCHANGED <<pc[v], batch[v], row[v], result[v]>>
  BY <1>1 DEF IInv, TypeOK
<1>3. \A v \in Workers : v # w => /\ (v \in OwesTwo(j)') <=> (v \in OwesTwo(j))
                                  /\ (v \in OwesOne(j)') <=> (v \in OwesOne(j))
  BY <1>2, OthersOwe DEF IInv
<1>4. CASE Current(w) # j
  <2>1. attempts'[j] = attempts[j]
    BY <1>1, <1>4 DEF IInv, TypeOK
  <2>2. /\ w \in OwesTwo(j)' => w \in OwesTwo(j)
        /\ w \notin OwesOne(j)'
    BY <1>1, <1>2, <1>4 DEF OwesTwo, OwesOne, Current
  <2>3. OwesTwo(j)' \subseteq OwesTwo(j) /\ OwesOne(j)' \subseteq OwesOne(j)
    BY <1>3, <2>2 DEF OwesTwo, OwesOne
  <2>4. \A v \in Workers : pc'[v] = "handle" /\ Current(v)' = j => pc[v] = "handle" /\ Current(v) = j
    BY <1>1, <1>2 DEF Current
  <2>5. OwesLast(j)' => OwesLast(j)
    BY <1>1, <2>3, <2>4 DEF OwesLast
  <2>. QED
    BY <2>1, <2>3, <2>5, NothingCounted DEF IInv, Overshoot
<1>5. CASE Current(w) = j
  <2>1. /\ OwesOne(j) \subseteq {w}
        /\ w \in OwesTwo(j) <=> Renews(row[w])
        /\ \A v \in Workers : pc[v] = "handle" /\ Current(v) = j => v = w
        /\ status[j] = "in_progress"
    BY <1>1, <1>5, OneOwes DEF Overshoot, Executing
  <2>2. w \notin OwesTwo(j)'
    BY <1>1, <1>2, <1>5 DEF Overshoot, ListsAreTidy, OwesTwo, Executing
  <2>3. /\ attempts'[j] <= attempts[j] + 1 /\ OwesLast(j)
        /\ OwesTwo(j)' \subseteq OwesTwo(j) /\ OwesOne(j)' \subseteq {w}
    <3>1. attempts'[j] <= attempts[j] + 1
      BY <1>1, <1>5 DEF IInv, TypeOK
    <3>2. OwesLast(j)
      BY <1>1, <1>5 DEF OwesLast
    <3>3. OwesTwo(j)' \subseteq OwesTwo(j)
      BY <1>3, <2>2 DEF OwesTwo
    <3>4. OwesOne(j)' \subseteq {w}
      BY <1>3, <2>1 DEF OwesOne
    <3>. QED
      BY <3>1, <3>2, <3>3, <3>4
  <2>4. CASE Renews(row[w])
    BY <2>1, <2>2, <2>3, <2>4, OneOfTwoCounted DEF IInv, Overshoot
  <2>5. CASE ~Renews(row[w])
    <3>1. MaxAttempts <= attempts[j]
      <4>1. row[w].attempts \in Nat /\ row[w].attempts <= attempts[j] /\ attempts[j] \in Nat
        BY <1>1, <1>5 DEF IInv, TypeOK, HasRow, Rows, Overshoot, ListsAreTidy, Executing
      <4>. QED
        BY <2>5, <4>1, ConstantsAssumption DEF Renews, ShouldFailPermanently
    <3>2. OwesOne(j)' = {}
      <4>1. w \notin OwesOne(j)'
        BY <1>1, <2>5 DEF OwesOne, Renews
      <4>. QED
        BY <2>3, <4>1
    <3>3. ~OwesLast(j)'
      <4>1. \A v \in Workers : ~(pc'[v] = "handle" /\ Current(v)' = j)
        BY <1>1, <1>2, <2>1 DEF Current
      <4>. QED
        BY <1>1, <2>1, <3>2, <4>1 DEF OwesLast
    <3>. QED
      BY <2>3, <3>1, <3>2, <3>3, LastCounted DEF IInv, Overshoot
  <2>. QED
    BY <2>4, <2>5
<1>. QED
  BY <1>4, <1>5

LEMMA PaidByReschedule ==
    ASSUME IInv, Overshoot, TypeOK', NEW j \in Jobs, NEW w \in Workers, Reschedule(w)
    PROVE  Paid(j)'
<1>1. /\ pc[w] = "settle" /\ result[w] = "retry" /\ Renews(row[w])
      /\ pc' = [pc EXCEPT ![w] = "scan"] /\ UNCHANGED batch
      /\ \A v \in Workers : v # w => UNCHANGED <<row[v], result[v]>>
      /\ \/ UNCHANGED <<status, attempts>>
         \/ /\ status' = [status EXCEPT ![Current(w)] = "pending"]
            /\ attempts' = [attempts EXCEPT ![Current(w)] = @ + 1]
  BY DEF Reschedule, GivesUp, Renews, Return, Go, IInv, TypeOK
<1>2. pc'[w] = "scan" /\ \A v \in Workers : v # w => UNCHANGED <<pc[v], batch[v], row[v], result[v]>>
  BY <1>1 DEF IInv, TypeOK
<1>3. CASE Current(w) # j
  <2>1. attempts'[j] = attempts[j] /\ status'[j] = status[j]
    BY <1>1, <1>3 DEF IInv, TypeOK
  <2>. QED
    BY <1>1, <1>2, <2>1, PaidByOthers DEF OwesLast
<1>4. CASE Current(w) = j
  <2>1. \A v \in Workers : v # w => /\ (v \in OwesTwo(j)') <=> (v \in OwesTwo(j))
                                    /\ (v \in OwesOne(j)') <=> (v \in OwesOne(j))
    BY <1>2, OthersOwe DEF IInv
  <2>2. OwesOne(j) \subseteq {w} /\ w \in OwesOne(j)
    BY <1>1, <1>4, OneOwes DEF Overshoot, Executing, OwesOne
  <2>3. w \notin OwesTwo(j)' /\ w \notin OwesOne(j)'
    BY <1>1, <1>2, <1>4 DEF Overshoot, ListsAreTidy, OwesTwo, OwesOne, Executing
  <2>4. OwesTwo(j)' \subseteq OwesTwo(j) /\ OwesOne(j)' = {}
    BY <2>1, <2>2, <2>3 DEF OwesTwo, OwesOne
  <2>5. attempts'[j] <= attempts[j] + 1
    BY <1>1, <1>4 DEF IInv, TypeOK
  <2>. QED
    BY <2>2, <2>3, <2>4, <2>5, TheOtherCounted DEF IInv, Overshoot
<1>. QED
  BY <1>3, <1>4

LEMMA OvershootPreserved == IInv /\ Overshoot /\ [Next]_vars => Overshoot'
<1> SUFFICES ASSUME IInv, Overshoot, [Next]_vars, NEW j \in Jobs PROVE Paid(j)'
  BY TidyPreserved DEF Overshoot
<1>0. TypeOK'
  BY TypePreserved DEF IInv
<1> USE DEF IInv, TypeOK
<1>1. ASSUME NEW i \in Jobs, EnqueueReconciliationJob(i) \/ BackoffElapses(i) PROVE Paid(j)'
  <2>1. status'[j] \in {"absent", "pending"} => status[j] \in {"absent", "pending"}
    BY <1>1 DEF EnqueueReconciliationJob, BackoffElapses
  <2>. QED
    BY <1>0, <1>1, <2>1, PaidByOthers DEF EnqueueReconciliationJob, BackoffElapses, loopVars, OwesLast
<1>2. ASSUME NEW w \in Workers, AcquireLease(w) \/ LoseLease(w) \/ StopLeading(w) PROVE Paid(j)'
  BY <1>0, <1>2, PaidByOthers DEF AcquireLease, LoseLease, StopLeading, Gate!Win, Gate!Lose, Gate!Fall, tableVars, loopVars, OwesLast
<1>3. ASSUME NEW w \in Workers, Crash(w) \/ RestartDead(w) \/ Panic(w) PROVE Paid(j)'
  <2>1. /\ UNCHANGED <<status, attempts>> /\ pc'[w] \notin {"handle", "settle"} /\ batch'[w] = {}
        /\ \A v \in Workers : v # w => UNCHANGED <<pc[v], batch[v], row[v], result[v]>>
    BY <1>3 DEF Crash, RestartDead, Reset, Panic, Go, tableVars
  <2>. QED
    BY <1>0, <2>1, PaidByOthers DEF OwesLast
<1>4. ASSUME NEW w \in Workers, RunJobQueue(w) PROVE Paid(j)'
  <2>1. CASE attempts[j] < MaxAttempts
    BY <1>4, <2>1, ConstantsAssumption DEF RunJobQueue, tableVars, Paid
  <2>2. CASE attempts[j] >= MaxAttempts
    <3>1. /\ UNCHANGED <<status, attempts>> /\ pc'[w] = "scan"
          /\ \A r \in batch'[w] : r.job = j => r.attempts >= MaxAttempts
          /\ \A v \in Workers : v # w => UNCHANGED <<pc[v], batch[v], row[v], result[v]>>
      BY <1>4, <2>2 DEF RunJobQueue, Snapshot, Go, tableVars
    <3>. QED
      BY <1>0, <3>1, PaidByOthers DEF OwesLast
  <2>. QED
    BY <2>1, <2>2, ConstantsAssumption
<1>5. ASSUME NEW w \in Workers, OpenIncident(w) \/ EndTick(w) \/ Complete(w) \/ FailPermanently(w)
      PROVE  Paid(j)'
  <2>1. /\ UNCHANGED <<attempts, batch>> /\ pc'[w] \notin {"handle", "settle"}
        /\ \A v \in Workers : v # w => UNCHANGED <<pc[v], row[v], result[v]>>
    BY <1>5 DEF OpenIncident, EndTick, Complete, FailPermanently, Return, Go, tableVars
  <2>2. status'[j] \in {"absent", "pending"} => status'[j] = status[j]
    BY <1>5 DEF OpenIncident, EndTick, Complete, FailPermanently, tableVars
  <2>. QED
    BY <1>0, <2>1, <2>2, PaidByOthers DEF OwesLast
<1>6. CASE UNCHANGED vars
  BY <1>0, <1>6, PaidByOthers DEF vars, tableVars, loopVars, OwesLast
<1>. QED
  BY <1>0, <1>1, <1>2, <1>3, <1>4, <1>5, <1>6, PaidByClaim, PaidByHandle, PaidByReschedule
     DEF Next, Loop

\* However stale the lists of the replicas are, the attempts column passes its
\* cap by at most two for each of them.
THEOREM OvershootBounded == Spec => []AttemptsOvershootIsBounded
<1>1. TypeOK /\ Overshoot => AttemptsOvershootIsBounded
  <2> SUFFICES ASSUME TypeOK, Overshoot, NEW j \in Jobs
               PROVE  attempts[j] <= MaxAttempts + 2 * Cardinality(Workers)
    BY DEF AttemptsOvershootIsBounded
  <2>1. /\ Cardinality(OwesTwo(j)) \in Nat /\ Cardinality(OwesOne(j)) \in Nat
        /\ Cardinality(Workers) \in Nat /\ attempts[j] \in Nat
    BY OwedType DEF TypeOK
  <2>2. Paid(j)
    BY DEF Overshoot
  <2>. QED
    BY <2>1, <2>2, ConstantsAssumption DEF Paid, Owed, Most
<1>2. Spec => []Overshoot
  BY InitOvershoot, InductiveInvariant, OvershootPreserved, PTL DEF Spec
<1>. QED
  BY <1>1, <1>2, InductiveInvariant, PTL DEF IInv

-----------------------------------------------------------------------------
(* The queue implements JobLifecycle.                                        *)

\* The refinement mapping of holds.
Held(w) == IF Executing(w) THEN Current(w) ELSE NoJob
Holds   == [w \in Workers |-> Held(w)]

LEMMA InitRefines == Init => Lifecycle!Init
BY DEF Init, Lifecycle!Init, Executing

\* A step that leaves alone the statuses and who executes what is a stutter.
LEMMA Stutter ==
    ASSUME UNCHANGED status, \A w \in Workers : UNCHANGED Held(w)
    PROVE  UNCHANGED Lifecycle!vars
BY DEF Lifecycle!vars, Held

\* Only the loop of w moves, and it ends up holding x.
LEMMA HoldsExcept ==
    ASSUME NEW w \in Workers, NEW x,
           \A v \in Workers : v # w => UNCHANGED <<pc[v], row[v]>>,
           Held(w)' = x
    PROVE  Holds' = [Holds EXCEPT ![w] = x]
BY DEF Holds, Held, Executing, Current

\* A replica that stops executing without touching the table abandons its job,
\* if it had one.
LEMMA LeavingAbandons ==
    ASSUME IInv, NEW w \in Workers, UNCHANGED status, ~Executing(w)',
           \A v \in Workers : v # w => UNCHANGED <<pc[v], row[v]>>
    PROVE  Lifecycle!Abandon(w) \/ UNCHANGED Lifecycle!vars
<1>1. Holds' = [Holds EXCEPT ![w] = NoJob]
  BY HoldsExcept DEF Held
<1>2. CASE Executing(w)
  <2>1. Holds[w] # NoJob
    BY <1>2, ConstantsAssumption DEF IInv, HasRow, Rows, Holds, Held, Current
  <2>. QED
    BY <1>1, <2>1 DEF Lifecycle!Abandon, Holds, Held
<1>3. CASE ~Executing(w)
  BY <1>1, <1>3 DEF Lifecycle!vars, Holds, Held
<1>. QED
  BY <1>2, <1>3

\* A replica that settles its job releases it.
LEMMA SettlingReleases ==
    ASSUME IInv, NEW w \in Workers, Executing(w), ~Executing(w)',
           NEW s \in Terminal \cup {"pending"},
           status' = [status EXCEPT ![Current(w)] = s],
           \A v \in Workers : v # w => UNCHANGED <<pc[v], row[v]>>
    PROVE  Lifecycle!Release(w, s)
<1>1. Holds' = [Holds EXCEPT ![w] = NoJob]
  BY HoldsExcept DEF Held
<1>2. Holds[w] = Current(w) /\ Holds[w] # NoJob
  BY ConstantsAssumption DEF IInv, HasRow, Rows, Holds, Held, Current
<1>. QED
  BY <1>1, <1>2 DEF Lifecycle!Release, Holds, Held, Terminal, Lifecycle!Terminal

LEMMA ClaimRefines ==
    ASSUME IInv, NEW w \in Workers, Claim(w)
    PROVE  [Lifecycle!Next]_(Lifecycle!vars)
<1>1. PICK r \in batch[w], answer \in Answers : Claim(w)!(r, answer)
  BY DEF Claim
<1>2. r \in Rows /\ r.job \in Jobs
  BY DEF IInv, TypeOK, Rows
<1>3. CASE ~ClaimGuard(r.job) \/ ~Applied(answer)
  <2>1. UNCHANGED <<status, pc, row>>
    BY <1>1, <1>3 DEF Applied, Answers
  <2>. QED
    BY <2>1, Stutter DEF Held, Executing, Current
<1>4. CASE ClaimGuard(r.job) /\ answer = "unknown"
  <2>1. /\ status' = [status EXCEPT ![r.job] = "in_progress"]
        /\ UNCHANGED <<pc, row>>
    BY <1>1, <1>4 DEF Applied
  <2>2. Lifecycle!Strand(r.job)
    BY <1>4, <2>1 DEF Lifecycle!Strand, ClaimGuard, Executing, Current
  <2>. QED
    BY <1>2, <2>2 DEF Lifecycle!Next
<1>5. CASE ClaimGuard(r.job) /\ answer = "ok"
  <2>1. /\ status' = [status EXCEPT ![r.job] = "in_progress"]
        /\ row' = [row EXCEPT ![w] = r]
        /\ \/ pc' = [pc EXCEPT ![w] = "handle"]
           \/ pc' = [pc EXCEPT ![w] = "settle"]
    BY <1>1, <1>5 DEF Applied, Go
  <2>2. /\ \A v \in Workers : v # w => UNCHANGED <<pc[v], row[v]>>
        /\ Held(w)' = r.job
    BY <2>1 DEF IInv, TypeOK, Held, Executing, Current
  <2>3. Holds' = [Holds EXCEPT ![w] = r.job]
    BY <2>2, HoldsExcept
  <2>4. Holds[w] = NoJob
    BY <1>1 DEF Holds, Held, Executing
  <2>5. Lifecycle!Take(w, r.job)
    BY <1>5, <2>1, <2>3, <2>4 DEF Lifecycle!Take, ClaimGuard, Holds, Held
  <2>. QED
    BY <1>2, <2>5 DEF Lifecycle!Next
<1>. QED
  BY <1>3, <1>4, <1>5 DEF Applied, Answers

LEMMA StepRefines ==
    ASSUME IInv, [Next]_vars
    PROVE  [Lifecycle!Next]_(Lifecycle!vars)
<1> USE DEF IInv, TypeOK
<1>0. ASSUME NEW w \in Workers, Executing(w), ~Executing(w)',
             \/ status' = status
             \/ \E s \in Terminal \cup {"pending"} :
                    status' = [status EXCEPT ![Current(w)] = s],
             \A v \in Workers : v # w => UNCHANGED <<pc[v], row[v]>>
      PROVE  [Lifecycle!Next]_(Lifecycle!vars)
  BY <1>0, LeavingAbandons, SettlingReleases DEF Lifecycle!Next, Terminal, Lifecycle!Terminal
<1>1. ASSUME NEW j \in Jobs, EnqueueReconciliationJob(j)
      PROVE  [Lifecycle!Next]_(Lifecycle!vars)
  <2>1. Lifecycle!Submit(j)
    BY <1>1 DEF EnqueueReconciliationJob, loopVars, Lifecycle!Submit, Executing, Current
  <2>. QED
    BY <2>1 DEF Lifecycle!Next
<1>2. ASSUME NEW j \in Jobs, BackoffElapses(j) PROVE UNCHANGED Lifecycle!vars
  BY <1>2, Stutter DEF BackoffElapses, loopVars, Held, Executing, Current
<1>3. ASSUME NEW w \in Workers, AcquireLease(w) \/ LoseLease(w) \/ StopLeading(w)
      PROVE  UNCHANGED Lifecycle!vars
  BY <1>3, Stutter DEF AcquireLease, LoseLease, StopLeading, Gate!Win, Gate!Lose, Gate!Fall, tableVars, loopVars, Held, Executing, Current
<1>4. ASSUME NEW w \in Workers, Crash(w) \/ RestartDead(w) \/ Panic(w)
      PROVE  [Lifecycle!Next]_(Lifecycle!vars)
  <2>1. /\ UNCHANGED status
        /\ ~Executing(w)'
        /\ \A v \in Workers : v # w => UNCHANGED <<pc[v], row[v]>>
    BY <1>4 DEF Crash, RestartDead, Reset, Panic, Go, tableVars, Executing
  <2>. QED
    BY <2>1, LeavingAbandons DEF Lifecycle!Next
<1>5. ASSUME NEW w \in Workers, RunJobQueue(w) \/ EndTick(w) \/ Handle(w)
      PROVE  UNCHANGED Lifecycle!vars
  <2>1. /\ UNCHANGED <<status, row>>
        /\ \A v \in Workers : UNCHANGED Executing(v)
    BY <1>5 DEF RunJobQueue, EndTick, Handle, Go, tableVars, Executing
  <2>. QED
    BY <2>1, Stutter DEF Held, Current
<1>6. ASSUME NEW w \in Workers, Complete(w) PROVE [Lifecycle!Next]_(Lifecycle!vars)
  BY <1>0, <1>6 DEF Complete, Return, Go, Executing, Terminal
<1>7. ASSUME NEW w \in Workers, Reschedule(w) PROVE [Lifecycle!Next]_(Lifecycle!vars)
  BY <1>0, <1>7 DEF Reschedule, Return, Go, Executing, Terminal
<1>8. ASSUME NEW w \in Workers, FailPermanently(w)
      PROVE  [Lifecycle!Next]_(Lifecycle!vars)
  BY <1>0, <1>8 DEF FailPermanently, Return, Go, Executing, Terminal
<1>9. ASSUME NEW w \in Workers, OpenIncident(w) PROVE UNCHANGED Lifecycle!vars
  <2>1. /\ UNCHANGED status
        /\ ~Executing(w) /\ ~Executing(w)'
        /\ \A v \in Workers : v # w => UNCHANGED <<pc[v], row[v]>>
    BY <1>9 DEF OpenIncident, Return, Go, Executing
  <2>. QED
    BY <2>1, Stutter DEF Held, Executing, Current
<1>10. CASE UNCHANGED vars
  BY <1>10, Stutter DEF vars, tableVars, loopVars, Held, Executing, Current
<1>. QED
  BY <1>1, <1>2, <1>3, <1>4, <1>5, <1>6, <1>7, <1>8, <1>9, <1>10, ClaimRefines
     DEF Next, Loop

\* The queue, with its leases, batches, retries and faults, implements the life
\* of a job that JobLifecycle promises.
THEOREM Refinement == Spec => ImplementsLifecycle
<1>1. IInv /\ [Next]_vars => [Lifecycle!Next]_(Lifecycle!vars)
  BY StepRefines
<1>. QED
  BY InitRefines, InductiveInvariant, <1>1, PTL DEF Spec, ImplementsLifecycle, Lifecycle!Spec

-----------------------------------------------------------------------------
(* A failure loses one job at most.                                          *)

\* A loop that works on a job, or is about to report it.
Minds(w, j) == (Executing(w) \/ pc[w] = "incident") /\ Current(w) = j

Charged == IsFiniteSet(LostJobs) /\ Cardinality(LostJobs) <= faults

LEMMA InitCharged == Init => Charged
<1> SUFFICES ASSUME Init PROVE Charged
  OBVIOUS
<1>1. LostJobs = {}
  BY DEF Init, LostJobs
<1>. QED
  BY <1>1, FS_EmptySet DEF Init, Charged

\* A step that loses x at most, and a failure for it unless it was lost.
LEMMA ChargedStep ==
    ASSUME TypeOK, Charged, NEW x, LostJobs' \subseteq LostJobs \cup {x},
           \/ faults' = faults + 1
           \/ faults' = faults /\ (x \in LostJobs' => x \in LostJobs)
    PROVE  Charged'
<1>1. IsFiniteSet(LostJobs \cup {x}) /\ Cardinality(LostJobs) \in Nat
  BY FS_AddElement, FS_CardinalityType DEF Charged
<1>2. IsFiniteSet(LostJobs') /\ Cardinality(LostJobs') \in Nat
  BY <1>1, FS_Subset, FS_CardinalityType
<1>3. CASE faults' = faults + 1
  <2>1. Cardinality(LostJobs \cup {x}) <= Cardinality(LostJobs) + 1
    BY <1>1, FS_AddElement DEF Charged
  <2>2. Cardinality(LostJobs') <= Cardinality(LostJobs \cup {x})
    BY <1>1, FS_Subset
  <2>3. Cardinality(LostJobs \cup {x}) \in Nat
    BY <1>1, FS_CardinalityType
  <2>. QED
    BY <1>1, <1>2, <1>3, <2>1, <2>2, <2>3 DEF Charged, TypeOK
<1>4. CASE faults' = faults /\ (x \in LostJobs' => x \in LostJobs)
  <2>1. LostJobs' \subseteq LostJobs
    BY <1>4
  <2>2. Cardinality(LostJobs') <= Cardinality(LostJobs)
    BY <2>1, FS_Subset DEF Charged
  <2>. QED
    BY <1>1, <1>2, <1>4, <2>2 DEF Charged, TypeOK
<1>. QED
  BY <1>3, <1>4

\* Nobody stops minding a job, and no status or incident changes.
LEMMA NothingLost ==
    ASSUME TypeOK, Charged, UNCHANGED <<status, incidents>>,
           \A w \in Workers, j \in Jobs :
               /\ Executing(w) /\ Current(w) = j => (Executing(w) /\ Current(w) = j)'
               /\ pc[w] = "incident" /\ Current(w) = j => (pc[w] = "incident" /\ Current(w) = j)',
           faults' = faults \/ faults' = faults + 1
    PROVE  Charged'
<1>1. LostJobs' \subseteq LostJobs
  BY DEF LostJobs
<1>. QED
  BY <1>1, ChargedStep

\* The loop of w, which minds x if any job, may lose x.
LEMMA LosesItsOwn ==
    ASSUME NEW w \in Workers, NEW x,
           \A v \in Workers : v # w => UNCHANGED <<pc[v], row[v]>>,
           \A j \in Jobs : j # x => UNCHANGED <<status[j], incidents[j]>>,
           \A j \in Jobs : Minds(w, j) => j = x
    PROVE  LostJobs' \subseteq LostJobs \cup {x}
<1> SUFFICES ASSUME NEW j \in LostJobs', j # x PROVE j \in LostJobs
  OBVIOUS
<1>1. j \in Jobs /\ UNCHANGED <<status[j], incidents[j]>> /\ ~Minds(w, j)
  BY DEF LostJobs
<1>2. ASSUME NEW v \in Workers, Minds(v, j)
      PROVE  /\ UNCHANGED <<pc[v], row[v]>>
             /\ Executing(v) => Executing(v)' /\ Current(v)' = j
  BY <1>1, <1>2 DEF Minds, Executing, Current
<1>3. CASE /\ status'[j] = "in_progress"
           /\ \A v \in Workers : Executing(v)' => Current(v)' # j
  BY <1>1, <1>2, <1>3 DEF LostJobs, Minds
<1>4. CASE /\ status'[j] = "failed_permanently"
           /\ incidents'[j] = 0
           /\ \A v \in Workers : pc'[v] = "incident" => Current(v)' # j
  <2>1. ASSUME NEW v \in Workers, pc[v] = "incident", Current(v) = j PROVE FALSE
    BY <1>2, <1>4, <2>1 DEF Minds, Current
  <2>. QED
    BY <1>1, <1>4, <2>1 DEF LostJobs
<1>. QED
  BY <1>3, <1>4 DEF LostJobs

LEMMA ChargedPreserved == IInv /\ Charged /\ [Next]_vars => Charged'
<1> SUFFICES ASSUME IInv, Charged, [Next]_vars PROVE Charged'
  OBVIOUS
<1> USE DEF IInv, TypeOK
<1>1. ASSUME NEW j \in Jobs, EnqueueReconciliationJob(j) PROVE Charged'
  <2>1. LostJobs' \subseteq LostJobs /\ faults' = faults
    BY <1>1 DEF EnqueueReconciliationJob, loopVars, LostJobs, Executing, Current
  <2>. QED
    BY <2>1, ChargedStep
<1>2. ASSUME \/ \E j \in Jobs : BackoffElapses(j)
             \/ \E w \in Workers : AcquireLease(w) \/ LoseLease(w) \/ StopLeading(w)
             \/ UNCHANGED vars
      PROVE  Charged'
  <2>1. UNCHANGED <<status, incidents, pc, row, faults>>
    BY <1>2 DEF BackoffElapses, AcquireLease, LoseLease, StopLeading, tableVars, loopVars, vars
  <2>. QED
    BY <2>1, NothingLost DEF Executing, Current
<1>3. ASSUME NEW w \in Workers, RunJobQueue(w) \/ EndTick(w) \/ Handle(w) PROVE Charged'
  <2>1. /\ UNCHANGED <<status, incidents, row>>
        /\ faults' = faults \/ faults' = faults + 1
        /\ \A v \in Workers : UNCHANGED Executing(v)
        /\ \A v \in Workers : pc[v] = "incident" => pc'[v] = "incident"
    BY <1>3 DEF RunJobQueue, EndTick, Handle, Call, Go, tableVars, Executing
  <2>. QED
    BY <2>1, NothingLost DEF Current
<1>4. ASSUME NEW w \in Workers, Crash(w) \/ RestartDead(w) \/ Panic(w) PROVE Charged'
  <2>1. /\ UNCHANGED <<status, incidents>>
        /\ \A v \in Workers : v # w => UNCHANGED <<pc[v], row[v]>>
        /\ \/ faults' = faults + 1
           \/ faults' = faults /\ pc[w] = "dead"
    BY <1>4 DEF Crash, RestartDead, Reset, Panic, Go, tableVars
  <2>2. CASE pc[w] = "dead"
    BY <2>1, <2>2, NothingLost DEF Executing, Current
  <2>3. CASE faults' = faults + 1
    <3>1. LostJobs' \subseteq LostJobs \cup {Current(w)}
      BY <2>1, LosesItsOwn DEF Minds
    <3>. QED
      BY <2>3, <3>1, ChargedStep
  <2>. QED
    BY <2>1, <2>2, <2>3
<1>5. ASSUME NEW w \in Workers, Claim(w) PROVE Charged'
  <2>1. PICK r \in batch[w], answer \in Answers : Claim(w)!(r, answer)
    BY <1>5 DEF Claim
  <2>2. r.job \in Jobs
    BY DEF Rows
  <2>3. /\ \A v \in Workers : v # w => UNCHANGED <<pc[v], row[v]>>
        /\ \A j \in Jobs : j # r.job => UNCHANGED <<status[j], incidents[j]>>
        /\ ~Executing(w) /\ pc[w] # "incident"
    BY <2>1, <2>2 DEF Go, Executing
  <2>4. LostJobs' \subseteq LostJobs \cup {r.job}
    BY <2>3, LosesItsOwn DEF Minds
  <2>5. CASE answer # "ok"
    BY <2>1, <2>4, <2>5, ChargedStep DEF Call
  <2>6. CASE answer = "ok" /\ ~ClaimGuard(r.job)
    <3>1. UNCHANGED <<status, incidents, pc, row, faults>>
      BY <2>1, <2>6 DEF Call
    <3>. QED
      BY <3>1, NothingLost DEF Executing, Current
  <2>7. CASE answer = "ok" /\ ClaimGuard(r.job)
    <3>1. /\ faults' = faults
          /\ status'[r.job] = "in_progress"
          /\ Executing(w)' /\ Current(w)' = r.job
      BY <2>1, <2>2, <2>7 DEF Call, Applied, Go, Executing, Current
    <3>2. r.job \notin LostJobs'
      BY <3>1 DEF LostJobs
    <3>. QED
      BY <2>4, <3>1, <3>2, ChargedStep
  <2>. QED
    BY <2>5, <2>6, <2>7
<1>6. ASSUME NEW w \in Workers, Executing(w) \/ pc[w] = "incident",
             \A v \in Workers : v # w => UNCHANGED <<pc[v], row[v]>>,
             \A j \in Jobs : j # Current(w) => UNCHANGED <<status[j], incidents[j]>>,
             \/ faults' = faults + 1
             \/ faults' = faults /\ Current(w) \notin LostJobs'
      PROVE  Charged'
  <2>1. LostJobs' \subseteq LostJobs \cup {Current(w)}
    BY <1>6, LosesItsOwn DEF Minds
  <2>. QED
    BY <1>6, <2>1, ChargedStep
<1>7. ASSUME NEW w \in Workers, Complete(w) PROVE Charged'
  <2>1. Executing(w) /\ status[Current(w)] = "in_progress" /\ Current(w) \in Jobs
    BY <1>7 DEF Complete, Executing, ExclusiveExecution, HasRow, Rows, Current
  <2>2. PICK answer \in Answers : Complete(w)!(answer)
    BY <1>7 DEF Complete
  <2>3. answer = "ok" => faults' = faults /\ status'[Current(w)] = "completed"
    BY <2>1, <2>2 DEF Call, Applied
  <2>4. answer # "ok" => faults' = faults + 1
    BY <2>2 DEF Call
  <2>5. answer = "ok" => Current(w) \notin LostJobs'
    BY <2>3 DEF LostJobs
  <2>. QED
    BY <1>6, <2>1, <2>2, <2>3, <2>4, <2>5 DEF Return, Go
<1>8. ASSUME NEW w \in Workers, Reschedule(w) PROVE Charged'
  <2>1. Executing(w) /\ Current(w) \in Jobs
    BY <1>8 DEF Reschedule, Executing, HasRow, Rows, Current
  <2>2. PICK answer \in Answers : Reschedule(w)!(answer)
    BY <1>8 DEF Reschedule
  <2>3. answer = "ok" => faults' = faults /\ status'[Current(w)] = "pending"
    BY <2>1, <2>2 DEF Call, Applied
  <2>4. answer # "ok" => faults' = faults + 1
    BY <2>2 DEF Call
  <2>5. answer = "ok" => Current(w) \notin LostJobs'
    BY <2>3 DEF LostJobs
  <2>. QED
    BY <1>6, <2>1, <2>2, <2>3, <2>4, <2>5 DEF Return, Go
<1>9. ASSUME NEW w \in Workers, FailPermanently(w) PROVE Charged'
  <2>1. Executing(w) /\ Current(w) \in Jobs
    BY <1>9 DEF FailPermanently, Executing, HasRow, Rows, Current
  <2>2. PICK answer \in Answers : FailPermanently(w)!(answer)
    BY <1>9 DEF FailPermanently
  <2>3. answer = "ok" => /\ faults' = faults
                         /\ status'[Current(w)] = "failed_permanently"
                         /\ pc'[w] = "incident" /\ Current(w)' = Current(w)
    BY <2>1, <2>2 DEF Call, Applied, Reports, Go, Current
  <2>4. answer # "ok" => faults' = faults + 1
    BY <2>2 DEF Call
  <2>5. answer = "ok" => Current(w) \notin LostJobs'
    BY <2>3 DEF LostJobs
  <2>. QED
    BY <1>6, <2>1, <2>2, <2>3, <2>4, <2>5 DEF Return, Go
<1>10. ASSUME NEW w \in Workers, OpenIncident(w) PROVE Charged'
  <2>1. /\ pc[w] = "incident" /\ Current(w) \in Jobs
        /\ status[Current(w)] = "failed_permanently" /\ incidents[Current(w)] = 0
    BY <1>10 DEF OpenIncident, HasRow, Rows, Current, IncidentsAreOwedOnce
  <2>2. PICK answer \in Answers : OpenIncident(w)!(answer)
    BY <1>10 DEF OpenIncident
  <2>3. answer = "ok" => /\ faults' = faults
                         /\ status'[Current(w)] = "failed_permanently"
                         /\ incidents'[Current(w)] = 1
    BY <2>1, <2>2 DEF Call, Applied
  <2>4. answer # "ok" => faults' = faults + 1
    BY <2>2 DEF Call
  <2>5. answer = "ok" => Current(w) \notin LostJobs'
    BY <2>3 DEF LostJobs
  <2>. QED
    BY <1>6, <2>1, <2>2, <2>3, <2>4, <2>5 DEF Return, Go
<1>. QED
  BY <1>1, <1>2, <1>3, <1>4, <1>5, <1>7, <1>8, <1>9, <1>10 DEF Next, Loop

\* Whatever moves the lease and whoever runs beside whom, a job that is left
\* behind, or that failed unreported, has cost a failure of its own.
THEOREM LossesAreCharged == Spec => []EachLossTakesAFault
<1>1. Charged => EachLossTakesAFault
  BY DEF Charged, EachLossTakesAFault
<1>. QED
  BY InitCharged, ChargedPreserved, InductiveInvariant, <1>1, PTL DEF Spec

-----------------------------------------------------------------------------
(* The loops run under the gate of the election.                             *)

LEMMA GateStep == ~AlwaysLeader /\ [Next]_vars => [Gate!Next]_(Gate!vars)
<1> SUFFICES ASSUME ~AlwaysLeader, [Next]_vars PROVE [Gate!Next]_(Gate!vars)
  OBVIOUS
<1> USE DEF Gate!Next, Gate!vars, leaseVars
<1>1. ASSUME NEW w \in Workers, AcquireLease(w) \/ LoseLease(w) \/ StopLeading(w)
      PROVE  Gate!Next
  BY <1>1 DEF AcquireLease, LoseLease, StopLeading
<1>2. ASSUME NEW w \in Workers, Crash(w) \/ RestartDead(w) PROVE Gate!Next
  BY <1>2 DEF Crash, RestartDead, Reset
<1>3. ASSUME NEW w \in Workers, Panic(w) \/ Loop(w) PROVE UNCHANGED leaseVars
  BY <1>3 DEF Panic, Loop, RunJobQueue, Claim, Handle, Complete, Reschedule,
              FailPermanently, OpenIncident, EndTick
<1>4. ASSUME NEW j \in Jobs, EnqueueReconciliationJob(j) \/ BackoffElapses(j)
      PROVE  UNCHANGED leaseVars
  BY <1>4 DEF EnqueueReconciliationJob, BackoffElapses
<1>. QED
  BY <1>1, <1>2, <1>3, <1>4 DEF Next, vars

\* In lease mode the queue relies on nothing but the gate that LeaderElection is
\* shown to implement (LeaderLoopsProofs, ElectionImplementsGate).
THEOREM GateIsEnough ==
    ASSUME ~AlwaysLeader
    PROVE  Spec => RunsUnderTheGate
<1>1. Init => Gate!Init
  BY DEF Init, Gate!Init
<1>2. [Next]_vars => [Gate!Next]_(Gate!vars)
  BY GateStep
<1>. QED
  BY <1>1, <1>2, PTL DEF Spec, RunsUnderTheGate, Gate!Spec
=============================================================================
