-------------------------- MODULE DeleteAppProofs --------------------------
(* Proofs about DeleteApp, for any apps, previews, requests, operator        *)
(* retries, replicas, wiring of the clients and budget of faults.            *)
EXTENDS DeleteApp, TLAPS

\* The types of the variables the argument is about.
Types ==
    /\ app \in [Apps -> {"absent", "active", "deleting", "delete_compensated", "gone"}]
    /\ step \in [Requests -> {"idle", "load"} \cup Saga \cup Answered]
    /\ target \in [Requests -> Apps \cup {NoApp}]
    /\ jobState \in [Jobs -> Queue!States]
    /\ holds \in [Workers -> Jobs \cup {NoJob}]
    /\ jobFor \in [Jobs -> Apps \cup {NoApp}]
    /\ task \in [Workers -> {"idle", "lookup", "prune", "delete", "complete", "retry"}]

\* a has been an app.
Known(a) == a \in Apps /\ app[a] # "absent"

\* What a request works on has been an app.
TargetsAreKnown == \A r \in Requests : step[r] \in Saga => Known(target[r])

\* So has what a job was enqueued for.
JobsAreKnown == \A j \in Jobs : jobState[j] # "absent" => Known(jobFor[j])

\* A handler runs for a job that exists.
TasksHaveJobs ==
    \A w \in Workers :
        /\ task[w] # "idle" => holds[w] # NoJob
        /\ holds[w] # NoJob => jobState[holds[w]] # "absent"

\* A handler reports completion once the app of its job is gone: it has deleted
\* it, or has seen no app at all under the slug.
CompletionIsEarned ==
    \A w \in Workers : task[w] = "complete" => app[jobFor[holds[w]]] = "gone"

\* The inductive invariant.
IInv ==
    /\ Types
    /\ TargetsAreKnown
    /\ JobsAreKnown
    /\ TasksHaveJobs
    /\ CompletionIsEarned
    /\ CompletedMeansGone

-----------------------------------------------------------------------------
LEMMA InitEstablishes == Init => IInv
BY ConstantsAssumption
   DEF Init, IInv, Types, TargetsAreKnown, JobsAreKnown, TasksHaveJobs, Known,
       CompletionIsEarned, CompletedMeansGone, Saga, Queue!Init, Queue!States

\* A request that moves on, with its target, and leaves apps and jobs alone.
LEMMA RequestStep ==
    ASSUME IInv, NEW r \in Requests, step[r] \in Saga,
           NEW next \in Saga \cup Answered,
           step' = [step EXCEPT ![r] = next],
           app' = app \/ \E s \in {"deleting", "delete_compensated"} :
                            HasRow(target[r]) /\ app' = [app EXCEPT ![target[r]] = s],
           UNCHANGED <<target, jobState, holds, jobFor, task>>
    PROVE  IInv'
<1> USE DEF IInv, Types
<1>1. app' \in [Apps -> {"absent", "active", "deleting", "delete_compensated", "gone"}]
  OBVIOUS
<1>2. \A a \in Apps : /\ app[a] = "gone" => app'[a] = "gone"
                      /\ app[a] # "absent" => app'[a] # "absent"
  BY DEF HasRow, TargetsAreKnown, Known
<1>3. step' \in [Requests -> {"idle", "load"} \cup Saga \cup Answered]
  OBVIOUS
<1>4. TargetsAreKnown'
  BY <1>2 DEF TargetsAreKnown, Known
<1>5. JobsAreKnown'
  BY <1>2 DEF JobsAreKnown, Known
<1>6. TasksHaveJobs'
  BY DEF TasksHaveJobs
<1>7. CompletionIsEarned'
  BY <1>2 DEF CompletionIsEarned, TasksHaveJobs, JobsAreKnown, Known
<1>8. CompletedMeansGone'
  BY <1>2 DEF CompletedMeansGone, JobsAreKnown, Known
<1>. QED
  BY <1>1, <1>3, <1>4, <1>5, <1>6, <1>7, <1>8

\* A job is enqueued for an app.
LEMMA SubmitStep ==
    ASSUME IInv, NEW j \in Jobs, NEW a, Known(a),
           Queue!Submit(j), jobFor' = [jobFor EXCEPT ![j] = a],
           UNCHANGED <<app, task>>
    PROVE  /\ jobState' \in [Jobs -> Queue!States]
           /\ holds' = holds
           /\ jobFor' \in [Jobs -> Apps \cup {NoApp}]
           /\ JobsAreKnown' /\ TasksHaveJobs' /\ CompletionIsEarned' /\ CompletedMeansGone'
<1> USE DEF IInv, Types, Queue!Submit
<1>1. jobState' \in [Jobs -> Queue!States] /\ holds' = holds
  BY DEF Queue!States
<1>2. jobFor' \in [Jobs -> Apps \cup {NoApp}]
  BY DEF Known
<1>3. JobsAreKnown'
  BY <1>1, <1>2 DEF JobsAreKnown, Known
<1>4. TasksHaveJobs'
  BY <1>1 DEF TasksHaveJobs
<1>5. \A w \in Workers : holds[w] # NoJob => holds[w] # j
  BY DEF TasksHaveJobs
<1>6. CompletionIsEarned'
  BY <1>1, <1>5 DEF CompletionIsEarned, TasksHaveJobs
<1>7. CompletedMeansGone'
  BY <1>1 DEF CompletedMeansGone
<1>. QED
  BY <1>1, <1>2, <1>3, <1>4, <1>6, <1>7

\* A handler gets one step further; apps may go, none comes back.
LEMMA TaskStep ==
    ASSUME IInv, NEW w \in Workers, task[w] # "idle",
           NEW next \in {"prune", "delete", "complete", "retry"},
           task' = [task EXCEPT ![w] = next],
           app' \in [Apps -> {"absent", "active", "deleting", "delete_compensated", "gone"}],
           \A a \in Apps : app'[a] = app[a] \/ (HasRow(a) /\ app'[a] = "gone"),
           next = "complete" => app'[jobFor[holds[w]]] = "gone",
           UNCHANGED <<step, target, jobState, holds, jobFor>>
    PROVE  IInv'
<1> USE DEF IInv, Types
<1>1. \A a \in Apps : /\ app[a] = "gone" => app'[a] = "gone"
                      /\ app[a] # "absent" => app'[a] # "absent"
  BY DEF HasRow
<1>2. TargetsAreKnown'
  BY <1>1 DEF TargetsAreKnown, Known
<1>3. JobsAreKnown'
  BY <1>1 DEF JobsAreKnown, Known
<1>4. TasksHaveJobs'
  BY DEF TasksHaveJobs
<1>5. \A v \in Workers : v # w => task'[v] = task[v]
  OBVIOUS
<1>6. CompletionIsEarned'
  BY <1>1, <1>5 DEF CompletionIsEarned, TasksHaveJobs, JobsAreKnown, Known
<1>7. CompletedMeansGone'
  BY <1>1 DEF CompletedMeansGone, JobsAreKnown, Known
<1>. QED
  BY <1>2, <1>3, <1>4, <1>6, <1>7

-----------------------------------------------------------------------------
LEMMA ConfirmPreserves ==
    ASSUME IInv, NEW r \in Requests, Confirm(r)
    PROVE  IInv'
<1> USE DEF worldVars, queueVars, Goto
<1>1. CASE LoadApp(r)
  <2> USE DEF IInv, Types
  <2>1. UNCHANGED <<app, jobState, holds, jobFor, task>>
    BY <1>1 DEF LoadApp, rowVars
  <2>2. \/ /\ step' = [step EXCEPT ![r] = "rejected"]
           /\ UNCHANGED target
        \/ \E a \in Apps : /\ app[a] # "absent"
                           /\ step' = [step EXCEPT ![r] = "cancel"]
                           /\ target' = [target EXCEPT ![r] = a]
    BY <1>1 DEF LoadApp, HasRow
  <2>3. /\ step' \in [Requests -> {"idle", "load"} \cup Saga \cup Answered]
        /\ target' \in [Requests -> Apps \cup {NoApp}]
    BY <2>2 DEF Saga, Answered
  <2>4. TargetsAreKnown'
    BY <2>1, <2>2 DEF TargetsAreKnown, Known, Saga
  <2>. QED
    BY <2>1, <2>3, <2>4 DEF JobsAreKnown, Known, TasksHaveJobs, CompletionIsEarned,
                            CompletedMeansGone
<1>2. CASE CancelBuilds(r)
  BY <1>2, RequestStep DEF CancelBuilds, rowVars, Saga
<1>3. CASE UnbindHostnames(r)
  BY <1>3, RequestStep DEF UnbindHostnames, rowVars, Saga
<1>4. CASE DeleteDomainBindings(r)
  BY <1>4, RequestStep DEF DeleteDomainBindings, Saga
<1>5. CASE RemoveManifest(r)
  BY <1>5, RequestStep DEF RemoveManifest, rowVars, Saga
<1>6. CASE MarkDeleting(r)
  BY <1>6, RequestStep DEF MarkDeleting, UpdateAppStatus, Saga
<1>7. CASE MarkCompensated(r)
  BY <1>7, RequestStep DEF MarkCompensated, UpdateAppStatus, Saga
<1>8. CASE EnqueueResidue(r)
  <2>1. PICK answer \in Answers : EnqueueResidue(r)!(answer)
    BY <1>8 DEF EnqueueResidue
  <2>2. /\ step[r] \in Saga
        /\ step' = [step EXCEPT ![r] = "consume"] \/ step' = [step EXCEPT ![r] = "compensated"]
        /\ UNCHANGED <<app, target, task>>
    BY <2>1 DEF Saga, rowVars
  <2>3. CASE ~Applied(answer)
    BY <2>1, <2>2, <2>3, RequestStep DEF Saga, Answered
  <2>4. CASE Applied(answer)
    <3>1. r \in Jobs /\ Known(target[r])
      BY <2>2 DEF Jobs, IInv, TargetsAreKnown
    <3>2. Queue!Submit(r) /\ jobFor' = [jobFor EXCEPT ![r] = target[r]]
      BY <2>1, <2>4
    <3>3. step' \in [Requests -> {"idle", "load"} \cup Saga \cup Answered]
      BY <2>2 DEF IInv, Types, Saga, Answered
    <3>4. TargetsAreKnown'
      BY <2>2 DEF IInv, Types, TargetsAreKnown, Known
    <3>5. Types' /\ JobsAreKnown' /\ TasksHaveJobs' /\ CompletionIsEarned' /\ CompletedMeansGone'
      BY <2>2, <3>1, <3>2, <3>3, SubmitStep DEF IInv, Types
    <3>. QED
      BY <3>4, <3>5 DEF IInv
  <2>. QED
    BY <2>3, <2>4
<1>9. CASE ConsumePreview(r)
  BY <1>9, RequestStep DEF ConsumePreview, rowVars, Saga, Answered
<1>. QED
  BY <1>1, <1>2, <1>3, <1>4, <1>5, <1>6, <1>7, <1>8, <1>9 DEF Confirm

LEMMA HandlerPreserves ==
    ASSUME IInv, NEW w \in Workers, HandleResidue(w)
    PROVE  IInv'
<1>0. task[w] # "idle" => Known(jobFor[holds[w]]) /\ holds[w] \in Jobs
  BY DEF IInv, Types, TasksHaveJobs, JobsAreKnown
<1>1. CASE LookupApp(w)
  <2>1. /\ task[w] = "lookup"
        /\ UNCHANGED <<app, step, target, jobState, holds, jobFor>>
    BY <1>1 DEF LookupApp, rowVars, requestVars, queueVars
  <2>2. \/ task' = [task EXCEPT ![w] = "retry"]
        \/ task' = [task EXCEPT ![w] = "prune"]
        \/ task' = [task EXCEPT ![w] = "complete"] /\ SlugIsFree
    BY <1>1 DEF LookupApp
  <2>3. SlugIsFree => app[jobFor[holds[w]]] = "gone"
    BY <1>0, <2>1 DEF SlugIsFree, HasRow, Known
  <2>. QED
    BY <2>1, <2>2, <2>3, TaskStep DEF IInv, Types
<1>2. CASE AwaitPrune(w)
  <2>1. /\ task[w] = "prune"
        /\ UNCHANGED <<app, step, target, jobState, holds, jobFor>>
        /\ task' = [task EXCEPT ![w] = "retry"] \/ task' = [task EXCEPT ![w] = "delete"]
    BY <1>2 DEF AwaitPrune, rowVars, requestVars, queueVars
  <2>. QED
    BY <2>1, TaskStep DEF IInv, Types
<1>3. CASE HardDelete(w)
  <2>1. PICK answer \in Answers : HardDelete(w)!(answer)
    BY <1>3 DEF HardDelete
  <2>. DEFINE dying == IF Applied(answer) THEN ById(holds[w]) ELSE {}
  <2>2. /\ task[w] = "delete"
        /\ app' = [a \in Apps |-> IF a \in dying THEN "gone" ELSE app[a]]
        /\ task' = [task EXCEPT ![w] = IF answer = "ok" THEN "complete" ELSE "retry"]
        /\ UNCHANGED <<step, target, jobState, holds, jobFor>>
    BY <2>1 DEF requestVars, queueVars
  <2>3. /\ app' \in [Apps -> {"absent", "active", "deleting", "delete_compensated", "gone"}]
        /\ \A a \in Apps : app'[a] = app[a] \/ (HasRow(a) /\ app'[a] = "gone")
    BY <2>2 DEF IInv, Types, ById
  <2>4. answer = "ok" => app'[jobFor[holds[w]]] = "gone"
    BY <1>0, <2>2 DEF Applied, ById, Known, HasRow
  <2>. QED
    BY <2>2, <2>3, <2>4, TaskStep
<1>4. CASE Settle(w)
  <2> USE DEF IInv, Types
  <2>1. PICK s \in {"completed", "pending", "failed_permanently"} :
          /\ holds[w] # NoJob
          /\ jobState' = [jobState EXCEPT ![holds[w]] = s]
          /\ holds' = [holds EXCEPT ![w] = NoJob]
          /\ task' = [task EXCEPT ![w] = "idle"]
          /\ s = "completed" => task[w] = "complete"
          /\ UNCHANGED <<app, step, target, jobFor>>
    BY <1>4 DEF Settle, Queue!Release, rowVars, requestVars
  <2>2. holds[w] \in Jobs
    BY <2>1
  <2>3. jobState' \in [Jobs -> Queue!States] /\ holds' \in [Workers -> Jobs \cup {NoJob}]
    BY <2>1, <2>2 DEF Queue!States, Queue!Terminal
  <2>4. /\ TargetsAreKnown'
        /\ JobsAreKnown'
    BY <2>1, <2>2 DEF TargetsAreKnown, JobsAreKnown, TasksHaveJobs, Known
  <2>5. TasksHaveJobs'
    BY <2>1, <2>2 DEF TasksHaveJobs
  <2>6. CompletionIsEarned'
    BY <2>1 DEF CompletionIsEarned
  <2>7. CompletedMeansGone'
    BY <2>1, <2>2 DEF CompletedMeansGone, CompletionIsEarned
  <2>. QED
    BY <2>1, <2>3, <2>4, <2>5, <2>6, <2>7
<1>. QED
  BY <1>1, <1>2, <1>3, <1>4 DEF HandleResidue

LEMMA NextPreserves == IInv /\ [Next]_vars => IInv'
<1> SUFFICES ASSUME IInv, [Next]_vars PROVE IInv'
  OBVIOUS
<1>0. ASSUME UNCHANGED <<app, step, target, jobState, holds, jobFor, task>> PROVE IInv'
  BY <1>0 DEF IInv, Types, TargetsAreKnown, JobsAreKnown, TasksHaveJobs, Known,
              CompletionIsEarned, CompletedMeansGone
<1>1. CASE ArgoSync
  BY <1>0, <1>1 DEF ArgoSync, rowVars, requestVars, queueVars
<1>2. ASSUME NEW a \in Apps, CreateApp(a) PROVE IInv'
  <2> USE DEF IInv, Types
  <2>1. /\ app[a] = "absent"
        /\ app' = [app EXCEPT ![a] = "active"]
        /\ UNCHANGED <<step, target, jobState, holds, jobFor, task>>
    BY <1>2 DEF CreateApp, requestVars, queueVars
  <2>. QED
    BY <2>1 DEF TargetsAreKnown, JobsAreKnown, TasksHaveJobs, Known,
                CompletionIsEarned, CompletedMeansGone
<1>3. ASSUME NEW a \in Apps, Redeploy(a) \/ PublishManifest(a) PROVE IInv'
  BY <1>0, <1>3 DEF Redeploy, PublishManifest, rowVars, requestVars, queueVars
<1>4. ASSUME NEW p \in Previews, CreatePreview(p) PROVE IInv'
  BY <1>0, <1>4 DEF CreatePreview, rowVars, queueVars
<1>5. ASSUME NEW r \in Requests, NEW p \in Previews, GetPreview(r, p) PROVE IInv'
  <2> USE DEF IInv, Types
  <2>1. /\ \/ step' = [step EXCEPT ![r] = "load"]
           \/ step' = [step EXCEPT ![r] = "replayed"]
        /\ UNCHANGED <<app, target, jobState, holds, jobFor, task>>
    BY <1>5 DEF GetPreview, Goto, rowVars, queueVars
  <2>2. step' \in [Requests -> {"idle", "load"} \cup Saga \cup Answered]
    BY <2>1 DEF Answered
  <2>3. TargetsAreKnown'
    BY <2>1 DEF TargetsAreKnown, Known, Saga
  <2>. QED
    BY <2>1, <2>2, <2>3 DEF JobsAreKnown, TasksHaveJobs, Known, CompletionIsEarned,
                            CompletedMeansGone
<1>6. ASSUME NEW r \in Requests, Confirm(r) PROVE IInv'
  BY <1>6, ConfirmPreserves
<1>7. ASSUME NEW r \in Requests, LoseRequest(r) PROVE IInv'
  BY <1>7, RequestStep DEF LoseRequest, Goto, Answered, rowVars, queueVars
<1>8. ASSUME NEW j \in Retries, NEW a \in Apps, RetryStuckDelete(j, a) PROVE IInv'
  <2>1. /\ j \in Jobs
        /\ Known(a)
        /\ Queue!Submit(j) /\ jobFor' = [jobFor EXCEPT ![j] = a]
        /\ UNCHANGED <<app, step, target, task>>
    BY <1>8 DEF RetryStuckDelete, Jobs, Known, rowVars, requestVars
  <2>2. TargetsAreKnown'
    BY <2>1 DEF IInv, TargetsAreKnown, Known
  <2>3. Types' /\ JobsAreKnown' /\ TasksHaveJobs' /\ CompletionIsEarned' /\ CompletedMeansGone'
    BY <2>1, SubmitStep DEF IInv, Types
  <2>. QED
    BY <2>2, <2>3 DEF IInv
<1>9. ASSUME NEW w \in Workers, NEW j \in Jobs, TakeJob(w, j) PROVE IInv'
  <2> USE DEF IInv, Types
  <2>1. /\ jobState[j] = "pending"
        /\ jobState' = [jobState EXCEPT ![j] = "in_progress"]
        /\ holds' = [holds EXCEPT ![w] = j]
        /\ task' = [task EXCEPT ![w] = "lookup"]
        /\ UNCHANGED <<app, step, target, jobFor>>
    BY <1>9 DEF TakeJob, Queue!Take, rowVars, requestVars
  <2>2. jobState' \in [Jobs -> Queue!States] /\ holds' \in [Workers -> Jobs \cup {NoJob}]
    BY <2>1 DEF Queue!States
  <2>3. TargetsAreKnown' /\ JobsAreKnown'
    BY <2>1 DEF TargetsAreKnown, JobsAreKnown, Known
  <2>4. TasksHaveJobs'
    BY <2>1, ConstantsAssumption DEF TasksHaveJobs
  <2>5. CompletionIsEarned' /\ CompletedMeansGone'
    BY <2>1 DEF CompletionIsEarned, CompletedMeansGone
  <2>. QED
    BY <2>1, <2>2, <2>3, <2>4, <2>5
<1>10. ASSUME NEW w \in Workers, HandleResidue(w) PROVE IInv'
  BY <1>10, HandlerPreserves
<1>11. ASSUME NEW w \in Workers, AbandonJob(w) PROVE IInv'
  <2> USE DEF IInv, Types
  <2>1. /\ holds' = [holds EXCEPT ![w] = NoJob]
        /\ task' = [task EXCEPT ![w] = "idle"]
        /\ UNCHANGED <<app, step, target, jobState, jobFor>>
    BY <1>11 DEF AbandonJob, Queue!Abandon, rowVars, requestVars
  <2>. QED
    BY <2>1 DEF TargetsAreKnown, JobsAreKnown, TasksHaveJobs, Known, CompletionIsEarned,
                CompletedMeansGone
<1>12. CASE UNCHANGED vars
  BY <1>0, <1>12 DEF vars, rowVars, requestVars, queueVars
<1>. QED
  BY <1>1, <1>2, <1>3, <1>4, <1>5, <1>6, <1>7, <1>8, <1>9, <1>10, <1>11, <1>12 DEF Next

\* The inductive invariant holds in every reachable state.
THEOREM InductiveInvariant == Spec => []IInv
BY InitEstablishes, NextPreserves, PTL DEF Spec

\* A completed cleanup job has removed the app it was enqueued for.
THEOREM Completion == Spec => []CompletedMeansGone
BY InductiveInvariant, PTL DEF IInv

-----------------------------------------------------------------------------
\* Only the DELETE of a handler takes a row away.
LEMMA OnlyHandlersDelete ==
    ASSUME IInv, [Next]_vars, NEW a \in Apps, HasRow(a), ~HasRow(a)'
    PROVE  \E w \in Workers : holds[w] # NoJob /\ jobFor[holds[w]] = a
<1> USE DEF IInv, Types, HasRow
<1>0. ASSUME UNCHANGED app PROVE FALSE
  BY <1>0
<1>1. ASSUME NEW r \in Requests, Confirm(r) PROVE FALSE
  <2>1. app' = app \/ \E s \in {"deleting", "delete_compensated"} :
                        app' = [app EXCEPT ![target[r]] = s]
    BY <1>1 DEF Confirm, LoadApp, CancelBuilds, UnbindHostnames, DeleteDomainBindings,
                RemoveManifest, MarkDeleting, MarkCompensated, UpdateAppStatus,
                EnqueueResidue, ConsumePreview, rowVars
  <2>. QED
    BY <1>0, <2>1
<1>2. ASSUME NEW b \in Apps, CreateApp(b) PROVE FALSE
  BY <1>2 DEF CreateApp
<1>3. ASSUME NEW w \in Workers, HardDelete(w)
      PROVE  holds[w] # NoJob /\ jobFor[holds[w]] = a
  BY <1>3 DEF HardDelete, ById, TasksHaveJobs
<1>4. ASSUME NEW w \in Workers, \/ LookupApp(w) \/ AwaitPrune(w) \/ Settle(w)
                                \/ AbandonJob(w) \/ \E j \in Jobs : TakeJob(w, j)
      PROVE  FALSE
  BY <1>0, <1>4 DEF LookupApp, AwaitPrune, Settle, AbandonJob, TakeJob, rowVars
<1>5. ASSUME \/ ArgoSync \/ \E b \in Apps : Redeploy(b) \/ PublishManifest(b)
             \/ \E p \in Previews : CreatePreview(p)
             \/ \E r \in Requests, p \in Previews : GetPreview(r, p)
             \/ \E r \in Requests : LoseRequest(r)
             \/ \E j \in Retries, b \in Apps : RetryStuckDelete(j, b)
             \/ UNCHANGED vars
      PROVE  FALSE
  BY <1>0, <1>5 DEF ArgoSync, Redeploy, PublishManifest, CreatePreview, GetPreview,
                    LoseRequest, RetryStuckDelete, vars, rowVars
<1>. QED
  BY <1>1, <1>2, <1>3, <1>4, <1>5 DEF Next, HandleResidue

\* No app row is removed but by a job enqueued for that app.
THEOREM OwnJob == Spec => AppsDieByTheirOwnJob
<1>1. IInv /\ [Next]_vars =>
        [\A a \in Apps : HasRow(a) /\ ~HasRow(a)'
            => \E w \in Workers : holds[w] # NoJob /\ jobFor[holds[w]] = a]_vars
  BY OnlyHandlersDelete
<1>. QED
  BY InductiveInvariant, <1>1, PTL DEF Spec, AppsDieByTheirOwnJob

-----------------------------------------------------------------------------
(* The jobs live by JobLifecycle.                                            *)

\* Every step moves the queue by one of its actions, or leaves it alone.
LEMMA QueueStep == [Next]_vars => [Queue!Next]_(Queue!vars)
<1> SUFFICES ASSUME [Next]_vars PROVE [Queue!Next]_(Queue!vars)
  OBVIOUS
<1> USE DEF Queue!Next, Queue!vars
<1>1. ASSUME NEW r \in Requests, EnqueueResidue(r) PROVE [Queue!Next]_(Queue!vars)
  <2>1. r \in Jobs /\ (Queue!Submit(r) \/ UNCHANGED queueVars)
    BY <1>1 DEF EnqueueResidue, Jobs
  <2>. QED
    BY <2>1 DEF queueVars
<1>2. ASSUME NEW r \in Requests,
             \/ LoadApp(r) \/ CancelBuilds(r) \/ UnbindHostnames(r) \/ DeleteDomainBindings(r)
             \/ RemoveManifest(r) \/ MarkDeleting(r) \/ MarkCompensated(r)
             \/ ConsumePreview(r) \/ LoseRequest(r)
      PROVE  UNCHANGED queueVars
  BY <1>2 DEF LoadApp, CancelBuilds, UnbindHostnames, DeleteDomainBindings, RemoveManifest,
              MarkDeleting, MarkCompensated, ConsumePreview, LoseRequest
<1>3. ASSUME NEW j \in Retries, NEW a \in Apps, RetryStuckDelete(j, a) PROVE Queue!Next
  BY <1>3 DEF RetryStuckDelete, Jobs
<1>4. ASSUME NEW w \in Workers, NEW j \in Jobs, TakeJob(w, j) PROVE Queue!Next
  BY <1>4 DEF TakeJob
<1>5. ASSUME NEW w \in Workers, Settle(w) PROVE Queue!Next
  <2>1. \E s \in {"completed", "failed_permanently", "pending"} : Queue!Release(w, s)
    BY <1>5 DEF Settle
  <2>. QED
    BY <2>1 DEF Queue!Terminal
<1>6. ASSUME NEW w \in Workers, AbandonJob(w) PROVE Queue!Next
  BY <1>6 DEF AbandonJob
<1>7. ASSUME NEW w \in Workers, LookupApp(w) \/ AwaitPrune(w) \/ HardDelete(w)
      PROVE  UNCHANGED queueVars
  BY <1>7 DEF LookupApp, AwaitPrune, HardDelete
<1>8. ASSUME \/ ArgoSync \/ \E a \in Apps : CreateApp(a) \/ Redeploy(a) \/ PublishManifest(a)
             \/ \E p \in Previews : CreatePreview(p)
             \/ \E r \in Requests, p \in Previews : GetPreview(r, p)
             \/ UNCHANGED vars
      PROVE  UNCHANGED queueVars
  BY <1>8 DEF ArgoSync, CreateApp, Redeploy, PublishManifest, CreatePreview, GetPreview, vars
<1>. QED
  BY <1>1, <1>2, <1>3, <1>4, <1>5, <1>6, <1>7, <1>8 DEF Next, Confirm, HandleResidue, queueVars

\* What a deletion does with its jobs is what the queue offers.
THEOREM QueueIsEnough == Spec => LivesByTheLifecycle
<1>1. Init => Queue!Init
  BY DEF Init
<1>. QED
  BY <1>1, QueueStep, PTL DEF Spec, LivesByTheLifecycle, Queue!Spec

\* The queue keeps a job for the one that holds it.
LEMMA LifecycleExcludes ==
    ASSUME OneHandlerPerJob, [Queue!Next]_(Queue!vars),
           jobState \in [Jobs -> Queue!States], holds \in [Workers -> Jobs \cup {NoJob}]
    PROVE  OneHandlerPerJob'
<1> USE ConstantsAssumption DEF OneHandlerPerJob
<1>1. ASSUME NEW j \in Jobs, Queue!Submit(j) \/ Queue!Strand(j) PROVE OneHandlerPerJob'
  BY <1>1 DEF Queue!Submit, Queue!Strand
<1>2. ASSUME NEW w \in Workers, NEW j \in Jobs, Queue!Take(w, j) PROVE OneHandlerPerJob'
  BY <1>2 DEF Queue!Take
<1>3. ASSUME NEW w \in Workers, NEW s, Queue!Release(w, s) PROVE OneHandlerPerJob'
  BY <1>3 DEF Queue!Release
<1>4. ASSUME NEW w \in Workers, Queue!Abandon(w) PROVE OneHandlerPerJob'
  BY <1>4 DEF Queue!Abandon
<1>5. CASE UNCHANGED Queue!vars
  BY <1>5 DEF Queue!vars
<1>. QED
  BY <1>1, <1>2, <1>3, <1>4, <1>5 DEF Queue!Next

\* No two replicas ever handle one job: from the lifecycle alone.
THEOREM HandlersAreAlone == Spec => []OneHandlerPerJob
<1>1. Init => OneHandlerPerJob
  BY DEF Init, Queue!Init, OneHandlerPerJob
<1>2. IInv /\ OneHandlerPerJob /\ [Next]_vars => OneHandlerPerJob'
  BY QueueStep, LifecycleExcludes DEF IInv, Types
<1>. QED
  BY <1>1, <1>2, InductiveInvariant, PTL DEF Spec

-----------------------------------------------------------------------------
(* Who looks after an app that is being deleted.                             *)

\* Its job is about to be enqueued, or was.
Accounted(a) ==
    \/ \E r \in Requests : target[r] = a /\ step[r] = "enqueue"
    \/ \E j \in Jobs : jobFor[j] = a /\ jobState[j] # "absent"

\* A job in progress is handled.
Running(j) == jobState[j] = "in_progress" => \E w \in Workers : holds[w] = j

\* As long as nothing failed, every deletion is accounted for and every job that
\* was taken is handled.
Attended ==
    /\ faults \in Nat
    /\ faults = 0 =>
          /\ \A a \in Apps : app[a] = "deleting" => Accounted(a)
          /\ \A j \in Jobs : Running(j)

LEMMA InitAttended == Init => Attended
BY DEF Init, Attended, Running, Queue!Init

\* A call that costs no failure was answered.
LEMMA FreeCalls ==
    ASSUME faults \in Nat, NEW answer, Call(answer)
    PROVE  /\ faults' \in Nat
           /\ faults' = 0 => faults = 0 /\ answer = "ok"
BY DEF Call

\* A step that takes nothing from those who attend: requests about to enqueue
\* stay, and so do jobs and their handlers.
LEMMA StaysAttended ==
    ASSUME IInv, Attended, faults' \in Nat, faults' = 0 => faults = 0,
           faults' = 0 => \A a \in Apps : app'[a] = "deleting" => app[a] = "deleting" \/ Accounted(a)',
           faults' = 0 => \A r \in Requests : step[r] = "enqueue"
                            => step'[r] = "enqueue" /\ target'[r] = target[r],
           UNCHANGED <<jobState, holds, jobFor>>
    PROVE  Attended'
<1>1. ASSUME faults' = 0, NEW a \in Apps, Accounted(a) PROVE Accounted(a)'
  BY <1>1 DEF Accounted
<1>2. \A j \in Jobs : UNCHANGED Running(j)
  BY DEF Running
<1>. QED
  BY <1>1, <1>2 DEF Attended

LEMMA ConfirmAttends ==
    ASSUME IInv, Attended, NEW r \in Requests, Confirm(r)
    PROVE  Attended'
<1> USE DEF queueVars, Goto
<1>0. faults \in Nat
  BY DEF Attended
<1>1. CASE LoadApp(r)
  <2>1. /\ UNCHANGED <<app, jobState, holds, jobFor, faults>>
        /\ \A q \in Requests : step[q] = "enqueue"
              => step'[q] = "enqueue" /\ target'[q] = target[q]
    BY <1>1 DEF LoadApp, rowVars, IInv, Types
  <2>. QED
    BY <1>0, <2>1, StaysAttended
<1>2. CASE CancelBuilds(r) \/ UnbindHostnames(r) \/ DeleteDomainBindings(r)
           \/ RemoveManifest(r) \/ ConsumePreview(r)
  <2>1. PICK answer \in Answers :
          /\ Call(answer)
          /\ UNCHANGED <<app, target, jobState, holds, jobFor>>
          /\ step[r] # "enqueue"
          /\ \E s \in Saga \cup Answered : step' = [step EXCEPT ![r] = s]
    BY <1>2 DEF CancelBuilds, UnbindHostnames, DeleteDomainBindings, RemoveManifest,
                ConsumePreview, rowVars, Saga, Answered
  <2>2. \A q \in Requests : step[q] = "enqueue" => step'[q] = "enqueue"
    BY <2>1 DEF IInv, Types
  <2>. QED
    BY <1>0, <2>1, <2>2, FreeCalls, StaysAttended
<1>3. CASE MarkDeleting(r)
  <2>1. PICK answer \in Answers : MarkDeleting(r)!(answer)
    BY <1>3 DEF MarkDeleting
  <2>2. /\ Call(answer)
        /\ UNCHANGED <<target, jobState, holds, jobFor>>
        /\ app' = app \/ (HasRow(target[r]) /\ app' = [app EXCEPT ![target[r]] = "deleting"])
    BY <2>1 DEF UpdateAppStatus
  <2>3. HasRow(target[r]) /\ answer = "ok" => step'[r] = "enqueue"
    BY <2>1 DEF IInv, Types
  <2>4. \A q \in Requests : step[q] = "enqueue" => step'[q] = "enqueue"
    BY <2>1 DEF IInv, Types
  <2>5. ASSUME answer = "ok", NEW a \in Apps, app'[a] = "deleting", app[a] # "deleting"
        PROVE  Accounted(a)'
    BY <2>2, <2>3, <2>5 DEF Accounted, IInv, Types
  <2>. QED
    BY <1>0, <2>2, <2>4, <2>5, FreeCalls, StaysAttended
<1>4. CASE MarkCompensated(r)
  <2>1. PICK answer \in Answers : MarkCompensated(r)!(answer)
    BY <1>4 DEF MarkCompensated
  <2>2. /\ Call(answer)
        /\ UNCHANGED <<target, jobState, holds, jobFor>>
        /\ \A a \in Apps : app'[a] = "deleting" => app[a] = "deleting"
        /\ \A q \in Requests : step[q] = "enqueue" => step'[q] = "enqueue"
    BY <2>1 DEF UpdateAppStatus, IInv, Types
  <2>. QED
    BY <1>0, <2>2, FreeCalls, StaysAttended
<1>5. CASE EnqueueResidue(r)
  <2>1. PICK answer \in Answers : EnqueueResidue(r)!(answer)
    BY <1>5 DEF EnqueueResidue
  <2>2. faults' \in Nat /\ (faults' = 0 => faults = 0 /\ answer = "ok")
    BY <1>0, <2>1, FreeCalls
  <2>3. CASE answer # "ok"
    BY <2>2, <2>3 DEF Attended
  <2>4. CASE answer = "ok"
    <3>1. /\ r \in Jobs
          /\ jobState[r] = "absent" /\ jobState' = [jobState EXCEPT ![r] = "pending"]
          /\ jobFor' = [jobFor EXCEPT ![r] = target[r]]
          /\ UNCHANGED <<app, target, holds>>
          /\ \A q \in Requests : q # r => step'[q] = step[q]
      BY <2>1, <2>4 DEF Applied, Queue!Submit, Jobs, rowVars
    <3>2. ASSUME NEW a \in Apps, Accounted(a) PROVE Accounted(a)'
      <4>1. jobFor'[r] = target[r] /\ jobState'[r] # "absent"
        BY <3>1 DEF IInv, Types
      <4>2. ASSUME NEW q \in Requests, target[q] = a, step[q] = "enqueue"
            PROVE  Accounted(a)'
        BY <3>1, <4>1, <4>2 DEF Accounted
      <4>3. ASSUME NEW j \in Jobs, jobFor[j] = a, jobState[j] # "absent"
            PROVE  Accounted(a)'
        <5>1. j # r /\ jobFor'[j] = a /\ jobState'[j] # "absent"
          BY <3>1, <4>3 DEF IInv, Types
        <5>. QED
          BY <5>1 DEF Accounted
      <4>. QED
        BY <3>2, <4>2, <4>3 DEF Accounted
    <3>3. ASSUME NEW j \in Jobs, Running(j) PROVE Running(j)'
      BY <3>1, <3>3 DEF Running, IInv, Types
    <3>. QED
      BY <2>2, <3>1, <3>2, <3>3 DEF Attended
  <2>. QED
    BY <2>3, <2>4
<1>. QED
  BY <1>1, <1>2, <1>3, <1>4, <1>5 DEF Confirm

LEMMA HandlerAttends ==
    ASSUME IInv, Attended, NEW w \in Workers, HandleResidue(w)
    PROVE  Attended'
<1>0. faults \in Nat
  BY DEF Attended
<1>1. CASE LookupApp(w) \/ AwaitPrune(w) \/ HardDelete(w)
  <2>1. PICK answer \in Answers :
          /\ Call(answer)
          /\ UNCHANGED <<step, target, jobState, holds, jobFor>>
          /\ \A a \in Apps : app'[a] = "deleting" => app[a] = "deleting"
    BY <1>1 DEF LookupApp, AwaitPrune, HardDelete, Answers, rowVars, requestVars, queueVars
  <2>. QED
    BY <1>0, <2>1, FreeCalls, StaysAttended
<1>2. CASE Settle(w)
  <2>1. PICK s \in {"completed", "pending", "failed_permanently"} :
          /\ holds[w] # NoJob
          /\ jobState' = [jobState EXCEPT ![holds[w]] = s]
          /\ holds' = [holds EXCEPT ![w] = NoJob]
          /\ UNCHANGED <<app, step, target, jobFor, faults>>
    BY <1>2 DEF Settle, Queue!Release, rowVars, requestVars
  <2>2. holds[w] \in Jobs
    BY <2>1 DEF IInv, Types
  <2>3. ASSUME NEW a \in Apps, Accounted(a) PROVE Accounted(a)'
    BY <2>1, <2>2, <2>3 DEF Accounted, IInv, Types
  <2>4. ASSUME NEW j \in Jobs, Running(j) PROVE Running(j)'
    BY <2>1, <2>2, <2>4 DEF Running, IInv, Types
  <2>. QED
    BY <2>1, <2>3, <2>4 DEF Attended
<1>. QED
  BY <1>1, <1>2 DEF HandleResidue

LEMMA AttendedPreserved == IInv /\ Attended /\ [Next]_vars => Attended'
<1> SUFFICES ASSUME IInv, Attended, [Next]_vars PROVE Attended'
  OBVIOUS
<1>0. faults \in Nat
  BY DEF Attended
<1>1. ASSUME NEW a \in Apps, CreateApp(a) PROVE Attended'
  <2>1. /\ UNCHANGED <<step, target, jobState, holds, jobFor, faults>>
        /\ \A b \in Apps : app'[b] = "deleting" => app[b] = "deleting"
    BY <1>1 DEF CreateApp, requestVars, queueVars
  <2>. QED
    BY <1>0, <2>1, StaysAttended
<1>2. CASE \/ ArgoSync
           \/ \E a \in Apps : Redeploy(a) \/ PublishManifest(a)
           \/ \E p \in Previews : CreatePreview(p)
           \/ UNCHANGED vars
  <2>1. UNCHANGED <<app, step, target, jobState, holds, jobFor, faults>>
    BY <1>2 DEF ArgoSync, Redeploy, PublishManifest, CreatePreview, vars, rowVars, requestVars,
                queueVars
  <2>. QED
    BY <1>0, <2>1, StaysAttended
<1>3. ASSUME NEW r \in Requests, NEW p \in Previews, GetPreview(r, p) PROVE Attended'
  <2>1. /\ UNCHANGED <<app, target, jobState, holds, jobFor, faults>>
        /\ \A q \in Requests : step[q] = "enqueue" => step'[q] = "enqueue"
    BY <1>3 DEF GetPreview, Goto, rowVars, queueVars, IInv, Types
  <2>. QED
    BY <1>0, <2>1, StaysAttended
<1>4. ASSUME NEW r \in Requests, Confirm(r) PROVE Attended'
  BY <1>4, ConfirmAttends
<1>5. CASE \/ \E r \in Requests : LoseRequest(r)
           \/ \E w \in Workers : AbandonJob(w)
  <2>1. faults' = faults + 1
    BY <1>5 DEF LoseRequest, AbandonJob
  <2>. QED
    BY <1>0, <2>1 DEF Attended
<1>6. ASSUME NEW j \in Retries, NEW a \in Apps, RetryStuckDelete(j, a) PROVE Attended'
  <2>1. /\ j \in Jobs
        /\ jobState[j] = "absent" /\ jobState' = [jobState EXCEPT ![j] = "pending"]
        /\ jobFor' = [jobFor EXCEPT ![j] = a]
        /\ UNCHANGED <<app, step, target, holds, faults>>
    BY <1>6 DEF RetryStuckDelete, Queue!Submit, Jobs, rowVars, requestVars
  <2>2. ASSUME NEW b \in Apps, Accounted(b) PROVE Accounted(b)'
    BY <2>1, <2>2 DEF Accounted, IInv, Types
  <2>3. ASSUME NEW i \in Jobs, Running(i) PROVE Running(i)'
    BY <2>1, <2>3 DEF Running, IInv, Types
  <2>. QED
    BY <2>1, <2>2, <2>3 DEF Attended
<1>7. ASSUME NEW w \in Workers, NEW j \in Jobs, TakeJob(w, j) PROVE Attended'
  <2>1. /\ holds[w] = NoJob
        /\ jobState[j] = "pending"
        /\ jobState' = [jobState EXCEPT ![j] = "in_progress"]
        /\ holds' = [holds EXCEPT ![w] = j]
        /\ UNCHANGED <<app, step, target, jobFor, faults>>
    BY <1>7 DEF TakeJob, Queue!Take, rowVars, requestVars
  <2>2. ASSUME NEW b \in Apps, Accounted(b) PROVE Accounted(b)'
    BY <2>1, <2>2 DEF Accounted, IInv, Types
  <2>3. ASSUME NEW i \in Jobs, Running(i) PROVE Running(i)'
    BY <2>1, <2>3, ConstantsAssumption DEF Running, IInv, Types
  <2>. QED
    BY <2>1, <2>2, <2>3 DEF Attended
<1>8. ASSUME NEW w \in Workers, HandleResidue(w) PROVE Attended'
  BY <1>8, HandlerAttends
<1>. QED
  BY <1>1, <1>2, <1>3, <1>4, <1>5, <1>6, <1>7, <1>8 DEF Next

\* No deletion is forgotten but by a failure: the safety half of DeletingEnds.
THEOREM DeletionsAreAttended == Spec => []DeletingIsAttended
<1>1. ASSUME IInv, Attended PROVE DeletingIsAttended
  <2> SUFFICES ASSUME NEW a \in Apps, app[a] = "deleting", faults = 0,
                      NEW j \in Jobs, jobFor[j] = a, jobState[j] # "absent"
               PROVE  \/ jobState[j] \in {"pending", "failed_permanently"}
                      \/ \E w \in Workers : holds[w] = j
    BY <1>1 DEF DeletingIsAttended, Attended, Accounted
  <2>1. jobState[j] # "completed"
    BY <1>1 DEF IInv, CompletedMeansGone
  <2>2. jobState[j] \in {"pending", "in_progress", "failed_permanently"}
    BY <1>1, <2>1 DEF IInv, Types, Queue!States, Queue!Terminal
  <2>. QED
    BY <1>1, <2>2 DEF Attended, Running
<1>. QED
  BY <1>1, InitAttended, AttendedPreserved, InductiveInvariant, PTL DEF Spec

-----------------------------------------------------------------------------
(* What the confirms of one preview are told.                                *)

\* A confirm works for one preview, and what was done has consumed its own.
Consumed ==
    /\ preview \in [Previews -> {"none", "open", "consumed"}]
    /\ of \in [Requests -> SUBSET Previews]
    /\ \A r \in Requests : \A p, q \in of[r] : p = q
    /\ \A r \in Requests : step[r] = "done" => \A p \in of[r] : preview[p] = "consumed"
    /\ OneDonePerPreview

LEMMA ConsumedPreserved == IInv /\ Consumed /\ [Next]_vars => Consumed'
<1> SUFFICES ASSUME Types, Consumed, [Next]_vars PROVE Consumed'
  BY DEF IInv
<1> USE DEF Consumed, OneDonePerPreview, Types
<1>1. ASSUME UNCHANGED <<preview, of>>,
             \A r \in Requests : step'[r] = "done" => step[r] = "done"
      PROVE  Consumed'
  BY <1>1
<1>2. ASSUME NEW r \in Requests, ConsumePreview(r) PROVE Consumed'
  <2>1. PICK answer \in Answers, p \in of[r] : ConsumePreview(r)!(answer, p)
    BY <1>2 DEF ConsumePreview
  <2>2. /\ p \in Previews /\ of[r] = {p}
        /\ of' = of
        /\ preview' = IF Applied(answer) THEN [preview EXCEPT ![p] = "consumed"] ELSE preview
    BY <2>1
  <2>3. \A q \in Requests : q # r => step'[q] = step[q]
    BY <2>1 DEF Goto
  <2>4. CASE answer = "ok" /\ IsUnconsumed(p)
    <3>1. preview[p] = "open" /\ preview'[p] = "consumed"
      BY <2>2, <2>4 DEF IsUnconsumed, Applied
    <3>2. \A q \in Requests : step[q] = "done" => p \notin of[q]
      BY <3>1
    <3>3. \A p2 \in Previews : preview[p2] = "consumed" => preview'[p2] = "consumed"
      BY <2>2
    <3>4. preview' \in [Previews -> {"none", "open", "consumed"}]
      BY <2>2
    <3>. QED
      BY <2>2, <2>3, <3>1, <3>2, <3>3, <3>4
  <2>5. CASE ~(answer = "ok" /\ IsUnconsumed(p))
    <3>1. step'[r] # "done"
      BY <2>1, <2>5 DEF Goto
    <3>2. \A p2 \in Previews : preview[p2] = "consumed" => preview'[p2] = "consumed"
      BY <2>2
    <3>3. preview' \in [Previews -> {"none", "open", "consumed"}]
      BY <2>2
    <3>. QED
      BY <2>2, <2>3, <3>1, <3>2, <3>3
  <2>. QED
    BY <2>4, <2>5
<1>3. ASSUME NEW r \in Requests, NEW p \in Previews, GetPreview(r, p) PROVE Consumed'
  <2>1. /\ of' = [of EXCEPT ![r] = {p}]
        /\ step'[r] # "done"
        /\ \A q \in Requests : q # r => step'[q] = step[q]
        /\ UNCHANGED preview
    BY <1>3 DEF GetPreview, Goto
  <2>. QED
    BY <2>1
<1>4. ASSUME NEW p \in Previews, CreatePreview(p) PROVE Consumed'
  BY <1>4 DEF CreatePreview
<1>5. ASSUME NEW r \in Requests,
             \/ LoadApp(r) \/ CancelBuilds(r) \/ UnbindHostnames(r) \/ DeleteDomainBindings(r)
             \/ RemoveManifest(r) \/ MarkDeleting(r) \/ MarkCompensated(r) \/ EnqueueResidue(r)
             \/ LoseRequest(r)
      PROVE  Consumed'
  <2>1. \A next : next # "done" /\ Goto(r, next) =>
            \A q \in Requests : step'[q] = "done" => step[q] = "done"
    BY DEF Goto
  <2>2. CASE LoadApp(r) \/ EnqueueResidue(r) \/ LoseRequest(r)
    BY <1>1, <2>1, <2>2 DEF LoadApp, EnqueueResidue, LoseRequest
  <2>3. CASE CancelBuilds(r) \/ UnbindHostnames(r) \/ DeleteDomainBindings(r)
    BY <1>1, <2>1, <2>3 DEF CancelBuilds, UnbindHostnames, DeleteDomainBindings
  <2>4. CASE RemoveManifest(r) \/ MarkDeleting(r) \/ MarkCompensated(r)
    BY <1>1, <2>1, <2>4 DEF RemoveManifest, MarkDeleting, MarkCompensated
  <2>. QED
    BY <1>5, <2>2, <2>3, <2>4
<1>6. ASSUME UNCHANGED requestVars PROVE Consumed'
  BY <1>1, <1>6 DEF requestVars
<1>7. ASSUME \/ ArgoSync
             \/ \E a \in Apps : CreateApp(a) \/ Redeploy(a) \/ PublishManifest(a)
             \/ \E j \in Retries, a \in Apps : RetryStuckDelete(j, a)
             \/ \E w \in Workers, j \in Jobs : TakeJob(w, j)
             \/ \E w \in Workers : HandleResidue(w) \/ AbandonJob(w)
             \/ UNCHANGED vars
      PROVE  UNCHANGED requestVars
  BY <1>7 DEF ArgoSync, CreateApp, Redeploy, PublishManifest, RetryStuckDelete, TakeJob,
              HandleResidue, LookupApp, AwaitPrune, HardDelete, Settle, AbandonJob, vars
<1>. QED
  BY <1>2, <1>3, <1>4, <1>5, <1>6, <1>7 DEF Next, Confirm

\* Confirms of one preview may race through the whole saga; one at most hears
\* that it is done.
THEOREM OneIsDone == Spec => []OneDonePerPreview
<1>1. Init => Consumed
  BY DEF Init, Consumed, OneDonePerPreview
<1>2. Consumed => OneDonePerPreview
  BY DEF Consumed
<1>. QED
  BY <1>1, <1>2, ConsumedPreserved, InductiveInvariant, PTL DEF Spec
=============================================================================
