----------------------------- MODULE DeleteApp -----------------------------
(* Deleting an app: the saga a confirmed preview runs (Confirm,              *)
(* executeReversible and compensate in services/deleteapp), the              *)
(* cleanup_residue job it leaves for the reconciler (HandleResidue), and the *)
(* world outside the database that both have to clear: the Cloudflare        *)
(* hostname, the manifest in the gitops repository, the ArgoCD application.  *)
(*                                                                           *)
(* Jobs live in the queue that JobLifecycle promises and JobQueue implements;*)
(* the actions of that module are used as they stand.  A backend call is one *)
(* step; requests, handlers, builds and ArgoCD interleave between any two.   *)
EXTENDS Integers, FiniteSets

CONSTANTS
    Apps,           \* app rows, one after the other, that bear one slug
    Previews,       \* delete_app previews for that slug
    Requests,       \* confirm requests
    Retries,        \* jobs an operator may add (0ops admin retry-delete)
    Workers,        \* replicas that run jobs
    NoApp, NoJob,
    CanCancel,      \* a workflow client, and runs with a workflow_run_id
    HasCloudflare,  \* the clients handed to deleteapp.New; cmd/server hands
    HasGitOps,      \* over none of them
    HasArgoCD,
    Redeploys,      \* bound: somebody may redeploy the app meanwhile
    MaxFaults       \* bound on failing calls and crashes

\* The job a request inserts bears its name.
Jobs == Requests \cup Retries

ASSUME ConstantsAssumption ==
    /\ Requests \cap Retries = {}
    /\ NoApp \notin Apps
    /\ NoJob \notin Jobs
    /\ MaxFaults \in Nat
    /\ CanCancel \in BOOLEAN /\ HasCloudflare \in BOOLEAN
    /\ HasGitOps \in BOOLEAN /\ HasArgoCD \in BOOLEAN /\ Redeploys \in BOOLEAN

VARIABLES
    app,        \* app[a]: the row, "absent" before and "gone" after its life
    bound,      \* bound[a]: a has domain_binding rows
    hostname,   \* hostname[a]: Cloudflare has the custom hostname of a
    building,   \* building[a]: a build of a is under way
    manifest,   \* whose manifest is in the gitops repository under the slug
    argo,       \* whose resources the ArgoCD application of the slug runs
    preview,    \* preview[p]: "none", "open" or "consumed"
    step,       \* step[r]: where confirm request r is
    of,         \* of[r]: its preview
    target,     \* target[r]: the app it found under the slug
    jobState,   \* the queue, as JobLifecycle sees it
    holds,
    jobFor,     \* jobFor[j]: payload.app_id
    task,       \* task[w]: where the handler of the job w holds is
    faults

rowVars     == <<app, bound>>
worldVars   == <<hostname, building, manifest, argo>>
requestVars == <<preview, step, of, target>>
queueVars   == <<jobState, holds, jobFor>>
vars == <<rowVars, worldVars, requestVars, queueVars, task, faults>>

Queue == INSTANCE JobLifecycle WITH state <- jobState

Answered == {"replayed", "rejected", "done", "conflict", "error", "compensated", "lost"}
Saga == {"cancel", "unbind", "unbind_rows", "remove_manifest", "mark", "enqueue",
         "consume", "mark_compensated", "enqueue_compensated"}

TypeOK ==
    /\ app \in [Apps -> {"absent", "active", "deleting", "delete_compensated", "gone"}]
    /\ bound \in [Apps -> BOOLEAN]
    /\ hostname \in [Apps -> BOOLEAN]
    /\ building \in [Apps -> BOOLEAN]
    /\ manifest \in Apps \cup {NoApp}
    /\ argo \in Apps \cup {NoApp}
    /\ preview \in [Previews -> {"none", "open", "consumed"}]
    /\ step \in [Requests -> {"idle", "load"} \cup Saga \cup Answered]
    /\ of \in [Requests -> SUBSET Previews]
    /\ target \in [Requests -> Apps \cup {NoApp}]
    /\ jobState \in [Jobs -> Queue!States]
    /\ holds \in [Workers -> Jobs \cup {NoJob}]
    /\ jobFor \in [Jobs -> Apps \cup {NoApp}]
    /\ task \in [Workers -> {"idle", "lookup", "prune", "delete", "complete", "retry"}]
    /\ faults \in Nat

Init ==
    /\ app = [a \in Apps |-> "absent"]
    /\ bound = [a \in Apps |-> FALSE]
    /\ hostname = [a \in Apps |-> FALSE]
    /\ building = [a \in Apps |-> FALSE]
    /\ manifest = NoApp
    /\ argo = NoApp
    /\ preview = [p \in Previews |-> "none"]
    /\ step = [r \in Requests |-> "idle"]
    /\ of = [r \in Requests |-> {}]
    /\ target = [r \in Requests |-> NoApp]
    /\ Queue!Init
    /\ jobFor = [j \in Jobs |-> NoApp]
    /\ task = [w \in Workers |-> "idle"]
    /\ faults = 0

-----------------------------------------------------------------------------
HasRow(a) == app[a] \notin {"absent", "gone"}

\* How a call ends: "unknown" took effect, but the caller sees an error.
Answers == {"ok", "lost", "unknown"}

Applied(answer) == answer # "lost"

Call(answer) ==
    /\ answer # "ok" => faults < MaxFaults
    /\ faults' = IF answer = "ok" THEN faults ELSE faults + 1

Goto(r, next) == step' = [step EXCEPT ![r] = next]

-----------------------------------------------------------------------------
(* The rest of the system.                                                   *)

\* create_app: the slug is unique in the team, the first build starts, and a
\* custom domain is attached.
CreateApp(a) ==
    /\ app[a] = "absent"
    /\ \A b \in Apps : ~HasRow(b)
    /\ app' = [app EXCEPT ![a] = "active"]
    /\ bound' = [bound EXCEPT ![a] = TRUE]
    /\ hostname' = [hostname EXCEPT ![a] = TRUE]
    /\ building' = [building EXCEPT ![a] = TRUE]
    /\ UNCHANGED <<manifest, argo, requestVars, queueVars, task, faults>>

\* redeploy refuses a paused app, not one that is being deleted.
Redeploy(a) ==
    /\ Redeploys
    /\ HasRow(a)
    /\ ~building[a]
    /\ building' = [building EXCEPT ![a] = TRUE]
    /\ UNCHANGED <<rowVars, hostname, manifest, argo, requestVars, queueVars, task, faults>>

\* deploy-app.yml pushes the manifest, under the slug.
PublishManifest(a) ==
    /\ building[a]
    /\ manifest' = a
    /\ building' = [building EXCEPT ![a] = FALSE]
    /\ UNCHANGED <<rowVars, hostname, argo, requestVars, queueVars, task, faults>>

\* ArgoCD applies or prunes.
ArgoSync ==
    /\ argo # manifest
    /\ argo' = manifest
    /\ UNCHANGED <<rowVars, hostname, building, manifest, requestVars, queueVars, task, faults>>

\* Preview: there must be an app that is not being deleted.
CreatePreview(p) ==
    /\ preview[p] = "none"
    /\ \E a \in Apps : HasRow(a) /\ app[a] # "deleting"
    /\ preview' = [preview EXCEPT ![p] = "open"]
    /\ UNCHANGED <<rowVars, worldVars, step, of, target, queueVars, task, faults>>

-----------------------------------------------------------------------------
(* Confirm.                                                                  *)

\* GetPreview: a consumed preview is answered with its last_result.
GetPreview(r, p) ==
    /\ step[r] = "idle"
    /\ preview[p] # "none"
    /\ Goto(r, IF preview[p] = "open" THEN "load" ELSE "replayed")
    /\ of' = [of EXCEPT ![r] = {p}]
    /\ UNCHANGED <<rowVars, worldVars, preview, target, queueVars, task, faults>>

\* GetTeamAppBySlug, with the slug of the preview: whichever app bears it now.
LoadApp(r) ==
    /\ step[r] = "load"
    /\ \/ \E a \in Apps :
             /\ HasRow(a)
             /\ app[a] # "deleting"
             /\ target' = [target EXCEPT ![r] = a]
             /\ Goto(r, "cancel")
       \/ /\ \A a \in Apps : HasRow(a) => app[a] = "deleting"
          /\ Goto(r, "rejected")
          /\ UNCHANGED target
    /\ UNCHANGED <<rowVars, worldVars, preview, of, queueVars, task, faults>>

\* R1.  Listing the runs must succeed; cancelling one is best effort, and
\* stops the build only if the workflow can be cancelled.
CancelBuilds(r) ==
    \E answer \in Answers :
        LET a == target[r]
        IN  /\ step[r] = "cancel"
            /\ Call(answer)
            /\ building' = [building EXCEPT ![a] = @ /\ ~(CanCancel /\ HasRow(a) /\ Applied(answer))]
            /\ \/ Goto(r, "unbind")
               \/ answer = "lost" /\ Goto(r, "mark_compensated")
            /\ UNCHANGED <<rowVars, hostname, manifest, argo, preview, of, target, queueVars, task>>

\* R2.  A hostname that stays is noted in the payload of the job.
UnbindHostnames(r) ==
    \E answer \in Answers :
        LET a == target[r]
        IN  /\ step[r] = "unbind"
            /\ Call(answer)
            /\ hostname' = [hostname EXCEPT ![a] = @ /\ ~(HasCloudflare /\ bound[a] /\ Applied(answer))]
            /\ \/ Goto(r, "unbind_rows")
               \/ answer = "lost" /\ Goto(r, "mark_compensated")
            /\ UNCHANGED <<rowVars, building, manifest, argo, preview, of, target, queueVars, task>>

\* R3.
DeleteDomainBindings(r) ==
    \E answer \in Answers :
        /\ step[r] = "unbind_rows"
        /\ Call(answer)
        /\ bound' = [bound EXCEPT ![target[r]] = @ /\ ~Applied(answer)]
        /\ Goto(r, IF answer = "ok" THEN "remove_manifest" ELSE "mark_compensated")
        /\ UNCHANGED <<app, worldVars, preview, of, target, queueVars, task>>

\* R4.  The directory is the slug's.  Without a client the removal is put off:
\* the payload says so.
RemoveManifest(r) ==
    \E answer \in Answers :
        /\ step[r] = "remove_manifest"
        /\ ~HasGitOps => answer = "ok"
        /\ Call(answer)
        /\ manifest' = IF HasGitOps /\ Applied(answer) THEN NoApp ELSE manifest
        /\ Goto(r, IF answer = "ok" THEN "mark" ELSE "mark_compensated")
        /\ UNCHANGED <<rowVars, hostname, building, argo, preview, of, target, queueVars, task>>

\* UpdateAppStatus asks nothing of the old status; a row that is gone is an
\* error.
UpdateAppStatus(a, status, answer) ==
    app' = IF HasRow(a) /\ Applied(answer) THEN [app EXCEPT ![a] = status] ELSE app

MarkDeleting(r) ==
    \E answer \in Answers :
        /\ step[r] = "mark"
        /\ Call(answer)
        /\ UpdateAppStatus(target[r], "deleting", answer)
        /\ Goto(r, IF HasRow(target[r]) /\ answer = "ok" THEN "enqueue" ELSE "mark_compensated")
        /\ UNCHANGED <<bound, worldVars, preview, of, target, queueVars, task>>

\* compensate undoes nothing: it marks the row and enqueues the same job.
MarkCompensated(r) ==
    \E answer \in Answers :
        /\ step[r] = "mark_compensated"
        /\ Call(answer)
        /\ UpdateAppStatus(target[r], "delete_compensated", answer)
        /\ Goto(r, "enqueue_compensated")
        /\ UNCHANGED <<bound, worldVars, preview, of, target, queueVars, task>>

\* EnqueueReconciliationJob; an error is audited and the saga goes on.
EnqueueResidue(r) ==
    \E answer \in Answers :
        /\ step[r] \in {"enqueue", "enqueue_compensated"}
        /\ Call(answer)
        /\ IF Applied(answer)
           THEN Queue!Submit(r) /\ jobFor' = [jobFor EXCEPT ![r] = target[r]]
           ELSE UNCHANGED queueVars
        /\ Goto(r, IF step[r] = "enqueue" THEN "consume" ELSE "compensated")
        /\ UNCHANGED <<rowVars, worldVars, preview, of, target, task>>

\* The WHERE clause of ConsumePreviewWithResult.
IsUnconsumed(p) == preview[p] = "open"

ConsumePreview(r) ==
    \E answer \in Answers, p \in of[r] :
        /\ step[r] = "consume"
        /\ Call(answer)
        /\ preview' = IF Applied(answer) THEN [preview EXCEPT ![p] = "consumed"] ELSE preview
        /\ Goto(r, IF answer # "ok" THEN "error"
                   ELSE IF IsUnconsumed(p) THEN "done" ELSE "conflict")
        /\ UNCHANGED <<rowVars, worldVars, of, target, queueVars, task>>

\* The process dies under a request.
LoseRequest(r) ==
    /\ step[r] \in Saga
    /\ faults < MaxFaults
    /\ faults' = faults + 1
    /\ Goto(r, "lost")
    /\ UNCHANGED <<rowVars, worldVars, preview, of, target, queueVars, task>>

Confirm(r) ==
    \/ LoadApp(r) \/ CancelBuilds(r) \/ UnbindHostnames(r) \/ DeleteDomainBindings(r)
    \/ RemoveManifest(r) \/ MarkDeleting(r) \/ MarkCompensated(r) \/ EnqueueResidue(r)
    \/ ConsumePreview(r)

-----------------------------------------------------------------------------
(* The cleanup_residue job.                                                  *)

\* RetryStuckDelete, for an app that is deleting.
RetryStuckDelete(j, a) ==
    /\ app[a] = "deleting"
    /\ Queue!Submit(j)
    /\ jobFor' = [jobFor EXCEPT ![j] = a]
    /\ UNCHANGED <<rowVars, worldVars, requestVars, task, faults>>

TakeJob(w, j) ==
    /\ Queue!Take(w, j)
    /\ task' = [task EXCEPT ![w] = "lookup"]
    /\ UNCHANGED <<rowVars, worldVars, requestVars, jobFor, faults>>

\* Mutant: the lookup leaves out apps that are being deleted.
HidesDeleting == \A a \in Apps : app[a] # "active"

\* GetTeamAppBySlug finds no row, in whatever status.
SlugIsFree == \A a \in Apps : ~HasRow(a)

\* HandleResidue, step 1: is there an app under the slug?
LookupApp(w) ==
    \E answer \in {"ok", "lost"} :
        /\ task[w] = "lookup"
        /\ Call(answer)
        /\ task' = [task EXCEPT ![w] = IF answer # "ok" THEN "retry"
                                      ELSE IF SlugIsFree THEN "complete" ELSE "prune"]
        /\ UNCHANGED <<rowVars, worldVars, requestVars, queueVars>>

\* ApplicationExists, by slug; without a checker there is no application.
Pruned == HasArgoCD => argo = NoApp

\* Step 2: wait for ArgoCD.
AwaitPrune(w) ==
    \E answer \in {"ok", "lost"} :
        /\ task[w] = "prune"
        /\ Call(answer)
        /\ task' = [task EXCEPT ![w] = IF answer = "ok" /\ Pruned THEN "delete" ELSE "retry"]
        /\ UNCHANGED <<rowVars, worldVars, requestVars, queueVars>>

\* Mutant: the row is deleted by slug.
BySlug(j) == {a \in Apps : HasRow(a)}

\* DeleteAppByID: the rows the DELETE finds, in whatever status.
ById(j) == {a \in Apps : HasRow(a) /\ a = jobFor[j]}

\* Step 3: no row is no error.
HardDelete(w) ==
    \E answer \in Answers :
        LET dying == IF Applied(answer) THEN ById(holds[w]) ELSE {}
        IN  /\ task[w] = "delete"
            /\ Call(answer)
            /\ app' = [a \in Apps |-> IF a \in dying THEN "gone" ELSE app[a]]
            /\ bound' = [a \in Apps |-> bound[a] /\ a \notin dying]
            /\ task' = [task EXCEPT ![w] = IF answer = "ok" THEN "complete" ELSE "retry"]
            /\ UNCHANGED <<worldVars, requestVars, queueVars>>

\* The runner completes the job, gives it back, or gives it up.
Settle(w) ==
    /\ \/ task[w] = "complete" /\ Queue!Release(w, "completed")
       \/ /\ task[w] = "retry"
          /\ Queue!Release(w, "pending") \/ Queue!Release(w, "failed_permanently")
    /\ task' = [task EXCEPT ![w] = "idle"]
    /\ UNCHANGED <<rowVars, worldVars, requestVars, jobFor, faults>>

\* The replica dies, or the UPDATE that ends the job fails.
AbandonJob(w) ==
    /\ faults < MaxFaults
    /\ faults' = faults + 1
    /\ Queue!Abandon(w)
    /\ task' = [task EXCEPT ![w] = "idle"]
    /\ UNCHANGED <<rowVars, worldVars, requestVars, jobFor>>

HandleResidue(w) == LookupApp(w) \/ AwaitPrune(w) \/ HardDelete(w) \/ Settle(w)

-----------------------------------------------------------------------------
Next ==
    \/ ArgoSync
    \/ \E a \in Apps : CreateApp(a) \/ Redeploy(a) \/ PublishManifest(a)
    \/ \E p \in Previews : CreatePreview(p)
    \/ \E r \in Requests, p \in Previews : GetPreview(r, p)
    \/ \E r \in Requests : Confirm(r) \/ LoseRequest(r)
    \/ \E j \in Retries, a \in Apps : RetryStuckDelete(j, a)
    \/ \E w \in Workers, j \in Jobs : TakeJob(w, j)
    \/ \E w \in Workers : HandleResidue(w) \/ AbandonJob(w)

Spec == Init /\ [][Next]_vars

\* A request runs to its end, the queue serves pending jobs (JobQueue shows
\* when it does) and ArgoCD synchronises.  Nobody has to create, redeploy,
\* publish, confirm or retry anything.
Fairness ==
    /\ WF_vars(ArgoSync)
    /\ \A r \in Requests : WF_vars(Confirm(r))
    /\ \A w \in Workers : WF_vars(HandleResidue(w)) /\ WF_vars(\E j \in Jobs : TakeJob(w, j))

FairSpec == Spec /\ Fairness

-----------------------------------------------------------------------------
(* Safety.                                                                   *)

\* A completed job has done its work: the app it was enqueued for is gone,
\* although the handler looks for an app by slug and takes "none" for an answer.
CompletedMeansGone ==
    \A j \in Jobs : jobState[j] = "completed" => app[jobFor[j]] = "gone"

\* A row is only removed by a job enqueued for it: a job left over from an app
\* never removes the next app under the same slug.
AppsDieByTheirOwnJob ==
    [][\A a \in Apps : HasRow(a) /\ ~HasRow(a)'
          => \E w \in Workers : holds[w] # NoJob /\ jobFor[holds[w]] = a]_vars

\* An app that is being deleted has somebody to finish it: the confirm that
\* marked it is about to enqueue its job, or a job for it is queued, being
\* handled or given up to an operator.  Only a failure leaves it without.
DeletingIsAttended ==
    \A a \in Apps : app[a] = "deleting" =>
        \/ \E r \in Requests : target[r] = a /\ step[r] = "enqueue"
        \/ \E j \in Jobs : /\ jobFor[j] = a
                           /\ \/ jobState[j] \in {"pending", "failed_permanently"}
                              \/ \E w \in Workers : holds[w] = j
        \/ faults > 0

\* Of all the confirms of one preview, which may run their sagas side by side,
\* one at most is told that it is done.
OneDonePerPreview ==
    \A r, q \in Requests :
        step[r] = "done" /\ step[q] = "done" /\ of[r] \cap of[q] # {} => r = q

\* No two handlers run for one job, and a job that is handled is in progress:
\* what the handler does to the world it does alone.
OneHandlerPerJob ==
    \A w \in Workers : holds[w] # NoJob =>
        /\ jobState[holds[w]] = "in_progress"
        /\ \A v \in Workers : v # w => holds[v] # holds[w]

\* The jobs of deletions ask nothing of the queue that JobLifecycle, and with it
\* JobQueue, does not give them.
LivesByTheLifecycle == Queue!Spec

-----------------------------------------------------------------------------
(* Liveness.                                                                 *)

\* An app that is being deleted goes, or a job for it has failed for good and
\* waits for an operator.
DeletingEnds ==
    \A a \in Apps : (app[a] = "deleting") ~>
        \/ app[a] = "gone"
        \/ \E j \in Jobs : jobFor[j] = a /\ jobState[j] = "failed_permanently"
=============================================================================
