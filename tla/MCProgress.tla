----------------------------- MODULE MCProgress -----------------------------
(* What must eventually happen, on small instances: the job queue, a local   *)
(* build and the deletion of an app under the fairness of their own modules. *)
(* They share no state, so one of them moves in each behaviour and the state *)
(* spaces add up.                                                            *)

CONSTANTS NoJob, NoWorker, NoApp, Nobody

VARIABLES
    part,  \* the component that moves
    qStatus, qAttempts, qDue, qIncidents, qRuns, qHolder, qLeading, qCampaigning,
    qPc, qBatch, qRow, qResult, qFaults,
    bStatus, bClass, bFinished, bAge, bDispatched, bSent, bAnswered, bSeen,
    bHandling, bApplied, bListed, bFaults,
    dApp, dBound, dHostname, dBuilding, dManifest, dArgo, dPreview, dStep, dOf,
    dTarget, dJobState, dHolds, dJobFor, dTask, dFaults

qVars == <<qStatus, qAttempts, qDue, qIncidents, qRuns, qHolder, qLeading,
           qCampaigning, qPc, qBatch, qRow, qResult, qFaults>>
bVars == <<bStatus, bClass, bFinished, bAge, bDispatched, bSent, bAnswered, bSeen,
           bHandling, bApplied, bListed, bFaults>>
dVars == <<dApp, dBound, dHostname, dBuilding, dManifest, dArgo, dPreview, dStep, dOf,
           dTarget, dJobState, dHolds, dJobFor, dTask, dFaults>>

\* A job and two replicas that lose the lease.
Queue == INSTANCE JobQueue WITH
    Jobs <- {"j1"}, Workers <- {"w1", "w2"}, Registered <- {"j1"},
    MaxAttempts <- 4, BatchSize <- 2, AlwaysLeader <- FALSE, MaxFaults <- 0,
    status <- qStatus, attempts <- qAttempts, due <- qDue, incidents <- qIncidents,
    runs <- qRuns, holder <- qHolder, leading <- qLeading,
    campaigning <- qCampaigning, pc <- qPc, batch <- qBatch, row <- qRow,
    result <- qResult, faults <- qFaults

\* One local build and two faults.
Build == INSTANCE DeployRun WITH
    Runs <- {"l"}, LocalRuns <- {"l"}, WorkflowRuns <- {}, GitHubFetcher <- FALSE,
    MaxFaults <- 2,
    status <- bStatus, class <- bClass, finished <- bFinished, age <- bAge,
    dispatched <- bDispatched, sent <- bSent, answered <- bAnswered, seen <- bSeen,
    handling <- bHandling, applied <- bApplied, listed <- bListed, faults <- bFaults

\* Two generations of an app, every client wired, no redeploy and no fault.
Deletion == INSTANCE DeleteApp WITH
    Apps <- {"a1", "a2"}, Previews <- {"p1", "p2"}, Requests <- {"r1", "r2"},
    Retries <- {}, Workers <- {"w1", "w2"}, CanCancel <- TRUE, HasCloudflare <- TRUE,
    HasGitOps <- TRUE, HasArgoCD <- TRUE, Redeploys <- FALSE, MaxFaults <- 0,
    app <- dApp, bound <- dBound, hostname <- dHostname, building <- dBuilding,
    manifest <- dManifest, argo <- dArgo, preview <- dPreview, step <- dStep,
    of <- dOf, target <- dTarget, jobState <- dJobState, holds <- dHolds,
    jobFor <- dJobFor, task <- dTask, faults <- dFaults

AllInit ==
    /\ part \in {"queue", "build", "deletion"}
    /\ Queue!Init /\ Build!Init /\ Deletion!Init

AllNext ==
    \/ /\ part = "queue" /\ Queue!Next
       /\ UNCHANGED <<part, bVars, dVars>>
    \/ /\ part = "build" /\ Build!Next
       /\ UNCHANGED <<part, qVars, dVars>>
    \/ /\ part = "deletion" /\ Deletion!Next
       /\ UNCHANGED <<part, qVars, bVars>>

\* JobQueue!Fairness, DeployRun!Fairness and DeleteApp!Fairness, each for the
\* behaviours in which its component moves.
QueueFairness ==
    /\ \A w \in {"w1", "w2"} :
          /\ WF_qVars(part = "queue" /\ Queue!Loop(w))
          /\ WF_qVars(part = "queue" /\ Queue!AcquireLease(w))
    /\ \A j \in {"j1"} : WF_qVars(part = "queue" /\ Queue!BackoffElapses(j))

BuildFairness ==
    /\ WF_bVars(part = "build" /\ \E s \in Build!LocalStatuses : Build!SendLocal("l", s))
    /\ WF_bVars(part = "build" /\ Build!TimePasses("l"))
    /\ SF_bVars(part = "build" /\ Build!PullArgo([run |-> "l", from |-> "syncing"]))
    /\ SF_bVars(part = "build" /\ Build!PullWorkflow([run |-> "l", from |-> "building"]))
    /\ \A m \in Build!Messages :
          /\ WF_bVars(part = "build" /\ Build!Deliver(m) /\ m \notin bAnswered)
          /\ WF_bVars(part = "build" /\ Build!Apply(m))
    /\ \A from \in {"building", "syncing"} :
          WF_bVars(part = "build" /\ Build!ListStuck(from))
    /\ WF_bVars(part = "build" /\ \E row \in bListed : Build!Skip(row))

DeletionFairness ==
    /\ WF_dVars(part = "deletion" /\ Deletion!ArgoSync)
    /\ \A r \in {"r1", "r2"} : WF_dVars(part = "deletion" /\ Deletion!Confirm(r))
    /\ \A w \in {"w1", "w2"} :
          /\ WF_dVars(part = "deletion" /\ Deletion!HandleResidue(w))
          /\ WF_dVars(part = "deletion" /\ \E j \in Deletion!Jobs : Deletion!TakeJob(w, j))

AllVars == <<part, qVars, bVars, dVars>>

AllSpec ==
    AllInit /\ [][AllNext]_AllVars /\ QueueFairness /\ BuildFairness /\ DeletionFairness

\* Every queued job gets to a terminal status while a replica can be elected.
QueuedJobsSettle == Queue!QueuedJobsSettle

\* A local build of which nothing is lost ends, and stays ended.
LocalRunsEnd == Build!LocalRunsEnd

\* A run that waits for ArgoCD is resolved whatever callbacks are lost.
SyncingIsResolved == Build!SyncingIsResolved

\* An app that is being deleted goes, or its job fails for good.
DeletingEnds == Deletion!DeletingEnds
=============================================================================
