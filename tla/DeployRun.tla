----------------------------- MODULE DeployRun -----------------------------
(* The life of deploy_run rows, as its three independent writers make it:    *)
(* the callback endpoint (deployRunCallbackHandler, apps.go), which the      *)
(* build pipeline posts to; the reconciler's two scanners; and the delete    *)
(* saga, which cancels what is in flight.                                    *)
(*                                                                           *)
(* A callback is handled in two statements: its delivery id is recorded      *)
(* (RegisterWebhookDelivery), then the row is written (ApplyDeployCallback). *)
(* Requests are handled concurrently, so anything may happen in between.     *)
EXTENDS Integers, FiniteSets

CONSTANTS
    Runs,           \* rows of deploy_run
    LocalRuns,      \* runs built by localbuild.Dispatcher; GitHub Actions has
                    \* the others
    WorkflowRuns,   \* runs whose workflow_run_id is set (no statement of the
                    \* repository sets it, so none in production)
    GitHubFetcher,  \* the deploy_status scanner has a fetcher (cmd/server
                    \* passes nil)
    MaxFaults       \* bound on lost requests, timeouts, errors and crashes

ASSUME ConstantsAssumption ==
    /\ LocalRuns \subseteq Runs
    /\ WorkflowRuns \subseteq Runs
    /\ GitHubFetcher \in BOOLEAN
    /\ MaxFaults \in Nat

VARIABLES
    status,      \* status[r]: column status, "absent" before the INSERT
    class,       \* class[r]: who set failure_classification, "none" for NULL
    finished,    \* finished[r]: finished_at is set
    age,         \* age[r]: time since started_at, as the thresholds see it
    dispatched,  \* dispatched[r]: the pipeline has been started
    sent,        \* callbacks posted and not lost
    answered,    \* callbacks whose sender has an answer, or gave up waiting
    seen,        \* delivery ids in webhook_dedup
    handling,    \* callbacks between their two statements
    applied,     \* applied[m]: times callback m was written to its row
    listed,      \* rows a scanner has listed and not processed yet
    faults

rowVars  == <<status, class, finished>>
sendVars == <<dispatched, sent, answered>>
hookVars == <<seen, handling, applied>>
vars == <<rowVars, age, sendVars, hookVars, listed, faults>>

Terminal == {"live", "failed", "canceled", "rolled_back", "failed_permanently"}
Building == {"queued", "building", "pushing", "rendering", "syncing"}

\* The statuses with a failure_classification, by the CHECK constraint.
Classified == {"failed", "rolled_back", "failed_permanently"}

Ages == {"fresh", "past_syncing_timeout", "past_building_timeout"}

\* What the pipelines post, normalised by normalizeDeployStatus.
LocalStatuses  == {"building", "pushing", "rendering", "syncing", "live", "failed"}
ActionStatuses == {"live", "failed", "canceled"}

Messages == [run : LocalRuns, status : LocalStatuses]
    \cup [run : Runs \ LocalRuns, status : ActionStatuses]

\* Only localbuild classifies a failure; deploy-app.yml posts the job status.
ClassOf(m) == IF m.run \in LocalRuns /\ m.status = "failed" THEN "pipeline" ELSE "none"

\* Mutants: the id is the run's for every sender, or the callback's for every
\* sender.
IdPerRun(m)    == [run |-> m.run, status |-> "any"]
IdPerStatus(m) == [run |-> m.run, status |-> m.status]

\* The delivery id: localbuild makes one per callback; without the header the
\* handler takes the run id.
DeliveryId(m) ==
    [run |-> m.run, status |-> IF m.run \in LocalRuns THEN m.status ELSE "any"]

DeliveryIds == [run : Runs, status : LocalStatuses \cup {"any"}]

TypeOK ==
    /\ status \in [Runs -> {"absent"} \cup Building \cup Terminal]
    /\ class \in [Runs -> {"none", "pipeline", "reconciler"}]
    /\ finished \in [Runs -> BOOLEAN]
    /\ age \in [Runs -> Ages]
    /\ dispatched \in [Runs -> BOOLEAN]
    /\ sent \in SUBSET Messages
    /\ answered \in SUBSET Messages
    /\ seen \in SUBSET DeliveryIds
    /\ handling \in SUBSET Messages
    /\ applied \in [Messages -> Nat]
    /\ listed \in SUBSET [run : Runs, from : {"building", "syncing"}]
    /\ faults \in Nat

Fault == faults < MaxFaults /\ faults' = faults + 1

Init ==
    /\ status = [r \in Runs |-> "absent"]
    /\ class = [r \in Runs |-> "none"]
    /\ finished = [r \in Runs |-> FALSE]
    /\ age = [r \in Runs |-> "fresh"]
    /\ dispatched = [r \in Runs |-> FALSE]
    /\ sent = {}
    /\ answered = {}
    /\ seen = {}
    /\ handling = {}
    /\ applied = [m \in Messages |-> 0]
    /\ listed = {}
    /\ faults = 0

-----------------------------------------------------------------------------
(* Producers, time, the pipelines.                                           *)

\* create_app or redeploy inserts the row as queued and dispatches the build.
\* A dispatch that fails leaves the row of a redeploy behind.
InsertRun(r) ==
    /\ status[r] = "absent"
    /\ status' = [status EXCEPT ![r] = "queued"]
    /\ \/ dispatched' = [dispatched EXCEPT ![r] = TRUE] /\ UNCHANGED faults
       \/ Fault /\ UNCHANGED dispatched
    /\ UNCHANGED <<class, finished, age, sent, answered, hookVars, listed>>

\* started_at is the time of the INSERT: both thresholds count from there.
TimePasses(r) ==
    /\ status[r] # "absent"
    /\ age[r] # "past_building_timeout"
    /\ age' = [age EXCEPT ![r] = IF age[r] = "fresh" THEN "past_syncing_timeout"
                                                     ELSE "past_building_timeout"]
    /\ UNCHANGED <<rowVars, sendVars, hookVars, listed, faults>>

\* localbuild posts its statuses in this order; it fails after building or
\* after pushing.
Precedes(s, t) ==
    <<s, t>> \in {<<"building", "pushing">>, <<"pushing", "rendering">>,
                  <<"rendering", "syncing">>, <<"syncing", "live">>,
                  <<"building", "failed">>, <<"pushing", "failed">>}

Posted(r, s) == [run |-> r, status |-> s] \in sent \cup answered

\* It goes on once the last post is answered; an error is only logged.
SendLocal(r, s) ==
    /\ r \in LocalRuns
    /\ dispatched[r]
    /\ ~Posted(r, s)
    /\ s # "building" => \E p \in LocalStatuses :
                            /\ Precedes(p, s)
                            /\ [run |-> r, status |-> p] \in answered
                            /\ \A t \in LocalStatuses : Precedes(p, t) => ~Posted(r, t)
    /\ sent' = sent \cup {[run |-> r, status |-> s]}
    /\ UNCHANGED <<rowVars, age, dispatched, answered, hookVars, listed, faults>>

\* The workflow posts once, when its job ends; a re-run of the job posts again.
SendAction(r, s) ==
    /\ r \in Runs \ LocalRuns
    /\ dispatched[r]
    /\ s \in ActionStatuses
    /\ ~Posted(r, s)
    /\ sent' = sent \cup {[run |-> r, status |-> s]}
    /\ UNCHANGED <<rowVars, age, dispatched, answered, hookVars, listed, faults>>

\* The client stops waiting (5 s) for a request the server still has.
ClientTimeout(m) ==
    /\ m \in sent \ answered
    /\ Fault
    /\ answered' = answered \cup {m}
    /\ UNCHANGED <<rowVars, age, dispatched, sent, hookVars, listed>>

\* The request never arrives: the sender gets an error, and does not retry.
Lose(m) ==
    /\ m \in sent \ answered
    /\ m \notin handling
    /\ Fault
    /\ sent' = sent \ {m}
    /\ answered' = answered \cup {m}
    /\ UNCHANGED <<rowVars, age, dispatched, hookVars, listed>>

-----------------------------------------------------------------------------
(* The callback endpoint.                                                    *)

\* A failure without a classification is answered 400 before anything is kept.
Rejected(m) == m.status = "failed" /\ ClassOf(m) = "none"

\* Mutant: the answer of RegisterWebhookDelivery is not looked at.
AlwaysNew(m) == TRUE

\* RegisterWebhookDelivery: INSERT ... ON CONFLICT DO NOTHING.
IsNew(m) == DeliveryId(m) \notin seen

\* A request, or a repetition of it by the network, reaches a handler.
Deliver(m) ==
    /\ m \in sent
    /\ m \notin handling
    /\ IF ~Rejected(m) /\ IsNew(m)
       THEN /\ seen' = seen \cup {DeliveryId(m)}
            /\ handling' = handling \cup {m}
            /\ UNCHANGED answered
       ELSE /\ answered' = answered \cup {m}
            /\ UNCHANGED <<seen, handling>>
    /\ UNCHANGED <<rowVars, age, dispatched, sent, applied, listed, faults>>

\* ApplyDeployCallback: an UPDATE by id that asks nothing of the old status.
\* The classification is overwritten, with NULL when the callback has none.
Apply(m) ==
    /\ m \in handling
    /\ status' = [status EXCEPT ![m.run] = m.status]
    /\ class' = [class EXCEPT ![m.run] = ClassOf(m)]
    /\ finished' = [finished EXCEPT ![m.run] = @ \/ m.status \in Terminal]
    /\ handling' = handling \ {m}
    /\ applied' = [applied EXCEPT ![m] = @ + 1]
    /\ answered' = answered \cup {m}
    /\ UNCHANGED <<age, dispatched, sent, seen, listed, faults>>

\* The UPDATE fails, or the process dies before it: 500, or no answer.  The
\* delivery id stays recorded.
ApplyFails(m) ==
    /\ m \in handling
    /\ Fault
    /\ handling' = handling \ {m}
    /\ answered' = answered \cup {m}
    /\ UNCHANGED <<rowVars, age, dispatched, sent, seen, applied, listed>>

-----------------------------------------------------------------------------
(* The reconciler's scanners and the delete saga.                            *)

\* Mutant: a syncing run is only looked for in a window of time.
StuckInWindow(r, from) ==
    /\ status[r] = from
    /\ age[r] = IF from = "building" THEN "past_building_timeout"
                                     ELSE "past_syncing_timeout"

Stuck(r, from) ==
    /\ status[r] = from
    /\ \/ from = "building" /\ age[r] = "past_building_timeout"
       \/ from = "syncing" /\ age[r] # "fresh"

\* listStuckDeployRuns, at the start of a tick of either scanner.
ListStuck(from) ==
    /\ ~\E row \in listed : row.from = from
    /\ \E r \in Runs : Stuck(r, from)
    /\ listed' = listed \cup [run : {r \in Runs : Stuck(r, from)}, from : {from}]
    /\ UNCHANGED <<rowVars, age, sendVars, hookVars, faults>>

\* Mutant: the UPDATE asks nothing of the old status.
NoCas(r, from) == TRUE

\* The WHERE clause of TransitionDeployRun.
CasGuard(r, from) == status[r] = from

\* TransitionDeployRun: on a conflict the row is left to whoever moved it.
Transition(r, from, to) ==
    IF CasGuard(r, from)
    THEN /\ status' = [status EXCEPT ![r] = to]
         /\ class' = IF to = "failed" THEN [class EXCEPT ![r] = "reconciler"] ELSE class
         /\ finished' = [finished EXCEPT ![r] = @ \/ to \in Terminal]
    ELSE UNCHANGED rowVars

\* The scanner is done with a row it can decide nothing about: no fetcher, no
\* workflow_run_id, an error, or a build or a sync still in progress.
Skip(row) ==
    /\ row \in listed
    /\ listed' = listed \ {row}
    /\ UNCHANGED <<rowVars, age, sendVars, hookVars, faults>>

\* DeployStatusScanner.processOne: GitHub says the workflow has completed.
PullWorkflow(row) ==
    /\ row \in listed
    /\ row.from = "building"
    /\ GitHubFetcher
    /\ row.run \in WorkflowRuns
    /\ \E to \in {"pushing", "failed"} : Transition(row.run, row.from, to)
    /\ listed' = listed \ {row}
    /\ UNCHANGED <<age, sendVars, hookVars, faults>>

\* ArgoSyncScanner.processOne: ArgoCD says healthy, or neither that nor
\* progressing.
PullArgo(row) ==
    /\ row \in listed
    /\ row.from = "syncing"
    /\ \E to \in {"live", "failed"} : Transition(row.run, row.from, to)
    /\ listed' = listed \ {row}
    /\ UNCHANGED <<age, sendVars, hookVars, faults>>

\* The WHERE clause of CancelDeployRun (failed_permanently is not in its list).
Cancelable(r) == status[r] \notin {"absent", "live", "failed", "canceled", "rolled_back"}

\* Step R1 of the delete saga.
CancelDeployRun(r) ==
    /\ Cancelable(r)
    /\ status' = [status EXCEPT ![r] = "canceled"]
    /\ finished' = [finished EXCEPT ![r] = TRUE]
    /\ UNCHANGED <<class, age, sendVars, hookVars, listed, faults>>

-----------------------------------------------------------------------------
Callback(m) == ClientTimeout(m) \/ Lose(m) \/ Deliver(m) \/ Apply(m) \/ ApplyFails(m)

Next ==
    \/ \E r \in Runs : InsertRun(r) \/ TimePasses(r) \/ CancelDeployRun(r)
    \/ \E r \in Runs, s \in LocalStatuses : SendLocal(r, s)
    \/ \E r \in Runs, s \in ActionStatuses : SendAction(r, s)
    \/ \E m \in Messages : Callback(m)
    \/ \E from \in {"building", "syncing"} : ListStuck(from)
    \/ \E row \in listed : Skip(row) \/ PullWorkflow(row) \/ PullArgo(row)

Spec == Init /\ [][Next]_vars

\* localbuild runs on, a request that is not lost is handled, time passes, the
\* scanners tick, and ArgoCD, asked again and again, decides in the end.
Fairness ==
    /\ \A r \in Runs :
          /\ WF_vars(\E s \in LocalStatuses : SendLocal(r, s))
          /\ WF_vars(TimePasses(r))
          /\ SF_vars(PullArgo([run |-> r, from |-> "syncing"]))
          /\ SF_vars(PullWorkflow([run |-> r, from |-> "building"]))
    /\ \A m \in Messages : WF_vars(Deliver(m) /\ m \notin answered) /\ WF_vars(Apply(m))
    /\ \A from \in {"building", "syncing"} : WF_vars(ListStuck(from))
    /\ WF_vars(\E row \in listed : Skip(row))

FairSpec == Spec /\ Fairness

-----------------------------------------------------------------------------
(* Safety.                                                                   *)

\* A failed or rolled back run says why, although a callback may overwrite the
\* classification with NULL and a cancellation leaves the old one.
FailuresAreClassified ==
    \A r \in Runs : status[r] \in Classified => class[r] # "none"

\* A run in a terminal status has its finished_at.
TerminalRunsAreFinished ==
    \A r \in Runs : status[r] \in Terminal => finished[r]

\* Of all the requests with one delivery id, repeated, concurrent or re-sent
\* by a re-run of the job, at most one is written to the row, at most once.
DeliveryAppliesOnce ==
    \A m, n \in Messages :
        /\ applied[m] <= 1
        /\ DeliveryId(m) = DeliveryId(n) /\ applied[m] = 1 /\ applied[n] = 1 => m = n

\* The statuses of local builds whose sender has its answer, or gave up, and
\* that are not written to the row.
Forgotten == {m \in answered : m.run \in LocalRuns /\ applied[m] = 0}

\* No status of a local build is dropped for nothing: the dedup, which answers
\* every repetition and keeps the id of a callback whose UPDATE failed, costs a
\* run at most one status for each lost request, timeout or error.
EachForgottenTakesAFault == Cardinality(Forgotten) <= faults

\* The reconciler and the delete saga, however old the list they work from,
\* never move a run out of a terminal status: only a callback does.
OnlyCallbacksReopen ==
    [][\A r \in Runs : status[r] \in Terminal /\ status'[r] # status[r]
                      => \E m \in handling : m.run = r /\ m \notin handling']_vars

-----------------------------------------------------------------------------
(* Liveness.                                                                 *)

\* While nothing is lost and nothing fails, a run built by localbuild ends.
LocalRunsEnd ==
    [](faults = 0) =>
        \A r \in LocalRuns : dispatched[r] ~> [](status[r] \in Terminal)

\* A run that waits for ArgoCD gets out of it without its callback.
SyncingIsResolved ==
    \A r \in Runs : (status[r] = "syncing") ~> (status[r] # "syncing")
=============================================================================
