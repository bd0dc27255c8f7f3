---------------------------- MODULE DeployIntake ----------------------------
(* How deploy runs come to exist: the confirm of a create_app preview        *)
(* (services/createapp), the confirm of a redeploy preview                   *)
(* (services/redeploy), and a push delivered by GitHub                       *)
(* (services/githubwebhook).                                                 *)
(*                                                                           *)
(* Requests are handled concurrently by any replica.  Every SQL statement    *)
(* and every call to Cloudflare, Kubernetes, git or GitHub is a step of its  *)
(* own; it may fail, and a call may fail after it took effect.  No lock or   *)
(* transaction spans two steps.  The rest of a run's life is DeployRun's:    *)
(* here a run only is in flight or not.                                      *)
EXTENDS Integers, FiniteSets

CONSTANTS
    Slugs,       \* app slugs of one team
    Legacy,      \* slugs whose row is older than migration 00006, which made it
                 \* live; all are built from the branch that is pushed to
    Previews,    \* create_app and redeploy previews
    Deliveries,  \* X-GitHub-Delivery ids of pushes
    Requests,    \* handlers that may run at the same time
    Runs,        \* deploy_run ids; a new app row is named after its first run
    MaxFaults,   \* bound on failed calls, lost processes and late callbacks
    NoRun, NoJob, NoSlug

ASSUME IntakeAssumption ==
    /\ Legacy \subseteq Slugs
    /\ MaxFaults \in Nat
    /\ NoRun \notin Runs /\ NoSlug \notin Slugs
    /\ NoJob \notin Previews \cup Deliveries
    /\ Previews \cap Deliveries = {} /\ Runs \cap Slugs = {}

Rows == Runs \cup Legacy   \* ids of app rows
Jobs == Previews \cup Deliveries

VARIABLES
    app,         \* app[s]: the row with slug s, its id and status
    effects,     \* what create_app made outside the database, <<slug, kind>>
    run,         \* run[r]: the row deploy_run, and whose request inserted it
    started,     \* runs whose workflow GitHub has started
    preview,     \* preview[p]: action, slug, and last_result (NoRun: not consumed)
    answers,     \* answers[p]: runs named by the answers to confirms of p
    registered,  \* delivery ids in webhook_dedup
    request,     \* request[q]: where a handler is and what it holds
    faults

vars == <<app, effects, run, started, preview, answers, registered, request, faults>>

NoApp == [id |-> NoRun, status |-> "none"]
Apps  == [id : Rows, status : {"queued", "live", "paused"}]
Kinds == {"route", "namespace", "manifest"}

InFlight == {"queued", "building", "reopened"}
States   == InFlight \cup {"ended", "deleted", "undone", "absent"}
NewRun   == [state |-> "absent", slug |-> NoSlug, of |-> NoRun, by |-> NoJob, knew |-> {}]
RunRows  == [state : States, slug : Slugs \cup {NoSlug}, of : Rows \cup {NoRun},
             by : Jobs \cup {NoJob}, knew : SUBSET Runs]

Places ==
    {"idle", "lookup", "insert_app", "route", "namespace", "manifest", "rollback",
     "find", "next", "active", "busy", "insert", "dispatch", "consume"}
Idle    == [at |-> "idle", job |-> NoJob, slug |-> NoSlug, of |-> NoRun,
            run |-> NoRun, knew |-> {}, todo |-> {}]
Handler == [at : Places, job : Jobs \cup {NoJob}, slug : Slugs \cup {NoSlug},
            of : Rows \cup {NoRun}, run : Runs \cup {NoRun}, knew : SUBSET Runs,
            todo : SUBSET (Slugs \X Rows)]

TypeOK ==
    /\ app \in [Slugs -> Apps \cup {NoApp}]
    /\ effects \subseteq Slugs \X Kinds
    /\ run \in [Runs -> RunRows]
    /\ started \subseteq Runs
    /\ preview \in [Previews -> [kind : {"none", "create", "redeploy"},
                                 slug : Slugs \cup {NoSlug}, result : Runs \cup {NoRun}]]
    /\ answers \in [Previews -> SUBSET Runs]
    /\ registered \subseteq Deliveries
    /\ request \in [Requests -> Handler]
    /\ faults \in 0 .. MaxFaults

Init ==
    /\ app = [s \in Slugs |-> IF s \in Legacy THEN [id |-> s, status |-> "live"] ELSE NoApp]
    /\ effects = {}
    /\ run = [r \in Runs |-> NewRun]
    /\ started = {}
    /\ preview = [p \in Previews |-> [kind |-> "none", slug |-> NoSlug, result |-> NoRun]]
    /\ answers = [p \in Previews |-> {}]
    /\ registered = {}
    /\ request = [q \in Requests |-> Idle]
    /\ faults = 0

Exists(s) == app[s] # NoApp
Fault     == faults < MaxFaults /\ faults' = faults + 1

\* Handler q goes to another place, with what it has learnt; or it answers and ends.
Goto(q, place)         == request' = [request EXCEPT ![q].at = place]
Finish(q)              == request' = [request EXCEPT ![q] = Idle]
RunsOf(id)             == {r \in Runs : run[r].of = id /\ run[r].state # "absent"}
DeleteRow(id, left) ==   \* ON DELETE CASCADE takes the runs of the app along
    /\ app' = [s \in Slugs |-> IF app[s].id = id THEN NoApp ELSE app[s]]
    /\ run' = [r \in Runs |-> IF r \in RunsOf(id) /\ run[r].state # "deleted"
                              THEN [run[r] EXCEPT !.state = left] ELSE run[r]]

----------------------------------------------------------------------------
(* The world around the handlers.                                            *)

\* A preview that expires is one that nobody confirms any more.
CreatePreview(p, s, kind) ==
    /\ preview[p].kind = "none"
    /\ preview' = [preview EXCEPT ![p].slug = s, ![p].kind = kind]
    /\ UNCHANGED <<app, effects, run, started, answers, registered, request, faults>>

PreviewCreateApp(p, s) == ~Exists(s) /\ CreatePreview(p, s, "create")

PreviewRedeploy(p, s) ==
    Exists(s) /\ app[s].status # "paused" /\ CreatePreview(p, s, "redeploy")

\* The App installation is removed: PauseTeamApps pauses every app of the team.
\* Nothing unpauses an app, and nothing makes a queued one live.
PauseTeamApps ==
    /\ \E s \in Slugs : Exists(s) /\ app[s].status # "paused"
    /\ app' = [s \in Slugs |-> IF Exists(s) THEN [app[s] EXCEPT !.status = "paused"] ELSE NoApp]
    /\ UNCHANGED <<effects, run, started, preview, answers, registered, request, faults>>

\* delete_app and its cleanup job, from the confirm to the deleted row (DeleteApp).
DeleteApp(s) ==
    /\ Exists(s)
    /\ DeleteRow(app[s].id, "deleted")
    /\ effects' = {e \in effects : e[1] # s \/ e[2] = "namespace"}
    /\ UNCHANGED <<started, preview, answers, registered, request, faults>>

\* The workflow reports on its run; a queued run that never started has nobody to.
\* ApplyDeployCallback asks nothing of the old status, so a late callback may
\* reopen a run that had ended.
Callback(r) ==
    /\ r \in started
    /\ \/ run[r].state = "queued" /\ run' = [run EXCEPT ![r].state = "building"]
          /\ UNCHANGED faults
       \/ run[r].state \in InFlight /\ run' = [run EXCEPT ![r].state = "ended"]
          /\ UNCHANGED faults
       \/ run[r].state = "ended" /\ run' = [run EXCEPT ![r].state = "reopened"] /\ Fault
    /\ UNCHANGED <<app, effects, started, preview, answers, registered, request>>

----------------------------------------------------------------------------
(* Both confirm endpoints: GetPreview, and the replay of a consumed preview. *)

\* The preview of a finished request answers for it.
Consumed(p) == preview[p].result # NoRun

Confirm(q, p) ==
    /\ request[q] = Idle
    /\ preview[p].kind # "none"
    /\ IF Consumed(p)
       THEN /\ answers' = [answers EXCEPT ![p] = @ \cup {preview[p].result}]
            /\ UNCHANGED request
       ELSE /\ request' = [request EXCEPT ![q] =
                  [Idle EXCEPT !.job = p, !.slug = preview[p].slug,
                               !.at = IF preview[p].kind = "create" THEN "lookup" ELSE "active"]]
            /\ UNCHANGED answers
    /\ UNCHANGED <<app, effects, run, started, preview, registered, faults>>

\* ConsumePreviewWithResult, WHERE consumed_at IS NULL.
Consume(q) ==
    LET p == request[q].job
    IN  /\ request[q].at = "consume"
        /\ IF ~Consumed(p)
           THEN /\ preview' = [preview EXCEPT ![p].result = request[q].run]
                /\ answers' = [answers EXCEPT ![p] = @ \cup {request[q].run}]
           ELSE UNCHANGED <<preview, answers>>
        /\ Finish(q)
        /\ UNCHANGED <<app, effects, run, started, registered, faults>>

----------------------------------------------------------------------------
(* create_app.                                                               *)

\* GetTeamAppBySlug: slug_taken, also when the row is this preview's own.
LookupSlug(q) ==
    /\ request[q].at = "lookup"
    /\ IF Exists(request[q].slug) THEN Finish(q) ELSE Goto(q, "insert_app")
    /\ UNCHANGED <<app, effects, run, started, preview, answers, registered, faults>>

\* CreateApp: app, domain_binding and run in one transaction; the unique slug
\* lets one of two through.
CreateApp(q) ==
    LET s == request[q].slug
    IN  /\ request[q].at = "insert_app"
        /\ IF Exists(s)
           THEN Finish(q) /\ UNCHANGED <<app, run>>
           ELSE \E r \in Runs :
                   /\ run[r].state = "absent"
                   /\ app' = [app EXCEPT ![s] = [id |-> r, status |-> "queued"]]
                   /\ run' = [run EXCEPT ![r] = [state |-> "queued", slug |-> s, of |-> r,
                                                 by |-> request[q].job, knew |-> {}]]
                   /\ request' = [request EXCEPT ![q].at = "route", ![q].of = r, ![q].run = r]
        /\ UNCHANGED <<effects, started, preview, answers, registered, faults>>

After == [route |-> "namespace", namespace |-> "manifest", manifest |-> "dispatch"]

\* RouteAppToDomain and CreateTunnelRoute, EnsureTeamIsolation, RenderAndPush.
\* Each is idempotent; one that fails may have done its work.
Provision(q) ==
    LET kind == request[q].at
        made == effects \cup {<<request[q].slug, kind>>}
    IN  /\ kind \in Kinds
        /\ \/ effects' = made /\ Goto(q, After[kind]) /\ UNCHANGED faults
           \/ effects' \in {effects, made} /\ Goto(q, "rollback") /\ Fault
        /\ UNCHANGED <<app, run, started, preview, answers, registered>>

\* Mutant: the row is deleted by its slug.
RollbackSlug(q) ==
    /\ request[q].at = "rollback"
    /\ DeleteRow(app[request[q].slug].id, "undone")
    /\ Finish(q)
    /\ UNCHANGED <<effects, started, preview, answers, registered, faults>>

\* Every failure up to the dispatch ends here: DeleteAppByID, and nothing else
\* is undone.  It uses the context of the request and may fail with it.
Rollback(q) ==
    /\ request[q].at = "rollback"
    /\ \/ DeleteRow(request[q].of, "undone") /\ UNCHANGED faults
       \/ Fault /\ UNCHANGED <<app, run>>
    /\ Finish(q)
    /\ UNCHANGED <<effects, started, preview, answers, registered>>

----------------------------------------------------------------------------
(* redeploy: confirm and push share InsertRedeployRun and the dispatch.      *)

\* lookupActiveApp.
LookupActive(q) ==
    LET s == request[q].slug
    IN  /\ request[q].at = "active"
        /\ IF Exists(s) /\ app[s].status # "paused"
           THEN request' = [request EXCEPT ![q].at = "busy", ![q].of = app[s].id]
           ELSE Finish(q)
        /\ UNCHANGED <<app, effects, run, started, preview, answers, registered, faults>>

\* Mutant: a queued run does not count.
BusyBuilding(id) == \E r \in Runs : run[r].of = id /\ run[r].state \in {"building", "reopened"}

Busy(id) == \E r \in Runs : run[r].of = id /\ run[r].state \in InFlight

\* HasInFlightDeployRun: a confirm is refused, a push skips the app.
CheckInFlight(q) ==
    LET id == request[q].of
    IN  /\ request[q].at = "busy"
        /\ IF ~Busy(id)
           THEN request' = [request EXCEPT ![q].at = "insert", ![q].knew = RunsOf(id)]
           ELSE IF request[q].job \in Deliveries THEN Goto(q, "next") ELSE Finish(q)
        /\ UNCHANGED <<app, effects, run, started, preview, answers, registered, faults>>

\* InsertRedeployRun; the foreign key refuses the run of an app that is gone.
InsertRedeployRun(q) ==
    LET s == request[q].slug
        id == request[q].of
    IN  /\ request[q].at = "insert"
        /\ IF app[s].id # id
           THEN Finish(q) /\ UNCHANGED run
           ELSE \E r \in Runs :
                   /\ run[r].state = "absent"
                   /\ run' = [run EXCEPT ![r] = [state |-> "queued", slug |-> s, of |-> id,
                                     by |-> request[q].job, knew |-> request[q].knew]]
                   /\ request' = [request EXCEPT ![q].at = "dispatch", ![q].run = r,
                                                 ![q].knew = {}]
        /\ UNCHANGED <<app, effects, started, preview, answers, registered, faults>>

\* GitHub has the event, whether or not its answer arrives.
DispatchEvent(r) == started' = started \cup {r}

\* Dispatch.  When it fails create_app deletes its row; the run of a redeploy is
\* left as it is, queued, and the rest of a push's apps are left out.
Dispatch(q) ==
    LET r == request[q].run
        creating == r = request[q].of
    IN  /\ request[q].at = "dispatch"
        /\ \/ /\ DispatchEvent(r)
              /\ Goto(q, IF request[q].job \in Deliveries THEN "next" ELSE "consume")
              /\ UNCHANGED faults
           \/ /\ DispatchEvent(r) \/ UNCHANGED started
              /\ IF creating THEN Goto(q, "rollback") ELSE Finish(q)
              /\ Fault
        /\ UNCHANGED <<app, effects, run, preview, answers, registered>>

----------------------------------------------------------------------------
(* The push webhook; GitHub may deliver the same push again at any time.     *)

\* Mutant: the delivery id is not looked up.
RegisterAgain(q, d) ==
    /\ request[q] = Idle
    /\ registered' = registered \cup {d}
    /\ request' = [request EXCEPT ![q] = [Idle EXCEPT !.job = d, !.at = "find"]]
    /\ UNCHANGED <<app, effects, run, started, preview, answers, faults>>

\* RegisterWebhookDelivery, before anything is done about the push.
RegisterDelivery(q, d) ==
    /\ request[q] = Idle
    /\ d \notin registered
    /\ registered' = registered \cup {d}
    /\ request' = [request EXCEPT ![q] = [Idle EXCEPT !.job = d, !.at = "find"]]
    /\ UNCHANGED <<app, effects, run, started, preview, answers, faults>>

\* FindLiveAppsByRepoAndBranch: only rows whose status is live.
FindLiveApps(q) ==
    /\ request[q].at = "find"
    /\ request' = [request EXCEPT ![q].at = "next",
                      ![q].todo = {<<s, app[s].id>> : s \in {x \in Legacy : app[x].status = "live"}}]
    /\ UNCHANGED <<app, effects, run, started, preview, answers, registered, faults>>

NextApp(q) ==
    /\ request[q].at = "next"
    /\ \/ \E a \in request[q].todo :
             request' = [request EXCEPT ![q].at = "busy", ![q].slug = a[1], ![q].of = a[2],
                                        ![q].run = NoRun, ![q].todo = @ \ {a}]
       \/ request[q].todo = {} /\ Finish(q)
    /\ UNCHANGED <<app, effects, run, started, preview, answers, registered, faults>>

----------------------------------------------------------------------------
\* A statement fails, or the process is lost, or the client goes away and its
\* context takes the rest of the request along.
Abort(q) ==
    /\ request[q] # Idle
    /\ Fault
    /\ Finish(q)
    /\ UNCHANGED <<app, effects, run, started, preview, answers, registered>>

Step(q) ==
    \/ LookupSlug(q) \/ CreateApp(q) \/ Provision(q) \/ Rollback(q)
    \/ LookupActive(q) \/ CheckInFlight(q) \/ InsertRedeployRun(q) \/ Dispatch(q)
    \/ FindLiveApps(q) \/ NextApp(q) \/ Consume(q)

Next ==
    \/ \E p \in Previews, s \in Slugs : PreviewCreateApp(p, s) \/ PreviewRedeploy(p, s)
    \/ PauseTeamApps
    \/ \E s \in Slugs : DeleteApp(s)
    \/ \E r \in Runs : Callback(r)
    \/ \E q \in Requests : \/ \E p \in Previews : Confirm(q, p)
                           \/ \E d \in Deliveries : RegisterDelivery(q, d)
                           \/ Step(q) \/ Abort(q)

Spec == Init /\ [][Next]_vars

\* Handlers run to their end and a workflow that has started reports.
Fairness ==
    /\ \A q \in Requests : WF_vars(Step(q))
    /\ \A r \in Runs : WF_vars(Callback(r) /\ run'[r].state = "ended")

FairSpec == Spec /\ Fairness

----------------------------------------------------------------------------
(* Safety.                                                                   *)

\* However often GitHub delivers a push, and whatever fails on the way, it
\* starts at most one run of an app.
OneRunPerDelivery ==
    \A r, t \in Runs :
        run[r].by \in Deliveries /\ run[r].by = run[t].by /\ run[r].of = run[t].of => r = t

\* Two runs of an app are in flight together only if their requests raced, each
\* past its check before the other's insert, or a late callback reopened one.
OverlapNeedsRace ==
    \A r, t \in Runs :
        /\ r # t /\ run[r].of = run[t].of
        /\ {run[r].state, run[t].state} \subseteq {"queued", "building"}
        => r \notin run[t].knew

\* All the answers to one preview agree, whoever confirms it and how often; and
\* what a create_app was answered names a run whose workflow has started, of an
\* app that no rollback, its own or another confirm's, has taken away: the row
\* is there unless the user deleted the app.
AnswersStand ==
    \A p \in Previews :
        /\ answers[p] \subseteq {preview[p].result}
        /\ \A r \in answers[p] :
              run[r].of = r => /\ r \in started
                               /\ run[r].state = "deleted" \/ app[run[r].slug].id = r

\* Handler q has the run r and is going to dispatch it or to undo it.
Drives(q, r) ==
    request[q].run = r /\ request[q].at \in Kinds \cup {"dispatch", "rollback"}

\* Queued runs that no workflow and no handler will ever move; they keep their
\* app busy, so that every later redeploy of it is refused.
Stranded ==
    {r \in Runs : run[r].state = "queued" /\ r \notin started /\ \A q \in Requests : ~Drives(q, r)}

\* No app is blocked for nothing: each stranded run takes a failed dispatch, a
\* rollback that failed or a handler that was lost.
EachStrandedTakesAFault == Cardinality(Stranded) <= faults

----------------------------------------------------------------------------
(* What the documents say and the code does not keep.                        *)

\* migrations/00006: the first deploy callback makes a queued app live.
DeployedAppsGoLive ==
    \A r \in Runs : run[r].state = "ended" /\ Exists(run[r].slug) => app[run[r].slug].status # "queued"
=============================================================================
