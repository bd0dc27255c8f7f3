------------------------- MODULE DeployIntakeProofs -------------------------
(* Proofs about DeployIntake, for any slugs, previews, deliveries, handlers, *)
(* runs and faults.                                                          *)
EXTENDS DeployIntake, FiniteSetTheorems, TLAPS

\* A run in one of these states is never queued or building again.
Past == {"reopened", "ended", "deleted", "undone"}

\* A run, a preview that was made and a handler past its first step name a slug.
SlugsAreNamed ==
    /\ \A r \in Runs : run[r].state # "absent" => run[r].slug \in Slugs
    /\ \A p \in Previews : preview[p].kind # "none" => preview[p].slug \in Slugs
    /\ \A q \in Requests : request[q].at \notin {"idle", "find", "next"} =>
          request[q].slug \in Slugs

\* Who does the steps of a confirm works on a preview, a push on its delivery.
JobsFit ==
    \A q \in Requests :
        /\ request[q].at # "idle" => request[q].job \in Jobs
        /\ request[q].at \in {"find", "next"} => request[q].job \in Deliveries
        /\ request[q].at \in {"lookup", "insert_app", "active", "consume", "rollback"} \cup Kinds =>
            request[q].job \in Previews

\* What a handler saw when it found no run in flight, and what its run keeps of it.
KnownRunsArePast ==
    /\ \A t \in Runs : \A r \in run[t].knew : run[r].state \in Past
    /\ \A q \in Requests : \A r \in request[q].knew : run[r].state \in Past

\* Ids of apps that were drawn from the runs were drawn.
IdsAreDrawn ==
    /\ \A s \in Slugs : app[s].id \in Runs => run[app[s].id].state # "absent"
    /\ \A q \in Requests : request[q].of \in Runs => run[request[q].of].state # "absent"

\* Only a row that the migration made live is live.
LiveAreLegacy == \A s \in Slugs : app[s].status = "live" => s \in Legacy /\ app[s].id = s

\* The one handler of a push has not started a run of an app it has still to do.
PushesAdvance ==
    \A q \in Requests : request[q].job \in Deliveries =>
        /\ request[q].job \in registered
        /\ \A o \in Requests : request[o].job = request[q].job => o = q
        /\ request[q].at \in {"find", "next", "busy", "insert", "dispatch"}
        /\ \A a \in request[q].todo : a[1] \in Legacy /\ a[2] = a[1]
        /\ request[q].at \in {"busy", "insert", "dispatch"} => request[q].of \in Legacy
        /\ request[q].at = "find" => \A r \in Runs : run[r].by # request[q].job
        /\ \A r \in Runs : run[r].by = request[q].job =>
              \A a \in request[q].todo : a[2] # run[r].of
        /\ request[q].at \in {"busy", "insert"} =>
              /\ \A r \in Runs : run[r].by = request[q].job => run[r].of # request[q].of
              /\ \A a \in request[q].todo : a[2] # request[q].of

RunsOfPushesAreRegistered ==
    \A r \in Runs : run[r].by \in Deliveries => run[r].by \in registered

\* The row of a create_app stands unless its user deleted it.
Rooted(r) == run[r].state = "deleted" \/ app[run[r].slug].id = r

\* A run in the hands of a handler is in no other's, and of the app it works on.
RunsAreOwned ==
    /\ \A q \in Requests : request[q].run \in Runs =>
          /\ run[request[q].run].state # "absent"
          /\ run[request[q].run].of = request[q].of
          /\ \A o \in Requests : request[o].run = request[q].run => o = q
    /\ \A q \in Requests : request[q].at \in {"lookup", "insert_app", "active"} => request[q].run = NoRun
    /\ \A q \in Requests : request[q].at \in {"dispatch", "consume"} => request[q].run \in Runs
    /\ \A q \in Requests : request[q].at \in Kinds \cup {"rollback"} =>
          request[q].run \in Runs /\ request[q].run = request[q].of

\* A create_app that was not undone has its row; one that was dispatched has started.
CreatesStand ==
    /\ \A q \in Requests :
          request[q].run \in Runs /\ request[q].run = request[q].of /\ request[q].at # "rollback"
              => Rooted(request[q].run)
    /\ \A q \in Requests : request[q].at = "consume" => request[q].run \in started

\* A result is out of every handler's hands.
ResultsStand ==
    \A p \in Previews : preview[p].result \in Runs =>
        /\ run[preview[p].result].state # "absent"
        /\ preview[p].result \in started
        /\ \A q \in Requests : request[q].run # preview[p].result
        /\ run[preview[p].result].of = preview[p].result => Rooted(preview[p].result)

AnswersAreResults == \A p \in Previews : answers[p] \subseteq {preview[p].result}

\* The inductive invariant.
IInv ==
    /\ TypeOK
    /\ SlugsAreNamed /\ JobsFit
    /\ KnownRunsArePast
    /\ IdsAreDrawn /\ LiveAreLegacy
    /\ PushesAdvance /\ RunsOfPushesAreRegistered /\ OneRunPerDelivery
    /\ RunsAreOwned /\ CreatesStand
    /\ ResultsStand /\ AnswersAreResults

-----------------------------------------------------------------------------
LEMMA NamesDiffer ==
    /\ NoRun \notin Runs /\ NoSlug \notin Slugs
    /\ Legacy \subseteq Slugs /\ Legacy \cap Runs = {}
    /\ NoJob \notin Previews /\ NoJob \notin Deliveries
    /\ Previews \cap Deliveries = {}
BY IntakeAssumption

LEMMA InitEstablishes == Init => IInv
<1> SUFFICES ASSUME Init PROVE IInv
  OBVIOUS
<1>1. TypeOK
  <2>1. NewRun \in RunRows /\ Idle \in Handler /\ faults \in 0 .. MaxFaults
    BY IntakeAssumption DEF NewRun, RunRows, States, InFlight, Idle, Handler, Places, Init
  <2>2. app \in [Slugs -> Apps \cup {NoApp}]
    BY NamesDiffer DEF Init, Apps, NoApp, Rows
  <2>3. run \in [Runs -> RunRows] /\ request \in [Requests -> Handler]
    BY <2>1 DEF Init
  <2>4. preview \in [Previews -> [kind : {"none", "create", "redeploy"},
                                  slug : Slugs \cup {NoSlug}, result : Runs \cup {NoRun}]]
    BY DEF Init
  <2>. QED
    BY <2>1, <2>2, <2>3, <2>4 DEF Init, TypeOK
<1>2. SlugsAreNamed /\ JobsFit /\ KnownRunsArePast
  BY DEF Init, SlugsAreNamed, JobsFit, KnownRunsArePast, NewRun, Idle, Kinds
<1>3. IdsAreDrawn /\ LiveAreLegacy
  BY NamesDiffer DEF Init, IdsAreDrawn, LiveAreLegacy, NoApp, Idle
<1>4. PushesAdvance /\ RunsOfPushesAreRegistered /\ OneRunPerDelivery
  BY NamesDiffer DEF Init, PushesAdvance, RunsOfPushesAreRegistered, OneRunPerDelivery, Idle, NewRun
<1>5. RunsAreOwned /\ CreatesStand /\ ResultsStand /\ AnswersAreResults
  BY NamesDiffer DEF Init, RunsAreOwned, CreatesStand, ResultsStand, AnswersAreResults, Idle, Kinds
<1>. QED
  BY <1>1, <1>2, <1>3, <1>4, <1>5 DEF IInv

-----------------------------------------------------------------------------
(* How a step changes the runs: it draws one, or only moves states forward.  *)

RunsKeep ==
    \A r \in Runs :
        /\ run'[r].slug = run[r].slug /\ run'[r].of = run[r].of
        /\ run'[r].by = run[r].by /\ run'[r].knew = run[r].knew
        /\ run'[r].state = "absent" <=> run[r].state = "absent"
        /\ run[r].state \in Past => run'[r].state \in Past
        /\ run[r].state = "deleted" => run'[r].state = "deleted"

Draws(r, row) == run[r].state = "absent" /\ run' = [run EXCEPT ![r] = row]

LEMMA DeleteRowKeeps ==
    ASSUME TypeOK, NEW id, NEW left \in {"deleted", "undone"}, DeleteRow(id, left)
    PROVE  RunsKeep /\ run' \in [Runs -> RunRows]
<1>1. ASSUME NEW r \in Runs
      PROVE  /\ run[r] \in RunRows
             /\ run'[r] = IF r \in RunsOf(id) /\ run[r].state # "deleted"
                          THEN [run[r] EXCEPT !.state = left] ELSE run[r]
  BY DEF DeleteRow, TypeOK
<1>2. ASSUME NEW r \in Runs, run'[r] = [run[r] EXCEPT !.state = left] PROVE run'[r] \in RunRows
  BY <1>1, <1>2 DEF RunRows, States
<1>3. run' \in [Runs -> RunRows]
  BY <1>1, <1>2 DEF DeleteRow
<1>4. RunsKeep
  BY <1>1 DEF RunsKeep, RunRows, RunsOf, Past
<1>. QED
  BY <1>3, <1>4

LEMMA CallbackKeeps ==
    ASSUME TypeOK, NEW r \in Runs, Callback(r)
    PROVE  RunsKeep /\ run' \in [Runs -> RunRows]
<1>1. run[r] \in RunRows
  BY DEF TypeOK
<1>2. PICK st \in InFlight \cup {"ended"} :
          /\ run' = [run EXCEPT ![r] = [run[r] EXCEPT !.state = st]]
          /\ run[r].state \in InFlight \cup {"ended"}
          /\ run[r].state \in Past => st \in Past
  BY DEF Callback, InFlight, Past
<1>3. [run[r] EXCEPT !.state = st] \in RunRows
  BY <1>1 DEF RunRows, States
<1>4. run' \in [Runs -> RunRows]
  BY <1>2, <1>3 DEF TypeOK
<1>5. RunsKeep
  BY <1>1, <1>2 DEF RunsKeep, RunRows, InFlight, Past, TypeOK
<1>. QED
  BY <1>4, <1>5

\* A create_app inserts the row of an app and its first run.
InsertsApp(q, r) ==
    /\ request[q].at = "insert_app" /\ ~Exists(request[q].slug)
    /\ app' = [app EXCEPT ![request[q].slug] = [id |-> r, status |-> "queued"]]
    /\ Draws(r, [state |-> "queued", slug |-> request[q].slug, of |-> r,
                 by |-> request[q].job, knew |-> {}])
    /\ request' = [request EXCEPT ![q].at = "route", ![q].of = r, ![q].run = r]

\* A redeploy inserts a run of the app it found.
InsertsRun(q, r) ==
    /\ request[q].at = "insert" /\ app[request[q].slug].id = request[q].of
    /\ Draws(r, [state |-> "queued", slug |-> request[q].slug, of |-> request[q].of,
                 by |-> request[q].job, knew |-> request[q].knew])
    /\ request' = [request EXCEPT ![q].at = "dispatch", ![q].run = r, ![q].knew = {}]
    /\ UNCHANGED app

LEMMA RunsMove ==
    ASSUME TypeOK, [Next]_vars
    PROVE  \/ RunsKeep /\ run' \in [Runs -> RunRows]
           \/ \E q \in Requests, r \in Runs : InsertsApp(q, r) \/ InsertsRun(q, r)
<1>1. UNCHANGED run => RunsKeep /\ run' \in [Runs -> RunRows]
  BY DEF RunsKeep, TypeOK
<1>2. ASSUME NEW q \in Requests, CreateApp(q)
      PROVE  UNCHANGED run \/ \E r \in Runs : InsertsApp(q, r)
  BY <1>2 DEF CreateApp, InsertsApp, Draws
<1>3. ASSUME NEW q \in Requests, InsertRedeployRun(q)
      PROVE  UNCHANGED run \/ \E r \in Runs : InsertsRun(q, r)
  BY <1>3 DEF InsertRedeployRun, InsertsRun, Draws
<1>4. ASSUME NEW q \in Requests, Rollback(q)
      PROVE  UNCHANGED run \/ DeleteRow(request[q].of, "undone")
  BY <1>4 DEF Rollback
<1>5. ASSUME NEW q \in Requests, Step(q)
      PROVE  \/ UNCHANGED run \/ DeleteRow(request[q].of, "undone")
             \/ \E r \in Runs : InsertsApp(q, r) \/ InsertsRun(q, r)
  <2>1. CASE CreateApp(q)
    BY <1>2, <2>1
  <2>2. CASE InsertRedeployRun(q)
    BY <1>3, <2>2
  <2>3. CASE Rollback(q)
    BY <1>4, <2>3
  <2>. QED
    BY <1>5, <2>1, <2>2, <2>3 DEF Step, LookupSlug, Provision, LookupActive, CheckInFlight,
       Dispatch, FindLiveApps, NextApp, Consume
<1>6. ASSUME NEW s \in Slugs, DeleteApp(s) PROVE DeleteRow(app[s].id, "deleted")
  BY <1>6 DEF DeleteApp
<1>7. CASE UNCHANGED run
  BY <1>1, <1>7
<1>8. CASE \E s \in Slugs : DeleteApp(s)
  BY <1>6, <1>8, DeleteRowKeeps
<1>9. CASE \E r \in Runs : Callback(r)
  BY <1>9, CallbackKeeps
<1>10. CASE \E q \in Requests : Step(q)
  BY <1>1, <1>5, <1>10, DeleteRowKeeps
<1>. QED
  BY <1>7, <1>8, <1>9, <1>10 DEF Next, PreviewCreateApp, PreviewRedeploy, CreatePreview,
     PauseTeamApps, Confirm, RegisterDelivery, Abort, vars

-----------------------------------------------------------------------------
(* Types.                                                                    *)

\* One handler moves, to a record of the right form.
LEMMA HandlerTypes ==
    ASSUME IInv, [Next]_vars
    PROVE  request' \in [Requests -> Handler]
<1>0. request \in [Requests -> Handler] /\ Idle \in Handler
  BY DEF IInv, TypeOK, Idle, Handler, Places
<1>1. ASSUME NEW q \in Requests, NEW x \in Handler, request' = [request EXCEPT ![q] = x]
      PROVE  request' \in [Requests -> Handler]
  BY <1>0, <1>1
<1>2. ASSUME NEW q \in Requests, NEW at \in Places, Goto(q, at)
      PROVE  request' \in [Requests -> Handler]
  <2>1. [request[q] EXCEPT !.at = at] \in Handler
    BY <1>0 DEF Handler
  <2>. QED
    BY <1>1, <1>2, <2>1 DEF Goto
<1>3. ASSUME NEW q \in Requests, Finish(q) PROVE request' \in [Requests -> Handler]
  BY <1>0, <1>1, <1>3 DEF Finish
<1>4. ASSUME NEW q \in Requests, Step(q) PROVE request' \in [Requests -> Handler]
  <2>1. request[q] \in Handler
    BY <1>0
  <2>2. CASE LookupSlug(q)
    BY <1>2, <1>3, <2>2 DEF LookupSlug, Places
  <2>3. CASE CreateApp(q)
    <3>1. ASSUME NEW r \in Runs PROVE [request[q] EXCEPT !.at = "route", !.of = r, !.run = r] \in Handler
      BY <2>1 DEF Handler, Places, Rows
    <3>2. Finish(q) \/ \E r \in Runs :
              request' = [request EXCEPT ![q] = [request[q] EXCEPT !.at = "route", !.of = r, !.run = r]]
      BY <1>0, <2>3 DEF CreateApp
    <3>. QED
      BY <1>1, <1>3, <3>1, <3>2
  <2>4. CASE Provision(q)
    <3>1. After[request[q].at] \in Places
      BY <2>4 DEF Provision, After, Kinds, Places
    <3>. QED
      BY <1>2, <2>4, <3>1 DEF Provision, Places
  <2>5. CASE Rollback(q)
    BY <1>3, <2>5 DEF Rollback
  <2>6. CASE LookupActive(q)
    <3>1. ASSUME NEW id \in Rows PROVE [request[q] EXCEPT !.at = "busy", !.of = id] \in Handler
      BY <2>1 DEF Handler, Places
    <3>2. request[q].slug \in Slugs
      BY <2>6 DEF LookupActive, IInv, SlugsAreNamed
    <3>3. Exists(request[q].slug) => app[request[q].slug].id \in Rows
      BY <3>2 DEF Exists, IInv, TypeOK, Apps
    <3>4. Finish(q) \/ \E id \in Rows :
              request' = [request EXCEPT ![q] = [request[q] EXCEPT !.at = "busy", !.of = id]]
      BY <1>0, <2>6, <3>3 DEF LookupActive
    <3>. QED
      BY <1>1, <1>3, <3>1, <3>4
  <2>7. CASE CheckInFlight(q)
    <3>1. [request[q] EXCEPT !.at = "insert", !.knew = RunsOf(request[q].of)] \in Handler
      BY <2>1 DEF Handler, Places, RunsOf
    <3>2. \/ Finish(q) \/ Goto(q, "next")
          \/ request' = [request EXCEPT ![q] =
                            [request[q] EXCEPT !.at = "insert", !.knew = RunsOf(request[q].of)]]
      BY <1>0, <2>7 DEF CheckInFlight
    <3>. QED
      BY <1>1, <1>2, <1>3, <3>1, <3>2 DEF Places
  <2>8. CASE InsertRedeployRun(q)
    <3>1. ASSUME NEW r \in Runs
          PROVE  [request[q] EXCEPT !.at = "dispatch", !.run = r, !.knew = {}] \in Handler
      BY <2>1 DEF Handler, Places
    <3>2. Finish(q) \/ \E r \in Runs :
              request' = [request EXCEPT ![q] = [request[q] EXCEPT !.at = "dispatch", !.run = r, !.knew = {}]]
      BY <1>0, <2>8 DEF InsertRedeployRun
    <3>. QED
      BY <1>1, <1>3, <3>1, <3>2
  <2>9. CASE Dispatch(q)
    BY <1>2, <1>3, <2>9 DEF Dispatch, Places
  <2>10. CASE FindLiveApps(q)
    <3>1. ASSUME NEW x \in Legacy, app[x].status = "live" PROVE x \in Slugs /\ app[x].id \in Rows
      BY <3>1, NamesDiffer DEF IInv, TypeOK, Apps, NoApp
    <3>2. {<<x, app[x].id>> : x \in {y \in Legacy : app[y].status = "live"}} \in SUBSET (Slugs \X Rows)
      BY <3>1
    <3>3. ASSUME NEW todo \in SUBSET (Slugs \X Rows)
          PROVE  [request[q] EXCEPT !.at = "next", !.todo = todo] \in Handler
      BY <2>1 DEF Handler, Places
    <3>4. \E todo \in SUBSET (Slugs \X Rows) :
              request' = [request EXCEPT ![q] = [request[q] EXCEPT !.at = "next", !.todo = todo]]
      BY <1>0, <2>10, <3>2 DEF FindLiveApps
    <3>. QED
      BY <1>1, <3>3, <3>4
  <2>11. CASE NextApp(q)
    <3>1. ASSUME NEW a \in request[q].todo
          PROVE  [request[q] EXCEPT !.at = "busy", !.slug = a[1], !.of = a[2], !.run = NoRun,
                                    !.todo = @ \ {a}] \in Handler
      BY <2>1 DEF Handler, Places
    <3>2. Finish(q) \/ \E a \in request[q].todo :
              request' = [request EXCEPT ![q] =
                  [request[q] EXCEPT !.at = "busy", !.slug = a[1], !.of = a[2], !.run = NoRun,
                                     !.todo = @ \ {a}]]
      BY <1>0, <2>11 DEF NextApp
    <3>. QED
      BY <1>1, <1>3, <3>1, <3>2
  <2>12. CASE Consume(q)
    BY <1>3, <2>12 DEF Consume
  <2>. QED
    BY <1>4, <2>2, <2>3, <2>4, <2>5, <2>6, <2>7, <2>8, <2>9, <2>10, <2>11, <2>12 DEF Step
<1>5. ASSUME NEW q \in Requests, NEW p \in Previews, Confirm(q, p)
      PROVE  request' \in [Requests -> Handler]
  <2>1. ASSUME NEW at \in {"lookup", "active"}
        PROVE  [Idle EXCEPT !.job = p, !.slug = preview[p].slug, !.at = at] \in Handler
    BY DEF IInv, TypeOK, Idle, Handler, Places, Jobs
  <2>. QED
    BY <1>0, <1>1, <1>5, <2>1 DEF Confirm
<1>6. ASSUME NEW q \in Requests, NEW d \in Deliveries, RegisterDelivery(q, d)
      PROVE  request' \in [Requests -> Handler]
  <2>1. [Idle EXCEPT !.job = d, !.at = "find"] \in Handler
    BY DEF Idle, Handler, Places, Jobs
  <2>. QED
    BY <1>1, <1>6, <2>1 DEF RegisterDelivery
<1>7. ASSUME NEW q \in Requests, Abort(q) PROVE request' \in [Requests -> Handler]
  BY <1>3, <1>7 DEF Abort
<1>. QED
  BY <1>0, <1>4, <1>5, <1>6, <1>7 DEF Next, PreviewCreateApp, PreviewRedeploy, CreatePreview,
     PauseTeamApps, DeleteApp, Callback, vars

LEMMA AppTypes ==
    ASSUME IInv, [Next]_vars
    PROVE  app' \in [Slugs -> Apps \cup {NoApp}]
<1>0. app \in [Slugs -> Apps \cup {NoApp}]
  BY DEF IInv, TypeOK
<1>1. ASSUME NEW id, NEW left, DeleteRow(id, left) PROVE app' \in [Slugs -> Apps \cup {NoApp}]
  BY <1>0, <1>1 DEF DeleteRow
<1>2. CASE PauseTeamApps
  <2>1. ASSUME NEW s \in Slugs, Exists(s) PROVE [app[s] EXCEPT !.status = "paused"] \in Apps
    BY <1>0, <2>1 DEF Exists, Apps
  <2>. QED
    BY <1>2, <2>1 DEF PauseTeamApps
<1>3. ASSUME NEW s \in Slugs, DeleteApp(s) PROVE app' \in [Slugs -> Apps \cup {NoApp}]
  BY <1>1, <1>3 DEF DeleteApp
<1>4. ASSUME NEW q \in Requests, CreateApp(q) PROVE app' \in [Slugs -> Apps \cup {NoApp}]
  <2>1. ASSUME NEW r \in Runs PROVE [id |-> r, status |-> "queued"] \in Apps
    BY DEF Apps, Rows
  <2>. QED
    BY <1>0, <1>4, <2>1 DEF CreateApp
<1>5. ASSUME NEW q \in Requests, Rollback(q) PROVE app' \in [Slugs -> Apps \cup {NoApp}]
  BY <1>0, <1>1, <1>5 DEF Rollback
<1>6. ASSUME NEW q \in Requests, Step(q) PROVE app' \in [Slugs -> Apps \cup {NoApp}]
  BY <1>0, <1>4, <1>5, <1>6 DEF Step, LookupSlug, Provision, LookupActive, CheckInFlight,
     InsertRedeployRun, Dispatch, FindLiveApps, NextApp, Consume
<1>. QED
  BY <1>0, <1>2, <1>3, <1>6 DEF Next, PreviewCreateApp, PreviewRedeploy, CreatePreview,
     Callback, Confirm, RegisterDelivery, Abort, vars

LEMMA RunTypes ==
    ASSUME IInv, [Next]_vars
    PROVE  run' \in [Runs -> RunRows]
<1>1. ASSUME NEW q \in Requests, NEW r \in Runs, InsertsApp(q, r) PROVE run' \in [Runs -> RunRows]
  <2>1. request[q].slug \in Slugs \cup {NoSlug} /\ request[q].job \in Jobs \cup {NoJob}
    BY DEF IInv, TypeOK, Handler
  <2>2. [state |-> "queued", slug |-> request[q].slug, of |-> r,
         by |-> request[q].job, knew |-> {}] \in RunRows
    BY <2>1 DEF RunRows, States, InFlight, Rows
  <2>. QED
    BY <1>1, <2>2 DEF InsertsApp, Draws, IInv, TypeOK
<1>2. ASSUME NEW q \in Requests, NEW r \in Runs, InsertsRun(q, r) PROVE run' \in [Runs -> RunRows]
  <2>1. request[q] \in Handler
    BY DEF IInv, TypeOK
  <2>2. [state |-> "queued", slug |-> request[q].slug, of |-> request[q].of,
         by |-> request[q].job, knew |-> request[q].knew] \in RunRows
    BY <2>1 DEF RunRows, States, InFlight, Handler
  <2>. QED
    BY <1>2, <2>2 DEF InsertsRun, Draws, IInv, TypeOK
<1>. QED
  BY <1>1, <1>2, RunsMove DEF IInv

LEMMA OtherTypes ==
    ASSUME IInv, [Next]_vars
    PROVE  /\ effects' \subseteq Slugs \X Kinds
           /\ started' \subseteq Runs
           /\ registered' \subseteq Deliveries
           /\ answers' \in [Previews -> SUBSET Runs]
           /\ faults' \in 0 .. MaxFaults
<1>1. effects' \subseteq Slugs \X Kinds
  <2>1. ASSUME NEW q \in Requests, Provision(q)
        PROVE  effects' \subseteq effects \cup {<<request[q].slug, request[q].at>>}
               /\ request[q].at \in Kinds /\ request[q].slug \in Slugs
    BY <2>1 DEF Provision, IInv, SlugsAreNamed, Kinds
  <2>2. UNCHANGED effects \/ effects' \subseteq effects \/ \E q \in Requests : Provision(q)
    BY DEF Next, PreviewCreateApp, PreviewRedeploy, CreatePreview, PauseTeamApps, DeleteApp,
       Callback, Confirm, RegisterDelivery, Abort, Step, LookupSlug, CreateApp, Rollback,
       LookupActive, CheckInFlight, InsertRedeployRun, Dispatch, FindLiveApps, NextApp, Consume, vars
  <2>. QED
    BY <2>1, <2>2 DEF IInv, TypeOK
<1>2. started' \subseteq Runs
  <2>1. ASSUME NEW q \in Requests, Dispatch(q)
        PROVE  started' \subseteq started \cup {request[q].run} /\ request[q].run \in Runs
    BY <2>1 DEF Dispatch, DispatchEvent, IInv, RunsAreOwned
  <2>2. UNCHANGED started \/ \E q \in Requests : Dispatch(q)
    BY DEF Next, PreviewCreateApp, PreviewRedeploy, CreatePreview, PauseTeamApps, DeleteApp,
       Callback, Confirm, RegisterDelivery, Abort, Step, LookupSlug, CreateApp, Provision, Rollback,
       LookupActive, CheckInFlight, InsertRedeployRun, FindLiveApps, NextApp, Consume, vars
  <2>. QED
    BY <2>1, <2>2 DEF IInv, TypeOK
<1>3. registered' \subseteq Deliveries
  BY DEF Next, PreviewCreateApp, PreviewRedeploy, CreatePreview, PauseTeamApps, DeleteApp,
     Callback, Confirm, RegisterDelivery, Abort, Step, LookupSlug, CreateApp, Provision, Rollback,
     LookupActive, CheckInFlight, InsertRedeployRun, Dispatch, FindLiveApps, NextApp, Consume, vars,
     IInv, TypeOK
<1>4. answers' \in [Previews -> SUBSET Runs]
  <2>1. ASSUME NEW q \in Requests, NEW p \in Previews, Confirm(q, p)
        PROVE  answers' \in [Previews -> SUBSET Runs]
    <3>1. preview[p].result \in Runs \cup {NoRun}
      BY DEF IInv, TypeOK
    <3>. QED
      BY <2>1, <3>1 DEF Confirm, Consumed, IInv, TypeOK
  <2>2. ASSUME NEW q \in Requests, Consume(q) PROVE answers' \in [Previews -> SUBSET Runs]
    BY <2>2 DEF Consume, IInv, TypeOK, RunsAreOwned
  <2>3. \/ UNCHANGED answers
        \/ \E q \in Requests : Consume(q) \/ \E p \in Previews : Confirm(q, p)
    BY DEF Next, PreviewCreateApp, PreviewRedeploy, CreatePreview, PauseTeamApps, DeleteApp,
       Callback, RegisterDelivery, Abort, Step, LookupSlug, CreateApp, Provision, Rollback,
       LookupActive, CheckInFlight, InsertRedeployRun, Dispatch, FindLiveApps, NextApp, vars
  <2>. QED
    BY <2>1, <2>2, <2>3 DEF IInv, TypeOK
<1>5. faults' \in 0 .. MaxFaults
  <2>1. UNCHANGED faults \/ Fault
    BY DEF Next, PreviewCreateApp, PreviewRedeploy, CreatePreview, PauseTeamApps, DeleteApp,
       Callback, Confirm, RegisterDelivery, Abort, Step, LookupSlug, CreateApp, Provision, Rollback,
       LookupActive, CheckInFlight, InsertRedeployRun, Dispatch, FindLiveApps, NextApp, Consume, vars
  <2>. QED
    BY <2>1, IntakeAssumption DEF Fault, IInv, TypeOK
<1>. QED
  BY <1>1, <1>2, <1>3, <1>4, <1>5

\* A preview is filled in once, and gets one result.
Fills(p, s, kind) ==
    /\ preview[p].kind = "none"
    /\ preview' = [preview EXCEPT ![p] = [preview[p] EXCEPT !.slug = s, !.kind = kind]]

LEMMA PreviewMoves ==
    ASSUME IInv, [Next]_vars
    PROVE  \/ UNCHANGED preview
           \/ \E p \in Previews, s \in Slugs, kind \in {"create", "redeploy"} : Fills(p, s, kind)
           \/ \E q \in Requests :
                 /\ Consume(q) /\ request[q].job \in Previews /\ request[q].run \in Runs
                 /\ preview[request[q].job].result = NoRun
                 /\ preview' = [preview EXCEPT ![request[q].job] =
                                   [preview[request[q].job] EXCEPT !.result = request[q].run]]
<1>1. ASSUME NEW p \in Previews, NEW s \in Slugs, NEW kind, CreatePreview(p, s, kind)
      PROVE  Fills(p, s, kind)
  BY <1>1 DEF CreatePreview, Fills, IInv, TypeOK
<1>2. CASE \E p \in Previews, s \in Slugs : PreviewCreateApp(p, s) \/ PreviewRedeploy(p, s)
  BY <1>1, <1>2 DEF PreviewCreateApp, PreviewRedeploy
<1>3. ASSUME NEW q \in Requests, Consume(q)
      PROVE  \/ UNCHANGED preview
             \/ /\ request[q].job \in Previews /\ request[q].run \in Runs
                /\ preview[request[q].job].result = NoRun
                /\ preview' = [preview EXCEPT ![request[q].job] =
                                  [preview[request[q].job] EXCEPT !.result = request[q].run]]
  BY <1>3 DEF Consume, Consumed, IInv, TypeOK, JobsFit, RunsAreOwned
<1>4. \/ UNCHANGED preview
      \/ \E p \in Previews, s \in Slugs : PreviewCreateApp(p, s) \/ PreviewRedeploy(p, s)
      \/ \E q \in Requests : Consume(q)
  BY DEF Next, PauseTeamApps, DeleteApp,
     Callback, Confirm, RegisterDelivery, Abort, Step, LookupSlug, CreateApp, Provision, Rollback,
     LookupActive, CheckInFlight, InsertRedeployRun, Dispatch, FindLiveApps, NextApp, vars
<1>. QED
  BY <1>2, <1>3, <1>4

PreviewRows == [kind : {"none", "create", "redeploy"}, slug : Slugs \cup {NoSlug},
                result : Runs \cup {NoRun}]

LEMMA TypeStep == ASSUME IInv, [Next]_vars PROVE TypeOK'
<1>1. preview \in [Previews -> PreviewRows]
  BY DEF IInv, TypeOK, PreviewRows
<1>2. ASSUME NEW p \in Previews, NEW s \in Slugs, NEW kind \in {"create", "redeploy"}, Fills(p, s, kind)
      PROVE  preview' \in [Previews -> PreviewRows]
  <2>1. [preview[p] EXCEPT !.slug = s, !.kind = kind] \in PreviewRows
    BY <1>1 DEF PreviewRows
  <2>. QED
    BY <1>1, <1>2, <2>1 DEF Fills
<1>3. ASSUME NEW p \in Previews, NEW r \in Runs PROVE [preview[p] EXCEPT !.result = r] \in PreviewRows
  BY <1>1 DEF PreviewRows
<1>4. preview' \in [Previews -> PreviewRows]
  BY <1>1, <1>2, <1>3, PreviewMoves
<1>. QED
  BY <1>4, HandlerTypes, AppTypes, RunTypes, OtherTypes DEF TypeOK, PreviewRows

-----------------------------------------------------------------------------
(* How a step moves a handler, and what it leaves alone meanwhile.           *)

\* Nothing that is stored about apps, runs and answers changes.
Quiet == UNCHANGED <<app, run, preview, answers>> /\ started \subseteq started'

Confirms(q) == \E p \in Previews, place \in {"lookup", "active"} :
    /\ preview[p].kind # "none" /\ UNCHANGED registered
    /\ request'[q] = [Idle EXCEPT !.job = p, !.slug = preview[p].slug, !.at = place]

Registers(q) == \E d \in Deliveries :
    /\ d \notin registered /\ registered' = registered \cup {d}
    /\ request'[q] = [Idle EXCEPT !.job = d, !.at = "find"]

Walks(q) == \E place \in Places :
    /\ request'[q] = [request[q] EXCEPT !.at = place] /\ UNCHANGED registered
    /\ \/ request[q].at = "lookup" /\ place = "insert_app"
       \/ request[q].at \in Kinds /\ place \in {"namespace", "manifest", "dispatch", "rollback"}
       \/ request[q].at \in {"busy", "dispatch"} /\ place = "next" /\ request[q].job \in Deliveries
       \/ /\ request[q].at = "dispatch" /\ place = "consume"
          /\ request[q].job \notin Deliveries /\ request[q].run \in started'
       \/ request[q].at = "dispatch" /\ place = "rollback" /\ request[q].run = request[q].of

FindsActive(q) ==
    /\ request[q].at = "active" /\ Exists(request[q].slug) /\ UNCHANGED registered
    /\ request'[q] = [request[q] EXCEPT !.at = "busy", !.of = app[request[q].slug].id]

PassesCheck(q) ==
    /\ request[q].at = "busy" /\ ~Busy(request[q].of) /\ UNCHANGED registered
    /\ request'[q] = [request[q] EXCEPT !.at = "insert", !.knew = RunsOf(request[q].of)]

FindsLive(q) ==
    /\ request[q].at = "find" /\ UNCHANGED registered
    /\ request'[q] = [request[q] EXCEPT !.at = "next",
                         !.todo = {<<s, app[s].id>> : s \in {x \in Legacy : app[x].status = "live"}}]

TakesNext(q) == \E a \in request[q].todo :
    /\ request[q].at = "next" /\ UNCHANGED registered
    /\ request'[q] = [request[q] EXCEPT !.at = "busy", !.slug = a[1], !.of = a[2], !.run = NoRun,
                                        !.todo = @ \ {a}]

GoesOn(q) ==
    \/ Confirms(q) \/ Registers(q) \/ Walks(q) \/ FindsActive(q)
    \/ PassesCheck(q) \/ FindsLive(q) \/ TakesNext(q)

\* A handler that ends; a rollback takes its own app along, a consume leaves a result.
Ends(q) ==
    /\ request'[q] = Idle /\ UNCHANGED registered
    /\ \/ Quiet
       \/ Rollback(q) /\ DeleteRow(request[q].of, "undone")
       \/ Consume(q)

Alone(q) == \A o \in Requests : o # q => request'[o] = request[o]

\* A step of the world, which moves no handler.
World ==
    /\ UNCHANGED <<request, registered, started>>
    /\ \/ UNCHANGED <<app, run, answers>>
       \/ PauseTeamApps
       \/ \E s \in Slugs : DeleteApp(s)
       \/ \E r \in Runs : Callback(r)
       \/ \E q \in Requests, p \in Previews : Confirm(q, p) /\ Consumed(p)

LEMMA HandlersMove ==
    ASSUME IInv, [Next]_vars
    PROVE  \/ World
           \/ \E q \in Requests :
                 /\ Alone(q)
                 /\ \/ Ends(q)
                    \/ Quiet /\ GoesOn(q)
                    \/ \E r \in Runs : /\ UNCHANGED <<registered, started, preview, answers>>
                                       /\ InsertsApp(q, r) \/ InsertsRun(q, r)
<1>0. request \in [Requests -> Handler]
  BY DEF IInv, TypeOK
<1> DEFINE Goal == \E q \in Requests :
                 /\ Alone(q)
                 /\ \/ Ends(q)
                    \/ Quiet /\ GoesOn(q)
                    \/ \E r \in Runs : /\ UNCHANGED <<registered, started, preview, answers>>
                                       /\ InsertsApp(q, r) \/ InsertsRun(q, r)
<1>1. ASSUME NEW q \in Requests, Finish(q) PROVE Alone(q) /\ request'[q] = Idle
  BY <1>0, <1>1 DEF Finish, Alone
<1>2. ASSUME NEW q \in Requests, NEW place, Goto(q, place)
      PROVE  Alone(q) /\ request'[q] = [request[q] EXCEPT !.at = place]
  BY <1>0, <1>2 DEF Goto, Alone
<1>3. ASSUME NEW q \in Requests, Step(q) PROVE Goal
  <2>1. request[q] \in Handler
    BY <1>0
  <2>2. CASE LookupSlug(q)
    BY <1>1, <1>2, <2>2 DEF LookupSlug, Ends, Quiet, GoesOn, Walks, Places
  <2>3. CASE CreateApp(q)
    <3>1. CASE Finish(q) /\ UNCHANGED <<app, run>>
      BY <1>1, <2>3, <3>1 DEF CreateApp, Ends, Quiet
    <3>2. CASE \E r \in Runs : InsertsApp(q, r)
      <4>1. Alone(q)
        BY <1>0, <3>2 DEF InsertsApp, Alone
      <4>. QED
        BY <2>3, <3>2, <4>1 DEF CreateApp
    <3>. QED
      BY <2>3, <3>1, <3>2 DEF CreateApp, InsertsApp, Draws
  <2>4. CASE Provision(q)
    <3>1. After[request[q].at] \in {"namespace", "manifest", "dispatch"}
      BY <2>4 DEF Provision, After, Kinds
    <3>2. \E place \in {"namespace", "manifest", "dispatch", "rollback"} : Goto(q, place)
      BY <2>4, <3>1 DEF Provision
    <3>. QED
      BY <1>2, <2>4, <3>2 DEF Provision, Quiet, GoesOn, Walks, Places
  <2>5. CASE Rollback(q)
    BY <1>1, <2>5 DEF Rollback, Ends, Quiet
  <2>6. CASE LookupActive(q)
    <3>1. CASE Finish(q)
      BY <1>1, <2>6, <3>1 DEF LookupActive, Ends, Quiet
    <3>2. CASE ~Finish(q)
      BY <1>0, <2>6, <3>2 DEF LookupActive, Alone, Quiet, GoesOn, FindsActive
    <3>. QED
      BY <3>1, <3>2
  <2>7. CASE CheckInFlight(q)
    <3>1. CASE Finish(q)
      BY <1>1, <2>7, <3>1 DEF CheckInFlight, Ends, Quiet
    <3>2. CASE request[q].job \in Deliveries /\ Goto(q, "next")
      BY <1>2, <2>7, <3>2 DEF CheckInFlight, Quiet, GoesOn, Walks, Places
    <3>3. CASE ~Busy(request[q].of)
      BY <1>0, <2>7, <3>3 DEF CheckInFlight, Alone, Quiet, GoesOn, PassesCheck
    <3>. QED
      BY <2>7, <3>1, <3>2, <3>3 DEF CheckInFlight
  <2>8. CASE InsertRedeployRun(q)
    <3>1. CASE Finish(q) /\ UNCHANGED run
      BY <1>1, <2>8, <3>1 DEF InsertRedeployRun, Ends, Quiet
    <3>2. CASE \E r \in Runs : InsertsRun(q, r)
      <4>1. Alone(q)
        BY <1>0, <3>2 DEF InsertsRun, Alone
      <4>. QED
        BY <2>8, <3>2, <4>1 DEF InsertRedeployRun
    <3>. QED
      BY <2>8, <3>1, <3>2 DEF InsertRedeployRun, InsertsRun, Draws
  <2>9. CASE Dispatch(q)
    <3>1. Quiet /\ UNCHANGED registered /\ request[q].at = "dispatch"
      BY <2>9 DEF Dispatch, DispatchEvent, Quiet
    <3>2. CASE DispatchEvent(request[q].run) /\ Goto(q, "next") /\ request[q].job \in Deliveries
      BY <1>2, <3>1, <3>2 DEF GoesOn, Walks, Places
    <3>3. CASE DispatchEvent(request[q].run) /\ Goto(q, "consume") /\ request[q].job \notin Deliveries
      BY <1>2, <3>1, <3>3 DEF GoesOn, Walks, Places, DispatchEvent
    <3>4. CASE Goto(q, "rollback") /\ request[q].run = request[q].of
      BY <1>2, <3>1, <3>4 DEF GoesOn, Walks, Places
    <3>5. CASE Finish(q)
      BY <1>1, <3>1, <3>5 DEF Ends
    <3>. QED
      BY <2>9, <3>2, <3>3, <3>4, <3>5 DEF Dispatch
  <2>10. CASE FindLiveApps(q)
    BY <1>0, <2>10 DEF FindLiveApps, Alone, Quiet, GoesOn, FindsLive
  <2>11. CASE NextApp(q)
    <3>1. CASE Finish(q)
      BY <1>1, <2>11, <3>1 DEF NextApp, Ends, Quiet
    <3>2. CASE ~Finish(q)
      BY <1>0, <2>11, <3>2 DEF NextApp, Alone, Quiet, GoesOn, TakesNext
    <3>. QED
      BY <3>1, <3>2
  <2>12. CASE Consume(q)
    BY <1>1, <2>12 DEF Consume, Ends
  <2>. QED
    BY <1>3, <2>2, <2>3, <2>4, <2>5, <2>6, <2>7, <2>8, <2>9, <2>10, <2>11, <2>12 DEF Step
<1>4. ASSUME NEW q \in Requests, NEW p \in Previews, Confirm(q, p) PROVE World \/ Goal
  <2>1. CASE Consumed(p)
    BY <1>4, <2>1 DEF Confirm, World
  <2>2. CASE ~Consumed(p)
    BY <1>0, <1>4, <2>2 DEF Confirm, Alone, Quiet, GoesOn, Confirms
  <2>. QED
    BY <2>1, <2>2
<1>5. ASSUME NEW q \in Requests, NEW d \in Deliveries, RegisterDelivery(q, d) PROVE Goal
  BY <1>0, <1>5 DEF RegisterDelivery, Alone, Quiet, GoesOn, Registers
<1>6. ASSUME NEW q \in Requests, Abort(q) PROVE Goal
  BY <1>1, <1>6 DEF Abort, Ends, Quiet
<1>7. CASE \E p \in Previews, s \in Slugs : PreviewCreateApp(p, s) \/ PreviewRedeploy(p, s)
  BY <1>7 DEF PreviewCreateApp, PreviewRedeploy, CreatePreview, World
<1>8. CASE PauseTeamApps \/ (\E s \in Slugs : DeleteApp(s)) \/ (\E r \in Runs : Callback(r))
  BY <1>8 DEF PauseTeamApps, DeleteApp, Callback, World
<1>9. CASE UNCHANGED vars
  BY <1>9 DEF vars, World
<1>. QED
  BY <1>3, <1>4, <1>5, <1>6, <1>7, <1>8, <1>9 DEF Next

\* What happens to the rows of apps: one is drawn, or rows go or are paused.
AppsKeep ==
    \A s \in Slugs : \/ app'[s] = NoApp
                     \/ app'[s].id = app[s].id /\ app'[s].status \in {app[s].status, "paused"}

LEMMA AppsMove ==
    ASSUME IInv, [Next]_vars
    PROVE  AppsKeep \/ \E q \in Requests, r \in Runs : InsertsApp(q, r)
<1>0. app \in [Slugs -> Apps \cup {NoApp}]
  BY DEF IInv, TypeOK
<1>1. UNCHANGED app => AppsKeep
  BY DEF AppsKeep
<1>2. ASSUME NEW id, NEW left, DeleteRow(id, left) PROVE AppsKeep
  BY <1>0, <1>2 DEF DeleteRow, AppsKeep
<1>3. CASE PauseTeamApps
  BY <1>0, <1>3 DEF PauseTeamApps, AppsKeep, Apps
<1>4. CASE \E s \in Slugs : DeleteApp(s)
  BY <1>2, <1>4 DEF DeleteApp
<1>5. CASE \E r \in Runs : Callback(r)
  BY <1>1, <1>5 DEF Callback
<1>6. ASSUME NEW q \in Requests, NEW p \in Previews, Confirm(q, p) PROVE AppsKeep
  BY <1>1, <1>6 DEF Confirm
<1>7. ASSUME NEW q \in Requests, Ends(q) PROVE AppsKeep
  BY <1>1, <1>2, <1>7 DEF Ends, Quiet, Consume
<1>8. ASSUME NEW q \in Requests, Quiet PROVE AppsKeep
  BY <1>1, <1>8 DEF Quiet
<1>9. ASSUME NEW q \in Requests, NEW r \in Runs, InsertsRun(q, r) PROVE AppsKeep
  BY <1>1, <1>9 DEF InsertsRun
<1>. QED
  BY <1>1, <1>3, <1>4, <1>5, <1>6, <1>7, <1>8, <1>9, HandlersMove DEF World

-----------------------------------------------------------------------------
(* Each part of the invariant is kept.                                       *)

LEMMA SlugsStep == ASSUME IInv, [Next]_vars PROVE SlugsAreNamed'
<1>1. ASSUME NEW q \in Requests PROVE request[q] \in Handler
  BY DEF IInv, TypeOK
<1>2. ASSUME NEW p \in Previews, preview'[p].kind # "none" PROVE preview'[p].slug \in Slugs
  <2>1. preview \in [Previews -> PreviewRows]
    BY DEF IInv, TypeOK, PreviewRows
  <2>2. ASSUME NEW x \in Previews, NEW s \in Slugs, NEW kind, Fills(x, s, kind)
        PROVE  preview'[p].slug \in Slugs
    BY <1>2, <2>1, <2>2 DEF Fills, PreviewRows, IInv, SlugsAreNamed
  <2>3. ASSUME NEW q \in Requests, request[q].job \in Previews,
               preview' = [preview EXCEPT ![request[q].job] =
                              [preview[request[q].job] EXCEPT !.result = request[q].run]]
        PROVE  preview'[p].slug \in Slugs
    BY <1>2, <2>1, <2>3 DEF PreviewRows, IInv, SlugsAreNamed
  <2>. QED
    BY <1>2, <2>2, <2>3, PreviewMoves DEF IInv, SlugsAreNamed
<1>3. ASSUME NEW q \in Requests, request'[q].at \notin {"idle", "find", "next"}
      PROVE  request'[q].slug \in Slugs
  <2>1. CASE request'[q] = request[q]
    BY <1>3, <2>1 DEF IInv, SlugsAreNamed
  <2>2. CASE Ends(q)
    BY <1>3, <2>2 DEF Ends, Idle
  <2>3. CASE GoesOn(q)
    BY <1>1, <1>3, <2>3 DEF GoesOn, Confirms, Registers, Walks, FindsActive, PassesCheck, FindsLive,
       TakesNext, IInv, SlugsAreNamed, Handler, Idle, Kinds
  <2>4. ASSUME NEW r \in Runs, InsertsApp(q, r) \/ InsertsRun(q, r) PROVE request'[q].slug \in Slugs
    BY <1>1, <2>4 DEF InsertsApp, InsertsRun, IInv, TypeOK, SlugsAreNamed, Handler
  <2>. QED
    BY <2>1, <2>2, <2>3, <2>4, HandlersMove DEF World, Alone
<1>4. ASSUME NEW t \in Runs, run'[t].state # "absent" PROVE run'[t].slug \in Slugs
  <2>1. CASE RunsKeep
    BY <1>4, <2>1 DEF RunsKeep, IInv, SlugsAreNamed
  <2>2. ASSUME NEW q \in Requests, NEW r \in Runs, InsertsApp(q, r) \/ InsertsRun(q, r)
        PROVE  run'[t].slug \in Slugs
    BY <1>4, <2>2 DEF InsertsApp, InsertsRun, Draws, IInv, TypeOK, SlugsAreNamed
  <2>. QED
    BY <2>1, <2>2, RunsMove DEF IInv
<1>. QED
  BY <1>2, <1>3, <1>4 DEF SlugsAreNamed

LEMMA JobsStep == ASSUME IInv, [Next]_vars PROVE JobsFit'
<1>1. ASSUME NEW q \in Requests PROVE request[q] \in Handler
  BY DEF IInv, TypeOK
<1> DEFINE Fits(h) ==
        /\ h.at # "idle" => h.job \in Jobs
        /\ h.at \in {"find", "next"} => h.job \in Deliveries
        /\ h.at \in {"lookup", "insert_app", "active", "consume", "rollback"} \cup Kinds =>
              h.job \in Previews
<1>2. ASSUME NEW q \in Requests PROVE Fits(request[q])
  BY DEF IInv, JobsFit
<1>3. Fits(Idle)
  BY DEF Idle, Kinds
<1>4. ASSUME NEW q \in Requests, request[q].at = "dispatch", request[q].run = request[q].of
      PROVE  request[q].job \notin Deliveries
  BY <1>4, NamesDiffer DEF IInv, PushesAdvance, RunsAreOwned
<1>5. ASSUME NEW q \in Requests, GoesOn(q) PROVE Fits(request'[q])
  <2>1. CASE Confirms(q) \/ Registers(q)
    BY <2>1 DEF Confirms, Registers, Idle, Jobs, Kinds
  <2>2. CASE Walks(q)
    BY <1>1, <1>2, <1>4, <2>2 DEF Walks, Handler, Jobs, Kinds
  <2>3. CASE FindsActive(q) \/ PassesCheck(q) \/ FindsLive(q) \/ TakesNext(q)
    BY <1>1, <1>2, <2>3 DEF FindsActive, PassesCheck, FindsLive, TakesNext, Handler, Jobs, Kinds
  <2>. QED
    BY <1>5, <2>1, <2>2, <2>3 DEF GoesOn
<1>6. ASSUME NEW q \in Requests, NEW r \in Runs, InsertsApp(q, r) \/ InsertsRun(q, r)
      PROVE  Fits(request'[q])
  <2>1. /\ request'[q].job = request[q].job
        /\ \/ request[q].at = "insert_app" /\ request'[q].at = "route"
           \/ request[q].at = "insert" /\ request'[q].at = "dispatch"
    BY <1>1, <1>6 DEF InsertsApp, InsertsRun, IInv, TypeOK, Handler
  <2>. QED
    BY <1>2, <2>1 DEF Kinds, Jobs
<1>7. ASSUME NEW q \in Requests PROVE Fits(request'[q])
  <2>1. CASE request'[q] = request[q]
    BY <1>2, <2>1
  <2>2. CASE Ends(q)
    BY <1>3, <2>2 DEF Ends
  <2>. QED
    BY <1>5, <1>6, <2>1, <2>2, HandlersMove DEF World, Alone
<1>. QED
  BY <1>7 DEF JobsFit

LEMMA KnownStep == ASSUME IInv, [Next]_vars PROVE KnownRunsArePast'
<1>1. ASSUME NEW q \in Requests PROVE request[q] \in Handler
  BY DEF IInv, TypeOK
<1>2. ASSUME NEW r \in Runs, run[r].state \in Past PROVE run'[r].state \in Past
  <2>1. ASSUME NEW q \in Requests, NEW t \in Runs, InsertsApp(q, t) \/ InsertsRun(q, t)
        PROVE  run'[r].state \in Past
    BY <1>2, <2>1 DEF InsertsApp, InsertsRun, Draws, Past, IInv, TypeOK
  <2>. QED
    BY <1>2, <2>1, RunsMove DEF RunsKeep, IInv
<1>3. ASSUME NEW t \in Runs, NEW r \in run'[t].knew PROVE run'[r].state \in Past
  <2>1. CASE RunsKeep
    <3>1. r \in run[t].knew /\ r \in Runs
      BY <1>3, <2>1, RunTypes DEF RunsKeep, IInv, TypeOK, RunRows
    <3>. QED
      BY <1>2, <3>1 DEF IInv, KnownRunsArePast
  <2>2. ASSUME NEW q \in Requests, NEW x \in Runs, InsertsApp(q, x) \/ InsertsRun(q, x)
        PROVE  run'[r].state \in Past
    <3>1. r \in run[t].knew \/ r \in request[q].knew
      BY <1>3, <2>2 DEF InsertsApp, InsertsRun, Draws, IInv, TypeOK
    <3>2. r \in Runs /\ run[r].state \in Past
      BY <1>1, <3>1 DEF IInv, KnownRunsArePast, TypeOK, RunRows, Handler
    <3>. QED
      BY <1>2, <3>2
  <2>. QED
    BY <2>1, <2>2, RunsMove DEF IInv
<1>4. ASSUME NEW q \in Requests, PassesCheck(q), NEW r \in request'[q].knew
      PROVE  r \in Runs /\ run[r].state \in Past
  <2>1. r \in RunsOf(request[q].of) /\ ~Busy(request[q].of)
    BY <1>1, <1>4 DEF PassesCheck, Handler
  <2>2. r \in Runs /\ run[r].state \in States
    BY <2>1 DEF RunsOf, IInv, TypeOK, RunRows
  <2>. QED
    BY <2>1, <2>2 DEF RunsOf, Busy, States, InFlight, Past
<1>5. ASSUME NEW q \in Requests, NEW r \in request'[q].knew PROVE run'[r].state \in Past
  <2>1. ASSUME request'[q].knew \subseteq request[q].knew PROVE run'[r].state \in Past
    <3>1. r \in Runs /\ run[r].state \in Past
      BY <1>1, <1>5, <2>1 DEF IInv, KnownRunsArePast, Handler
    <3>. QED
      BY <1>2, <3>1
  <2>2. CASE Ends(q)
    BY <1>5, <2>2 DEF Ends, Idle
  <2>3. CASE PassesCheck(q)
    BY <1>2, <1>4, <1>5, <2>3
  <2>4. CASE GoesOn(q) /\ ~PassesCheck(q)
    <3>1. request'[q].knew \subseteq request[q].knew
      BY <1>1, <2>4 DEF GoesOn, Confirms, Registers, Walks, FindsActive, FindsLive, TakesNext,
         Handler, Idle
    <3>. QED
      BY <2>1, <3>1
  <2>5. ASSUME NEW t \in Runs, InsertsApp(q, t) \/ InsertsRun(q, t)
        PROVE  request'[q].knew \subseteq request[q].knew
    BY <1>1, <2>5 DEF InsertsApp, InsertsRun, IInv, TypeOK, Handler
  <2>. QED
    BY <2>1, <2>2, <2>3, <2>4, <2>5, HandlersMove DEF World, Alone
<1>. QED
  BY <1>3, <1>5 DEF KnownRunsArePast

LEMMA IdsStep == ASSUME IInv, [Next]_vars PROVE IdsAreDrawn' /\ LiveAreLegacy'
<1>1. ASSUME NEW q \in Requests PROVE request[q] \in Handler
  BY DEF IInv, TypeOK
<1>2. ASSUME NEW t \in Runs, run[t].state # "absent" PROVE run'[t].state # "absent"
  <2>1. ASSUME NEW q \in Requests, NEW r \in Runs, InsertsApp(q, r) \/ InsertsRun(q, r)
        PROVE  run'[t].state # "absent"
    BY <1>2, <2>1 DEF InsertsApp, InsertsRun, Draws, IInv, TypeOK
  <2>. QED
    BY <1>2, <2>1, RunsMove DEF RunsKeep, IInv
<1>3. ASSUME NEW q \in Requests, NEW r \in Runs, InsertsApp(q, r) PROVE run'[r].state # "absent"
  BY <1>3 DEF InsertsApp, Draws, IInv, TypeOK
<1>4. ASSUME NEW s \in Slugs
      PROVE  /\ app'[s].id \in Runs => run'[app'[s].id].state # "absent"
             /\ app'[s].status = "live" => s \in Legacy /\ app'[s].id = s
  <2>1. CASE AppsKeep
    BY <1>2, <2>1, NamesDiffer DEF AppsKeep, NoApp, IInv, IdsAreDrawn, LiveAreLegacy
  <2>2. ASSUME NEW q \in Requests, NEW r \in Runs, InsertsApp(q, r)
        PROVE  /\ app'[s].id \in Runs => run'[app'[s].id].state # "absent"
               /\ app'[s].status = "live" => s \in Legacy /\ app'[s].id = s
    <3>1. app'[s] = app[s] \/ app'[s] = [id |-> r, status |-> "queued"]
      BY <2>2 DEF InsertsApp, IInv, TypeOK
    <3>2. CASE app'[s] = app[s]
      BY <1>2, <3>2 DEF IInv, IdsAreDrawn, LiveAreLegacy
    <3>3. CASE app'[s] = [id |-> r, status |-> "queued"]
      BY <1>3, <2>2, <3>3
    <3>. QED
      BY <3>1, <3>2, <3>3
  <2>. QED
    BY <2>1, <2>2, AppsMove
<1>5. ASSUME NEW q \in Requests, request'[q].of \in Runs
      PROVE  run'[request'[q].of].state # "absent"
  <2>1. CASE request'[q].of = request[q].of
    BY <1>2, <1>5, <2>1 DEF IInv, IdsAreDrawn
  <2>2. CASE request'[q].of = NoRun
    BY <1>5, <2>2, NamesDiffer
  <2>3. CASE GoesOn(q)
    <3>1. CASE FindsActive(q)
      <4>1. request[q].slug \in Slugs /\ request'[q].of = app[request[q].slug].id
        BY <1>1, <3>1 DEF FindsActive, Handler, IInv, SlugsAreNamed
      <4>. QED
        BY <1>2, <1>5, <4>1 DEF IInv, IdsAreDrawn
    <3>2. CASE TakesNext(q)
      <4>1. \E a \in request[q].todo : request'[q].of = a[2] /\ request[q].at = "next"
        BY <1>1, <3>2 DEF TakesNext, Handler
      <4>. QED
        BY <1>5, <4>1, NamesDiffer DEF IInv, JobsFit, PushesAdvance
    <3>3. CASE ~FindsActive(q) /\ ~TakesNext(q)
      <4>1. request'[q].of \in {request[q].of, NoRun}
        BY <1>1, <2>3, <3>3 DEF GoesOn, Confirms, Registers, Walks, PassesCheck, FindsLive, Handler, Idle
      <4>. QED
        BY <2>1, <2>2, <4>1
    <3>. QED
      BY <3>1, <3>2, <3>3
  <2>4. CASE Ends(q)
    BY <2>2, <2>4 DEF Ends, Idle
  <2>5. ASSUME NEW r \in Runs, InsertsApp(q, r)
        PROVE  run'[request'[q].of].state # "absent"
    <3>1. request'[q].of = r
      BY <1>1, <2>5 DEF InsertsApp, IInv, TypeOK, Handler
    <3>. QED
      BY <1>3, <2>5, <3>1
  <2>6. ASSUME NEW r \in Runs, InsertsRun(q, r) PROVE request'[q].of = request[q].of
    BY <1>1, <2>6 DEF InsertsRun, IInv, TypeOK, Handler
  <2>. QED
    BY <2>1, <2>3, <2>4, <2>5, <2>6, HandlersMove DEF World, Alone
<1>. QED
  BY <1>4, <1>5 DEF IdsAreDrawn, LiveAreLegacy

\* A run is only ever made for a push by the handler of its delivery.
LEMMA NewRunsOfPushes ==
    ASSUME IInv, [Next]_vars, NEW r \in Runs, run'[r].by \in Deliveries
    PROVE  \/ run'[r].by = run[r].by /\ run'[r].of = run[r].of
           \/ \E q \in Requests : /\ InsertsRun(q, r)
                                  /\ run'[r].by = request[q].job /\ run'[r].of = request[q].of
<1>1. ASSUME NEW q \in Requests, NEW t \in Runs, InsertsApp(q, t)
      PROVE  run'[r].by = run[r].by /\ run'[r].of = run[r].of
  <2>1. request[q].job \notin Deliveries
    BY <1>1, NamesDiffer DEF InsertsApp, IInv, JobsFit
  <2>. QED
    BY <1>1, <2>1 DEF InsertsApp, Draws, IInv, TypeOK
<1>2. ASSUME NEW q \in Requests, NEW t \in Runs, InsertsRun(q, t)
      PROVE  \/ run'[r].by = run[r].by /\ run'[r].of = run[r].of
             \/ r = t /\ run'[r].by = request[q].job /\ run'[r].of = request[q].of
  BY <1>2 DEF InsertsRun, Draws, IInv, TypeOK
<1>. QED
  BY <1>1, <1>2, RunsMove DEF RunsKeep, IInv

LEMMA RegisteredGrows == ASSUME IInv, [Next]_vars PROVE registered \subseteq registered'
BY HandlersMove DEF World, Ends, GoesOn, Confirms, Registers, Walks, FindsActive, PassesCheck,
   FindsLive, TakesNext

LEMMA RunsOfPushesStep ==
    ASSUME IInv, [Next]_vars
    PROVE  RunsOfPushesAreRegistered' /\ OneRunPerDelivery'
<1>1. ASSUME NEW q \in Requests, request[q].job \in Deliveries PROVE request[q].job \in registered
  BY <1>1 DEF IInv, PushesAdvance
<1>2. RunsOfPushesAreRegistered'
  BY <1>1, NewRunsOfPushes, RegisteredGrows DEF IInv, RunsOfPushesAreRegistered
<1>3. ASSUME NEW q \in Requests, NEW r \in Runs, InsertsRun(q, r), request[q].job \in Deliveries,
             NEW t \in Runs, run[t].by = request[q].job
      PROVE  run[t].of # request[q].of
  BY <1>3 DEF InsertsRun, IInv, PushesAdvance
<1>4. ASSUME NEW q \in Requests, NEW r \in Runs, InsertsRun(q, r), NEW t \in Runs, t # r
      PROVE  run'[t] = run[t]
  BY <1>4 DEF InsertsRun, Draws, IInv, TypeOK
<1>5. ASSUME NEW r \in Runs, NEW t \in Runs, run'[r].by \in Deliveries,
             run'[r].by = run'[t].by, run'[r].of = run'[t].of, r # t
      PROVE  FALSE
  <2>1. CASE \E q \in Requests : InsertsRun(q, r) /\ run'[r].by = request[q].job /\ run'[r].of = request[q].of
    BY <1>3, <1>4, <1>5, <2>1
  <2>2. CASE \E q \in Requests : InsertsRun(q, t) /\ run'[t].by = request[q].job /\ run'[t].of = request[q].of
    BY <1>3, <1>4, <1>5, <2>2
  <2>3. CASE run'[r].by = run[r].by /\ run'[r].of = run[r].of /\ run'[t].by = run[t].by /\ run'[t].of = run[t].of
    BY <1>5, <2>3 DEF IInv, OneRunPerDelivery
  <2>. QED
    BY <1>5, <2>1, <2>2, <2>3, NewRunsOfPushes
<1>. QED
  BY <1>2, <1>5 DEF OneRunPerDelivery

\* A handler takes up a push whose delivery id was not there.
LEMMA JobMoves ==
    ASSUME IInv, [Next]_vars, NEW q \in Requests, request'[q].job \in Deliveries
    PROVE  \/ request'[q].job = request[q].job
           \/ Registers(q) /\ request'[q].job \notin registered /\ Alone(q) /\ Quiet
<1>1. request[q] \in Handler /\ request \in [Requests -> Handler]
  BY DEF IInv, TypeOK
<1>2. CASE Ends(q)
  BY <1>2, NamesDiffer DEF Ends, Idle
<1>3. CASE GoesOn(q) /\ ~Registers(q)
  <2>1. CASE Confirms(q)
    BY <2>1, NamesDiffer DEF Confirms, Idle
  <2>. QED
    BY <1>1, <1>3, <2>1 DEF GoesOn, Walks, FindsActive, PassesCheck, FindsLive, TakesNext, Handler
<1>4. CASE Registers(q) /\ Alone(q) /\ Quiet
  BY <1>4 DEF Registers, Idle
<1>5. ASSUME NEW r \in Runs, InsertsApp(q, r) \/ InsertsRun(q, r)
      PROVE  request'[q].job = request[q].job
  BY <1>1, <1>5 DEF InsertsApp, InsertsRun, Handler
<1>6. CASE request'[q] = request[q]
  BY <1>6
<1>. QED
  BY <1>2, <1>3, <1>4, <1>5, <1>6, HandlersMove DEF World, Alone

LEMMA PushesUnique ==
    ASSUME IInv, [Next]_vars, NEW q \in Requests, request'[q].job \in Deliveries
    PROVE  /\ request'[q].job \in registered'
           /\ \A o \in Requests : request'[o].job = request'[q].job => o = q
<1>1. ASSUME NEW o \in Requests, Registers(o) PROVE request'[o].job \in registered'
  BY <1>1 DEF Registers, Idle
<1>2. ASSUME NEW o \in Requests, request[o].job \in Deliveries PROVE request[o].job \in registered
  BY <1>2 DEF IInv, PushesAdvance
<1>3. request'[q].job \in registered'
  BY <1>1, <1>2, JobMoves, RegisteredGrows
<1>4. ASSUME NEW o \in Requests, request'[o].job = request'[q].job PROVE o = q
  <2>1. CASE request'[q].job = request[q].job /\ request'[o].job = request[o].job
    BY <1>4, <2>1 DEF IInv, PushesAdvance
  <2>2. CASE Registers(q) /\ request'[q].job \notin registered /\ Alone(q)
    BY <1>2, <1>4, <2>2 DEF Alone
  <2>3. CASE Registers(o) /\ request'[o].job \notin registered /\ Alone(o)
    BY <1>2, <1>4, <2>3 DEF Alone
  <2>4. request'[o].job \in Deliveries
    BY <1>4
  <2>. QED
    BY <2>1, <2>2, <2>3, <2>4, JobMoves
<1>. QED
  BY <1>3, <1>4

\* What PushesAdvance says of how far one handler is, but for its delivery.
Advances(h, rows) ==
    /\ h.at \in {"find", "next", "busy", "insert", "dispatch"}
    /\ \A a \in h.todo : a[1] \in Legacy /\ a[2] = a[1]
    /\ h.at \in {"busy", "insert", "dispatch"} => h.of \in Legacy
    /\ h.at = "find" => \A r \in Runs : rows[r].by # h.job
    /\ \A r \in Runs : rows[r].by = h.job => \A a \in h.todo : a[2] # rows[r].of
    /\ h.at \in {"busy", "insert"} =>
          /\ \A r \in Runs : rows[r].by = h.job => rows[r].of # h.of
          /\ \A a \in h.todo : a[2] # h.of

LEMMA PushGoesOn ==
    ASSUME IInv, [Next]_vars, NEW q \in Requests, request'[q].job \in Deliveries,
           GoesOn(q), Alone(q), Quiet
    PROVE  Advances(request'[q], run)
<1>1. request[q] \in Handler
  BY DEF IInv, TypeOK
<1>2. CASE Registers(q)
  BY <1>2 DEF Registers, Idle, Advances, IInv, RunsOfPushesAreRegistered
<1>3. CASE ~Registers(q)
  <2>1. request'[q].job = request[q].job /\ Advances(request[q], run)
    BY <1>3, JobMoves DEF IInv, PushesAdvance, Advances
  <2>2. request[q].job \in Deliveries /\ request[q].job \notin Previews
    BY <2>1, NamesDiffer
  <2>3. request[q].at \notin {"lookup", "active"} \cup Kinds
    BY <2>2 DEF IInv, JobsFit
  <2>4. CASE Confirms(q)
    BY <2>4, NamesDiffer DEF Confirms, Idle
  <2>5. CASE Walks(q)
    <3>1. request[q].at = "dispatch" => request[q].run # request[q].of
      BY <2>1, NamesDiffer DEF IInv, RunsAreOwned, Advances
    <3>2. request'[q] = [request[q] EXCEPT !.at = "next"]
      BY <1>1, <2>2, <2>3, <2>5, <3>1 DEF Walks
    <3>. QED
      BY <1>1, <2>1, <3>2 DEF Advances, Handler
  <2>6. CASE PassesCheck(q)
    BY <1>1, <2>1, <2>6 DEF PassesCheck, Advances, Handler
  <2>7. CASE FindsLive(q)
    <3>1. /\ request[q].at = "find" /\ request'[q].at = "next" /\ request'[q].job = request[q].job
          /\ request'[q].todo = {<<s, app[s].id>> : s \in {x \in Legacy : app[x].status = "live"}}
      BY <1>1, <2>7 DEF FindsLive, Handler
    <3>2. \A a \in request'[q].todo : a[1] \in Legacy /\ a[2] = a[1]
      BY <3>1, NamesDiffer DEF IInv, LiveAreLegacy
    <3>. QED
      BY <2>1, <3>1, <3>2 DEF Advances
  <2>8. CASE TakesNext(q)
    <3>1. PICK a \in request[q].todo :
              request'[q] = [request[q] EXCEPT !.at = "busy", !.slug = a[1], !.of = a[2], !.run = NoRun,
                                               !.todo = @ \ {a}]
      BY <2>8 DEF TakesNext
    <3>2. /\ request'[q].at = "busy" /\ request'[q].of = a[2] /\ request'[q].job = request[q].job
          /\ request'[q].todo = request[q].todo \ {a}
      BY <1>1, <3>1 DEF Handler
    <3>3. request[q].todo \subseteq Slugs \X Rows
      BY <1>1 DEF Handler
    <3>4. ASSUME NEW b \in request[q].todo, b # a PROVE b[2] # a[2]
      BY <2>1, <3>3, <3>4 DEF Advances
    <3>. QED
      BY <2>1, <3>2, <3>4 DEF Advances
  <2>. QED
    BY <1>3, <2>3, <2>4, <2>5, <2>6, <2>7, <2>8 DEF GoesOn, FindsActive
<1>. QED
  BY <1>2, <1>3

LEMMA PushesStep == ASSUME IInv, [Next]_vars PROVE PushesAdvance'
<1>1. ASSUME NEW q \in Requests, request'[q].job \in Deliveries PROVE Advances(request'[q], run')
  <2>0. request[q] \in Handler
    BY DEF IInv, TypeOK
  <2>1. CASE request'[q] = request[q]
    <3>1. Advances(request[q], run)
      BY <1>1, <2>1 DEF IInv, PushesAdvance, Advances
    <3>2. ASSUME NEW r \in Runs, run'[r].by = request[q].job
          PROVE  run'[r].by = run[r].by /\ run'[r].of = run[r].of
      <4>1. ASSUME NEW o \in Requests, InsertsRun(o, r), request[o].job = request[q].job PROVE FALSE
        <5>1. o = q
          BY <1>1, <2>1, <4>1 DEF IInv, PushesAdvance
        <5>2. request'[q].at = "dispatch" /\ request[q].at = "insert"
          BY <2>0, <4>1, <5>1 DEF InsertsRun, IInv, TypeOK, Handler
        <5>. QED
          BY <2>1, <5>2
      <4>. QED
        BY <1>1, <2>1, <3>2, <4>1, NewRunsOfPushes
    <3>. QED
      BY <2>1, <3>1, <3>2 DEF Advances
  <2>2. CASE Quiet /\ GoesOn(q) /\ Alone(q)
    BY <1>1, <2>2, PushGoesOn DEF Quiet
  <2>3. ASSUME NEW r \in Runs, InsertsRun(q, r) PROVE Advances(request'[q], run')
    <3>1. /\ request[q].at = "insert" /\ request'[q].at = "dispatch"
          /\ request'[q].job = request[q].job /\ request'[q].of = request[q].of
          /\ request'[q].todo = request[q].todo
      BY <2>0, <2>3 DEF InsertsRun, IInv, TypeOK, Handler
    <3>2. Advances(request[q], run)
      BY <1>1, <3>1 DEF IInv, PushesAdvance, Advances
    <3>3. ASSUME NEW t \in Runs
          PROVE  run'[t] = run[t] \/ run'[t].of = request[q].of
      BY <2>3 DEF InsertsRun, Draws, IInv, TypeOK
    <3>. QED
      BY <3>1, <3>2, <3>3 DEF Advances
  <2>4. ASSUME NEW r \in Runs, InsertsApp(q, r) PROVE FALSE
    BY <1>1, <2>0, <2>4, NamesDiffer DEF InsertsApp, IInv, TypeOK, Handler, JobsFit
  <2>5. CASE Ends(q)
    BY <1>1, <2>5, NamesDiffer DEF Ends, Idle
  <2>. QED
    BY <2>1, <2>2, <2>3, <2>4, <2>5, HandlersMove DEF World, Alone
<1>. QED
  BY <1>1, PushesUnique DEF PushesAdvance, Advances

-----------------------------------------------------------------------------
\* A handler takes a run into its hands only by inserting it.
LEMMA RunOfHandlerMoves ==
    ASSUME IInv, [Next]_vars, NEW q \in Requests
    PROVE  \/ request'[q].run = request[q].run /\ request'[q].of = request[q].of
           \/ request'[q].run = NoRun
           \/ \E r \in Runs : (InsertsApp(q, r) \/ InsertsRun(q, r)) /\ request'[q].run = r
<1>1. request[q] \in Handler
  BY DEF IInv, TypeOK
<1>2. CASE GoesOn(q)
  BY <1>1, <1>2 DEF GoesOn, Confirms, Registers, Walks, FindsActive, PassesCheck, FindsLive, TakesNext,
     Idle, Handler, IInv, RunsAreOwned
<1>3. ASSUME NEW r \in Runs, InsertsApp(q, r) \/ InsertsRun(q, r) PROVE request'[q].run = r
  BY <1>1, <1>3 DEF InsertsApp, InsertsRun, IInv, TypeOK, Handler
<1>. QED
  BY <1>2, <1>3, HandlersMove DEF World, Alone, Ends, Idle

\* A run that was drawn stays drawn, for the same app.
LEMMA DrawnStays ==
    ASSUME IInv, [Next]_vars, NEW r \in Runs, run[r].state # "absent"
    PROVE  /\ run'[r].state # "absent" /\ run'[r].of = run[r].of /\ run'[r].slug = run[r].slug
           /\ run[r].state = "deleted" => run'[r].state = "deleted"
<1>1. ASSUME NEW q \in Requests, NEW t \in Runs, InsertsApp(q, t) \/ InsertsRun(q, t)
      PROVE  run'[r] = run[r]
  BY <1>1 DEF InsertsApp, InsertsRun, Draws, IInv, TypeOK
<1>. QED
  BY <1>1, RunsMove DEF RunsKeep, IInv

LEMMA NewIsNobodys ==
    ASSUME IInv, [Next]_vars, NEW q \in Requests, NEW r \in Runs, InsertsApp(q, r) \/ InsertsRun(q, r)
    PROVE  /\ \A o \in Requests : request[o].run # r
           /\ \A o \in Requests : o # q => request'[o].run # r
           /\ \A p \in Previews : preview[p].result # r
           /\ run'[r].state = "queued" /\ run'[r].of = request'[q].of /\ run'[r].slug = request[q].slug
<1>1. run[r].state = "absent" /\ request[q] \in Handler
  BY DEF InsertsApp, InsertsRun, Draws, IInv, TypeOK
<1>2. \A o \in Requests : request[o].run # r
  BY <1>1 DEF IInv, RunsAreOwned
<1>3. \A o \in Requests : o # q => request'[o] = request[o]
  BY DEF InsertsApp, InsertsRun, IInv, TypeOK
<1>4. \A p \in Previews : preview[p].result # r
  BY <1>1 DEF IInv, ResultsStand
<1>5. run'[r].state = "queued" /\ run'[r].of = request'[q].of /\ run'[r].slug = request[q].slug
  BY <1>1 DEF InsertsApp, InsertsRun, Draws, IInv, TypeOK, Handler
<1>. QED
  BY <1>2, <1>3, <1>4, <1>5

LEMMA OwnedStep == ASSUME IInv, [Next]_vars PROVE RunsAreOwned'
<1>1. ASSUME NEW q \in Requests PROVE request[q] \in Handler
  BY DEF IInv, TypeOK
<1>2. ASSUME NEW q \in Requests, request'[q].run \in Runs
      PROVE  /\ run'[request'[q].run].state # "absent"
             /\ run'[request'[q].run].of = request'[q].of
             /\ \A o \in Requests : request'[o].run = request'[q].run => o = q
  <2>1. CASE request'[q].run = request[q].run /\ request'[q].of = request[q].of
    <3>1. /\ run[request[q].run].state # "absent" /\ run[request[q].run].of = request[q].of
          /\ \A o \in Requests : request[o].run = request[q].run => o = q
      BY <1>2, <2>1 DEF IInv, RunsAreOwned
    <3>2. ASSUME NEW o \in Requests, request'[o].run = request'[q].run PROVE o = q
      <4>1. ASSUME NEW r \in Runs, InsertsApp(o, r) \/ InsertsRun(o, r), request'[o].run = r PROVE o = q
        BY <2>1, <3>2, <4>1, NewIsNobodys
      <4>. QED
        BY <1>2, <2>1, <3>1, <3>2, <4>1, NamesDiffer, RunOfHandlerMoves
    <3>. QED
      BY <1>2, <2>1, <3>1, <3>2, DrawnStays
  <2>2. ASSUME NEW r \in Runs, InsertsApp(q, r) \/ InsertsRun(q, r), request'[q].run = r
        PROVE  /\ run'[r].state # "absent" /\ run'[r].of = request'[q].of
               /\ \A o \in Requests : request'[o].run = r => o = q
    BY <2>2, NewIsNobodys
  <2>. QED
    BY <1>2, <2>1, <2>2, NamesDiffer, RunOfHandlerMoves
<1> DEFINE Fits(h) ==
        /\ h.at \in {"lookup", "insert_app", "active"} => h.run = NoRun
        /\ h.at \in {"dispatch", "consume"} => h.run \in Runs
        /\ h.at \in Kinds \cup {"rollback"} => h.run \in Runs /\ h.run = h.of
<1>3. ASSUME NEW q \in Requests PROVE Fits(request[q])
  BY DEF IInv, RunsAreOwned
<1>4. ASSUME NEW q \in Requests, GoesOn(q) PROVE Fits(request'[q])
  <2>1. CASE Walks(q)
    BY <1>1, <1>3, <2>1 DEF Walks, Handler, Kinds
  <2>2. CASE ~Walks(q)
    BY <1>1, <1>4, <2>2 DEF GoesOn, Confirms, Registers, FindsActive, PassesCheck, FindsLive, TakesNext,
       Idle, Handler, Kinds
  <2>. QED
    BY <2>1, <2>2
<1>5. ASSUME NEW q \in Requests, NEW r \in Runs, InsertsApp(q, r) \/ InsertsRun(q, r)
      PROVE  Fits(request'[q])
  <2>1. /\ request'[q].run = r
        /\ \/ request'[q].at = "route" /\ request'[q].of = r
           \/ request'[q].at = "dispatch"
    BY <1>1, <1>5 DEF InsertsApp, InsertsRun, IInv, TypeOK, Handler
  <2>. QED
    BY <2>1 DEF Kinds
<1>6. ASSUME NEW q \in Requests PROVE Fits(request'[q])
  <2>1. CASE request'[q] = request[q]
    BY <1>3, <2>1
  <2>2. CASE Ends(q)
    BY <2>2 DEF Ends, Idle, Kinds
  <2>. QED
    BY <1>4, <1>5, <2>1, <2>2, HandlersMove DEF World, Alone
<1>. QED
  BY <1>2, <1>6 DEF RunsAreOwned

\* Only the handler of a create_app takes the app away again, or its user does.
RootedNext(r) == run'[r].state = "deleted" \/ app'[run'[r].slug].id = r

LEMMA RootedStays ==
    ASSUME IInv, [Next]_vars, NEW r \in Runs, run[r].state # "absent", run[r].of = r, Rooted(r),
           \A q \in Requests : request[q].at = "rollback" => request[q].run # r
    PROVE  RootedNext(r)
<1>0. /\ app \in [Slugs -> Apps \cup {NoApp}] /\ run \in [Runs -> RunRows]
      /\ run[r].slug \in Slugs
      /\ run'[r].slug = run[r].slug
      /\ run[r].state = "deleted" => run'[r].state = "deleted"
  BY DrawnStays DEF IInv, TypeOK, SlugsAreNamed
<1>1. SUFFICES ASSUME run[r].state # "deleted", app[run[r].slug].id = r PROVE RootedNext(r)
  BY <1>0 DEF Rooted, RootedNext
<1>2. CASE UNCHANGED app
  BY <1>0, <1>1, <1>2 DEF Rooted, RootedNext
<1>3. CASE PauseTeamApps
  <2>1. app'[run[r].slug].id = r
    BY <1>0, <1>1, <1>3, NamesDiffer DEF PauseTeamApps, Exists, NoApp, Apps
  <2>. QED
    BY <1>0, <2>1 DEF Rooted, RootedNext
<1>4. ASSUME NEW s \in Slugs, DeleteApp(s) PROVE RootedNext(r)
  <2>1. DeleteRow(app[s].id, "deleted")
    BY <1>4 DEF DeleteApp
  <2>2. CASE app[s].id = r
    <3>1. r \in RunsOf(app[s].id)
      BY <2>2 DEF RunsOf
    <3>2. run'[r] = [run[r] EXCEPT !.state = "deleted"]
      BY <1>1, <2>1, <3>1 DEF DeleteRow
    <3>. QED
      BY <1>0, <3>2 DEF Rooted, RootedNext, RunRows
  <2>3. CASE app[s].id # r
    <3>1. app'[run[r].slug] = app[run[r].slug]
      BY <1>0, <1>1, <2>1, <2>3 DEF DeleteRow
    <3>. QED
      BY <1>0, <1>1, <3>1 DEF Rooted, RootedNext
  <2>. QED
    BY <2>2, <2>3
<1>5. ASSUME NEW q \in Requests, Rollback(q), DeleteRow(request[q].of, "undone") PROVE RootedNext(r)
  <2>1. request[q].of # r
    BY <1>5 DEF Rollback, IInv, RunsAreOwned
  <2>2. app'[run[r].slug] = app[run[r].slug]
    BY <1>0, <1>1, <1>5, <2>1 DEF DeleteRow
  <2>. QED
    BY <1>0, <1>1, <2>2 DEF Rooted, RootedNext
<1>6. ASSUME NEW q \in Requests, NEW t \in Runs, InsertsApp(q, t) PROVE RootedNext(r)
  <2>1. request[q].slug # run[r].slug
    BY <1>1, <1>6, NamesDiffer DEF InsertsApp, Exists, NoApp
  <2>2. app'[run[r].slug] = app[run[r].slug]
    BY <1>0, <1>6, <2>1 DEF InsertsApp
  <2>. QED
    BY <1>0, <1>1, <2>2 DEF Rooted, RootedNext
<1>7. CASE World
  <2>1. (\E x \in Runs : Callback(x)) => UNCHANGED app
    BY DEF Callback
  <2>2. (\E q \in Requests, p \in Previews : Confirm(q, p)) => UNCHANGED app
    BY DEF Confirm
  <2>. QED
    BY <1>2, <1>3, <1>4, <1>7, <2>1, <2>2 DEF World
<1>8. ASSUME NEW q \in Requests, Ends(q) PROVE RootedNext(r)
  BY <1>2, <1>5, <1>8 DEF Ends, Quiet, Consume
<1>9. Quiet => UNCHANGED app
  BY DEF Quiet
<1>10. ASSUME NEW q \in Requests, NEW t \in Runs, InsertsRun(q, t) PROVE UNCHANGED app
  BY <1>10 DEF InsertsRun
<1>. QED
  BY <1>2, <1>6, <1>7, <1>8, <1>9, <1>10, HandlersMove

LEMMA StartedGrows == ASSUME IInv, [Next]_vars PROVE started \subseteq started'
BY HandlersMove DEF World, Ends, Quiet, Rollback, Consume

LEMMA CreatesStep == ASSUME IInv, [Next]_vars PROVE CreatesStand'
<1>1. ASSUME NEW q \in Requests PROVE request[q] \in Handler
  BY DEF IInv, TypeOK
<1>2. ASSUME NEW q \in Requests, request'[q].run \in Runs, request'[q].run = request'[q].of,
             request'[q].at # "rollback"
      PROVE  RootedNext(request'[q].run)
  <2> DEFINE r == request'[q].run
  <2>1. CASE request[q].run = r /\ request[q].of = r
    <3>1. run[r].state # "absent" /\ run[r].of = r
          /\ \A o \in Requests : request[o].run = r => o = q
      BY <1>2, <2>1 DEF IInv, RunsAreOwned
    <3>2. CASE request[q].at # "rollback"
      <4>1. Rooted(r)
        BY <1>2, <2>1, <3>2 DEF IInv, CreatesStand
      <4>. QED
        BY <1>2, <3>1, <3>2, <4>1, RootedStays
    <3>3. CASE request[q].at = "rollback"
      <4>1. request'[q] # request[q]
        BY <1>2, <3>3
      <4>2. ~GoesOn(q)
        BY <1>1, <1>2, <2>1, <3>3, NamesDiffer DEF GoesOn, Confirms, Registers, Walks, FindsActive,
           PassesCheck, FindsLive, TakesNext, Idle, Kinds
      <4>3. ~Ends(q)
        BY <1>2, NamesDiffer DEF Ends, Idle
      <4>. QED
        BY <3>3, <4>1, <4>2, <4>3, HandlersMove DEF World, Alone, InsertsApp, InsertsRun
    <3>. QED
      BY <3>2, <3>3
  <2>2. ASSUME NEW t \in Runs, InsertsApp(q, t), r = t PROVE RootedNext(r)
    <3>1. request[q].slug \in Slugs /\ run'[t].slug = request[q].slug
      BY <2>2, NewIsNobodys DEF InsertsApp, IInv, SlugsAreNamed
    <3>2. app'[request[q].slug].id = t
      BY <2>2, <3>1 DEF InsertsApp, IInv, TypeOK
    <3>. QED
      BY <2>2, <3>1, <3>2 DEF Rooted, RootedNext
  <2>3. ASSUME NEW t \in Runs, InsertsRun(q, t), r = t PROVE FALSE
    <3>1. run[t].state = "absent" /\ request'[q].of = request[q].of
      BY <1>1, <2>3 DEF InsertsRun, Draws, IInv, TypeOK, Handler
    <3>. QED
      BY <1>2, <2>3, <3>1 DEF IInv, IdsAreDrawn
  <2>. QED
    BY <1>2, <2>1, <2>2, <2>3, NamesDiffer, RunOfHandlerMoves
<1>3. ASSUME NEW q \in Requests, request'[q].at = "consume" PROVE request'[q].run \in started'
  <2>1. CASE request'[q] = request[q]
    BY <1>3, <2>1, StartedGrows DEF IInv, CreatesStand
  <2>2. CASE GoesOn(q)
    BY <1>1, <1>3, <2>2 DEF GoesOn, Confirms, Registers, Walks, FindsActive, PassesCheck, FindsLive,
       TakesNext, Idle, Handler
  <2>3. ~Ends(q)
    BY <1>3 DEF Ends, Idle
  <2>4. ASSUME NEW r \in Runs, InsertsApp(q, r) \/ InsertsRun(q, r) PROVE FALSE
    BY <1>1, <1>3, <2>4 DEF InsertsApp, InsertsRun, IInv, TypeOK, Handler
  <2>. QED
    BY <2>1, <2>2, <2>3, <2>4, HandlersMove DEF World, Alone
<1>. QED
  BY <1>2, <1>3 DEF CreatesStand, Rooted, RootedNext

LEMMA ResultsStep == ASSUME IInv, [Next]_vars PROVE ResultsStand'
<1>0. preview \in [Previews -> PreviewRows]
  BY DEF IInv, TypeOK, PreviewRows
<1> DEFINE Out(r) == /\ run[r].state # "absent" /\ r \in started
                     /\ run[r].of = r => Rooted(r)
           OutNext(r) == /\ run'[r].state # "absent" /\ r \in started'
                         /\ run'[r].of = r => RootedNext(r)
<1>1. ASSUME NEW r \in Runs, Out(r), \A q \in Requests : request[q].at = "rollback" => request[q].run # r
      PROVE  OutNext(r)
  BY <1>1, RootedStays, DrawnStays, StartedGrows
<1>2. ASSUME NEW r \in Runs, run[r].state # "absent", \A q \in Requests : request[q].run # r
      PROVE  \A q \in Requests : request'[q].run # r
  BY <1>2, NamesDiffer, RunOfHandlerMoves DEF InsertsApp, InsertsRun, Draws
<1>3. ASSUME NEW p \in Previews, preview'[p].result \in Runs
      PROVE  OutNext(preview'[p].result) /\ \A q \in Requests : request'[q].run # preview'[p].result
  <2>1. CASE preview'[p].result = preview[p].result
    BY <1>1, <1>2, <1>3, <2>1 DEF IInv, ResultsStand
  <2>2. ASSUME NEW q \in Requests, Consume(q), request[q].run \in Runs,
               preview'[p].result = request[q].run
        PROVE  OutNext(preview'[p].result) /\ \A o \in Requests : request'[o].run # preview'[p].result
    <3> DEFINE r == request[q].run
    <3>1. /\ request[q].at = "consume"
          /\ request' = [request EXCEPT ![q] = Idle] /\ UNCHANGED <<run, app, started>>
      BY <2>2 DEF Consume, Finish
    <3>2. Out(r) /\ \A o \in Requests : request[o].run = r => o = q
      BY <2>2, <3>1 DEF IInv, RunsAreOwned, CreatesStand
    <3>3. \A o \in Requests : request'[o].run # r
      BY <2>2, <3>1, <3>2, NamesDiffer DEF Idle, IInv, TypeOK
    <3>4. OutNext(r)
      BY <3>1, <3>2 DEF Rooted, RootedNext
    <3>. QED
      BY <2>2, <3>3, <3>4
  <2>3. ASSUME NEW x \in Previews, NEW s \in Slugs, NEW kind, Fills(x, s, kind)
        PROVE  preview'[p].result = preview[p].result
    BY <1>0, <2>3 DEF Fills, PreviewRows
  <2>4. ASSUME NEW q \in Requests, request[q].job \in Previews,
               preview' = [preview EXCEPT ![request[q].job] =
                              [preview[request[q].job] EXCEPT !.result = request[q].run]]
        PROVE  preview'[p].result \in {preview[p].result, request[q].run}
    BY <1>0, <2>4 DEF PreviewRows
  <2>. QED
    BY <2>1, <2>2, <2>3, <2>4, PreviewMoves
<1>. QED
  BY <1>3 DEF ResultsStand, Rooted, RootedNext

LEMMA AnswersStep == ASSUME IInv, [Next]_vars PROVE AnswersAreResults'
<1>0. preview \in [Previews -> PreviewRows] /\ answers \in [Previews -> SUBSET Runs]
  BY DEF IInv, TypeOK, PreviewRows
<1>1. ASSUME NEW p \in Previews PROVE answers'[p] \subseteq {preview'[p].result}
  <2>0. answers[p] \subseteq {preview[p].result}
    BY DEF IInv, AnswersAreResults
  <2>1. CASE UNCHANGED <<preview, answers>>
    BY <2>0, <2>1
  <2>2. ASSUME NEW x \in Previews, NEW s \in Slugs, NEW kind, CreatePreview(x, s, kind)
        PROVE  answers'[p] \subseteq {preview'[p].result}
    BY <1>0, <2>0, <2>2 DEF CreatePreview, PreviewRows
  <2>3. ASSUME NEW q \in Requests, NEW x \in Previews, Confirm(q, x)
        PROVE  answers'[p] \subseteq {preview'[p].result}
    BY <1>0, <2>0, <2>3 DEF Confirm
  <2>4. ASSUME NEW q \in Requests, Consume(q) PROVE answers'[p] \subseteq {preview'[p].result}
    <3>1. CASE UNCHANGED <<preview, answers>>
      BY <2>0, <3>1
    <3>2. CASE /\ preview[request[q].job].result = NoRun
               /\ preview' = [preview EXCEPT ![request[q].job].result = request[q].run]
               /\ answers' = [answers EXCEPT ![request[q].job] = @ \cup {request[q].run}]
      <4>1. CASE p # request[q].job
        BY <1>0, <2>0, <3>2, <4>1
      <4>2. CASE p = request[q].job
        <5>1. answers[p] = {}
          BY <1>0, <2>0, <3>2, <4>2, NamesDiffer
        <5>2. answers'[p] = {request[q].run} /\ preview'[p].result = request[q].run
          BY <1>0, <3>2, <4>2, <5>1 DEF PreviewRows
        <5>. QED
          BY <5>2
      <4>. QED
        BY <4>1, <4>2
    <3>. QED
      BY <2>4, <3>1, <3>2 DEF Consume, Consumed
  <2>5. \/ UNCHANGED <<preview, answers>>
        \/ \E x \in Previews, s \in Slugs : CreatePreview(x, s, "create") \/ CreatePreview(x, s, "redeploy")
        \/ \E q \in Requests : Consume(q) \/ \E x \in Previews : Confirm(q, x)
    BY DEF Next, PreviewCreateApp, PreviewRedeploy, PauseTeamApps, DeleteApp,
       Callback, RegisterDelivery, Abort, Step, LookupSlug, CreateApp, Provision, Rollback,
       LookupActive, CheckInFlight, InsertRedeployRun, Dispatch, FindLiveApps, NextApp, vars
  <2>. QED
    BY <2>1, <2>2, <2>3, <2>4, <2>5
<1>. QED
  BY <1>1 DEF AnswersAreResults

-----------------------------------------------------------------------------
\* The invariant holds in every reachable state.
THEOREM InductiveInvariant == Spec => []IInv
<1>1. Init => IInv
  BY InitEstablishes
<1>2. IInv /\ [Next]_vars => IInv'
  BY TypeStep, SlugsStep, JobsStep, KnownStep, IdsStep, PushesStep, RunsOfPushesStep,
     OwnedStep, CreatesStep, ResultsStep, AnswersStep DEF IInv
<1>. QED
  BY <1>1, <1>2, PTL DEF Spec

\* Type correctness.
THEOREM TypeCorrect == Spec => []TypeOK
<1>1. IInv => TypeOK
  BY DEF IInv
<1>. QED
  BY <1>1, InductiveInvariant, PTL

\* A push starts at most one run of an app, whatever fails on the way.
THEOREM PushesRunOnce == Spec => []OneRunPerDelivery
<1>1. IInv => OneRunPerDelivery
  BY DEF IInv
<1>. QED
  BY <1>1, InductiveInvariant, PTL

\* Two runs of an app that are in flight together raced, or a late callback
\* reopened one: what a run's handler saw before it is past.
THEOREM OverlapsRaced == Spec => []OverlapNeedsRace
<1>1. IInv => OverlapNeedsRace
  BY DEF IInv, KnownRunsArePast, Past, OverlapNeedsRace
<1>. QED
  BY <1>1, InductiveInvariant, PTL

\* The answers to a preview agree, and those of a create_app name a run that was
\* started and whose app is there until its user deletes it.
THEOREM AnswersAreKept == Spec => []AnswersStand
<1>1. ASSUME IInv PROVE AnswersStand
  <2>1. ASSUME NEW p \in Previews, NEW r \in answers[p]
        PROVE  r = preview[p].result /\ r \in Runs
    BY <1>1 DEF IInv, AnswersAreResults, TypeOK
  <2>. QED
    BY <1>1, <2>1 DEF IInv, AnswersAreResults, ResultsStand, Rooted, AnswersStand
<1>. QED
  BY <1>1, InductiveInvariant, PTL

-----------------------------------------------------------------------------
(* The runs that stay queued for ever.                                       *)

Charged == IsFiniteSet(Stranded) /\ EachStrandedTakesAFault

\* Nothing but a failure adds to the stranded, and it adds one run.
LEMMA ChargedStep ==
    ASSUME faults \in Nat, Charged, NEW x,
           \/ faults' = faults + 1 /\ Stranded' \subseteq Stranded \cup {x}
           \/ faults' = faults /\ Stranded' \subseteq Stranded
    PROVE  Charged'
<1>1. IsFiniteSet(Stranded \cup {x}) /\ Cardinality(Stranded) \in Nat
  BY FS_AddElement, FS_CardinalityType DEF Charged
<1>2. IsFiniteSet(Stranded') /\ Cardinality(Stranded') \in Nat
  BY <1>1, FS_Subset, FS_CardinalityType
<1>3. CASE faults' = faults + 1 /\ Stranded' \subseteq Stranded \cup {x}
  <2>1. Cardinality(Stranded \cup {x}) <= Cardinality(Stranded) + 1
    BY <1>1, FS_AddElement DEF Charged
  <2>2. Cardinality(Stranded') <= Cardinality(Stranded \cup {x})
    BY <1>1, <1>3, FS_Subset
  <2>3. Cardinality(Stranded \cup {x}) \in Nat
    BY <1>1, FS_CardinalityType
  <2>. QED
    BY <1>1, <1>2, <1>3, <2>1, <2>2, <2>3 DEF Charged, EachStrandedTakesAFault
<1>4. CASE faults' = faults /\ Stranded' \subseteq Stranded
  <2>1. Cardinality(Stranded') <= Cardinality(Stranded)
    BY <1>4, FS_Subset DEF Charged
  <2>. QED
    BY <1>1, <1>2, <1>4, <2>1 DEF Charged, EachStrandedTakesAFault
<1>. QED
  BY <1>3, <1>4

\* A run that was queued is stranded by the handler that has it, if at all.
LEMMA OnlyItsHandlerStrands ==
    ASSUME NEW q, \A o \in Requests : o # q => request'[o] = request[o],
           started \subseteq started',
           NEW r \in Stranded', run[r].state = "queued"
    PROVE  r \in Stranded \/ Drives(q, r)
BY DEF Stranded, Drives

LEMMA OthersStay ==
    ASSUME TypeOK, NEW q \in Requests, NEW h, request' = [request EXCEPT ![q] = h]
    PROVE  /\ \A o \in Requests : o # q => request'[o] = request[o]
           /\ request'[q] = h
BY DEF TypeOK

LEMMA ChargedPreserved == IInv /\ Charged /\ [Next]_vars => Charged'
<1> SUFFICES ASSUME IInv, Charged, [Next]_vars PROVE Charged'
  OBVIOUS
<1>0. TypeOK /\ RunsAreOwned /\ faults \in Nat
  BY IntakeAssumption DEF IInv, TypeOK
<1>1. ASSUME UNCHANGED <<request, started>>,
             \A r \in Runs : run'[r].state = "queued" => run[r].state = "queued",
             faults' = faults \/ faults' = faults + 1
      PROVE  Charged'
  <2>1. Stranded' \subseteq Stranded
    BY <1>1 DEF Stranded, Drives
  <2>. QED
    BY <1>0, <1>1, <2>1, ChargedStep
<1>2. CASE \/ \E p \in Previews, s \in Slugs : PreviewCreateApp(p, s) \/ PreviewRedeploy(p, s)
           \/ PauseTeamApps
           \/ UNCHANGED vars
  BY <1>1, <1>2 DEF PreviewCreateApp, PreviewRedeploy, CreatePreview, PauseTeamApps, vars
<1>3. ASSUME NEW s \in Slugs, DeleteApp(s) PROVE Charged'
  <2>1. \A r \in Runs : run'[r].state \in {run[r].state, "deleted"}
    BY <1>0, <1>3 DEF DeleteApp, DeleteRow, TypeOK, RunRows
  <2>2. \A r \in Runs : run'[r].state = "queued" => run[r].state = "queued"
    BY <2>1
  <2>. QED
    BY <1>1, <1>3, <2>2 DEF DeleteApp
<1>4. ASSUME NEW t \in Runs, Callback(t) PROVE Charged'
  <2>1. \E state \in {"building", "ended", "reopened"} :
            run' = [run EXCEPT ![t].state = state]
    BY <1>4 DEF Callback
  <2>2. \A r \in Runs : run'[r].state = "queued" => run[r].state = "queued"
    BY <1>0, <2>1 DEF TypeOK, RunRows
  <2>. QED
    BY <1>1, <1>4, <2>2 DEF Callback, Fault
<1>5. ASSUME NEW q \in Requests, UNCHANGED <<run, started, faults>>,
             request[q].at \notin Kinds \cup {"dispatch", "rollback"},
             \A o \in Requests : o # q => request'[o] = request[o]
      PROVE  Charged'
  <2>1. \A r : ~Drives(q, r)
    BY <1>5 DEF Drives
  <2>2. Stranded' \subseteq Stranded
    BY <1>5, <2>1, OnlyItsHandlerStrands DEF Stranded
  <2>. QED
    BY <1>0, <1>5, <2>2, ChargedStep
<1>6. ASSUME NEW q \in Requests,
             \/ \E p \in Previews : Confirm(q, p)
             \/ \E d \in Deliveries : RegisterDelivery(q, d)
      PROVE  Charged'
  <2>1. request[q].at = "idle" /\ UNCHANGED <<run, started, faults>>
    <3>1. request[q] = Idle /\ UNCHANGED <<run, started, faults>>
      BY <1>6 DEF Confirm, RegisterDelivery
    <3>. QED
      BY <3>1 DEF Idle
  <2>2. request' = request \/ \E h : request' = [request EXCEPT ![q] = h]
    BY <1>6 DEF Confirm, RegisterDelivery
  <2>. QED
    BY <1>0, <1>5, <2>1, <2>2, OthersStay DEF Kinds
<1>7. ASSUME NEW q \in Requests,
             \/ LookupSlug(q) \/ LookupActive(q) \/ CheckInFlight(q)
             \/ FindLiveApps(q) \/ NextApp(q) \/ Consume(q)
      PROVE  Charged'
  <2>1. /\ request[q].at \in {"lookup", "active", "busy", "find", "next", "consume"}
        /\ UNCHANGED <<run, started, faults>>
    BY <1>7 DEF LookupSlug, LookupActive, CheckInFlight, FindLiveApps, NextApp, Consume
  <2>2. \A o \in Requests : o # q => request'[o] = request[o]
    BY <1>0, <1>7
    DEF LookupSlug, LookupActive, CheckInFlight, FindLiveApps, NextApp, Consume, Goto, Finish, TypeOK
  <2>. QED
    BY <1>5, <2>1, <2>2 DEF Kinds
<1>8. ASSUME NEW q \in Requests, CreateApp(q) \/ InsertRedeployRun(q) PROVE Charged'
  <2>1. /\ request[q].at \in {"insert_app", "insert"}
        /\ UNCHANGED <<started, faults>>
    BY <1>8 DEF CreateApp, InsertRedeployRun
  <2>2. CASE Finish(q) /\ UNCHANGED run
    BY <1>0, <1>5, <2>1, <2>2, OthersStay DEF Finish, Kinds
  <2>3. ASSUME NEW r \in Runs,
               \A t \in Runs : t # r => run'[t] = run[t],
               \A o \in Requests : o # q => request'[o] = request[o],
               request'[q].run = r, request'[q].at \in {"route", "dispatch"}
        PROVE  Charged'
    <3>1. \A t : ~Drives(q, t)
      BY <2>1 DEF Drives, Kinds
    <3>2. r \notin Stranded'
      BY <2>3 DEF Stranded, Drives, Kinds
    <3>3. Stranded' \subseteq Stranded
      BY <2>1, <2>3, <3>1, <3>2, OnlyItsHandlerStrands DEF Stranded
    <3>. QED
      BY <1>0, <2>1, <3>3, ChargedStep
  <2>4. CASE CreateApp(q) /\ ~(Finish(q) /\ UNCHANGED run)
    <3>1. PICK r \in Runs :
              /\ \E h : run' = [run EXCEPT ![r] = h]
              /\ request' = [request EXCEPT ![q].at = "route", ![q].of = r, ![q].run = r]
      BY <2>4 DEF CreateApp
    <3>2. request'[q].run = r /\ request'[q].at = "route"
      BY <1>0, <3>1 DEF TypeOK, Handler
    <3>3. /\ \A t \in Runs : t # r => run'[t] = run[t]
          /\ \A o \in Requests : o # q => request'[o] = request[o]
      BY <1>0, <3>1 DEF TypeOK
    <3>. QED
      BY <2>3, <3>2, <3>3
  <2>5. CASE InsertRedeployRun(q) /\ ~(Finish(q) /\ UNCHANGED run)
    <3>1. PICK r \in Runs :
              /\ \E h : run' = [run EXCEPT ![r] = h]
              /\ request' = [request EXCEPT ![q].at = "dispatch", ![q].run = r, ![q].knew = {}]
      BY <2>5 DEF InsertRedeployRun
    <3>2. request'[q].run = r /\ request'[q].at = "dispatch"
      BY <1>0, <3>1 DEF TypeOK, Handler
    <3>3. /\ \A t \in Runs : t # r => run'[t] = run[t]
          /\ \A o \in Requests : o # q => request'[o] = request[o]
      BY <1>0, <3>1 DEF TypeOK
    <3>. QED
      BY <2>3, <3>2, <3>3
  <2>. QED
    BY <1>8, <2>2, <2>4, <2>5
<1>9. ASSUME NEW q \in Requests, \A o \in Requests : o # q => request'[o] = request[o],
             started \subseteq started',
             \A r \in Runs : run'[r].state = "queued" => run[r].state = "queued",
             \/ faults' = faults + 1
             \/ faults' = faults /\ request[q].run \notin Stranded'
      PROVE  Charged'
  <2>1. Stranded' \subseteq Stranded \cup {request[q].run}
    <3>1. ASSUME NEW r \in Stranded' PROVE r \in Stranded \/ Drives(q, r)
      BY <1>9, <3>1, OnlyItsHandlerStrands DEF Stranded
    <3>. QED
      BY <3>1 DEF Drives
  <2>. QED
    BY <1>0, <1>9, <2>1, ChargedStep
<1>10. ASSUME NEW q \in Requests, Provision(q) PROVE Charged'
  <2>1. /\ request[q].at \in Kinds
        /\ UNCHANGED <<run, started>>
        /\ faults' = faults + 1 \/ (faults' = faults /\ Goto(q, After[request[q].at]))
        /\ \E place : Goto(q, place)
    BY <1>10 DEF Provision, Fault
  <2>2. \A o \in Requests : o # q => request'[o] = request[o]
    BY <1>0, <2>1 DEF Goto, TypeOK
  <2>3. ASSUME faults' = faults, Goto(q, After[request[q].at])
        PROVE  request[q].run \notin Stranded'
    <3>1. After[request[q].at] \in Kinds \cup {"dispatch"}
      BY <2>1 DEF After, Kinds
    <3>2. request'[q].run = request[q].run /\ request'[q].at \in Kinds \cup {"dispatch"}
      BY <1>0, <2>3, <3>1 DEF Goto, TypeOK, Handler
    <3>. QED
      BY <3>2 DEF Stranded, Drives
  <2>. QED
    BY <1>9, <2>1, <2>2, <2>3
<1>11. ASSUME NEW q \in Requests, Dispatch(q) PROVE Charged'
  <2>1. /\ UNCHANGED run
        /\ \/ faults' = faults + 1
           \/ faults' = faults /\ started' = started \cup {request[q].run}
        /\ started \subseteq started'
    BY <1>11 DEF Dispatch, DispatchEvent, Fault
  <2>2. \A o \in Requests : o # q => request'[o] = request[o]
    BY <1>0, <1>11 DEF Dispatch, Goto, Finish, TypeOK
  <2>. QED
    BY <1>9, <2>1, <2>2 DEF Stranded
<1>12. ASSUME NEW q \in Requests, Rollback(q) PROVE Charged'
  <2>1. /\ UNCHANGED started
        /\ \/ faults' = faults + 1 /\ UNCHANGED run
           \/ faults' = faults /\ DeleteRow(request[q].of, "undone")
        /\ Finish(q)
    BY <1>12 DEF Rollback, Fault
  <2>2. \A o \in Requests : o # q => request'[o] = request[o]
    BY <1>0, <2>1 DEF Finish, TypeOK
  <2>3. ASSUME faults' = faults, DeleteRow(request[q].of, "undone")
        PROVE  /\ \A r \in Runs : run'[r].state = "queued" => run[r].state = "queued"
               /\ request[q].run \notin Stranded'
    <3>1. \A r \in Runs : IF r \in RunsOf(request[q].of) /\ run[r].state # "deleted"
                          THEN run'[r].state = "undone" ELSE run'[r] = run[r]
      BY <1>0, <2>3 DEF DeleteRow, TypeOK, RunRows
    <3>2. request[q].run \in RunsOf(request[q].of)
      BY <1>0, <1>12 DEF Rollback, RunsAreOwned, RunsOf
    <3>3. run'[request[q].run].state # "queued"
      BY <3>1, <3>2 DEF RunsOf
    <3>. QED
      BY <3>1, <3>3 DEF Stranded
  <2>. QED
    BY <1>9, <2>1, <2>2, <2>3
<1>13. ASSUME NEW q \in Requests, Abort(q) PROVE Charged'
  <2>1. \A o \in Requests : o # q => request'[o] = request[o]
    BY <1>0, <1>13 DEF Abort, Finish, TypeOK
  <2>. QED
    BY <1>9, <1>13, <2>1 DEF Abort, Fault
<1>. QED
  BY <1>2, <1>3, <1>4, <1>6, <1>7, <1>8, <1>10, <1>11, <1>12, <1>13 DEF Next, Step

\* An app is kept busy by a run that never starts only after a failure, and each
\* such run took one of its own.
THEOREM StrandedAreCharged == Spec => []EachStrandedTakesAFault
<1>1. Init => Charged
  <2>. SUFFICES ASSUME Init PROVE Charged
    OBVIOUS
  <2>1. Stranded = {} /\ faults = 0
    BY DEF Init, Stranded, NewRun
  <2>. QED
    BY <2>1, FS_EmptySet DEF Charged, EachStrandedTakesAFault
<1>2. Charged => EachStrandedTakesAFault
  BY DEF Charged
<1>. QED
  BY <1>1, <1>2, ChargedPreserved, InductiveInvariant, PTL DEF Spec
=============================================================================
