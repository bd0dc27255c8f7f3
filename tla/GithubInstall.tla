---------------------------- MODULE GithubInstall ----------------------------
(* The installation of the GitHub App a team is bound to                     *)
(* (services/githubapp/service.go, db/github_install.go): bound by the setup *)
(* callback, cleared by the confirm of an uninstall and by the webhooks that *)
(* GitHub sends when the installation is deleted or suspended.  Clearing is  *)
(* two statements, the apps are paused first.  One team; an installation is  *)
(* created through the state of one install link and its id is never reused. *)
(*                                                                           *)
(* Left out: the preview of an uninstall (a request that finds it consumed   *)
(* changes nothing, and a user may always make another), the audit rows, and *)
(* the installation tokens, which no caller takes from their cache yet.      *)
EXTENDS Naturals

CONSTANTS
    NumInstalls,\* installations that are ever asked for
    Suspensions,\* bound: the installations that are ever suspended
    Apps,       \* apps of the team
    Requests,   \* confirms of an uninstall
    NoInstall,
    MaxFaults   \* bound: calls that fail, applied or not

VARIABLES
    install,    \* install[i]: its state at GitHub
    link,       \* link[i]: the state token that i was or will be created with
    bound,      \* team.github_install_id
    app,        \* app[a]: its status, as far as pausing tells statuses apart
    previewed,  \* apps whose create_app preview was made
    hook,       \* hook[e]: how far the delivery of event e is
    call,       \* call[r]: how far the confirm r is, and the id it read
    older,      \* history: the apps there were when a handler that clears read the team
    late,       \* history: events of the bound installation looked up before it was bound
    faults

vars == <<install, link, bound, app, previewed, hook, call, older, late, faults>>

Installs == 1..NumInstalls
Kinds == {"deleted", "suspend", "unsuspend"}
Events == Installs \X Kinds
Done == {"handled", "cleared"}   \* without a team, with one
Clearers == Events \cup Requests

Existing == {a \in Apps : app[a] # "absent"}

Idle == [at |-> "idle", target |-> NoInstall]

Init ==
    /\ install = [i \in Installs |-> "none"]
    /\ link = [i \in Installs |-> "none"]
    /\ bound = NoInstall
    /\ app = [a \in Apps |-> "absent"]
    /\ previewed = {}
    /\ hook = [e \in Events |-> "unsent"]
    /\ call = [r \in Requests |-> Idle]
    /\ older = [h \in Clearers |-> {}]
    /\ late = {}
    /\ faults = 0

\* A statement or a call to GitHub is refused, or applied and not answered.
Fault == faults < MaxFaults /\ faults' = faults + 1

------------------------------------------------------------------------------
(* Installing.                                                               *)

\* The confirm of an install signs a state that is good for ten minutes; the
\* installations are numbered in the order of their links.
ConfirmInstall(i) ==
    /\ link[i] = "none" /\ \A k \in 1..(i - 1) : link[k] # "none"
    /\ link' = [link EXCEPT ![i] = "signed"]
    /\ UNCHANGED <<install, bound, app, previewed, hook, call, older, late, faults>>

\* Ten minutes pass, or the actor is not an owner any more.
LinkExpires(i) ==
    /\ link[i] = "signed"
    /\ link' = [link EXCEPT ![i] = "expired"]
    /\ UNCHANGED <<install, bound, app, previewed, hook, call, older, late, faults>>

\* The user follows the link and installs the App; the 'created' event is only recorded.
InstallAtGitHub(i) ==
    /\ link[i] # "none" /\ install[i] = "none"
    /\ install' = [install EXCEPT ![i] = "active"]
    /\ UNCHANGED <<link, bound, app, previewed, hook, call, older, late, faults>>

\* The browser comes back, once, again, or never.  The handler verifies the
\* state and binds whatever the team was bound to and GitHub thinks of i by then.
HandleCallback(i) ==
    /\ link[i] = "signed" /\ install[i] # "none"
    /\ bound' = i
    /\ late' = {e \in {i} \X Kinds : hook[e] \notin {"unsent", "sent"}}
    /\ UNCHANGED <<install, link, app, previewed, hook, call, older, faults>>

------------------------------------------------------------------------------
(* What the user does at GitHub, and the apps of the team.                   *)

Send(e) == hook' = [hook EXCEPT ![e] = IF @ = "unsent" THEN "sent" ELSE @]

DeletedByUser(i) ==
    /\ install[i] \in {"active", "suspended"}
    /\ install' = [install EXCEPT ![i] = "deleted"]
    /\ Send(<<i, "deleted">>)
    /\ UNCHANGED <<link, bound, app, previewed, call, older, late, faults>>

Suspended(i) ==
    /\ i \in Suspensions
    /\ install[i] = "active" /\ hook[<<i, "suspend">>] = "unsent"
    /\ install' = [install EXCEPT ![i] = "suspended"]
    /\ Send(<<i, "suspend">>)
    /\ UNCHANGED <<link, bound, app, previewed, call, older, late, faults>>

Unsuspended(i) ==
    /\ install[i] = "suspended"
    /\ install' = [install EXCEPT ![i] = "active"]
    /\ Send(<<i, "unsuspend">>)
    /\ UNCHANGED <<link, bound, app, previewed, call, older, late, faults>>

\* The preview of create_app refuses a team without installation; the confirm,
\* up to ten minutes later, does not look again.
PreviewCreateApp(a) ==
    /\ bound # NoInstall /\ a \notin previewed
    /\ previewed' = previewed \cup {a}
    /\ UNCHANGED <<install, link, bound, app, hook, call, older, late, faults>>

ConfirmCreateApp(a) ==
    /\ a \in previewed /\ app[a] = "absent"
    /\ app' = [app EXCEPT ![a] = "running"]
    /\ UNCHANGED <<install, link, bound, previewed, hook, call, older, late, faults>>

------------------------------------------------------------------------------
(* The two statements that clear a binding.                                  *)

\* Every app of the team, whatever its status; nothing unpauses one.
PauseTeamApps == app' = [a \in Apps |-> IF a \in Existing THEN "paused" ELSE app[a]]

\* By the team's id: what the team is bound to now is not compared.
SetTeamGitHubInstall(i) == bound' = i

Forget(h) == older' = [older EXCEPT ![h] = {}]

------------------------------------------------------------------------------
(* The webhook.                                                              *)

\* FindTeamByGitHubInstallID: without a team there is nothing to do.
FindTeam(e) ==
    IF e[2] # "unsuspend" /\ bound = e[1]
    THEN /\ hook' = [hook EXCEPT ![e] = "found"]
         /\ older' = [older EXCEPT ![e] = Existing]
    ELSE /\ hook' = [hook EXCEPT ![e] = "handled"]
         /\ UNCHANGED older

\* Mutant: the events of one installation share a delivery id.
RegistersPerInstall(e) ==
    /\ hook[e] = "sent"
    /\ IF \E k \in Kinds : hook[<<e[1], k>>] \notin {"unsent", "sent"}
       THEN hook' = [hook EXCEPT ![e] = "handled"] /\ UNCHANGED older
       ELSE FindTeam(e)
    /\ UNCHANGED <<install, link, bound, app, previewed, call, late, faults>>

\* The delivery id is registered first: an event whose handling fails after
\* that is not handled when GitHub sends it again.
RegisterWebhookDelivery(e) ==
    /\ hook[e] = "sent"
    /\ FindTeam(e)
    /\ UNCHANGED <<install, link, bound, app, previewed, call, late, faults>>

HookPauses(e) ==
    /\ hook[e] = "found"
    /\ PauseTeamApps
    /\ hook' = [hook EXCEPT ![e] = "paused"]
    /\ UNCHANGED <<install, link, bound, previewed, call, older, late, faults>>

HookClears(e) ==
    /\ hook[e] = "paused"
    /\ SetTeamGitHubInstall(NoInstall)
    /\ hook' = [hook EXCEPT ![e] = "cleared"]
    /\ Forget(e)
    /\ UNCHANGED <<install, link, app, previewed, call, late, faults>>

\* The server is not there, or one of the statements fails.
HookFails(e) ==
    /\ hook[e] \in {"sent", "found", "paused"} /\ Fault
    /\ hook' = [hook EXCEPT ![e] = "lost"]
    /\ \/ UNCHANGED <<app, bound>>
       \/ hook[e] = "found" /\ PauseTeamApps /\ UNCHANGED bound
       \/ hook[e] = "paused" /\ SetTeamGitHubInstall(NoInstall) /\ UNCHANGED app
    /\ Forget(e)
    /\ UNCHANGED <<install, link, previewed, call, late>>

------------------------------------------------------------------------------
(* The confirm of an uninstall.                                              *)

Goto(r, at) == call' = [call EXCEPT ![r].at = at]

\* Asked for the first time, or again after a failure.
ConfirmUninstall(r) ==
    /\ call[r].at \in {"idle", "failed"}
    /\ call' = [call EXCEPT ![r] =
          [at |-> IF bound = NoInstall THEN "deleted" ELSE "loaded", target |-> bound]]
    /\ older' = [older EXCEPT ![r] = Existing]
    /\ UNCHANGED <<install, link, bound, app, previewed, hook, late, faults>>

\* GitHub deletes the installation and sends the event; 404 counts as deleted.
Deletes(i) ==
    /\ install' = [install EXCEPT ![i] = "deleted"]
    /\ Send(<<i, "deleted">>)

DeleteInstallation(r) ==
    /\ call[r].at = "loaded"
    /\ Deletes(call[r].target)
    /\ Goto(r, "deleted")
    /\ UNCHANGED <<link, bound, app, previewed, older, late, faults>>

\* Mutant: the apps are left to a later request.
PausesNothing(r) ==
    /\ call[r].at = "deleted"
    /\ Goto(r, "paused")
    /\ UNCHANGED <<install, link, bound, app, previewed, hook, older, late, faults>>

UninstallPauses(r) ==
    /\ call[r].at = "deleted"
    /\ PauseTeamApps
    /\ Goto(r, "paused")
    /\ UNCHANGED <<install, link, bound, previewed, hook, older, late, faults>>

UninstallClears(r) ==
    /\ call[r].at = "paused"
    /\ SetTeamGitHubInstall(NoInstall)
    /\ call' = [call EXCEPT ![r] = Idle]
    /\ Forget(r)
    /\ UNCHANGED <<install, link, app, previewed, hook, late, faults>>

\* Each call may fail, or be applied and not answered; the process may die.
UninstallFails(r) ==
    /\ call[r].at \in {"loaded", "deleted", "paused"} /\ Fault
    /\ Goto(r, "failed")
    /\ \/ UNCHANGED <<install, hook, app, bound>>
       \/ call[r].at = "loaded" /\ Deletes(call[r].target) /\ UNCHANGED <<app, bound>>
       \/ call[r].at = "deleted" /\ PauseTeamApps /\ UNCHANGED <<install, hook, bound>>
       \/ call[r].at = "paused" /\ SetTeamGitHubInstall(NoInstall)
          /\ UNCHANGED <<install, hook, app>>
    /\ Forget(r)
    /\ UNCHANGED <<link, previewed, late>>

------------------------------------------------------------------------------
UninstallStep(r) == DeleteInstallation(r) \/ UninstallPauses(r) \/ UninstallClears(r)

HookStep(e) == RegisterWebhookDelivery(e) \/ HookPauses(e) \/ HookClears(e)

Next ==
    \/ \E i \in Installs :
          \/ ConfirmInstall(i) \/ LinkExpires(i) \/ InstallAtGitHub(i) \/ HandleCallback(i)
          \/ DeletedByUser(i) \/ Suspended(i) \/ Unsuspended(i)
    \/ \E a \in Apps : PreviewCreateApp(a) \/ ConfirmCreateApp(a)
    \/ \E e \in Events : HookStep(e) \/ HookFails(e)
    \/ \E r \in Requests :
          ConfirmUninstall(r) \/ UninstallStep(r) \/ UninstallFails(r)

Spec == Init /\ [][Next]_vars

\* GitHub delivers what it has to say, and a handler runs to its end.
Fairness ==
    /\ \A e \in Events : WF_vars(HookStep(e))
    /\ \A r \in Requests : WF_vars(UninstallStep(r))

FairSpec == Spec /\ Fairness

------------------------------------------------------------------------------
(* Properties.                                                               *)

\* When the binding is cleared, every app the team had when the clearing
\* handler read it is paused, whoever else was pausing, binding or creating.
ClearedTeamsArePaused ==
    [][bound # NoInstall /\ bound' = NoInstall =>
          \E h \in Clearers :
              /\ \/ h \in Events /\ hook[h] = "paused" /\ hook'[h] # hook[h]
                 \/ h \in Requests /\ call[h].at = "paused" /\ call'[h] # call[h]
              /\ \A a \in older[h] : app[a] = "paused"]_vars

\* An uninstall that got GitHub to delete the installation and failed after
\* that is completed by the event of its own deletion.
UninstallsConverge ==
    \A r \in Requests, i \in Installs :
        (/\ call[r].target = i /\ call[r].at \in {"deleted", "paused", "failed"}
         /\ install[i] = "deleted" /\ <<i, "deleted">> \notin late)
        ~> (bound # i)

------------------------------------------------------------------------------
(* What ClearedTeamsArePaused rests on: the inductive invariant.             *)

Places == {"idle", "loaded", "deleted", "paused", "failed"}

TypeOK ==
    /\ bound \in Installs \cup {NoInstall}
    /\ app \in [Apps -> {"absent", "running", "paused"}]
    /\ hook \in [Events -> {"unsent", "sent", "found", "paused", "lost"} \cup Done]
    /\ call \in [Requests -> [at : Places, target : Installs \cup {NoInstall}]]
    /\ older \in [Clearers -> SUBSET Apps]

\* A row that a handler has seen is not deleted by anyone here, so no create
\* makes a seen app run again.
SeenAppsExist == \A h \in Clearers : older[h] \subseteq Existing

\* Nothing unpauses an app, so what a handler found is paused until it clears.
PausesHold ==
    /\ \A e \in Events : hook[e] = "paused" => \A a \in older[e] : app[a] = "paused"
    /\ \A r \in Requests : call[r].at = "paused" => \A a \in older[r] : app[a] = "paused"

IInv == TypeOK /\ SeenAppsExist /\ PausesHold
=============================================================================
