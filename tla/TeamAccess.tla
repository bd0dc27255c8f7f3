----------------------------- MODULE TeamAccess -----------------------------
(* How people come to be in teams (db/members.go, and the handlers of        *)
(* apps.go): the bootstrap of the first owner, the device login that creates *)
(* a personal team, the invitation and the removal of members.  A login is   *)
(* polled by one CLI, which gives up at the first answer that is not         *)
(* "pending"; its session is in the memory of the server.                    *)
(*                                                                           *)
(* Left out: invitations by e-mail, scopes and expiry of tokens, the audit   *)
(* rows, and the identity of who confirms, which the middleware has checked; *)
(* a preview is confirmed by one request at a time, again if that failed.    *)
EXTENDS Naturals

CONSTANTS
    People,     \* GitHub logins
    Slugs,      \* slugs of teams that are no login
    Boots,      \* bootstrap requests
    Logins,     \* runs of the login command
    Invites,    \* previews of an invitation
    Removals,   \* previews of a removal
    BootTeam, BootOwner,    \* what a bootstrap asks for
    LoginOf,    \* the person who logs in
    Target,     \* the person a preview names
    Rank,       \* the role an invitation gives
    InviteTeam, \* the team whose members are managed
    NoTeam,
    MaxFaults   \* bound: statements that fail, applied or not

Teams == People \cup Slugs   \* a personal team has the login for its slug
Previews == Invites \cup Removals
Ranks == {"owner", "admin", "member", "viewer"}

ASSUME AccessAssumption ==
    /\ BootTeam \in [Boots -> Teams] /\ BootOwner \in [Boots -> People]
    /\ LoginOf \in [Logins -> People]
    /\ Target \in [Previews -> People] /\ Rank \in [Invites -> Ranks]
    /\ InviteTeam \in Teams
    /\ MaxFaults \in Nat

VARIABLES
    role,       \* role[t][p]: team_membership.role, or "none"
    team,       \* the slugs of the team table
    boot,       \* boot[b]: how far the request is
    session,    \* session[s]: "none", "pending", "verified": in memory
    code,       \* code[s]: the device code at GitHub
    cli,        \* cli[s]: "idle", "waiting", "in", "gone"
    poll,       \* poll[s]: how far the poll in progress is, and the team it found
    tokens,     \* cli_token: <<login, team>>
    consumed,   \* previews that were consumed
    call,       \* call[v]: how far the confirm of preview v is
    granted,    \* history: <<team, person>> that an invitation was written for
    promoted,   \* history: removals whose target's role was written after they read it
    faults

vars == <<role, team, boot, session, code, cli, poll, tokens, consumed, call,
          granted, promoted, faults>>

NoPoll == [at |-> "idle", team |-> NoTeam]

Polls == [at : {"idle", "verified", "new", "resolved", "issued", "answered", "failed"},
          team : Teams \cup {NoTeam}]

TypeOK ==
    /\ role \in [Teams -> [People -> Ranks \cup {"none"}]]
    /\ team \subseteq Teams
    /\ boot \in [Boots -> {"idle", "refused", "checked", "created", "failed"}]
    /\ session \in [Logins -> {"none", "pending", "verified"}]
    /\ code \in [Logins -> {"pending", "granted", "denied", "expired", "used"}]
    /\ cli \in [Logins -> {"idle", "waiting", "in", "gone"}]
    /\ poll \in [Logins -> Polls]
    /\ tokens \subseteq Logins \X Teams
    /\ consumed \subseteq Previews
    /\ call \in [Previews -> {"idle", "valid", "read", "refused", "done"}]
    /\ granted \subseteq Teams \X People
    /\ promoted \subseteq Removals
    /\ faults \in 0 .. MaxFaults

Init ==
    /\ role = [t \in Teams |-> [p \in People |-> "none"]]
    /\ team = {}
    /\ boot = [b \in Boots |-> "idle"]
    /\ session = [s \in Logins |-> "none"]
    /\ code = [s \in Logins |-> "pending"]
    /\ cli = [s \in Logins |-> "idle"]
    /\ poll = [s \in Logins |-> NoPoll]
    /\ tokens = {}
    /\ consumed = {}
    /\ call = [v \in Previews |-> "idle"]
    /\ granted = {}
    /\ promoted = {}
    /\ faults = 0

\* A statement or a call to GitHub fails; it may have been applied.
Fault == faults < MaxFaults /\ faults' = faults + 1

\* The transaction of a bootstrap and of a first login: the slug is unique.
CreateTeam(t, p) ==
    /\ t \notin team
    /\ team' = team \cup {t}
    /\ role' = [role EXCEPT ![t][p] = "owner"]

------------------------------------------------------------------------------
(* BootstrapOwner.                                                           *)

HasAnyOwner == \E t \in Teams, p \in People : role[t][p] = "owner"

\* Read outside the transaction.
CheckBootstrap(b) ==
    /\ boot[b] = "idle"
    /\ boot' = [boot EXCEPT ![b] = IF HasAnyOwner THEN "refused" ELSE "checked"]
    /\ UNCHANGED <<role, team, session, code, cli, poll, tokens, consumed, call,
                   granted, promoted, faults>>

BootstrapOwner(b) ==
    /\ boot[b] = "checked"
    /\ \/ CreateTeam(BootTeam[b], BootOwner[b]) /\ boot' = [boot EXCEPT ![b] = "created"]
       \/ /\ BootTeam[b] \in team
          /\ boot' = [boot EXCEPT ![b] = "failed"]
          /\ UNCHANGED <<role, team>>
    /\ UNCHANGED <<session, code, cli, poll, tokens, consumed, call, granted, promoted, faults>>

------------------------------------------------------------------------------
(* The device login.                                                         *)

At(s, at) == poll' = [poll EXCEPT ![s].at = at]

\* The handler answers an error: the CLI, if it is still there, gives up.
Refuse(s) ==
    /\ At(s, "failed")
    /\ cli' = [cli EXCEPT ![s] = "gone"]

StartDeviceLogin(s) ==
    /\ cli[s] = "idle"
    /\ cli' = [cli EXCEPT ![s] = "waiting"]
    /\ session' = [session EXCEPT ![s] = "pending"]
    /\ UNCHANGED <<role, team, boot, code, poll, tokens, consumed, call, granted, promoted, faults>>

\* The person enters the code at GitHub, refuses, or lets it expire.
Authorize(s) ==
    /\ cli[s] # "idle" /\ code[s] = "pending"
    /\ \E c \in {"granted", "denied", "expired"} : code' = [code EXCEPT ![s] = c]
    /\ UNCHANGED <<role, team, boot, session, cli, poll, tokens, consumed, call,
                   granted, promoted, faults>>

\* One poll that is not answered "pending": GitHub trades the code for a token once.
ExchangeDeviceCode(s) ==
    /\ cli[s] = "waiting" /\ poll[s].at = "idle"
    /\ \/ /\ session[s] = "pending" /\ code[s] = "granted"
          /\ code' = [code EXCEPT ![s] = "used"]
          /\ session' = [session EXCEPT ![s] = "verified"]
          /\ At(s, "verified")
          /\ UNCHANGED cli
       \/ /\ session[s] = "pending" /\ code[s] \in {"denied", "expired"}
          /\ session' = [session EXCEPT ![s] = IF code[s] = "expired" THEN "none" ELSE @]
          /\ Refuse(s)
          /\ UNCHANGED code
       \/ /\ session[s] = "none"
          /\ Refuse(s)
          /\ UNCHANGED <<session, code>>
    /\ UNCHANGED <<role, team, boot, tokens, consumed, call, granted, promoted, faults>>

\* The person's teams, those where the role is strongest first.
Strength(r) == CASE r = "owner" -> 0 [] r = "admin" -> 1 [] OTHER -> 2
Memberships(p) == {t \in Teams : role[t][p] # "none"}
Default(p) == {t \in Memberships(p) :
                  \A u \in Memberships(p) : Strength(role[t][p]) <= Strength(role[u][p])}

ResolveDefaultTeam(s) ==
    /\ poll[s].at = "verified"
    /\ \/ \E t \in Default(LoginOf[s]) : poll' = [poll EXCEPT ![s] = [at |-> "resolved", team |-> t]]
       \/ Memberships(LoginOf[s]) = {} /\ At(s, "new")
    /\ UNCHANGED <<role, team, boot, session, code, cli, tokens, consumed, call,
                   granted, promoted, faults>>

\* Mutant: the insert of the team does nothing when the slug is there.
AdoptsTeam(s) ==
    /\ poll[s].at = "new"
    /\ team' = team \cup {LoginOf[s]}
    /\ role' = [role EXCEPT ![LoginOf[s]][LoginOf[s]] = "owner"]
    /\ poll' = [poll EXCEPT ![s] = [at |-> "resolved", team |-> LoginOf[s]]]
    /\ UNCHANGED <<boot, session, code, cli, tokens, consumed, call, granted, promoted, faults>>

\* GetOrCreateUserAndPersonalTeam: a slug that is taken refuses the login.
CreatePersonalTeam(s) ==
    /\ poll[s].at = "new"
    /\ \/ /\ CreateTeam(LoginOf[s], LoginOf[s])
          /\ poll' = [poll EXCEPT ![s] = [at |-> "resolved", team |-> LoginOf[s]]]
          /\ UNCHANGED cli
       \/ LoginOf[s] \in team /\ Refuse(s) /\ UNCHANGED <<role, team>>
    /\ UNCHANGED <<boot, session, code, tokens, consumed, call, granted, promoted, faults>>

CreateCLIToken(s) ==
    /\ poll[s].at = "resolved"
    /\ tokens' = tokens \cup {<<s, poll[s].team>>}
    /\ At(s, "issued")
    /\ UNCHANGED <<role, team, boot, session, code, cli, consumed, call, granted, promoted, faults>>

AnswerPoll(s) ==
    /\ poll[s].at = "issued"
    /\ session' = [session EXCEPT ![s] = "none"]
    /\ At(s, "answered")
    /\ cli' = [cli EXCEPT ![s] = IF @ = "waiting" THEN "in" ELSE @]
    /\ UNCHANGED <<role, team, boot, code, tokens, consumed, call, granted, promoted, faults>>

\* The command is interrupted, or its request takes longer than fifteen seconds.
CliGivesUp(s) ==
    /\ cli[s] = "waiting"
    /\ cli' = [cli EXCEPT ![s] = "gone"]
    /\ UNCHANGED <<role, team, boot, session, code, poll, tokens, consumed, call,
                   granted, promoted, faults>>

\* One of the calls of the poll fails.
PollFails(s) ==
    /\ poll[s].at \in {"idle", "verified", "new", "resolved"} /\ Fault
    /\ \/ UNCHANGED <<code, role, team, tokens>>
       \/ /\ poll[s].at = "idle" /\ code[s] = "granted"
          /\ code' = [code EXCEPT ![s] = "used"]
          /\ UNCHANGED <<role, team, tokens>>
       \/ /\ poll[s].at = "new" /\ CreateTeam(LoginOf[s], LoginOf[s])
          /\ UNCHANGED <<code, tokens>>
       \/ /\ poll[s].at = "resolved"
          /\ tokens' = tokens \cup {<<s, poll[s].team>>}
          /\ UNCHANGED <<code, role, team>>
    /\ cli[s] # "idle" /\ Refuse(s)
    /\ UNCHANGED <<boot, session, consumed, call, granted, promoted>>

------------------------------------------------------------------------------
(* Members.                                                                  *)

Step(v, from, to) == call[v] = from /\ call' = [call EXCEPT ![v] = to]

ValidatePreview(v) ==
    /\ InviteTeam \in team
    /\ v \notin consumed
    /\ Step(v, "idle", "valid")
    /\ UNCHANGED <<role, team, boot, session, code, cli, poll, tokens, consumed,
                   granted, promoted, faults>>

\* One transaction; a member that is there gets the role.
Enroll(v) ==
    /\ role' = [role EXCEPT ![InviteTeam][Target[v]] = Rank[v]]
    /\ granted' = granted \cup {<<InviteTeam, Target[v]>>}
    /\ promoted' = promoted \cup {w \in Removals : call[w] = "read" /\ Target[w] = Target[v]}

InviteMember(v) ==
    /\ v \in Invites /\ Step(v, "valid", "done")
    /\ Enroll(v)
    /\ UNCHANGED <<team, boot, session, code, cli, poll, tokens, consumed, faults>>

\* Mutant: an owner may be removed.
RemovesAnyone(v) == "read"

\* The role is read in a statement of its own.
RoleRead(v) ==
    IF role[InviteTeam][Target[v]] \in {"owner", "none"} THEN "refused" ELSE "read"

ReadRole(v) ==
    /\ v \in Removals /\ Step(v, "valid", RoleRead(v))
    /\ promoted' = promoted \ {v}
    /\ UNCHANGED <<role, team, boot, session, code, cli, poll, tokens, consumed,
                   granted, faults>>

Expel(v) ==
    role' = [role EXCEPT ![InviteTeam][Target[v]] = "none"]

RemoveMember(v) ==
    /\ v \in Removals
    /\ Step(v, "read", IF role[InviteTeam][Target[v]] = "none" THEN "refused" ELSE "done")
    /\ Expel(v)
    /\ UNCHANGED <<team, boot, session, code, cli, poll, tokens, consumed, granted, promoted, faults>>

ConsumePreview(v) ==
    /\ Step(v, "done", "idle")
    /\ consumed' = consumed \cup {v}
    /\ UNCHANGED <<role, team, boot, session, code, cli, poll, tokens, granted, promoted, faults>>

\* A refused or a failed confirm may be asked again.
ConfirmFails(v) ==
    /\ \/ call[v] = "refused" /\ UNCHANGED <<role, granted, promoted, faults>>
       \/ /\ call[v] \in {"valid", "read", "done"} /\ Fault
          /\ \/ UNCHANGED <<role, granted, promoted>>
             \/ v \in Invites /\ call[v] = "valid" /\ Enroll(v)
             \/ /\ v \in Removals /\ call[v] = "read" /\ Expel(v)
                /\ UNCHANGED <<granted, promoted>>
    /\ call' = [call EXCEPT ![v] = "idle"]
    /\ UNCHANGED <<team, boot, session, code, cli, poll, tokens, consumed>>

------------------------------------------------------------------------------
\* The server starts again: requests and login sessions are gone.
Restart ==
    /\ Fault
    /\ session' = [s \in Logins |-> "none"]
    /\ poll' = [s \in Logins |-> IF poll[s].at \in {"idle", "answered", "failed"}
                                 THEN poll[s] ELSE [poll[s] EXCEPT !.at = "failed"]]
    /\ cli' = [s \in Logins |-> IF poll[s].at \in {"idle", "answered"} THEN cli[s] ELSE "gone"]
    /\ call' = [v \in Previews |-> "idle"]
    /\ boot' = [b \in Boots |-> IF boot[b] = "checked" THEN "failed" ELSE boot[b]]
    /\ UNCHANGED <<role, team, code, tokens, consumed, granted, promoted>>

PollStep(s) ==
    ExchangeDeviceCode(s) \/ ResolveDefaultTeam(s) \/ CreatePersonalTeam(s)
    \/ CreateCLIToken(s) \/ AnswerPoll(s)

Next ==
    \/ \E b \in Boots : CheckBootstrap(b) \/ BootstrapOwner(b)
    \/ \E s \in Logins :
          StartDeviceLogin(s) \/ Authorize(s) \/ PollStep(s) \/ CliGivesUp(s) \/ PollFails(s)
    \/ \E v \in Previews :
          ValidatePreview(v) \/ InviteMember(v) \/ ReadRole(v) \/ RemoveMember(v)
          \/ ConsumePreview(v) \/ ConfirmFails(v)
    \/ Restart

Spec == Init /\ [][Next]_vars

------------------------------------------------------------------------------
(* Properties.                                                               *)

\* Whoever is in a team or holds a token of it created it, bootstrapped it or
\* was invited: nobody comes into a team because its slug equals a login.
MembersWereLetIn ==
    \A t \in Teams, p \in People :
        (role[t][p] # "none" \/ \E s \in Logins : LoginOf[s] = p /\ <<s, t>> \in tokens) =>
            \/ t = p /\ \A b \in Boots : boot[b] = "created" => BootTeam[b] # t
            \/ \E b \in Boots : boot[b] = "created" /\ BootTeam[b] = t /\ BootOwner[b] = p
            \/ <<t, p>> \in granted

\* An owner is only removed by a confirm that read another role before an
\* invitation wrote the role anew.
OwnersLeaveInRaces ==
    [][\A p \in People :
          role[InviteTeam][p] = "owner" /\ role'[InviteTeam][p] = "none" =>
              \E v \in promoted : Target[v] = p /\ call[v] = "read"]_vars
=============================================================================
