-------------------------- MODULE TeamAccessProofs --------------------------
(* Proofs about the membership of teams (TeamAccess), single sign-on         *)
(* (SsoAccess), the custom hostname (DomainVerify), and the answers of the   *)
(* usage query (UsageQuery, UsageSamples), for any people, teams, requests,  *)
(* tokens, hostnames, windows, faults, pods and loads.                       *)
EXTENDS AccessControl, UsageAnswers, Functions, FiniteSetTheorems, WellFoundedInduction, TLAPS

\* How p came into team t.  Nobody can be said to have made a personal team that
\* is not there: its slug might still be taken by a bootstrap.
LetIn(t, p) ==
    \/ t = p /\ t \in team /\ \A b \in Boots : boot[b] = "created" => BootTeam[b] # t
    \/ \E b \in Boots : boot[b] = "created" /\ BootTeam[b] = t /\ BootOwner[b] = p
    \/ <<t, p>> \in granted

BootsStand == \A b \in Boots : boot[b] = "created" => BootTeam[b] \in team

RolesAreEarned == \A t \in Teams, p \in People : role[t][p] # "none" => LetIn(t, p)

TokensAreEarned == \A s \in Logins, t \in Teams : <<s, t>> \in tokens => LetIn(t, LoginOf[s])

\* A poll past its look-up has a team to issue a token for.
PollsAreEarned ==
    \A s \in Logins : poll[s].at = "resolved" =>
        poll[s].team \in Teams /\ LetIn(poll[s].team, LoginOf[s])

\* The members of a team that is not there are not managed.
ManagedTeamIsThere == \A v \in Previews : call[v] # "idle" => InviteTeam \in team

\* A removal that is past its look at the role of an owner looked before the
\* role was written.
ReadersWereOvertaken ==
    \A v \in Removals :
        call[v] = "read" /\ role[InviteTeam][Target[v]] = "owner" => v \in promoted

\* The inductive invariant.
IInv ==
    /\ TypeOK
    /\ BootsStand /\ RolesAreEarned /\ TokensAreEarned /\ PollsAreEarned
    /\ ManagedTeamIsThere /\ ReadersWereOvertaken

-----------------------------------------------------------------------------
LEMMA InitEstablishes == Init => IInv
<1> SUFFICES ASSUME Init PROVE IInv
  OBVIOUS
<1>1. TypeOK
  <2>1. NoPoll \in Polls
    BY DEF NoPoll, Polls
  <2>2. poll \in [Logins -> Polls]
    BY <2>1 DEF Init
  <2>3. role \in [Teams -> [People -> Ranks \cup {"none"}]]
    BY DEF Init
  <2>4. faults \in 0 .. MaxFaults
    BY AccessAssumption DEF Init
  <2>. QED
    BY <2>2, <2>3, <2>4 DEF Init, TypeOK
<1>2. BootsStand /\ RolesAreEarned /\ TokensAreEarned
  BY DEF Init, BootsStand, RolesAreEarned, TokensAreEarned
<1>3. PollsAreEarned /\ ManagedTeamIsThere /\ ReadersWereOvertaken
  BY DEF Init, PollsAreEarned, ManagedTeamIsThere, ReadersWereOvertaken, NoPoll, Previews
<1>. QED
  BY <1>1, <1>2, <1>3 DEF IInv

-----------------------------------------------------------------------------
(* What no step takes back.                                                  *)

Grows ==
    /\ team \subseteq team' /\ granted \subseteq granted'
    /\ \A b \in Boots : boot[b] = "created" => boot'[b] = "created"
    /\ \A b \in Boots : boot'[b] = "created" /\ boot[b] # "created" =>
          BootTeam[b] \notin team /\ BootTeam[b] \in team'

LEMMA LetInStands ==
    ASSUME NEW t, NEW p, Grows, LetIn(t, p)
    PROVE  LetIn(t, p)'
BY DEF Grows, LetIn

LEMMA StepGrows == TypeOK /\ [Next]_vars => Grows
<1> SUFFICES ASSUME TypeOK, [Next]_vars PROVE Grows
  OBVIOUS
<1>1. ASSUME NEW b \in Boots, CheckBootstrap(b) \/ BootstrapOwner(b) PROVE Grows
  BY <1>1 DEF CheckBootstrap, BootstrapOwner, CreateTeam, Grows, TypeOK
<1>2. ASSUME NEW s \in Logins,
             StartDeviceLogin(s) \/ Authorize(s) \/ PollStep(s) \/ CliGivesUp(s) \/ PollFails(s)
      PROVE  Grows
  BY <1>2 DEF StartDeviceLogin, Authorize, PollStep, CliGivesUp, PollFails, CreateTeam,
     ExchangeDeviceCode, ResolveDefaultTeam, CreatePersonalTeam, CreateCLIToken,
     AnswerPoll, Grows
<1>3. ASSUME NEW v \in Previews,
             ValidatePreview(v) \/ InviteMember(v) \/ ReadRole(v) \/ RemoveMember(v)
             \/ ConsumePreview(v) \/ ConfirmFails(v)
      PROVE  Grows
  BY <1>3 DEF ValidatePreview, InviteMember, ReadRole, RemoveMember, ConsumePreview,
     ConfirmFails, Enroll, Grows
<1>4. CASE Restart
  BY <1>4 DEF Restart, Grows, TypeOK
<1>5. CASE UNCHANGED vars
  BY <1>5 DEF vars, Grows
<1>. QED
  BY <1>1, <1>2, <1>3, <1>4, <1>5 DEF Next

-----------------------------------------------------------------------------
(* Roles.                                                                    *)

\* What a step may do to the roles: nothing, or one entry of the table.
Assigns(t, p, r) == role' = [role EXCEPT ![t][p] = r]

LEMMA AssignFacts ==
    ASSUME TypeOK, NEW t \in Teams, NEW p \in People, NEW r \in Ranks \cup {"none"},
           Assigns(t, p, r)
    PROVE  /\ role' \in [Teams -> [People -> Ranks \cup {"none"}]]
           /\ role'[t][p] = r
           /\ \A u \in Teams, q \in People : u # t \/ q # p => role'[u][q] = role[u][q]
BY DEF TypeOK, Assigns

\* An entry that is written is earned, or is taken away.
LEMMA AssignEarned ==
    ASSUME IInv, Grows, NEW t \in Teams, NEW p \in People, NEW r \in Ranks \cup {"none"},
           Assigns(t, p, r), r = "none" \/ LetIn(t, p)'
    PROVE  RolesAreEarned'
<1>1. SUFFICES ASSUME NEW u \in Teams, NEW q \in People, role'[u][q] # "none"
               PROVE  LetIn(u, q)'
  BY DEF RolesAreEarned, LetIn
<1>2. CASE u = t /\ q = p
  BY <1>1, <1>2, AssignFacts DEF IInv
<1>3. CASE u # t \/ q # p
  BY <1>1, <1>3, AssignFacts, LetInStands DEF IInv, RolesAreEarned
<1>. QED
  BY <1>2, <1>3

LEMMA RolesStand ==
    ASSUME IInv, Grows, UNCHANGED role
    PROVE  RolesAreEarned'
BY LetInStands DEF IInv, RolesAreEarned

LEMMA RankOfInvite ==
    ASSUME NEW v \in Invites
    PROVE  /\ Rank[v] \in Ranks /\ Rank[v] # "none"
           /\ Target[v] \in People
           /\ InviteTeam \in Teams
BY AccessAssumption DEF Ranks, Previews

LEMMA PersonalTeam ==
    ASSUME NEW s \in Logins
    PROVE  LoginOf[s] \in People /\ LoginOf[s] \in Teams
BY AccessAssumption DEF Teams

LEMMA RolesPreserved == IInv /\ [Next]_vars => RolesAreEarned'
<1> SUFFICES ASSUME IInv, [Next]_vars PROVE RolesAreEarned'
  OBVIOUS
<1>0. Grows
  BY StepGrows DEF IInv
<1>1. ASSUME NEW b \in Boots, BootstrapOwner(b) PROVE RolesAreEarned'
  <2>1. BootTeam[b] \in Teams /\ BootOwner[b] \in People
    BY AccessAssumption
  <2>2. CASE CreateTeam(BootTeam[b], BootOwner[b]) /\ boot' = [boot EXCEPT ![b] = "created"]
    <3>1. Assigns(BootTeam[b], BootOwner[b], "owner")
      BY <2>2 DEF CreateTeam, Assigns
    <3>2. LetIn(BootTeam[b], BootOwner[b])'
      BY <2>2 DEF LetIn, IInv, TypeOK
    <3>. QED
      BY <1>0, <2>1, <3>1, <3>2, AssignEarned DEF Ranks
  <2>3. CASE UNCHANGED role
    BY <1>0, <2>3, RolesStand
  <2>. QED
    BY <1>1, <2>2, <2>3 DEF BootstrapOwner
<1>2. ASSUME NEW s \in Logins, CreateTeam(LoginOf[s], LoginOf[s]), UNCHANGED boot
      PROVE  RolesAreEarned'
  <2>1. Assigns(LoginOf[s], LoginOf[s], "owner")
    BY <1>2 DEF CreateTeam, Assigns
  <2>2. LetIn(LoginOf[s], LoginOf[s])'
    BY <1>2 DEF CreateTeam, LetIn, IInv, BootsStand
  <2>. QED
    BY <1>0, <2>1, <2>2, PersonalTeam, AssignEarned DEF Ranks
<1>3. ASSUME NEW s \in Logins,
             StartDeviceLogin(s) \/ Authorize(s) \/ PollStep(s) \/ CliGivesUp(s) \/ PollFails(s)
      PROVE  RolesAreEarned'
  <2>1. UNCHANGED role \/ (CreateTeam(LoginOf[s], LoginOf[s]) /\ UNCHANGED boot)
    BY <1>3 DEF StartDeviceLogin, Authorize, PollStep, CliGivesUp, PollFails,
       ExchangeDeviceCode, ResolveDefaultTeam, CreatePersonalTeam, CreateCLIToken, AnswerPoll
  <2>. QED
    BY <1>0, <1>2, <2>1, RolesStand
<1>4. ASSUME NEW v \in Invites, Enroll(v) PROVE RolesAreEarned'
  <2>1. Assigns(InviteTeam, Target[v], Rank[v])
    BY <1>4 DEF Enroll, Assigns
  <2>2. LetIn(InviteTeam, Target[v])'
    BY <1>4 DEF Enroll, LetIn
  <2>. QED
    BY <1>0, <2>1, <2>2, RankOfInvite, AssignEarned
<1>5. ASSUME NEW v \in Previews, Expel(v) PROVE RolesAreEarned'
  <2>1. Assigns(InviteTeam, Target[v], "none")
    BY <1>5 DEF Expel, Assigns
  <2>. QED
    BY <1>0, <2>1, AccessAssumption, AssignEarned
<1>6. ASSUME NEW v \in Previews,
             ValidatePreview(v) \/ InviteMember(v) \/ ReadRole(v) \/ RemoveMember(v)
             \/ ConsumePreview(v) \/ ConfirmFails(v)
      PROVE  RolesAreEarned'
  <2>1. \/ UNCHANGED role
        \/ v \in Invites /\ Enroll(v)
        \/ Expel(v)
    BY <1>6 DEF ValidatePreview, InviteMember, ReadRole, RemoveMember, ConsumePreview, ConfirmFails
  <2>. QED
    BY <1>0, <1>4, <1>5, <2>1, RolesStand
<1>7. CASE UNCHANGED role
  BY <1>0, <1>7, RolesStand
<1>. QED
  BY <1>1, <1>3, <1>6, <1>7 DEF Next, CheckBootstrap, Restart, vars

-----------------------------------------------------------------------------
(* Teams, tokens and polls.                                                  *)

LEMMA BootsPreserved == IInv /\ [Next]_vars => BootsStand'
BY StepGrows DEF IInv, BootsStand, Grows

LEMMA PollsPreserved == IInv /\ [Next]_vars => PollsAreEarned'
<1> SUFFICES ASSUME IInv, [Next]_vars, NEW s \in Logins, poll'[s].at = "resolved"
             PROVE  poll'[s].team \in Teams /\ LetIn(poll[s].team, LoginOf[s])'
  BY DEF PollsAreEarned, LetIn
<1>0. Grows
  BY StepGrows DEF IInv
<1>1. CASE poll'[s] = poll[s]
  BY <1>0, <1>1, LetInStands DEF IInv, PollsAreEarned
<1>2. ASSUME NEW t \in Default(LoginOf[s]), poll'[s].team = t
      PROVE  t \in Teams /\ LetIn(t, LoginOf[s])'
  <2>1. t \in Teams /\ role[t][LoginOf[s]] # "none"
    BY DEF Default, Memberships
  <2>. QED
    BY <1>0, <2>1, PersonalTeam, LetInStands DEF IInv, RolesAreEarned
<1>3. ASSUME CreateTeam(LoginOf[s], LoginOf[s]), UNCHANGED boot
      PROVE  LoginOf[s] \in Teams /\ LetIn(LoginOf[s], LoginOf[s])'
  BY <1>3, PersonalTeam DEF CreateTeam, LetIn, IInv, BootsStand
<1>4. \/ poll'[s] = poll[s]
      \/ \E t \in Default(LoginOf[s]) : poll'[s].team = t
      \/ /\ CreateTeam(LoginOf[s], LoginOf[s]) /\ UNCHANGED boot
         /\ poll'[s].team = LoginOf[s]
  <2>1. ASSUME NEW u \in Logins, NEW at, At(u, at)
        PROVE  poll'[s] = poll[s] \/ poll'[s].at = at
    BY <2>1 DEF At, IInv, TypeOK
  <2>2. ASSUME NEW u \in Logins, NEW t, poll' = [poll EXCEPT ![u] = [at |-> "resolved", team |-> t]]
        PROVE  poll'[s] = poll[s] \/ (u = s /\ poll'[s].team = t)
    BY <2>2 DEF IInv, TypeOK
  <2>3. ASSUME NEW u \in Logins, ResolveDefaultTeam(u) PROVE <1>4!1 \/ <1>4!2
    <3>1. CASE At(u, "new")
      BY <2>1, <3>1
    <3>2. ASSUME NEW t \in Default(LoginOf[u]),
                 poll' = [poll EXCEPT ![u] = [at |-> "resolved", team |-> t]]
          PROVE  <1>4!1 \/ <1>4!2
      BY <2>2, <3>2
    <3>. QED
      BY <2>3, <3>1, <3>2 DEF ResolveDefaultTeam
  <2>4. ASSUME NEW u \in Logins, CreatePersonalTeam(u) PROVE <1>4!1 \/ <1>4!3
    <3>1. CASE At(u, "failed")
      BY <2>1, <3>1
    <3>2. CASE /\ CreateTeam(LoginOf[u], LoginOf[u]) /\ UNCHANGED boot
               /\ poll' = [poll EXCEPT ![u] = [at |-> "resolved", team |-> LoginOf[u]]]
      BY <2>2, <3>2
    <3>. QED
      BY <2>4, <3>1, <3>2 DEF CreatePersonalTeam, Refuse
  <2>5. ASSUME NEW u \in Logins, ExchangeDeviceCode(u) \/ CreateCLIToken(u) \/ AnswerPoll(u)
                                 \/ PollFails(u)
        PROVE  <1>4!1
    <3>1. At(u, "verified") \/ At(u, "failed") \/ At(u, "issued") \/ At(u, "answered")
      BY <2>5 DEF ExchangeDeviceCode, CreateCLIToken, AnswerPoll, PollFails, Refuse
    <3>. QED
      BY <2>1, <3>1
  <2>6. CASE Restart
    BY <2>6 DEF Restart, IInv, TypeOK
  <2>7. UNCHANGED poll => <1>4!1
    OBVIOUS
  <2>. QED
    BY <2>3, <2>4, <2>5, <2>6, <2>7 DEF Next, CheckBootstrap, BootstrapOwner, PollStep,
       StartDeviceLogin, Authorize, CliGivesUp, ValidatePreview, InviteMember, ReadRole,
       RemoveMember, ConsumePreview, ConfirmFails, vars
<1>. QED
  BY <1>1, <1>2, <1>3, <1>4

LEMMA TokensPreserved == IInv /\ [Next]_vars => TokensAreEarned'
<1> SUFFICES ASSUME IInv, [Next]_vars, NEW s \in Logins, NEW t \in Teams, <<s, t>> \in tokens'
             PROVE  LetIn(t, LoginOf[s])'
  BY DEF TokensAreEarned, LetIn
<1>0. Grows
  BY StepGrows DEF IInv
<1>1. CASE <<s, t>> \in tokens
  BY <1>0, <1>1, LetInStands DEF IInv, TokensAreEarned
<1>2. CASE poll[s].at = "resolved" /\ t = poll[s].team
  BY <1>0, <1>2, LetInStands DEF IInv, PollsAreEarned
<1>3. ASSUME NEW u \in Logins, poll[u].at = "resolved", tokens' = tokens \cup {<<u, poll[u].team>>}
      PROVE  <1>1!1 \/ <1>2!1
  BY <1>3
<1>4. \/ tokens' = tokens
      \/ \E u \in Logins : poll[u].at = "resolved" /\ tokens' = tokens \cup {<<u, poll[u].team>>}
  BY DEF Next, CheckBootstrap, BootstrapOwner, PollStep, ExchangeDeviceCode, PollFails,
     ResolveDefaultTeam, CreatePersonalTeam, CreateCLIToken, AnswerPoll,
     StartDeviceLogin, Authorize, CliGivesUp, ValidatePreview, InviteMember, ReadRole,
     RemoveMember, ConsumePreview, ConfirmFails, Restart, vars
<1>. QED
  BY <1>1, <1>2, <1>3, <1>4

-----------------------------------------------------------------------------
(* Members.                                                                  *)

LEMMA ManagedPreserved == IInv /\ [Next]_vars => ManagedTeamIsThere'
<1> SUFFICES ASSUME IInv, [Next]_vars, NEW v \in Previews, call'[v] # "idle"
             PROVE  InviteTeam \in team'
  BY DEF ManagedTeamIsThere
<1>1. team \subseteq team'
  BY StepGrows DEF IInv, Grows
<1>2. call[v] # "idle" \/ InviteTeam \in team
  BY DEF IInv, TypeOK, Next, CheckBootstrap, BootstrapOwner, PollStep, ExchangeDeviceCode,
     PollFails, ResolveDefaultTeam, CreatePersonalTeam, CreateCLIToken, AnswerPoll,
     StartDeviceLogin, Authorize, CliGivesUp, ValidatePreview, InviteMember, ReadRole,
     RemoveMember, ConsumePreview, ConfirmFails, Restart, Step, vars
<1>. QED
  BY <1>1, <1>2 DEF IInv, ManagedTeamIsThere

\* The managed team is there while a removal is under way, so the role of its
\* target is only written by an invitation.
LEMMA RoleOfTarget ==
    ASSUME IInv, [Next]_vars, NEW v \in Removals, call[v] = "read",
           role'[InviteTeam][Target[v]] = "owner", role[InviteTeam][Target[v]] # "owner"
    PROVE  \E w \in Invites : Enroll(w) /\ Target[w] = Target[v]
<1>0. /\ InviteTeam \in Teams /\ InviteTeam \in team
      /\ Target[v] \in People
  BY AccessAssumption DEF IInv, ManagedTeamIsThere, Previews
<1>1. ASSUME NEW t \in Teams, NEW p \in People, CreateTeam(t, p) PROVE FALSE
  <2>1. Assigns(t, p, "owner") /\ t # InviteTeam
    BY <1>0, <1>1 DEF CreateTeam, Assigns
  <2>. QED
    BY <1>0, <2>1, AssignFacts DEF IInv, Ranks
<1>2. ASSUME NEW w \in Previews, Expel(w) PROVE FALSE
  <2>1. Assigns(InviteTeam, Target[w], "none") /\ Target[w] \in People
    BY <1>2, AccessAssumption DEF Expel, Assigns
  <2>. QED
    BY <1>0, <2>1, AssignFacts DEF IInv
<1>3. ASSUME NEW w \in Invites, Enroll(w) PROVE Target[w] = Target[v]
  <2>1. Assigns(InviteTeam, Target[w], Rank[w])
    BY <1>3 DEF Enroll, Assigns
  <2>. QED
    BY <1>0, <2>1, RankOfInvite, AssignFacts DEF IInv
<1>4. \/ UNCHANGED role
      \/ \E b \in Boots : CreateTeam(BootTeam[b], BootOwner[b])
      \/ \E s \in Logins : CreateTeam(LoginOf[s], LoginOf[s])
      \/ \E w \in Invites : Enroll(w)
      \/ \E w \in Previews : Expel(w)
  BY DEF Next, CheckBootstrap, BootstrapOwner, PollStep, ExchangeDeviceCode,
     PollFails, ResolveDefaultTeam, CreatePersonalTeam, CreateCLIToken, AnswerPoll,
     StartDeviceLogin, Authorize, CliGivesUp, ValidatePreview, InviteMember, ReadRole,
     RemoveMember, ConsumePreview, ConfirmFails, Restart, vars
<1>. QED
  BY <1>1, <1>2, <1>3, <1>4, PersonalTeam, AccessAssumption

LEMMA ReadersPreserved == IInv /\ [Next]_vars => ReadersWereOvertaken'
<1> SUFFICES ASSUME IInv, [Next]_vars, NEW v \in Removals,
                    call'[v] = "read", role'[InviteTeam][Target[v]] = "owner"
             PROVE  v \in promoted'
  BY DEF ReadersWereOvertaken
<1>0. v \in Previews
  BY DEF Previews
<1>1. ASSUME NEW w \in Previews, ReadRole(w), w = v PROVE FALSE
  BY <1>0, <1>1 DEF ReadRole, Step, RoleRead, IInv, TypeOK
<1>2. call[v] = "read" \/ ReadRole(v)
  BY <1>0 DEF IInv, TypeOK, Next, CheckBootstrap, BootstrapOwner, PollStep,
     ExchangeDeviceCode, PollFails, ResolveDefaultTeam, CreatePersonalTeam, CreateCLIToken,
     AnswerPoll, StartDeviceLogin, Authorize, CliGivesUp, ValidatePreview, InviteMember,
     ReadRole, RemoveMember, ConsumePreview, ConfirmFails, Restart, Step, vars
<1>3. call[v] = "read"
  BY <1>0, <1>1, <1>2
<1>4. CASE role[InviteTeam][Target[v]] = "owner"
  <2>1. v \in promoted
    BY <1>3, <1>4 DEF IInv, ReadersWereOvertaken
  <2>2. promoted \subseteq promoted' \/ \E w \in Previews : ReadRole(w) /\ promoted' = promoted \ {w}
    BY DEF Next, CheckBootstrap, BootstrapOwner, PollStep, ExchangeDeviceCode,
       PollFails, ResolveDefaultTeam, CreatePersonalTeam, CreateCLIToken, AnswerPoll,
       StartDeviceLogin, Authorize, CliGivesUp, ValidatePreview, InviteMember, ReadRole,
       RemoveMember, ConsumePreview, ConfirmFails, Restart, Enroll, vars
  <2>. QED
    BY <1>0, <1>1, <2>1, <2>2
<1>5. CASE role[InviteTeam][Target[v]] # "owner"
  BY <1>3, <1>5, RoleOfTarget DEF Enroll
<1>. QED
  BY <1>4, <1>5

-----------------------------------------------------------------------------
(* Types.                                                                    *)

LEMMA RoleTypes == IInv /\ [Next]_vars => role' \in [Teams -> [People -> Ranks \cup {"none"}]]
<1> SUFFICES ASSUME IInv, [Next]_vars
             PROVE  role' \in [Teams -> [People -> Ranks \cup {"none"}]]
  OBVIOUS
<1>1. \/ UNCHANGED role
      \/ \E t \in Teams, p \in People, r \in Ranks \cup {"none"} : Assigns(t, p, r)
  <2>1. ASSUME NEW b \in Boots, CreateTeam(BootTeam[b], BootOwner[b]) PROVE <1>1!2
    <3>1. Assigns(BootTeam[b], BootOwner[b], "owner")
      BY <2>1 DEF CreateTeam, Assigns
    <3>. QED
      BY <3>1, AccessAssumption DEF Ranks
  <2>2. ASSUME NEW s \in Logins, CreateTeam(LoginOf[s], LoginOf[s]) PROVE <1>1!2
    <3>1. Assigns(LoginOf[s], LoginOf[s], "owner")
      BY <2>2 DEF CreateTeam, Assigns
    <3>. QED
      BY <3>1, PersonalTeam DEF Ranks
  <2>3. ASSUME NEW w \in Invites, Enroll(w) PROVE <1>1!2
    <3>1. Assigns(InviteTeam, Target[w], Rank[w])
      BY <2>3 DEF Enroll, Assigns
    <3>. QED
      BY <3>1, RankOfInvite
  <2>4. ASSUME NEW w \in Previews, Expel(w) PROVE <1>1!2
    <3>1. Assigns(InviteTeam, Target[w], "none")
      BY <2>4 DEF Expel, Assigns
    <3>. QED
      BY <3>1, AccessAssumption
  <2>. QED
    BY <2>1, <2>2, <2>3, <2>4 DEF Next, CheckBootstrap, BootstrapOwner, PollStep,
       ExchangeDeviceCode, PollFails, ResolveDefaultTeam, CreatePersonalTeam,
       CreateCLIToken, AnswerPoll, StartDeviceLogin, Authorize, CliGivesUp,
       ValidatePreview, InviteMember, ReadRole, RemoveMember, ConsumePreview,
       ConfirmFails, Restart, vars
<1>. QED
  BY <1>1, AssignFacts DEF IInv, TypeOK

Sessions == {"none", "pending", "verified"}
Codes    == {"pending", "granted", "denied", "expired", "used"}
Clients  == {"idle", "waiting", "in", "gone"}

LEMMA LoginTypes ==
    ASSUME IInv, [Next]_vars
    PROVE  /\ boot' \in [Boots -> {"idle", "refused", "checked", "created", "failed"}]
           /\ session' \in [Logins -> Sessions]
           /\ code' \in [Logins -> Codes]
           /\ cli' \in [Logins -> Clients]
<1>0. /\ session \in [Logins -> Sessions] /\ code \in [Logins -> Codes]
      /\ cli \in [Logins -> Clients]
      /\ boot \in [Boots -> {"idle", "refused", "checked", "created", "failed"}]
  BY DEF IInv, TypeOK, Sessions, Codes, Clients
<1>1. CASE Restart
  BY <1>0, <1>1 DEF Restart, Sessions, Clients
<1>2. ASSUME NEW b \in Boots, CheckBootstrap(b) \/ BootstrapOwner(b)
      PROVE  boot' \in [Boots -> {"idle", "refused", "checked", "created", "failed"}]
             /\ UNCHANGED <<session, code, cli>>
  BY <1>0, <1>2 DEF CheckBootstrap, BootstrapOwner
<1>3. ASSUME NEW s \in Logins,
             StartDeviceLogin(s) \/ Authorize(s) \/ PollStep(s) \/ CliGivesUp(s) \/ PollFails(s)
      PROVE  /\ session' \in [Logins -> Sessions]
             /\ code' \in [Logins -> Codes]
             /\ cli' \in [Logins -> Clients]
             /\ UNCHANGED boot
  <2>1. \/ UNCHANGED session
        \/ \E x \in Sessions : session' = [session EXCEPT ![s] = x]
    BY <1>0, <1>3 DEF Sessions, StartDeviceLogin, Authorize, PollStep, CliGivesUp, PollFails,
       ExchangeDeviceCode, ResolveDefaultTeam, CreatePersonalTeam, CreateCLIToken, AnswerPoll
  <2>2. \/ UNCHANGED code
        \/ \E x \in Codes : code' = [code EXCEPT ![s] = x]
    BY <1>3 DEF Codes, StartDeviceLogin, Authorize, PollStep, CliGivesUp, PollFails,
       ExchangeDeviceCode, ResolveDefaultTeam, CreatePersonalTeam, CreateCLIToken, AnswerPoll
  <2>3. \/ UNCHANGED cli
        \/ \E x \in Clients : cli' = [cli EXCEPT ![s] = x]
    BY <1>0, <1>3 DEF Clients, StartDeviceLogin, Authorize, PollStep, CliGivesUp, PollFails,
       Refuse, ExchangeDeviceCode, ResolveDefaultTeam, CreatePersonalTeam, CreateCLIToken,
       AnswerPoll
  <2>4. UNCHANGED boot
    BY <1>3 DEF StartDeviceLogin, Authorize, PollStep, CliGivesUp, PollFails,
       ExchangeDeviceCode, ResolveDefaultTeam, CreatePersonalTeam, CreateCLIToken, AnswerPoll
  <2>. QED
    BY <1>0, <2>1, <2>2, <2>3, <2>4
<1>4. ASSUME NEW v \in Previews,
             ValidatePreview(v) \/ InviteMember(v) \/ ReadRole(v) \/ RemoveMember(v)
             \/ ConsumePreview(v) \/ ConfirmFails(v)
      PROVE  UNCHANGED <<boot, session, code, cli>>
  BY <1>4 DEF ValidatePreview, InviteMember, ReadRole, RemoveMember, ConsumePreview,
     ConfirmFails
<1>. QED
  BY <1>0, <1>1, <1>2, <1>3, <1>4 DEF Next, vars

LEMMA PollTypes ==
    ASSUME IInv, [Next]_vars
    PROVE  poll' \in [Logins -> Polls]
<1>0. poll \in [Logins -> Polls]
  BY DEF IInv, TypeOK
<1>1. CASE Restart
  <2>1. ASSUME NEW s \in Logins
        PROVE  (IF poll[s].at \in {"idle", "answered", "failed"}
                THEN poll[s] ELSE [poll[s] EXCEPT !.at = "failed"]) \in Polls
    BY <1>0 DEF Polls
  <2>. QED
    BY <1>1, <2>1 DEF Restart
<1>2. ASSUME NEW s \in Logins, NEW at \in {"verified", "new", "issued", "answered", "failed"},
             At(s, at)
      PROVE  poll' \in [Logins -> Polls]
  <2>1. [poll[s] EXCEPT !.at = at] \in Polls
    BY <1>0 DEF Polls
  <2>2. poll' = [poll EXCEPT ![s] = [poll[s] EXCEPT !.at = at]]
    BY <1>2 DEF At
  <2>. QED
    BY <1>0, <2>1, <2>2
<1>3. ASSUME NEW s \in Logins, NEW t \in Teams,
             poll' = [poll EXCEPT ![s] = [at |-> "resolved", team |-> t]]
      PROVE  poll' \in [Logins -> Polls]
  <2>1. [at |-> "resolved", team |-> t] \in Polls
    BY DEF Polls
  <2>. QED
    BY <1>0, <1>3, <2>1
<1>4. ASSUME NEW s \in Logins, PollStep(s) \/ PollFails(s) PROVE poll' \in [Logins -> Polls]
  <2>1. CASE ResolveDefaultTeam(s)
    <3>1. \A t \in Default(LoginOf[s]) : t \in Teams
      BY DEF Default, Memberships
    <3>. QED
      BY <1>2, <1>3, <2>1, <3>1 DEF ResolveDefaultTeam
  <2>2. CASE CreatePersonalTeam(s)
    BY <1>2, <1>3, <2>2, PersonalTeam DEF CreatePersonalTeam, Refuse
  <2>3. CASE ExchangeDeviceCode(s) \/ CreateCLIToken(s) \/ AnswerPoll(s) \/ PollFails(s)
    <3>1. At(s, "verified") \/ At(s, "failed") \/ At(s, "issued") \/ At(s, "answered")
      BY <2>3 DEF ExchangeDeviceCode, CreateCLIToken, AnswerPoll, PollFails, Refuse
    <3>. QED
      BY <1>2, <3>1
  <2>. QED
    BY <1>4, <2>1, <2>2, <2>3 DEF PollStep
<1>. QED
  BY <1>0, <1>1, <1>4 DEF Next, CheckBootstrap, BootstrapOwner, StartDeviceLogin, Authorize,
     CliGivesUp, ValidatePreview, InviteMember, ReadRole, RemoveMember, ConsumePreview,
     ConfirmFails, vars

LEMMA TypePreserved == IInv /\ [Next]_vars => TypeOK'
<1> SUFFICES ASSUME IInv, [Next]_vars PROVE TypeOK'
  OBVIOUS
<1>1. team' \subseteq Teams
  <2>1. \/ UNCHANGED team
        \/ \E b \in Boots : team' = team \cup {BootTeam[b]}
        \/ \E s \in Logins : team' = team \cup {LoginOf[s]}
    BY DEF Next, CheckBootstrap, BootstrapOwner, CreateTeam, PollStep, ExchangeDeviceCode,
       PollFails, ResolveDefaultTeam, CreatePersonalTeam, CreateCLIToken, AnswerPoll,
       StartDeviceLogin, Authorize, CliGivesUp, ValidatePreview, InviteMember, ReadRole,
       RemoveMember, ConsumePreview, ConfirmFails, Restart, vars
  <2>2. team \subseteq Teams
    BY DEF IInv, TypeOK
  <2>. QED
    BY <2>1, <2>2, PersonalTeam, AccessAssumption
<1>2. tokens' \subseteq Logins \X Teams
  BY DEF IInv, TypeOK, PollsAreEarned, Next, CheckBootstrap, BootstrapOwner,
     PollStep, ExchangeDeviceCode, PollFails, ResolveDefaultTeam,
     CreatePersonalTeam, CreateCLIToken, AnswerPoll, StartDeviceLogin, Authorize,
     CliGivesUp, ValidatePreview, InviteMember, ReadRole, RemoveMember, ConsumePreview,
     ConfirmFails, Restart, vars
<1>3. /\ consumed' \subseteq Previews
      /\ call' \in [Previews -> {"idle", "valid", "read", "refused", "done"}]
  BY DEF IInv, TypeOK, Next, CheckBootstrap, BootstrapOwner,
     PollStep, ExchangeDeviceCode, PollFails, ResolveDefaultTeam,
     CreatePersonalTeam, CreateCLIToken, AnswerPoll, StartDeviceLogin, Authorize,
     CliGivesUp, ValidatePreview, InviteMember, ReadRole, RemoveMember, ConsumePreview,
     ConfirmFails, Step, RoleRead, Restart, vars
<1>4. granted' \subseteq Teams \X People /\ promoted' \subseteq Removals
  BY RankOfInvite DEF IInv, TypeOK, Next, CheckBootstrap, BootstrapOwner,
     PollStep, ExchangeDeviceCode, PollFails, ResolveDefaultTeam,
     CreatePersonalTeam, CreateCLIToken, AnswerPoll, StartDeviceLogin, Authorize,
     CliGivesUp, ValidatePreview, InviteMember, ReadRole, RemoveMember, ConsumePreview,
     ConfirmFails, Enroll, Restart, vars
<1>5. faults' \in 0 .. MaxFaults
  BY AccessAssumption DEF IInv, TypeOK, Next, CheckBootstrap, BootstrapOwner,
     PollStep, ExchangeDeviceCode, PollFails, ResolveDefaultTeam,
     CreatePersonalTeam, CreateCLIToken, AnswerPoll, StartDeviceLogin, Authorize,
     CliGivesUp, ValidatePreview, InviteMember, ReadRole, RemoveMember, ConsumePreview,
     ConfirmFails, Fault, Restart, vars
<1>. QED
  BY <1>1, <1>2, <1>3, <1>4, <1>5, RoleTypes, LoginTypes, PollTypes
     DEF TypeOK, Sessions, Codes, Clients

-----------------------------------------------------------------------------
\* The inductive invariant holds in every reachable state.
THEOREM InductiveInvariant == Spec => []IInv
<1>1. IInv /\ [Next]_vars => IInv'
  BY TypePreserved, BootsPreserved, RolesPreserved, TokensPreserved, PollsPreserved,
     ManagedPreserved, ReadersPreserved DEF IInv
<1>. QED
  BY InitEstablishes, <1>1, PTL DEF Spec

\* Every reachable state is well typed.
THEOREM TypeCorrect == Spec => []TypeOK
BY InductiveInvariant, PTL DEF IInv

\* Nobody is in a team, or holds a token of one, who did not create it, was not
\* named by its bootstrap and was not invited.
THEOREM LetInOnly == Spec => []MembersWereLetIn
<1>1. IInv => MembersWereLetIn
  BY DEF IInv, RolesAreEarned, TokensAreEarned, LetIn, MembersWereLetIn
<1>. QED
  BY InductiveInvariant, <1>1, PTL

\* An owner only loses the role to a removal that looked before it was written.
THEOREM OwnersOvertaken == Spec => OwnersLeaveInRaces
<1>1. ASSUME IInv, [Next]_vars, NEW p \in People,
             role[InviteTeam][p] = "owner", role'[InviteTeam][p] = "none"
      PROVE  \E v \in promoted : Target[v] = p /\ call[v] = "read"
  <2>0. InviteTeam \in Teams
    BY AccessAssumption
  <2>1. ASSUME NEW t \in Teams, NEW q \in People, NEW r \in Ranks, Assigns(t, q, r)
        PROVE  FALSE
    BY <1>1, <2>0, <2>1, AssignFacts DEF IInv, Ranks
  <2>2. ASSUME NEW b \in Boots, CreateTeam(BootTeam[b], BootOwner[b]) PROVE FALSE
    <3>1. Assigns(BootTeam[b], BootOwner[b], "owner")
      BY <2>2 DEF CreateTeam, Assigns
    <3>. QED
      BY <2>1, <3>1, AccessAssumption DEF Ranks
  <2>3. ASSUME NEW s \in Logins, CreateTeam(LoginOf[s], LoginOf[s]) PROVE FALSE
    <3>1. Assigns(LoginOf[s], LoginOf[s], "owner")
      BY <2>3 DEF CreateTeam, Assigns
    <3>. QED
      BY <2>1, <3>1, PersonalTeam DEF Ranks
  <2>4. ASSUME NEW w \in Invites, Enroll(w) PROVE FALSE
    <3>1. Assigns(InviteTeam, Target[w], Rank[w])
      BY <2>4 DEF Enroll, Assigns
    <3>. QED
      BY <2>1, <3>1, RankOfInvite
  <2>5. ASSUME NEW w \in Removals, Expel(w), call[w] = "read"
        PROVE  \E v \in promoted : Target[v] = p /\ call[v] = "read"
    <3>0. Target[w] \in People
      BY AccessAssumption DEF Previews
    <3>1. Assigns(InviteTeam, Target[w], "none")
      BY <2>5 DEF Expel, Assigns
    <3>2. Target[w] = p
      BY <1>1, <2>0, <3>0, <3>1, AssignFacts DEF IInv, Ranks
    <3>. QED
      BY <1>1, <2>5, <3>2 DEF IInv, ReadersWereOvertaken
  <2>6. \/ UNCHANGED role
        \/ \E b \in Boots : CreateTeam(BootTeam[b], BootOwner[b])
        \/ \E s \in Logins : CreateTeam(LoginOf[s], LoginOf[s])
        \/ \E w \in Invites : Enroll(w)
        \/ \E w \in Removals : Expel(w) /\ call[w] = "read"
    BY <1>1 DEF Next, CheckBootstrap, BootstrapOwner, PollStep, ExchangeDeviceCode,
       PollFails, ResolveDefaultTeam, CreatePersonalTeam, CreateCLIToken, AnswerPoll,
       StartDeviceLogin, Authorize, CliGivesUp, ValidatePreview, InviteMember, ReadRole,
       RemoveMember, ConsumePreview, ConfirmFails, Restart, Step, vars
  <2>. QED
    BY <1>1, <2>2, <2>3, <2>4, <2>5, <2>6
<1>2. IInv /\ [Next]_vars =>
         [\A p \in People :
             role[InviteTeam][p] = "owner" /\ role'[InviteTeam][p] = "none" =>
                 \E v \in promoted : Target[v] = p /\ call[v] = "read"]_vars
  BY <1>1
<1>. QED
  BY InductiveInvariant, <1>2, PTL DEF Spec, OwnersLeaveInRaces

-----------------------------------------------------------------------------
(* Single sign-on: its inductive invariant is IInv of SsoAccess.             *)

LEMMA SsoInit == SSO!Init => SSO!IInv
<1> SUFFICES ASSUME SSO!Init PROVE SSO!IInv
  OBVIOUS
<1>1. sRequest \in [Requests -> [at : {"idle", "authenticated", "refused", "admitted",
                                       "allowed", "done"},
                                 by : Users \cup {NoPerson}]]
  BY DEF SSO!Init
<1>2. sRevocation \in [Revocations -> [at : {"idle", "found", "done"},
                                       of : Users \cup {NoPerson}]]
  BY DEF SSO!Init
<1>3. sMember \in [Users -> {"none", "active", "off"}]
  BY DEF SSO!Init
<1>4. sToken \in [SSO!Tokens -> {"none", "live", "revoked"}]
  BY DEF SSO!Init
<1>5. SSO!TypeOK
  BY <1>1, <1>2, <1>3, <1>4 DEF SSO!Init, SSO!TypeOK
<1>6. SSO!ActorsAreKnown /\ SSO!LockedOutStayOut
  BY DEF SSO!Init, SSO!ActorsAreKnown, SSO!LockedOutStayOut
<1>7. ASSUME NEW t \in SSO!Tokens, sToken[t] = "live"
      PROVE  t \in Users /\ t \notin Requests /\ t \notin Arrivals
  BY <1>7, TokensAssumption DEF SSO!Init
<1>8. SSO!TokensComeLast
  BY <1>7 DEF SSO!TokensComeLast, SSO!Tokens
<1>9. SSO!RevocationIsWhole
  BY <1>7 DEF SSO!Init, SSO!RevocationIsWhole, SSO!Holder
<1>. QED
  BY <1>5, <1>6, <1>8, <1>9 DEF SSO!IInv

\* The holder of a token that works is a person.
LEMMA HoldersArePeople ==
    ASSUME SSO!IInv, NEW t \in SSO!Tokens, sToken[t] = "live"
    PROVE  SSO!Holder(t) \in Users
BY TokensAssumption DEF SSO!IInv, SSO!Tokens, SSO!Holder, SSO!TokensComeLast, SSO!ActorsAreKnown

\* A request keeps who made it once it has begun.
LEMMA HoldersStay ==
    ASSUME SSO!IInv, NEW t \in SSO!Tokens, sToken[t] = "live",
           \A q \in Requests : sRequest[q].at = "idle" \/ sRequest'[q].by = sRequest[q].by
    PROVE  SSO!Holder(t)' = SSO!Holder(t)
BY DEF SSO!IInv, SSO!TokensComeLast, SSO!Holder

\* A token that is inserted is its holder's of this day.
LEMMA InsertPreserves ==
    ASSUME SSO!IInv, NEW t \in SSO!Tokens, NEW p \in Users, SSO!Insert(t, p),
           SSO!Holder(t)' = p, UNCHANGED sEpoch,
           \A q \in Requests : sRequest[q].at = "idle" \/ sRequest'[q].by = sRequest[q].by
    PROVE  /\ sToken' \in [SSO!Tokens -> {"none", "live", "revoked"}]
           /\ sBorn' \in [SSO!Tokens -> Nat]
           /\ \A u \in SSO!Tokens : u = t \/ sToken'[u] = sToken[u]
           /\ SSO!RevocationIsWhole'
<1>1. /\ sToken' = [sToken EXCEPT ![t] = "live"] /\ sBorn' = [sBorn EXCEPT ![t] = sEpoch[p]]
      /\ sToken \in [SSO!Tokens -> {"none", "live", "revoked"}]
      /\ sBorn \in [SSO!Tokens -> Nat] /\ sEpoch \in [Users -> Nat]
  BY DEF SSO!Insert, SSO!IInv, SSO!TypeOK
<1>2. sToken' \in [SSO!Tokens -> {"none", "live", "revoked"}] /\ sBorn' \in [SSO!Tokens -> Nat]
  BY <1>1
<1>3. /\ \A u \in SSO!Tokens : u = t \/ (sToken'[u] = sToken[u] /\ sBorn'[u] = sBorn[u])
      /\ sBorn'[t] = sEpoch[p]
  BY <1>1
<1>4. ASSUME NEW u \in SSO!Tokens, sToken'[u] = "live"
      PROVE  sBorn'[u] = sEpoch'[SSO!Holder(u)']
  <2>1. CASE u = t
    BY <1>3, <2>1
  <2>2. CASE u # t
    <3>1. sToken[u] = "live" /\ sBorn'[u] = sBorn[u]
      BY <1>3, <1>4, <2>2
    <3>2. SSO!Holder(u)' = SSO!Holder(u)
      BY <3>1, HoldersStay
    <3>. QED
      BY <3>1, <3>2 DEF SSO!IInv, SSO!RevocationIsWhole
  <2>. QED
    BY <2>1, <2>2
<1>. QED
  BY <1>2, <1>3, <1>4 DEF SSO!RevocationIsWhole, SSO!Holder, SSO!Tokens

\* What a step may touch of who may do what: most steps touch nothing of it.
SsoQuiet == UNCHANGED <<sIdentity, sMember, sToken, sEpoch, sBorn, sReturned, sRequest, sRevocation>>

SsoForgets == sIdentity' = {} /\ UNCHANGED <<sMember, sToken, sEpoch, sBorn, sReturned, sRequest, sRevocation>>

SsoActs ==
    \/ \E l \in Arrivals : SSO!JITProvision(l) \/ SSO!IssueSSOToken(l)
    \/ \E q \in Requests : SSO!Bearer(q) \/ SSO!CheckMembership(q) \/ SSO!CheckPolicy(q)
                           \/ SSO!CreateToken(q) \/ SSO!RevokeToken(q)
    \/ \E t \in SSO!Tokens : SSO!Logout(t)
    \/ \E d \in Revocations : SSO!BackchannelLogout(d) \/ SSO!Deprovision(d) \/ SSO!DeprovisionSSOUser(d)
    \/ \E p \in Users : SSO!DeviceLogin(p) \/ SSO!RemoveMember(p) \/ SSO!InviteMember(p)
    \/ SSO!Restart

LEMMA SsoSteps == SSO!Next => SsoQuiet \/ SsoForgets \/ SsoActs
<1>1. ASSUME NEW o, SSO!PutSecret(o) \/ SSO!CreateIdPConfig(o) \/ SSO!CheckUpdate(o)
                    \/ SSO!UpdateIdPConfig(o) \/ SSO!CheckDelete(o)
      PROVE  SsoQuiet
  BY <1>1 DEF SsoQuiet, SSO!PutSecret, SSO!CreateIdPConfig, SSO!CheckUpdate,
     SSO!UpdateIdPConfig, SSO!CheckDelete, SSO!access
<1>2. ASSUME NEW o, SSO!DeleteIdPConfig(o) PROVE SsoQuiet \/ SsoForgets
  BY <1>2 DEF SsoQuiet, SsoForgets, SSO!DeleteIdPConfig
<1>3. ASSUME NEW l, SSO!Authorize(l) \/ SSO!Grant(l) \/ SSO!Callback(l) \/ SSO!LoginFails(l)
      PROVE  SsoQuiet
  BY <1>3 DEF SsoQuiet, SSO!Authorize, SSO!Grant, SSO!Callback, SSO!LoginFails, SSO!access
<1>4. SSO!AddDomain \/ SSO!VerifyDomain => SsoQuiet
  BY DEF SsoQuiet, SSO!AddDomain, SSO!VerifyDomain, SSO!access
<1>5. ASSUME NEW p, SSO!Disable(p) PROVE SsoQuiet
  BY <1>5 DEF SsoQuiet, SSO!Disable, SSO!access
<1>. QED
  BY <1>1, <1>2, <1>3, <1>4, <1>5 DEF SSO!Next, SsoActs

LEMMA SsoTypes == SSO!IInv /\ SSO!Next => SSO!TypeOK' /\ SSO!ActorsAreKnown'
<1> SUFFICES ASSUME SSO!IInv, SSO!Next PROVE SSO!TypeOK' /\ SSO!ActorsAreKnown'
  OBVIOUS
<1> USE DEF SSO!TypeOK
<1> DEFINE RequestsAreTyped ==
         /\ sRequest' \in [Requests -> [at : {"idle", "authenticated", "refused", "admitted",
                                              "allowed", "done"},
                                        by : Users \cup {NoPerson}]]
         /\ \A q \in Requests : sRequest'[q].at # "idle" => sRequest'[q].by \in Users
       RevocationsAreTyped ==
         /\ sRevocation' \in [Revocations -> [at : {"idle", "found", "done"},
                                              of : Users \cup {NoPerson}]]
         /\ \A d \in Revocations : sRevocation'[d].at # "idle" => sRevocation'[d].of \in Users
<1>0. SSO!TypeOK /\ SSO!ActorsAreKnown
  BY DEF SSO!IInv
<1>1. sMember' \in [Users -> {"none", "active", "off"}]
  <2>1. \/ UNCHANGED sMember
        \/ \E l \in Arrivals : sMember' = [sMember EXCEPT ![ArrivalOf[l]] = "active"]
        \/ \E p \in Users, m \in {"none", "active"} : sMember' = [sMember EXCEPT ![p] = m]
        \/ \E p : sMember' = [sMember EXCEPT ![p] = IF @ = "active" THEN "off" ELSE @]
    BY SsoSteps DEF SsoQuiet, SsoForgets, SsoActs, SSO!JITProvision, SSO!IssueSSOToken,
       SSO!Bearer, SSO!CheckMembership, SSO!CheckPolicy, SSO!CreateToken, SSO!RevokeToken,
       SSO!Logout, SSO!BackchannelLogout, SSO!Deprovision, SSO!FindSSOUser,
       SSO!DeprovisionSSOUser, SSO!DeviceLogin, SSO!RemoveMember, SSO!InviteMember,
       SSO!Restart, SSO!access
  <2>. QED
    BY <1>0, <2>1
<1>2. sToken' \in [SSO!Tokens -> {"none", "live", "revoked"}]
  <2>1. \/ UNCHANGED sToken
        \/ \E t \in SSO!Tokens, x \in {"live", "revoked"} : sToken' = [sToken EXCEPT ![t] = x]
        \/ \E p : sToken' = [t \in SSO!Tokens |-> IF t \in SSO!Held(p) THEN "revoked" ELSE sToken[t]]
    BY SsoSteps DEF SsoQuiet, SsoForgets, SsoActs, SSO!JITProvision, SSO!IssueSSOToken,
       SSO!Bearer, SSO!CheckMembership, SSO!CheckPolicy, SSO!CreateToken, SSO!RevokeToken,
       SSO!Logout, SSO!BackchannelLogout, SSO!Deprovision, SSO!FindSSOUser,
       SSO!DeprovisionSSOUser, SSO!DeviceLogin, SSO!RemoveMember, SSO!InviteMember,
       SSO!Restart, SSO!access, SSO!Insert, SSO!CreatePAT, SSO!RevokePATByName,
       SSO!RevokeCLITokenByID, SSO!Revoke, SSO!Tokens
  <2>. QED
    BY <1>0, <2>1
<1>3. sEpoch' \in [Users -> Nat]
  <2>1. \/ UNCHANGED sEpoch
        \/ \E p : sEpoch' = [sEpoch EXCEPT ![p] = @ + 1]
    BY SsoSteps DEF SsoQuiet, SsoForgets, SsoActs, SSO!JITProvision, SSO!IssueSSOToken,
       SSO!Bearer, SSO!CheckMembership, SSO!CheckPolicy, SSO!CreateToken, SSO!RevokeToken,
       SSO!Logout, SSO!BackchannelLogout, SSO!Deprovision, SSO!FindSSOUser,
       SSO!DeprovisionSSOUser, SSO!DeviceLogin, SSO!RemoveMember, SSO!InviteMember,
       SSO!Restart, SSO!access
  <2>. QED
    BY <1>0, <2>1
<1>4. sBorn' \in [SSO!Tokens -> Nat]
  <2>1. \/ UNCHANGED sBorn
        \/ \E t, p : p \in Users /\ sBorn' = [sBorn EXCEPT ![t] = sEpoch[p]]
    BY <1>0, TokensAssumption, SsoSteps DEF SsoQuiet, SsoForgets, SsoActs,
       SSO!ActorsAreKnown, SSO!JITProvision, SSO!IssueSSOToken, SSO!Bearer,
       SSO!CheckMembership, SSO!CheckPolicy, SSO!CreateToken, SSO!RevokeToken, SSO!Logout,
       SSO!BackchannelLogout, SSO!Deprovision, SSO!FindSSOUser, SSO!DeprovisionSSOUser,
       SSO!DeviceLogin, SSO!RemoveMember, SSO!InviteMember, SSO!Restart, SSO!access,
       SSO!Insert, SSO!CreatePAT
  <2>. QED
    BY <1>0, <2>1
<1>5. sIdentity' \subseteq Users /\ sReturned' \subseteq Users
  BY <1>0, TokensAssumption, SsoSteps DEF SsoQuiet, SsoForgets, SsoActs, SSO!JITProvision,
     SSO!IssueSSOToken, SSO!Bearer, SSO!CheckMembership, SSO!CheckPolicy, SSO!CreateToken,
     SSO!RevokeToken, SSO!Logout, SSO!BackchannelLogout, SSO!Deprovision, SSO!FindSSOUser,
     SSO!DeprovisionSSOUser, SSO!DeviceLogin, SSO!RemoveMember, SSO!InviteMember,
     SSO!Restart, SSO!access
<1>6. RequestsAreTyped
  <2>1. CASE UNCHANGED sRequest
    BY <1>0, <2>1 DEF SSO!ActorsAreKnown
  <2>2. ASSUME NEW q \in Requests, NEW x \in {"authenticated", "refused", "admitted", "allowed", "done"},
               sRequest[q].at # "idle", sRequest' = [sRequest EXCEPT ![q].at = x]
        PROVE  RequestsAreTyped
    BY <1>0, <2>2 DEF SSO!ActorsAreKnown
  <2>3. ASSUME NEW q \in Requests, NEW p \in Users,
               sRequest' = [sRequest EXCEPT ![q] = [at |-> "authenticated", by |-> p]]
        PROVE  RequestsAreTyped
    BY <1>0, <2>3 DEF SSO!ActorsAreKnown
  <2>4. CASE SSO!Restart
    BY <1>0, <2>4 DEF SSO!ActorsAreKnown, SSO!Restart
  <2>5. ASSUME NEW q \in Requests, SSO!Bearer(q) PROVE RequestsAreTyped
    BY <2>3, <2>5, HoldersArePeople DEF SSO!Bearer
  <2>6. ASSUME NEW q \in Requests, SSO!CheckMembership(q) \/ SSO!CheckPolicy(q) \/ SSO!CreateToken(q)
        PROVE  RequestsAreTyped
    BY <2>2, <2>6 DEF SSO!CheckMembership, SSO!CheckPolicy, SSO!CreateToken
  <2>. QED
    BY <2>1, <2>4, <2>5, <2>6, SsoSteps DEF
       SSO!Next, SSO!PutSecret, SSO!CreateIdPConfig, SSO!CheckUpdate, SSO!UpdateIdPConfig,
       SSO!CheckDelete, SSO!DeleteIdPConfig, SSO!AddDomain, SSO!VerifyDomain, SSO!Authorize,
       SSO!Grant, SSO!Callback, SSO!JITProvision, SSO!IssueSSOToken, SSO!LoginFails,
       SSO!RevokeToken, SSO!Logout,
       SSO!BackchannelLogout, SSO!Deprovision, SSO!FindSSOUser, SSO!DeprovisionSSOUser,
       SSO!DeviceLogin, SSO!Disable, SSO!RemoveMember, SSO!InviteMember
<1>7. RevocationsAreTyped
  <2>1. CASE UNCHANGED sRevocation
    BY <1>0, <2>1 DEF SSO!ActorsAreKnown
  <2>2. ASSUME NEW d \in Revocations, SSO!BackchannelLogout(d) \/ SSO!Deprovision(d)
        PROVE  RevocationsAreTyped
    <3>1. PICK p \in Users : sRevocation' = [sRevocation EXCEPT ![d] = [at |-> "found", of |-> p]]
      BY <1>0, <2>2 DEF SSO!BackchannelLogout, SSO!Deprovision, SSO!FindSSOUser, SSO!FindSSOUserByEmail
    <3>. QED
      BY <1>0, <3>1 DEF SSO!ActorsAreKnown
  <2>3. ASSUME NEW d \in Revocations, SSO!DeprovisionSSOUser(d) PROVE RevocationsAreTyped
    BY <1>0, <2>3 DEF SSO!ActorsAreKnown, SSO!DeprovisionSSOUser
  <2>4. CASE SSO!Restart
    BY <1>0, <2>4 DEF SSO!ActorsAreKnown, SSO!Restart
  <2>. QED
    BY <2>1, <2>2, <2>3, <2>4 DEF
       SSO!Next, SSO!PutSecret, SSO!CreateIdPConfig, SSO!CheckUpdate, SSO!UpdateIdPConfig,
       SSO!CheckDelete, SSO!DeleteIdPConfig, SSO!AddDomain, SSO!VerifyDomain, SSO!Authorize,
       SSO!Grant, SSO!Callback, SSO!JITProvision, SSO!IssueSSOToken, SSO!LoginFails, SSO!Bearer,
       SSO!CheckMembership, SSO!CheckPolicy, SSO!CreateToken, SSO!RevokeToken, SSO!Logout,
       SSO!DeviceLogin, SSO!Disable, SSO!RemoveMember, SSO!InviteMember
<1>. QED
  BY <1>1, <1>2, <1>3, <1>4, <1>5, <1>6, <1>7 DEF SSO!ActorsAreKnown, SSO!Tokens

LEMMA SsoPreserves == SSO!IInv /\ SSO!Next => SSO!IInv'
<1> SUFFICES ASSUME SSO!IInv, SSO!Next PROVE SSO!IInv'
  OBVIOUS
<1> DEFINE Rest == SSO!TokensComeLast' /\ SSO!RevocationIsWhole' /\ SSO!LockedOutStayOut'
<1>0. SSO!TypeOK /\ SSO!ActorsAreKnown /\ SSO!TokensComeLast /\ SSO!RevocationIsWhole
      /\ SSO!LockedOutStayOut
  BY DEF SSO!IInv
<1>a. SSO!TypeOK' /\ SSO!ActorsAreKnown'
  BY SsoTypes
<1>b. ASSUME \A t \in SSO!Tokens : sToken'[t] = "live" => sToken[t] = "live",
             \A q \in Requests : sRequest[q].at = "idle" \/ sRequest'[q].by = sRequest[q].by,
             UNCHANGED <<sEpoch, sBorn>>
      PROVE  SSO!RevocationIsWhole'
  <2>1. ASSUME NEW t \in SSO!Tokens, sToken'[t] = "live"
        PROVE  sBorn'[t] = sEpoch'[SSO!Holder(t)']
    BY <1>b, <2>1, <1>0, HoldersStay DEF SSO!RevocationIsWhole
  <2>. QED
    BY <2>1 DEF SSO!RevocationIsWhole, SSO!Tokens, SSO!Holder
<1>c. ASSUME \A q \in Requests : sToken'[q] = "live" => sToken[q] = "live",
             \A q \in Requests : sRequest[q].at = "done" => sRequest'[q].at = "done"
      PROVE  SSO!TokensComeLast'
  BY <1>c, <1>0 DEF SSO!TokensComeLast
<1>d. ASSUME UNCHANGED sEpoch, sReturned \subseteq sReturned',
             \A p \in Users : sMember'[p] = "active" => sMember[p] = "active" \/ p \in sReturned'
      PROVE  SSO!LockedOutStayOut'
  BY <1>d, <1>0 DEF SSO!LockedOutStayOut
<1>e. \A q \in Requests : q \in SSO!Tokens /\ q \notin Arrivals
  BY TokensAssumption DEF SSO!Tokens
<1>1. ASSUME SsoQuiet PROVE Rest
  BY <1>b, <1>c, <1>d, <1>1 DEF SsoQuiet
<1>2. ASSUME SsoForgets PROVE Rest
  BY <1>b, <1>c, <1>d, <1>2 DEF SsoForgets
<1>3. ASSUME NEW l \in Arrivals, SSO!JITProvision(l) PROVE Rest
  <2>1. UNCHANGED <<sToken, sBorn, sEpoch, sRequest>>
    BY <1>3 DEF SSO!JITProvision
  <2>2. SSO!LockedOutStayOut'
    <3>1. UNCHANGED <<sMember, sReturned>>
          \/ (/\ sMember' = [sMember EXCEPT ![ArrivalOf[l]] = "active"]
              /\ sReturned' = sReturned \cup {ArrivalOf[l]})
      BY <1>3 DEF SSO!JITProvision
    <3>. QED
      BY <1>0, <1>d, <2>1, <3>1 DEF SSO!TypeOK
  <2>. QED
    BY <1>b, <1>c, <2>1, <2>2
<1>4. ASSUME NEW l \in Arrivals, SSO!IssueSSOToken(l) PROVE Rest
  <2>0. UNCHANGED <<sMember, sEpoch, sReturned, sRequest>>
    BY <1>4 DEF SSO!IssueSSOToken
  <2>1. CASE UNCHANGED <<sToken, sBorn>>
    BY <1>b, <1>c, <1>d, <2>0, <2>1
  <2>2. CASE SSO!Insert(l, ArrivalOf[l])
    <3>1. l \in SSO!Tokens /\ ArrivalOf[l] \in Users /\ SSO!Holder(l)' = ArrivalOf[l]
      BY TokensAssumption DEF SSO!Tokens, SSO!Holder
    <3>2. /\ \A u \in SSO!Tokens : u = l \/ sToken'[u] = sToken[u]
          /\ SSO!RevocationIsWhole'
      BY <2>0, <2>2, <3>1, InsertPreserves
    <3>. QED
      BY <1>c, <1>d, <1>e, <2>0, <3>2
  <2>. QED
    BY <1>4, <2>1, <2>2 DEF SSO!IssueSSOToken
<1>5. ASSUME NEW q \in Requests, SSO!Bearer(q) PROVE Rest
  <2>1. UNCHANGED <<sToken, sBorn, sEpoch, sMember, sReturned>>
    BY <1>5 DEF SSO!Bearer, SSO!access
  <2>2. \A r \in Requests : sRequest[r].at = "idle" \/ sRequest'[r] = sRequest[r]
    BY <1>0, <1>5 DEF SSO!Bearer, SSO!TypeOK
  <2>. QED
    BY <1>b, <1>c, <1>d, <2>1, <2>2
<1>6. ASSUME NEW q \in Requests, SSO!CheckMembership(q) \/ SSO!CheckPolicy(q) PROVE Rest
  <2>1. UNCHANGED <<sToken, sBorn, sEpoch, sMember, sReturned>>
    BY <1>6 DEF SSO!CheckMembership, SSO!CheckPolicy, SSO!access
  <2>2. \A r \in Requests : /\ sRequest'[r].by = sRequest[r].by
                            /\ sRequest[r].at = "done" => sRequest'[r].at = "done"
    BY <1>0, <1>6 DEF SSO!CheckMembership, SSO!CheckPolicy, SSO!TypeOK
  <2>. QED
    BY <1>b, <1>c, <1>d, <2>1, <2>2
<1>7. ASSUME NEW q \in Requests, SSO!CreateToken(q) PROVE Rest
  <2>0. /\ UNCHANGED <<sMember, sEpoch, sReturned>> /\ SSO!Insert(q, sRequest[q].by)
        /\ sRequest' = [sRequest EXCEPT ![q].at = "done"] /\ sRequest[q].at = "allowed"
    BY <1>7 DEF SSO!CreateToken, SSO!CreatePAT
  <2>1. /\ sRequest[q].by \in Users
        /\ \A r \in Requests : /\ sRequest'[r].by = sRequest[r].by
                               /\ sRequest[r].at = "done" => sRequest'[r].at = "done"
        /\ sRequest'[q].at = "done"
    BY <1>0, <2>0 DEF SSO!TypeOK, SSO!ActorsAreKnown
  <2>2. SSO!Holder(q)' = sRequest[q].by
    BY <1>e, <2>1 DEF SSO!Holder
  <2>3. /\ \A u \in SSO!Tokens : u = q \/ sToken'[u] = sToken[u]
        /\ SSO!RevocationIsWhole'
    BY <1>e, <2>0, <2>1, <2>2, InsertPreserves
  <2>4. SSO!TokensComeLast'
    BY <1>0, <1>e, <2>1, <2>3 DEF SSO!TokensComeLast
  <2>. QED
    BY <1>d, <2>0, <2>3, <2>4
<1>8. ASSUME NEW t \in SSO!Tokens, SSO!Revoke(t),
             UNCHANGED <<sMember, sEpoch, sBorn, sReturned, sRequest>>
      PROVE  Rest
  <2>1. \A u \in SSO!Tokens : sToken'[u] = "live" => sToken[u] = "live"
    BY <1>0, <1>8 DEF SSO!Revoke, SSO!TypeOK
  <2>. QED
    BY <1>b, <1>c, <1>d, <1>e, <1>8, <2>1
<1>9. ASSUME NEW d \in Revocations, SSO!BackchannelLogout(d) \/ SSO!Deprovision(d) PROVE Rest
  BY <1>9, <1>b, <1>c, <1>d DEF SSO!BackchannelLogout, SSO!Deprovision, SSO!FindSSOUser,
     SSO!access
<1>10. ASSUME NEW d \in Revocations, SSO!DeprovisionSSOUser(d) PROVE Rest
  <2> DEFINE p == sRevocation[d].of
  <2>0. /\ p \in Users
        /\ sMember' = [sMember EXCEPT ![p] = IF sMember[p] = "active" THEN "off" ELSE sMember[p]]
        /\ sToken' = [t \in SSO!Tokens |-> IF t \in SSO!Held(p) THEN "revoked" ELSE sToken[t]]
        /\ sEpoch' = [sEpoch EXCEPT ![p] = sEpoch[p] + 1]
        /\ sReturned' = sReturned \ {p}
        /\ UNCHANGED <<sRequest, sBorn>>
    BY <1>0, <1>10 DEF SSO!DeprovisionSSOUser, SSO!ActorsAreKnown
  <2> HIDE DEF p
  <2>1. ASSUME NEW t \in SSO!Tokens, sToken'[t] = "live"
        PROVE  sToken[t] = "live" /\ SSO!Holder(t) # p
    BY <2>0, <2>1 DEF SSO!Held
  <2>2. SSO!TokensComeLast'
    BY <1>c, <1>e, <2>0, <2>1
  <2>3. ASSUME NEW t \in SSO!Tokens, sToken'[t] = "live"
        PROVE  sBorn'[t] = sEpoch'[SSO!Holder(t)']
    <3>1. SSO!Holder(t) \in Users /\ SSO!Holder(t)' = SSO!Holder(t)
      BY <2>0, <2>1, <2>3, HoldersArePeople, HoldersStay
    <3>2. sEpoch'[SSO!Holder(t)] = sEpoch[SSO!Holder(t)]
      BY <1>0, <2>0, <2>1, <2>3, <3>1 DEF SSO!TypeOK
    <3>. QED
      BY <1>0, <2>0, <2>1, <2>3, <3>1, <3>2 DEF SSO!RevocationIsWhole
  <2>4. SSO!RevocationIsWhole'
    BY <2>3 DEF SSO!RevocationIsWhole, SSO!Tokens, SSO!Holder
  <2>5. SSO!LockedOutStayOut'
    BY <1>0, <2>0 DEF SSO!LockedOutStayOut, SSO!TypeOK
  <2>. QED
    BY <2>2, <2>4, <2>5
<1>11. ASSUME NEW p \in Users, SSO!DeviceLogin(p) PROVE Rest
  <2>1. UNCHANGED <<sMember, sEpoch, sReturned, sRequest>> /\ SSO!Insert(p, p)
    BY <1>11 DEF SSO!DeviceLogin
  <2>2. p \in SSO!Tokens /\ p \notin Requests /\ SSO!Holder(p)' = p
    BY TokensAssumption DEF SSO!Tokens, SSO!Holder
  <2>3. /\ \A u \in SSO!Tokens : u = p \/ sToken'[u] = sToken[u]
        /\ SSO!RevocationIsWhole'
    BY <2>1, <2>2, InsertPreserves
  <2>. QED
    BY <1>c, <1>d, <1>e, <2>1, <2>2, <2>3
<1>12. ASSUME NEW p \in Users, SSO!RemoveMember(p) \/ SSO!InviteMember(p) PROVE Rest
  <2>1. UNCHANGED <<sToken, sBorn, sEpoch, sRequest>>
    BY <1>12 DEF SSO!RemoveMember, SSO!InviteMember
  <2>2. SSO!LockedOutStayOut'
    BY <1>0, <1>12 DEF SSO!RemoveMember, SSO!InviteMember, SSO!LockedOutStayOut, SSO!TypeOK
  <2>. QED
    BY <1>b, <1>c, <2>1, <2>2
<1>13. ASSUME SSO!Restart PROVE Rest
  <2>1. UNCHANGED <<sToken, sBorn, sEpoch, sMember, sReturned>>
    BY <1>13 DEF SSO!Restart, SSO!access
  <2>2. \A r \in Requests : /\ sRequest'[r].by = sRequest[r].by
                            /\ sRequest[r].at = "done" => sRequest'[r].at = "done"
    BY <1>0, <1>13 DEF SSO!Restart, SSO!TypeOK
  <2>. QED
    BY <1>b, <1>c, <1>d, <2>1, <2>2
<1>14. Rest
  <2>1. ASSUME NEW q \in Requests, SSO!RevokeToken(q) PROVE Rest
    BY <1>8, <1>e, <2>1 DEF SSO!RevokeToken, SSO!RevokePATByName
  <2>2. ASSUME NEW t \in SSO!Tokens, SSO!Logout(t) PROVE Rest
    BY <1>8, <2>2 DEF SSO!Logout, SSO!RevokeCLITokenByID
  <2>. QED
    BY <1>1, <1>2, <1>3, <1>4, <1>5, <1>6, <1>7, <1>9, <1>10, <1>11, <1>12, <1>13, <2>1, <2>2,
       SsoSteps DEF SsoActs
<1>. QED
  BY <1>a, <1>14 DEF SSO!IInv

LEMMA SsoStutters == SSO!IInv /\ UNCHANGED sVars => SSO!IInv'
<1> SUFFICES ASSUME SSO!IInv, UNCHANGED sVars PROVE SSO!IInv'
  OBVIOUS
<1>1. SSO!TypeOK' /\ SSO!ActorsAreKnown' /\ SSO!TokensComeLast'
  BY DEF sVars, SSO!IInv, SSO!TypeOK, SSO!ActorsAreKnown, SSO!TokensComeLast, SSO!Tokens
<1>2. SSO!RevocationIsWhole' /\ SSO!LockedOutStayOut'
  BY DEF sVars, SSO!IInv, SSO!RevocationIsWhole, SSO!LockedOutStayOut, SSO!Tokens, SSO!Holder
<1>. QED
  BY <1>1, <1>2 DEF SSO!IInv

-----------------------------------------------------------------------------
(* The hostname: its inductive invariant is IInv of DomainVerify.            *)

LEMMA HostInit == Hostname!Init => Hostname!IInv
<1> SUFFICES ASSUME Hostname!Init PROVE Hostname!IInv
  OBVIOUS
<1>1. Hostname!TypeOK
  <2>1. Hostname!NoRow \in [status : Hostname!Statuses, used : Nat, expires : Nat,
                            failed : Nat \cup {NoMark}, cf : BOOLEAN]
    BY DEF Hostname!NoRow, Hostname!Statuses
  <2>2. Hostname!Idle \in [at : {"idle", "passed", "verified"}, of : Adds \cup {NoAdd}, cf : BOOLEAN]
    BY DEF Hostname!Idle
  <2>3. Hostname!NoExtend \in [of : Adds \cup {NoAdd}, used : Nat, expires : Nat]
    BY DEF Hostname!NoExtend
  <2>. QED
    BY <2>1, <2>2, <2>3 DEF Hostname!Init, Hostname!TypeOK, Hostname!AddStages
<1>2. /\ Hostname!NothingBeforeInsert /\ Hostname!PendingIsUnmarked
      /\ Hostname!WatchedIsVerified /\ Hostname!MarksAreLater /\ Hostname!ReleasesAreDue
  BY HostnameAssumption DEF Hostname!Init, Hostname!NoRow, Hostname!Bound,
     Hostname!NothingBeforeInsert, Hostname!PendingIsUnmarked,
     Hostname!WatchedIsVerified, Hostname!MarksAreLater, Hostname!ReleasesAreDue
<1>. QED
  BY <1>1, <1>2 DEF Hostname!IInv

\* What a step may do to the bindings.
LEMMA RowSteps ==
    ASSUME Hostname!Next
    PROVE  \/ UNCHANGED hRow
           \/ \E a \in Adds : Hostname!Insert(a) \/ Hostname!SetCloudflareHostnameID(a) \/ Hostname!UndoRow(a)
           \/ \E v \in Calls \cup {Poller} : Hostname!UpdateVerified(v)
           \/ \E e \in Extends : Hostname!UpdateExtendsUsed(e)
           \/ \E a \in Adds : Hostname!EvaluateGrace(a) \/ Hostname!UpdateExpired(a)
           \/ Hostname!UpdateReleased
BY DEF Hostname!Next, Hostname!Sweep, Hostname!PlanAdd, Hostname!RegisterCustomHostname,
   Hostname!UndoHostname, Hostname!GetByHostname, Hostname!ActivateCustomHostname,
   Hostname!ApplyExtend, Hostname!ListPending, Hostname!ListVerified,
   Hostname!ListExpiredCandidates, Hostname!EndTick, Hostname!DeleteCustomHostname,
   Hostname!BindingNotFound, Hostname!TickFails, Hostname!Tick, Hostname!RecordsChange

LEMMA HostTypes == Hostname!IInv /\ Hostname!Next => Hostname!TypeOK'
<1> SUFFICES ASSUME Hostname!IInv, Hostname!Next PROVE Hostname!TypeOK'
  OBVIOUS
<1> DEFINE Rows == [status : Hostname!Statuses, used : Nat, expires : Nat,
                    failed : Nat \cup {NoMark}, cf : BOOLEAN]
           Tasks == [at : {"idle", "passed", "verified"}, of : Adds \cup {NoAdd}, cf : BOOLEAN]
           Requested == [at : Hostname!AddStages, expires : Nat]
           Plans == [of : Adds \cup {NoAdd}, used : Nat, expires : Nat]
<1>0. /\ hRow \in [Adds -> Rows] /\ hPassed \in [Adds -> Nat] /\ hClock \in Nat /\ hList \subseteq Adds
      /\ hAdd \in [Adds -> Requested]
      /\ hExtend \in [Extends -> Plans]
      /\ hVerify \in [Calls \cup {Poller} -> Tasks]
  BY DEF Hostname!IInv, Hostname!TypeOK
<1> HIDE DEF Rows, Tasks, Plans, Requested
<1>1. hRow' \in [Adds -> Rows]
  <2>1. ASSUME NEW a \in Adds, Hostname!Insert(a) PROVE hRow' \in [Adds -> Rows]
    <3>1. [Hostname!NoRow EXCEPT !.status = "pending", !.expires = hAdd[a].expires] \in Rows
      BY <1>0 DEF Rows, Requested, Hostname!NoRow, Hostname!Statuses
    <3>. QED
      BY <1>0, <2>1, <3>1 DEF Hostname!Insert
  <2>2. ASSUME NEW a \in Adds, Hostname!UndoRow(a) PROVE hRow' \in [Adds -> Rows]
    <3>1. Hostname!NoRow \in Rows
      BY DEF Rows, Hostname!NoRow, Hostname!Statuses
    <3>. QED
      BY <1>0, <2>2, <3>1 DEF Hostname!UndoRow
  <2>3. ASSUME NEW a \in Adds, NEW x \in Hostname!Statuses, hRow' = [hRow EXCEPT ![a].status = x]
        PROVE  hRow' \in [Adds -> Rows]
    BY <1>0, <2>3 DEF Rows
  <2>4. ASSUME NEW a \in Adds, NEW m \in Nat \cup {NoMark}, NEW x \in Hostname!Statuses,
               hRow' = [hRow EXCEPT ![a].failed = m, ![a].status = x]
        PROVE  hRow' \in [Adds -> Rows]
    <3>1. hRow' = [hRow EXCEPT ![a] = [hRow[a] EXCEPT !.failed = m, !.status = x]]
      BY <1>0, <2>4
    <3>2. [hRow[a] EXCEPT !.failed = m, !.status = x] \in Rows
      BY <1>0 DEF Rows
    <3>. QED
      BY <1>0, <3>1, <3>2
  <2>5. ASSUME NEW e \in Extends, Hostname!UpdateExtendsUsed(e) PROVE hRow' \in [Adds -> Rows]
    <3> DEFINE a == hExtend[e].of
               i == hExtend[e].used
               j == hExtend[e].expires
    <3>1. i \in Nat /\ j \in Nat
      BY <1>0 DEF Plans
    <3>2. CASE Hostname!Bound(a) /\ a \in Adds
      <4>1. hRow' = [hRow EXCEPT ![a].used = i, ![a].expires = j]
        BY <2>5, <3>2 DEF Hostname!UpdateExtendsUsed
      <4> HIDE DEF a, i, j
      <4>2. hRow' = [hRow EXCEPT ![a] = [hRow[a] EXCEPT !.used = i, !.expires = j]]
        BY <1>0, <3>2, <4>1
      <4>3. [hRow[a] EXCEPT !.used = i, !.expires = j] \in Rows
        BY <1>0, <3>1, <3>2 DEF Rows
      <4>. QED
        BY <1>0, <3>2, <4>2, <4>3
    <3>3. CASE ~Hostname!Bound(a) \/ a \notin Adds
      <4>1. hRow' = hRow
        BY <1>0, <2>5, <3>3, HostnameAssumption DEF Hostname!UpdateExtendsUsed, Hostname!NoExtend
      <4>. QED
        BY <1>0, <4>1
    <3>. QED
      BY <3>2, <3>3
  <2>6. ASSUME NEW a \in Adds, Hostname!SetCloudflareHostnameID(a) PROVE hRow' \in [Adds -> Rows]
    BY <1>0, <2>6 DEF Rows, Hostname!SetCloudflareHostnameID
  <2>7. ASSUME NEW v \in Calls \cup {Poller}, Hostname!UpdateVerified(v)
        PROVE  hRow' \in [Adds -> Rows]
    <3>1. UNCHANGED hRow \/ hRow' = [hRow EXCEPT ![hVerify[v].of].status = "verified"]
      BY <2>7 DEF Hostname!UpdateVerified
    <3>2. hVerify[v].of \in Adds \/ hVerify[v].of = NoAdd
      BY <1>0 DEF Tasks
    <3>3. "verified" \in Hostname!Statuses
      BY DEF Hostname!Statuses
    <3>. QED
      BY <1>0, <2>3, <3>1, <3>2, <3>3, HostnameAssumption
  <2>8. ASSUME NEW a \in Adds, Hostname!EvaluateGrace(a) PROVE hRow' \in [Adds -> Rows]
    <3>1. \/ UNCHANGED hRow
          \/ hRow' = [hRow EXCEPT ![a].failed = NoMark, ![a].status = "verified"]
          \/ hRow' = [hRow EXCEPT ![a].failed = hClock, ![a].status = "unhealthy"]
      BY <2>8 DEF Hostname!EvaluateGrace, Hostname!Mark
    <3>2. "verified" \in Hostname!Statuses /\ "unhealthy" \in Hostname!Statuses
      BY DEF Hostname!Statuses
    <3>. QED
      BY <1>0, <2>4, <3>1, <3>2
  <2>9. ASSUME NEW a \in Adds, Hostname!UpdateExpired(a) PROVE hRow' \in [Adds -> Rows]
    BY <2>3, <2>9 DEF Hostname!UpdateExpired, Hostname!Statuses
  <2>10. CASE Hostname!UpdateReleased
    <3>1. hReleasing \in Adds \/ hRow' = hRow
      BY <1>0, <2>10 DEF Hostname!UpdateReleased
    <3>. QED
      BY <1>0, <2>3, <2>10, <3>1 DEF Hostname!UpdateReleased, Hostname!Statuses
  <2>11. CASE UNCHANGED hRow
    BY <1>0, <2>11
  <2>. QED
    BY <2>1, <2>2, <2>5, <2>6, <2>7, <2>8, <2>9, <2>10, <2>11, RowSteps
<1>2. hPassed' \in [Adds -> Nat] /\ hClock' \in Nat
  <2>1. \/ UNCHANGED hPassed
        \/ \E a \in Adds : hPassed' = [hPassed EXCEPT ![a] = hClock]
    BY DEF Hostname!Next, Hostname!Sweep, Hostname!PlanAdd, Hostname!Insert,
       Hostname!RegisterCustomHostname, Hostname!SetCloudflareHostnameID,
       Hostname!UndoHostname, Hostname!UndoRow, Hostname!GetByHostname,
       Hostname!UpdateVerified, Hostname!ActivateCustomHostname, Hostname!ApplyExtend,
       Hostname!UpdateExtendsUsed, Hostname!ListPending, Hostname!ListVerified,
       Hostname!ListExpiredCandidates, Hostname!EndTick, Hostname!EvaluateGrace,
       Hostname!DeleteCustomHostname, Hostname!UpdateReleased, Hostname!UpdateExpired,
       Hostname!BindingNotFound, Hostname!TickFails, Hostname!Tick, Hostname!RecordsChange
  <2>2. hClock' = hClock \/ hClock' = hClock + 1
    BY DEF Hostname!Next, Hostname!Sweep, Hostname!PlanAdd, Hostname!Insert,
       Hostname!RegisterCustomHostname, Hostname!SetCloudflareHostnameID,
       Hostname!UndoHostname, Hostname!UndoRow, Hostname!GetByHostname,
       Hostname!UpdateVerified, Hostname!ActivateCustomHostname, Hostname!ApplyExtend,
       Hostname!UpdateExtendsUsed, Hostname!ListPending, Hostname!ListVerified,
       Hostname!ListExpiredCandidates, Hostname!EndTick, Hostname!EvaluateGrace,
       Hostname!DeleteCustomHostname, Hostname!UpdateReleased, Hostname!UpdateExpired,
       Hostname!BindingNotFound, Hostname!TickFails, Hostname!Tick, Hostname!RecordsChange
  <2>. QED
    BY <1>0, <2>1, <2>2
<1>3. hList' \subseteq Adds
  BY <1>0 DEF Hostname!Next, Hostname!Sweep, Hostname!Served, Hostname!PlanAdd,
     Hostname!Insert, Hostname!RegisterCustomHostname, Hostname!SetCloudflareHostnameID,
     Hostname!UndoHostname, Hostname!UndoRow, Hostname!GetByHostname,
     Hostname!UpdateVerified, Hostname!ActivateCustomHostname, Hostname!ApplyExtend,
     Hostname!UpdateExtendsUsed, Hostname!ListPending, Hostname!ListVerified,
     Hostname!ListExpiredCandidates, Hostname!EndTick, Hostname!EvaluateGrace,
     Hostname!DeleteCustomHostname, Hostname!UpdateReleased, Hostname!UpdateExpired,
     Hostname!BindingNotFound, Hostname!TickFails, Hostname!Tick, Hostname!RecordsChange
<1>4. hAdd' \in [Adds -> Requested]
  <2>1. \/ UNCHANGED hAdd
        \/ \E a \in Adds, x \in Hostname!AddStages : hAdd' = [hAdd EXCEPT ![a].at = x]
        \/ \E a \in Adds : hAdd' = [hAdd EXCEPT ![a] = [at |-> "planned", expires |-> hClock + 1]]
    BY DEF Hostname!AddStages, Hostname!Goto, Hostname!TTL, Hostname!Next, Hostname!Sweep,
       Hostname!PlanAdd, Hostname!Insert, Hostname!RegisterCustomHostname,
       Hostname!SetCloudflareHostnameID, Hostname!UndoHostname, Hostname!UndoRow,
       Hostname!GetByHostname, Hostname!UpdateVerified, Hostname!ActivateCustomHostname,
       Hostname!ApplyExtend, Hostname!UpdateExtendsUsed, Hostname!ListPending,
       Hostname!ListVerified, Hostname!ListExpiredCandidates, Hostname!EndTick,
       Hostname!EvaluateGrace, Hostname!DeleteCustomHostname, Hostname!UpdateReleased,
       Hostname!UpdateExpired, Hostname!BindingNotFound, Hostname!TickFails, Hostname!Tick,
       Hostname!RecordsChange
  <2>2. ASSUME NEW a \in Adds, NEW x \in Hostname!AddStages
        PROVE  [hAdd[a] EXCEPT !.at = x] \in Requested
    BY <1>0 DEF Requested
  <2>3. hClock + 1 \in Nat
    BY <1>0
  <2>4. [at |-> "planned", expires |-> hClock + 1] \in Requested
    BY <2>3 DEF Requested, Hostname!AddStages
  <2>. QED
    BY <1>0, <2>1, <2>2, <2>4
<1>5. hExtend' \in [Extends -> Plans]
  <2>1. \/ UNCHANGED hExtend
        \/ \E e \in Extends : hExtend' = [hExtend EXCEPT ![e] = Hostname!NoExtend]
        \/ \E e \in Extends, a \in Adds :
              hExtend' = [hExtend EXCEPT ![e] =
                 [of |-> a, used |-> hRow[a].used + 1, expires |-> hRow[a].expires + 1]]
    BY DEF Hostname!Next, Hostname!Sweep, Hostname!PlanAdd, Hostname!Insert,
       Hostname!RegisterCustomHostname, Hostname!SetCloudflareHostnameID,
       Hostname!UndoHostname, Hostname!UndoRow, Hostname!GetByHostname,
       Hostname!UpdateVerified, Hostname!ActivateCustomHostname, Hostname!ApplyExtend,
       Hostname!UpdateExtendsUsed, Hostname!ListPending, Hostname!ListVerified,
       Hostname!ListExpiredCandidates, Hostname!EndTick, Hostname!EvaluateGrace,
       Hostname!DeleteCustomHostname, Hostname!UpdateReleased, Hostname!UpdateExpired,
       Hostname!BindingNotFound, Hostname!TickFails, Hostname!Tick, Hostname!RecordsChange
  <2>2. \A a \in Adds : hRow[a].used + 1 \in Nat /\ hRow[a].expires + 1 \in Nat
    BY <1>0 DEF Rows
  <2>3. Hostname!NoExtend \in Plans
    BY DEF Plans, Hostname!NoExtend
  <2>4. \A a \in Adds :
            [of |-> a, used |-> hRow[a].used + 1, expires |-> hRow[a].expires + 1] \in Plans
    BY <2>2 DEF Plans
  <2>. QED
    BY <1>0, <2>1, <2>3, <2>4
<1>6. hVerify' \in [Calls \cup {Poller} -> Tasks]
  <2>1. \/ UNCHANGED hVerify
        \/ \E v \in Calls \cup {Poller} : hVerify' = [hVerify EXCEPT ![v] = Hostname!Idle]
        \/ \E v \in Calls \cup {Poller} : hVerify' = [hVerify EXCEPT ![v].at = "verified"]
        \/ \E v \in Calls \cup {Poller}, a \in Adds :
              hVerify' = [hVerify EXCEPT ![v] = [at |-> "passed", of |-> a, cf |-> hRow[a].cf]]
    BY DEF Hostname!Served, Hostname!Next, Hostname!Sweep, Hostname!PlanAdd,
       Hostname!Insert, Hostname!RegisterCustomHostname, Hostname!SetCloudflareHostnameID,
       Hostname!UndoHostname, Hostname!UndoRow, Hostname!GetByHostname,
       Hostname!UpdateVerified, Hostname!ActivateCustomHostname, Hostname!ApplyExtend,
       Hostname!UpdateExtendsUsed, Hostname!ListPending, Hostname!ListVerified,
       Hostname!ListExpiredCandidates, Hostname!EndTick, Hostname!EvaluateGrace,
       Hostname!DeleteCustomHostname, Hostname!UpdateReleased, Hostname!UpdateExpired,
       Hostname!BindingNotFound, Hostname!TickFails, Hostname!Tick, Hostname!RecordsChange
  <2>2. \A a \in Adds : [at |-> "passed", of |-> a, cf |-> hRow[a].cf] \in Tasks
    BY <1>0 DEF Rows, Tasks
  <2>3. Hostname!Idle \in Tasks
    BY DEF Tasks, Hostname!Idle
  <2>4. \A v \in Calls \cup {Poller} : [hVerify[v] EXCEPT !.at = "verified"] \in Tasks
    BY <1>0 DEF Tasks
  <2>. QED
    BY <1>0, <2>1, <2>2, <2>3, <2>4
<1>. QED
  BY <1>1, <1>2, <1>3, <1>4, <1>5, <1>6 DEF Hostname!TypeOK, Rows, Tasks, Plans, Requested

\* The type of a binding, kept out of the provers' sight.
Bindings == [status : Hostname!Statuses, used : Nat, expires : Nat,
             failed : Nat \cup {NoMark}, cf : BOOLEAN]

\* What a step does to the status and the mark of a binding.
LEMMA RowFacts ==
    ASSUME Hostname!TypeOK, Hostname!Next, NEW a \in Adds
    PROVE  \/ hRow'[a].status = hRow[a].status /\ hRow'[a].failed = hRow[a].failed
           \/ Hostname!Insert(a) /\ hRow'[a].status = "pending" /\ hRow'[a].failed = NoMark
           \/ Hostname!UndoRow(a) /\ hRow'[a].status = "none" /\ hRow'[a].failed = NoMark
           \/ /\ Hostname!Bound(a) /\ hRow'[a].status \in {"verified", "expired"}
              /\ hRow'[a].failed = hRow[a].failed
           \/ /\ Hostname!EvaluateGrace(a) /\ hDns
              /\ hRow'[a].status = "verified" /\ hRow'[a].failed = NoMark
           \/ /\ Hostname!EvaluateGrace(a) /\ ~hDns
              /\ hRow'[a].status = "unhealthy" /\ hRow'[a].failed = hClock
           \/ /\ Hostname!UpdateReleased /\ hReleasing = a /\ Hostname!Bound(a)
              /\ hRow'[a].status = "released" /\ hRow'[a].failed = hRow[a].failed
<1>0. hRow \in [Adds -> Bindings]
  BY DEF Hostname!TypeOK, Bindings
<1>1. ASSUME NEW b \in Adds, Hostname!Insert(b)
      PROVE  \/ hRow'[a] = hRow[a]
             \/ b = a /\ hRow'[a].status = "pending" /\ hRow'[a].failed = NoMark
  BY <1>0, <1>1 DEF Hostname!Insert, Hostname!NoRow
<1>2. ASSUME NEW b \in Adds, Hostname!SetCloudflareHostnameID(b)
      PROVE  hRow'[a].status = hRow[a].status /\ hRow'[a].failed = hRow[a].failed
  <2>1. hRow' = hRow \/ hRow' = [hRow EXCEPT ![b].cf = TRUE]
    BY <1>2 DEF Hostname!SetCloudflareHostnameID
  <2>. QED
    BY <1>0, <2>1 DEF Bindings
<1>3. ASSUME NEW b \in Adds, Hostname!UndoRow(b)
      PROVE  \/ hRow'[a] = hRow[a]
             \/ b = a /\ hRow'[a].status = "none" /\ hRow'[a].failed = NoMark
  <2>1. hRow' = hRow \/ hRow' = [hRow EXCEPT ![b] = Hostname!NoRow]
    BY <1>3 DEF Hostname!UndoRow
  <2>2. Hostname!NoRow.status = "none" /\ Hostname!NoRow.failed = NoMark
    BY DEF Hostname!NoRow
  <2>. QED
    BY <1>0, <2>1, <2>2
<1>4. ASSUME NEW v \in Calls \cup {Poller}, Hostname!UpdateVerified(v)
      PROVE  \/ hRow'[a] = hRow[a]
             \/ /\ Hostname!Bound(a) /\ hRow'[a].status = "verified"
                /\ hRow'[a].failed = hRow[a].failed
  <2>1. \/ hRow' = hRow
        \/ /\ Hostname!Bound(hVerify[v].of)
           /\ hRow' = [hRow EXCEPT ![hVerify[v].of].status = "verified"]
    BY <1>4 DEF Hostname!UpdateVerified
  <2>. QED
    BY <1>0, <2>1 DEF Bindings
<1>5. ASSUME NEW e \in Extends, Hostname!UpdateExtendsUsed(e)
      PROVE  hRow'[a].status = hRow[a].status /\ hRow'[a].failed = hRow[a].failed
  <2> DEFINE b == hExtend[e].of
             i == hExtend[e].used
             j == hExtend[e].expires
  <2>1. hRow' = hRow \/ hRow' = [hRow EXCEPT ![b].used = i, ![b].expires = j]
    BY <1>5 DEF Hostname!UpdateExtendsUsed
  <2> HIDE DEF b, i, j
  <2>2. CASE hRow' = [hRow EXCEPT ![b].used = i, ![b].expires = j] /\ b = a
    <3>1. hRow' = [hRow EXCEPT ![b] = [hRow[b] EXCEPT !.used = i, !.expires = j]]
      BY <1>0, <2>2
    <3>2. hRow'[a] = [hRow[a] EXCEPT !.used = i, !.expires = j]
      BY <1>0, <2>2, <3>1
    <3>. QED
      BY <1>0, <3>2 DEF Bindings
  <2>3. CASE hRow' = [hRow EXCEPT ![b].used = i, ![b].expires = j] /\ b # a
    BY <1>0, <2>3
  <2>. QED
    BY <2>1, <2>2, <2>3
<1>6. ASSUME NEW b \in Adds, Hostname!EvaluateGrace(b)
      PROVE  \/ hRow'[a] = hRow[a]
             \/ b = a /\ hDns /\ hRow'[a].status = "verified" /\ hRow'[a].failed = NoMark
             \/ b = a /\ ~hDns /\ hRow'[a].status = "unhealthy" /\ hRow'[a].failed = hClock
  <2>1. ASSUME NEW m, NEW x, hRow' = [hRow EXCEPT ![b].failed = m, ![b].status = x]
        PROVE  hRow'[a] = hRow[a] \/ (b = a /\ hRow'[a].status = x /\ hRow'[a].failed = m)
    <3>1. hRow' = [hRow EXCEPT ![b] = [hRow[b] EXCEPT !.failed = m, !.status = x]]
      BY <1>0, <2>1
    <3>2. CASE b = a
      <4>1. hRow'[a] = [hRow[a] EXCEPT !.failed = m, !.status = x]
        BY <1>0, <3>1, <3>2
      <4>. QED
        BY <1>0, <3>2, <4>1 DEF Bindings
    <3>3. CASE b # a
      BY <1>0, <3>1, <3>3
    <3>. QED
      BY <3>2, <3>3
  <2>2. \/ UNCHANGED hRow
        \/ hDns /\ hRow' = [hRow EXCEPT ![b].failed = NoMark, ![b].status = "verified"]
        \/ ~hDns /\ hRow' = [hRow EXCEPT ![b].failed = hClock, ![b].status = "unhealthy"]
    BY <1>6 DEF Hostname!EvaluateGrace, Hostname!Mark
  <2>. QED
    BY <2>1, <2>2
<1>7. ASSUME NEW b \in Adds, Hostname!UpdateExpired(b)
      PROVE  \/ hRow'[a] = hRow[a]
             \/ /\ Hostname!Bound(a) /\ hRow'[a].status = "expired"
                /\ hRow'[a].failed = hRow[a].failed
  BY <1>0, <1>7 DEF Hostname!UpdateExpired, Bindings
<1>8. ASSUME Hostname!UpdateReleased
      PROVE  \/ hRow'[a] = hRow[a]
             \/ /\ hReleasing = a /\ Hostname!Bound(a)
                /\ hRow'[a].status = "released" /\ hRow'[a].failed = hRow[a].failed
  BY <1>0, <1>8 DEF Hostname!UpdateReleased, Bindings
<1>. QED
  BY <1>1, <1>2, <1>3, <1>4, <1>5, <1>6, <1>7, <1>8, RowSteps

\* What a step does to the times the records were found right at.
LEMMA TimeFacts ==
    ASSUME Hostname!TypeOK, Hostname!Next, NEW a \in Adds
    PROVE  /\ hClock' \in Nat /\ hClock' >= hClock
           /\ \/ hPassed'[a] = hPassed[a]
              \/ /\ hPassed'[a] = hClock /\ hRow[a].status = "pending"
                 /\ UNCHANGED <<hRow, hReleasing>>
              \/ /\ hPassed'[a] = hClock /\ hDns /\ Hostname!EvaluateGrace(a)
<1>0. hClock \in Nat /\ hPassed \in [Adds -> Nat]
  BY DEF Hostname!TypeOK
<1>1. hClock' = hClock \/ hClock' = hClock + 1
  BY DEF Hostname!Next, Hostname!Sweep, Hostname!PlanAdd, Hostname!Insert,
     Hostname!RegisterCustomHostname, Hostname!SetCloudflareHostnameID,
     Hostname!UndoHostname, Hostname!UndoRow, Hostname!GetByHostname,
     Hostname!UpdateVerified, Hostname!ActivateCustomHostname, Hostname!ApplyExtend,
     Hostname!UpdateExtendsUsed, Hostname!ListPending, Hostname!ListVerified,
     Hostname!ListExpiredCandidates, Hostname!EndTick, Hostname!EvaluateGrace,
     Hostname!DeleteCustomHostname, Hostname!UpdateReleased, Hostname!UpdateExpired,
     Hostname!BindingNotFound, Hostname!TickFails, Hostname!Tick, Hostname!RecordsChange
<1>2. \/ UNCHANGED hPassed
      \/ \E b \in Adds :
            /\ hRow[b].status = "pending" /\ hPassed' = [hPassed EXCEPT ![b] = hClock]
            /\ UNCHANGED <<hRow, hReleasing>>
      \/ \E b \in Adds : /\ hDns /\ Hostname!EvaluateGrace(b)
                         /\ hPassed' = [hPassed EXCEPT ![b] = hClock]
  BY DEF Hostname!Next, Hostname!Sweep, Hostname!PlanAdd, Hostname!Insert,
     Hostname!RegisterCustomHostname, Hostname!SetCloudflareHostnameID,
     Hostname!UndoHostname, Hostname!UndoRow, Hostname!GetByHostname,
     Hostname!UpdateVerified, Hostname!ActivateCustomHostname, Hostname!ApplyExtend,
     Hostname!UpdateExtendsUsed, Hostname!ListPending, Hostname!ListVerified,
     Hostname!ListExpiredCandidates, Hostname!EndTick, Hostname!EvaluateGrace,
     Hostname!DeleteCustomHostname, Hostname!UpdateReleased, Hostname!UpdateExpired,
     Hostname!BindingNotFound, Hostname!TickFails, Hostname!Tick, Hostname!RecordsChange
<1>. QED
  BY <1>0, <1>1, <1>2

\* What a step does to the lists of the sweeps and to the release under way.
LEMMA SweepFacts ==
    ASSUME Hostname!TypeOK, Hostname!Next, NEW a \in Adds
    PROVE  /\ a \in hList' => a \in hList \/ Hostname!Bound(a)
           /\ hSweep' = "health" /\ a \in hList' =>
                 \/ hSweep = "health" /\ a \in hList
                 \/ hRow[a].status # "pending" /\ UNCHANGED hRow
           /\ hReleasing' = a =>
                 \/ hReleasing = a
                 \/ a = NoAdd
                 \/ /\ hSweep = "health" /\ a \in hList /\ Hostname!GraceIsOver(a)
                    /\ UNCHANGED <<hRow, hClock, hPassed>>
<1>1. \/ hList' \subseteq hList
      \/ hList' = {b \in Adds : hRow[b].status = "pending"}
      \/ hList' = {b \in Adds : hRow[b].status \in {"verified", "unhealthy"}}
      \/ hList' = {b \in Adds : Hostname!IsOver(b)}
  BY DEF Hostname!Served, Hostname!Next, Hostname!Sweep, Hostname!PlanAdd, Hostname!Insert,
     Hostname!RegisterCustomHostname, Hostname!SetCloudflareHostnameID,
     Hostname!UndoHostname, Hostname!UndoRow, Hostname!GetByHostname,
     Hostname!UpdateVerified, Hostname!ActivateCustomHostname, Hostname!ApplyExtend,
     Hostname!UpdateExtendsUsed, Hostname!ListPending, Hostname!ListVerified,
     Hostname!ListExpiredCandidates, Hostname!EndTick, Hostname!EvaluateGrace,
     Hostname!DeleteCustomHostname, Hostname!UpdateReleased, Hostname!UpdateExpired,
     Hostname!BindingNotFound, Hostname!TickFails, Hostname!Tick, Hostname!RecordsChange
<1>2. \/ hSweep' # "health"
      \/ hSweep = "health" /\ hList' \subseteq hList
      \/ UNCHANGED hRow /\ hList' = {b \in Adds : hRow[b].status \in {"verified", "unhealthy"}}
  BY DEF Hostname!Served, Hostname!Next, Hostname!Sweep, Hostname!PlanAdd, Hostname!Insert,
     Hostname!RegisterCustomHostname, Hostname!SetCloudflareHostnameID,
     Hostname!UndoHostname, Hostname!UndoRow, Hostname!GetByHostname,
     Hostname!UpdateVerified, Hostname!ActivateCustomHostname, Hostname!ApplyExtend,
     Hostname!UpdateExtendsUsed, Hostname!ListPending, Hostname!ListVerified,
     Hostname!ListExpiredCandidates, Hostname!EndTick, Hostname!EvaluateGrace,
     Hostname!DeleteCustomHostname, Hostname!UpdateReleased, Hostname!UpdateExpired,
     Hostname!BindingNotFound, Hostname!TickFails, Hostname!Tick, Hostname!RecordsChange
<1>3. \/ hReleasing' = hReleasing \/ hReleasing' = NoAdd
      \/ /\ hSweep = "health" /\ hReleasing' \in hList /\ Hostname!GraceIsOver(hReleasing')
         /\ UNCHANGED <<hRow, hClock, hPassed>>
  BY DEF Hostname!Next, Hostname!Sweep, Hostname!PlanAdd, Hostname!Insert,
     Hostname!RegisterCustomHostname, Hostname!SetCloudflareHostnameID,
     Hostname!UndoHostname, Hostname!UndoRow, Hostname!GetByHostname,
     Hostname!UpdateVerified, Hostname!ActivateCustomHostname, Hostname!ApplyExtend,
     Hostname!UpdateExtendsUsed, Hostname!ListPending, Hostname!ListVerified,
     Hostname!ListExpiredCandidates, Hostname!EndTick, Hostname!EvaluateGrace,
     Hostname!DeleteCustomHostname, Hostname!UpdateReleased, Hostname!UpdateExpired,
     Hostname!BindingNotFound, Hostname!TickFails, Hostname!Tick, Hostname!RecordsChange
<1>. QED
  BY <1>1, <1>2, <1>3 DEF Hostname!Bound, Hostname!IsOver

\* A request is fresh until its insert.
LEMMA FreshFacts ==
    ASSUME Hostname!TypeOK, Hostname!Next, NEW a \in Adds, Hostname!Fresh(a)'
    PROVE  Hostname!Fresh(a) /\ ~Hostname!Insert(a) /\ ~Hostname!UndoRow(a)
<1>0. hAdd \in [Adds -> [at : Hostname!AddStages, expires : Nat]]
  BY DEF Hostname!TypeOK
<1>1. \/ UNCHANGED hAdd
      \/ \E b \in Adds : hAdd[b].at = "idle" /\ hAdd' = [hAdd EXCEPT ![b] = [at |-> "planned", expires |-> hClock + 1]]
      \/ \E b \in Adds, x \in {"inserted", "registered", "undo row", "undo hostname", "done", "failed"} :
            hAdd' = [hAdd EXCEPT ![b].at = x]
  BY DEF Hostname!Goto, Hostname!TTL, Hostname!Next, Hostname!Sweep, Hostname!PlanAdd,
     Hostname!Insert, Hostname!RegisterCustomHostname, Hostname!SetCloudflareHostnameID,
     Hostname!UndoHostname, Hostname!UndoRow, Hostname!GetByHostname,
     Hostname!UpdateVerified, Hostname!ActivateCustomHostname, Hostname!ApplyExtend,
     Hostname!UpdateExtendsUsed, Hostname!ListPending, Hostname!ListVerified,
     Hostname!ListExpiredCandidates, Hostname!EndTick, Hostname!EvaluateGrace,
     Hostname!DeleteCustomHostname, Hostname!UpdateReleased, Hostname!UpdateExpired,
     Hostname!BindingNotFound, Hostname!TickFails, Hostname!Tick, Hostname!RecordsChange
<1>2. Hostname!Fresh(a)
  BY <1>0, <1>1 DEF Hostname!Fresh
<1>3. Hostname!Insert(a) \/ Hostname!UndoRow(a) => hAdd'[a].at \in {"inserted", "failed"}
  BY <1>0 DEF Hostname!Insert, Hostname!UndoRow, Hostname!Goto
<1>. QED
  BY <1>2, <1>3 DEF Hostname!Fresh

LEMMA HostPreserves == Hostname!IInv /\ Hostname!Next => Hostname!IInv'
<1> SUFFICES ASSUME Hostname!IInv, Hostname!Next PROVE Hostname!IInv'
  OBVIOUS
<1>0. /\ Hostname!TypeOK /\ Hostname!NothingBeforeInsert /\ Hostname!PendingIsUnmarked
      /\ Hostname!WatchedIsVerified /\ Hostname!MarksAreLater /\ Hostname!ReleasesAreDue
  BY DEF Hostname!IInv
<1>1. Hostname!TypeOK'
  BY HostTypes
<1>2. Hostname!NothingBeforeInsert'
  <2>1. ASSUME NEW a \in Adds, Hostname!Fresh(a)'
        PROVE  hRow'[a].status = "none" /\ a \notin hList' /\ hReleasing' # a
    <3>1. /\ Hostname!Fresh(a) /\ ~Hostname!Insert(a) /\ ~Hostname!UndoRow(a)
          /\ hRow[a].status = "none" /\ ~Hostname!Bound(a)
          /\ a \notin hList /\ hReleasing # a
      BY <1>0, <2>1, FreshFacts DEF Hostname!NothingBeforeInsert, Hostname!Bound
    <3>2. ~Hostname!EvaluateGrace(a)
      BY <3>1 DEF Hostname!EvaluateGrace
    <3>3. hRow'[a].status = "none"
      BY <1>0, <3>1, <3>2, RowFacts
    <3>4. a \notin hList' /\ hReleasing' # a
      BY <1>0, <3>1, SweepFacts, HostnameAssumption
    <3>. QED
      BY <3>3, <3>4
  <2>. QED
    BY <2>1 DEF Hostname!NothingBeforeInsert, Hostname!Bound, Hostname!Fresh
<1>3. Hostname!PendingIsUnmarked'
  <2>1. ASSUME NEW a \in Adds, hRow'[a].status \in {"none", "pending"}
        PROVE  hRow'[a].failed = NoMark
    BY <1>0, <2>1, RowFacts DEF Hostname!PendingIsUnmarked
  <2>. QED
    BY <2>1 DEF Hostname!PendingIsUnmarked
<1>4. Hostname!WatchedIsVerified'
  <2>1. ASSUME NEW a \in Adds, (hSweep' = "health" /\ a \in hList') \/ hReleasing' = a,
               hRow'[a].status = "pending"
        PROVE  FALSE
    <3>1. CASE Hostname!Insert(a)
      <4>1. /\ hAdd[a].at = "planned"
            /\ UNCHANGED <<hSweep, hList, hReleasing>>
        BY <3>1 DEF Hostname!Insert
      <4>. QED
        BY <1>0, <2>1, <4>1 DEF Hostname!NothingBeforeInsert, Hostname!Fresh
    <3>2. CASE hRow[a].status = "pending"
      <4>1. ~(hSweep = "health" /\ a \in hList) /\ hReleasing # a
        BY <1>0, <3>2 DEF Hostname!WatchedIsVerified
      <4>. QED
        BY <1>0, <2>1, <3>2, <4>1, SweepFacts, HostnameAssumption
    <3>. QED
      BY <1>0, <2>1, <3>1, <3>2, RowFacts
  <2>. QED
    BY <2>1 DEF Hostname!WatchedIsVerified
<1>5. ASSUME NEW a \in Adds
      PROVE  /\ hPassed[a] \in Nat /\ hPassed'[a] \in Nat /\ hClock \in Nat /\ hClock' \in Nat
             /\ hPassed[a] <= hClock /\ hClock <= hClock'
             /\ hRow[a].failed \in Nat \cup {NoMark}
             /\ hRow[a].failed # NoMark => hPassed[a] <= hRow[a].failed
  BY <1>0, <1>1, TimeFacts DEF Hostname!TypeOK, Hostname!MarksAreLater
<1>6. Hostname!MarksAreLater'
  <2>1. ASSUME NEW a \in Adds PROVE hPassed'[a] <= hClock'
    BY <1>0, <1>5, TimeFacts
  <2>2. ASSUME NEW a \in Adds, hRow'[a].failed # NoMark PROVE hPassed'[a] <= hRow'[a].failed
    <3>1. CASE hPassed'[a] = hPassed[a]
      BY <1>0, <1>5, <2>2, <3>1, RowFacts
    <3>2. CASE hRow[a].status = "pending" /\ UNCHANGED hRow
      BY <1>0, <2>2, <3>2 DEF Hostname!PendingIsUnmarked
    <3>3. CASE hDns /\ Hostname!EvaluateGrace(a)
      <4>1. hRow'[a].failed = NoMark
        BY <1>0, <3>3 DEF Hostname!EvaluateGrace, Hostname!Mark, Hostname!TypeOK
      <4>. QED
        BY <2>2, <4>1
    <3>. QED
      BY <1>0, <3>1, <3>2, <3>3, TimeFacts
  <2>. QED
    BY <2>1, <2>2 DEF Hostname!MarksAreLater
<1>7. Hostname!ReleasesAreDue'
  <2>1. ASSUME NEW a \in Adds, hReleasing' = a PROVE hClock' - hPassed'[a] > GraceWindow
    <3>1. CASE hReleasing = a
      <4>1. hPassed'[a] = hPassed[a]
        <5>1. hRow[a].status # "pending"
          BY <1>0, <3>1 DEF Hostname!WatchedIsVerified
        <5>2. ~Hostname!EvaluateGrace(a)
          BY <3>1, HostnameAssumption DEF Hostname!EvaluateGrace
        <5>. QED
          BY <1>0, <5>1, <5>2, TimeFacts
      <4>2. hClock - hPassed[a] > GraceWindow
        BY <1>0, <3>1 DEF Hostname!ReleasesAreDue
      <4>. QED
        BY <1>5, <4>1, <4>2, HostnameAssumption
    <3>2. CASE Hostname!GraceIsOver(a) /\ UNCHANGED <<hRow, hClock, hPassed>>
      BY <1>5, <3>2, HostnameAssumption DEF Hostname!GraceIsOver
    <3>. QED
      BY <1>0, <2>1, <3>1, <3>2, SweepFacts, HostnameAssumption
  <2>. QED
    BY <2>1 DEF Hostname!ReleasesAreDue
<1>. QED
  BY <1>1, <1>2, <1>3, <1>4, <1>6, <1>7 DEF Hostname!IInv

LEMMA HostStutters == Hostname!IInv /\ UNCHANGED hVars => Hostname!IInv'
<1> SUFFICES ASSUME Hostname!IInv, UNCHANGED hVars PROVE Hostname!IInv'
  OBVIOUS
<1>1. Hostname!TypeOK'
  BY DEF hVars, Hostname!IInv, Hostname!TypeOK
<1>2. Hostname!NothingBeforeInsert' /\ Hostname!PendingIsUnmarked' /\ Hostname!WatchedIsVerified'
  BY DEF hVars, Hostname!IInv, Hostname!NothingBeforeInsert, Hostname!PendingIsUnmarked,
     Hostname!WatchedIsVerified, Hostname!Fresh, Hostname!Bound
<1>3. Hostname!MarksAreLater' /\ Hostname!ReleasesAreDue'
  BY DEF hVars, Hostname!IInv, Hostname!MarksAreLater, Hostname!ReleasesAreDue
<1>. QED
  BY <1>1, <1>2, <1>3 DEF Hostname!IInv

-----------------------------------------------------------------------------
(* The three together.                                                       *)

LEMMA AccessSteps ==
    ASSUME [AccessNext]_AccessVars
    PROVE  /\ SSO!Next \/ UNCHANGED sVars
           /\ Hostname!Next \/ UNCHANGED hVars
BY DEF AccessNext, AccessVars, TeamMoves, SsoMoves, HostnameMoves

LEMMA SsoInvariant == AccessSpec => []SSO!IInv
<1>1. AccessInit => SSO!IInv
  BY SsoInit DEF AccessInit
<1>2. SSO!IInv /\ [AccessNext]_AccessVars => SSO!IInv'
  BY SsoPreserves, SsoStutters, AccessSteps
<1>. QED
  BY <1>1, <1>2, PTL DEF AccessSpec

LEMMA HostInvariant == AccessSpec => []Hostname!IInv
<1>1. AccessInit => Hostname!IInv
  BY HostInit DEF AccessInit
<1>2. Hostname!IInv /\ [AccessNext]_AccessVars => Hostname!IInv'
  BY HostPreserves, HostStutters, AccessSteps
<1>. QED
  BY <1>1, <1>2, PTL DEF AccessSpec

\* A deprovision leaves no token of its person: one that works was inserted
\* after the last of them.
THEOREM RevocationsAreWhole == AccessSpec => []RevocationIsWhole
<1>1. SSO!IInv => RevocationIsWhole
  BY DEF SSO!IInv, RevocationIsWhole
<1>. QED
  BY SsoInvariant, <1>1, PTL

\* Nobody is a member after a deprovision whom no login through the provider
\* and no invitation has let in since.
THEOREM LockedOutStay == AccessSpec => []LockedOutStayOut
<1>1. SSO!IInv => LockedOutStayOut
  BY DEF SSO!IInv, LockedOutStayOut
<1>. QED
  BY SsoInvariant, <1>1, PTL

\* No step releases a hostname whose records were right within the window.
THEOREM ReleasesWait == AccessSpec => GraceIsGranted
<1>1. ASSUME Hostname!IInv, [AccessNext]_AccessVars, NEW a \in Adds,
             hRow[a].status # "released", hRow'[a].status = "released"
      PROVE  hClock - hPassed[a] > GraceWindow
  <2>1. CASE UNCHANGED hVars
    BY <1>1, <2>1 DEF hVars
  <2>2. CASE Hostname!Next
    <3>1. hReleasing = a
      BY <1>1, <2>2, RowFacts DEF Hostname!IInv
    <3>. QED
      BY <1>1, <3>1 DEF Hostname!IInv, Hostname!ReleasesAreDue
  <2>. QED
    BY <1>1, <2>1, <2>2, AccessSteps
<1>2. Hostname!IInv /\ [AccessNext]_AccessVars =>
         [\A a \in Adds :
             hRow[a].status # "released" /\ hRow'[a].status = "released" =>
                 hClock - hPassed[a] > GraceWindow]_Hostname!vars
  BY <1>1
<1>. QED
  BY HostInvariant, <1>2, PTL DEF AccessSpec, GraceIsGranted, Hostname!GraceIsGranted

-----------------------------------------------------------------------------
(* Sums, which the answers are made of.                                      *)

LEMMA LeastOf ==
    ASSUME NEW T \in SUBSET Nat, T # {}
    PROVE  \E l \in T : \A n \in T : l <= n
<1> DEFINE R == OpToRel(<, Nat)
<1>1. IsWellFoundedOn(R, Nat)
  BY NatLessThanWellFounded
<1>2. ASSUME NEW n \in Nat, NEW l \in Nat, n < l PROVE <<n, l>> \in R
  BY <1>2 DEF OpToRel
<1> HIDE DEF R
<1>3. PICK l \in T : \A n \in T : ~(<<n, l>> \in R)
  BY <1>1, WFMin
<1>4. ASSUME NEW n \in T PROVE l <= n
  <2>1. ~(n < l)
    BY <1>2, <1>3
  <2>. QED
    BY <2>1
<1>. QED
  BY <1>4

\* Induction over a finite set, with the set of the subsets for which the
\* statement holds in the place of the statement.
LEMMA SubsetInduction ==
    ASSUME NEW S, IsFiniteSet(S), NEW Good, {} \in Good,
           \A T \in SUBSET S, x \in S : x \notin T /\ T \in Good => T \cup {x} \in Good
    PROVE  S \in Good
<1> DEFINE Sizes == {Cardinality(T) : T \in {U \in SUBSET S : U \notin Good}}
<1>1. \A T \in SUBSET S : IsFiniteSet(T) /\ Cardinality(T) \in Nat
  BY FS_Subset, FS_CardinalityType
<1>2. SUFFICES ASSUME S \notin Good PROVE FALSE
  OBVIOUS
<1>3. Sizes \in SUBSET Nat /\ Sizes # {}
  BY <1>1, <1>2
<1>4. PICK n \in Sizes : \A m \in Sizes : n <= m
  BY <1>3, LeastOf
<1>5. PICK T \in SUBSET S : T \notin Good /\ Cardinality(T) = n
  OBVIOUS
<1>6. T # {}
  BY <1>5
<1>7. PICK x \in T : TRUE
  BY <1>6
<1>8. Cardinality(T \ {x}) = n - 1 /\ n \in Nat
  BY <1>1, <1>5, <1>7, FS_RemoveElement
<1>9. T \ {x} \in Good
  <2>1. SUFFICES ASSUME T \ {x} \notin Good PROVE FALSE
    OBVIOUS
  <2>2. n - 1 \in Sizes
    BY <1>8, <2>1
  <2>3. QED
    BY <1>4, <1>8, <2>2
<1>10. T = (T \ {x}) \cup {x} /\ x \in S /\ T \ {x} \in SUBSET S /\ x \notin T \ {x}
  BY <1>7
<1>11. QED
  BY <1>5, <1>9, <1>10

\* The recursion that adds up a function on the subsets of a set.
First(T) == CHOOSE x \in T : TRUE

Summed(f, sum, T) == IF T = {} THEN 0 ELSE f[First(T)] + sum[T \ {First(T)}]

SumsUp(f, S, sum) == sum = [T \in SUBSET S |-> Summed(f, sum, T)]

LEMMA SumIsChosen ==
    ASSUME NEW f, NEW S
    PROVE  SumFunctionOnSet(f, S) = (CHOOSE sum : SumsUp(f, S, sum))[S]
BY DEF SumFunctionOnSet, FoldFunctionOnSet, MapThenFoldSet, SumsUp, Summed, First

LEMMA SmallerSet ==
    ASSUME NEW T, IsFiniteSet(T), T # {}
    PROVE  /\ First(T) \in T /\ IsFiniteSet(T \ {First(T)})
           /\ Cardinality(T) \in Nat /\ Cardinality(T \ {First(T)}) \in Nat
           /\ Cardinality(T \ {First(T)}) = Cardinality(T) - 1
<1>1. First(T) \in T
  BY DEF First
<1>2. QED
  BY <1>1, FS_RemoveElement, FS_CardinalityType

LEMMA SumExists ==
    ASSUME NEW f, NEW S, IsFiniteSet(S)
    PROVE  \E sum : SumsUp(f, S, sum)
<1> DEFINE Level(n) == {T \in SUBSET S : Cardinality(T) <= n}
           Known(n, sum) == sum = [T \in Level(n) |-> Summed(f, sum, T)]
           Unknown == {n \in Nat : ~ \E sum : Known(n, sum)}
<1>1. \A T \in SUBSET S : IsFiniteSet(T) /\ Cardinality(T) \in Nat /\ Cardinality(T) <= Cardinality(S)
  BY FS_Subset, FS_CardinalityType
<1>2. Cardinality(S) \in Nat /\ Level(Cardinality(S)) = SUBSET S
  BY <1>1, FS_CardinalityType
<1>3. Unknown = {}
  <2>1. SUFFICES ASSUME Unknown # {} PROVE FALSE
    OBVIOUS
  <2>2. PICK n \in Unknown : \A m \in Unknown : n <= m
    <3>1. Unknown \in SUBSET Nat
      OBVIOUS
    <3> HIDE DEF Unknown
    <3>2. QED
      BY <2>1, <3>1, LeastOf
  <2>3. n # 0
    <3>1. SUFFICES ASSUME n = 0 PROVE FALSE
      OBVIOUS
    <3>2. Level(0) = {{}}
      <4>1. \A T \in SUBSET S : Cardinality(T) = 0 <=> T = {}
        BY <1>1, FS_EmptySet
      <4>2. QED
        BY <1>1, <4>1
    <3>3. Known(0, [T \in {{}} |-> 0])
      BY <3>2 DEF Summed
    <3>4. QED
      BY <2>2, <3>1, <3>3
  <2>4. n - 1 \in Nat /\ n - 1 \notin Unknown
    <3>1. n \in Nat
      OBVIOUS
    <3> HIDE DEF Unknown
    <3>2. QED
      BY <2>2, <2>3, <3>1
  <2>5. PICK sum : Known(n - 1, sum)
    BY <2>4
  <2> DEFINE longer == [T \in Level(n) |-> Summed(f, sum, T)]
  <2>6. \A T \in Level(n) : T # {} => T \ {First(T)} \in Level(n - 1)
    BY <1>1, SmallerSet
  <2>7. \A T \in Level(n - 1) : T \in Level(n) /\ longer[T] = sum[T]
    <3>1. \A T \in Level(n - 1) : T \in Level(n)
      BY <1>1, <2>4
    <3>2. \A T \in Level(n - 1) : sum[T] = Summed(f, sum, T)
      BY <2>5
    <3>3. QED
      BY <3>1, <3>2
  <2>8. \A T \in Level(n) : Summed(f, sum, T) = Summed(f, longer, T)
    BY <2>6, <2>7 DEF Summed
  <2>9. Known(n, longer)
    BY <2>8
  <2>10. QED
    BY <2>2, <2>9
<1>4. PICK sum : Known(Cardinality(S), sum)
  BY <1>2, <1>3
<1>5. QED
  BY <1>2, <1>4 DEF SumsUp

\* Whatever the sets the recursions are of, they give a set the same sum.
LEMMA SumsAgree ==
    ASSUME NEW f, NEW S, IsFiniteSet(S), NEW U \in SUBSET S,
           NEW s, SumsUp(f, S, s), NEW u, SumsUp(f, U, u)
    PROVE  s[U] = u[U]
<1> DEFINE Odd == {T \in SUBSET U : s[T] # u[T]}
           Sizes == {Cardinality(T) : T \in Odd}
<1>1. \A T \in SUBSET U : IsFiniteSet(T) /\ Cardinality(T) \in Nat
  BY FS_Subset, FS_CardinalityType
<1>2. \A T \in SUBSET U : s[T] = Summed(f, s, T) /\ u[T] = Summed(f, u, T)
  BY DEF SumsUp
<1>3. SUFFICES ASSUME Odd # {} PROVE FALSE
  BY <1>1
<1>4. PICK n \in Sizes : \A m \in Sizes : n <= m
  <2>1. Sizes \in SUBSET Nat /\ Sizes # {}
    BY <1>1, <1>3
  <2> HIDE DEF Sizes
  <2>2. QED
    BY <2>1, LeastOf
<1>5. PICK T \in Odd : Cardinality(T) = n
  OBVIOUS
<1>6. T # {}
  BY <1>2, <1>5 DEF Summed
<1>7. s[T \ {First(T)}] # u[T \ {First(T)}]
  BY <1>2, <1>5, <1>6 DEF Summed
<1>8. Cardinality(T \ {First(T)}) \in Sizes
  BY <1>5, <1>7
<1>9. QED
  BY <1>1, <1>4, <1>5, <1>6, <1>8, SmallerSet

LEMMA SumIsSum ==
    ASSUME NEW f, NEW S, IsFiniteSet(S)
    PROVE  \E sum : SumsUp(f, S, sum) /\ SumFunctionOnSet(f, S) = sum[S]
<1> DEFINE sum == CHOOSE sum : SumsUp(f, S, sum)
<1>1. SumsUp(f, S, sum)
  BY SumExists
<1>2. SumFunctionOnSet(f, S) = sum[S]
  BY SumIsChosen
<1>3. QED
  BY <1>1, <1>2

LEMMA SumOfNothing == ASSUME NEW f PROVE SumFunctionOnSet(f, {}) = 0
<1>1. PICK sum : SumsUp(f, {}, sum) /\ SumFunctionOnSet(f, {}) = sum[{}]
  BY SumIsSum, FS_EmptySet
<1>2. QED
  BY <1>1 DEF SumsUp, Summed

LEMMA SumOfFirst ==
    ASSUME NEW f, NEW S, IsFiniteSet(S), S # {}
    PROVE  SumFunctionOnSet(f, S) = f[First(S)] + SumFunctionOnSet(f, S \ {First(S)})
<1> DEFINE R == S \ {First(S)}
<1>1. IsFiniteSet(R)
  BY SmallerSet
<1>2. PICK s : SumsUp(f, S, s) /\ SumFunctionOnSet(f, S) = s[S]
  BY SumIsSum
<1>3. PICK r : SumsUp(f, R, r) /\ SumFunctionOnSet(f, R) = r[R]
  BY <1>1, SumIsSum
<1>4. s[R] = r[R]
  BY <1>2, <1>3, SumsAgree
<1>5. s[S] = f[First(S)] + s[R]
  BY <1>2 DEF SumsUp, Summed
<1>6. QED
  BY <1>2, <1>3, <1>4, <1>5

LEMMA SumIsInt ==
    ASSUME NEW S, IsFiniteSet(S), NEW f, \A x \in S : f[x] \in Int
    PROVE  SumFunctionOnSet(f, S) \in Int
<1> DEFINE Good == {T \in SUBSET S : SumFunctionOnSet(f, T) \in Int}
           Sizes == {Cardinality(T) : T \in (SUBSET S) \ Good}
<1>1. \A T \in SUBSET S : IsFiniteSet(T) /\ Cardinality(T) \in Nat
  BY FS_Subset, FS_CardinalityType
<1>2. SUFFICES ASSUME Sizes # {} PROVE FALSE
  OBVIOUS
<1>3. PICK n \in Sizes : \A m \in Sizes : n <= m
  <2>1. Sizes \in SUBSET Nat
    BY <1>1
  <2> HIDE DEF Sizes
  <2>2. QED
    BY <2>1, <1>2, LeastOf
<1>4. PICK T \in SUBSET S : T \notin Good /\ Cardinality(T) = n
  OBVIOUS
<1>5. T # {}
  BY <1>4, SumOfNothing
<1>6. IsFiniteSet(T) /\ First(T) \in T /\ Cardinality(T \ {First(T)}) = n - 1 /\ n \in Nat
  BY <1>1, <1>4, <1>5, SmallerSet
<1>7. SumFunctionOnSet(f, T) = f[First(T)] + SumFunctionOnSet(f, T \ {First(T)})
  BY <1>5, <1>6, SumOfFirst
<1>8. T \ {First(T)} \notin Good
  BY <1>4, <1>6, <1>7
<1>9. n - 1 \in Sizes
  BY <1>6, <1>8
<1>10. QED
  BY <1>3, <1>6, <1>9

\* The order in which the recursion takes the elements does not matter.
LEMMA SumOfOneMore ==
    ASSUME NEW S, IsFiniteSet(S), NEW f, \A x \in S : f[x] \in Int
    PROVE  \A T \in SUBSET S : \A x \in T :
              SumFunctionOnSet(f, T) = f[x] + SumFunctionOnSet(f, T \ {x})
<1> DEFINE Right(T, x) == SumFunctionOnSet(f, T) = f[x] + SumFunctionOnSet(f, T \ {x})
           Wrong == {T \in SUBSET S : \E x \in T : ~Right(T, x)}
           Sizes == {Cardinality(T) : T \in Wrong}
<1>1. \A T \in SUBSET S : /\ IsFiniteSet(T) /\ Cardinality(T) \in Nat
                          /\ SumFunctionOnSet(f, T) \in Int
  BY FS_Subset, FS_CardinalityType, SumIsInt
<1>2. SUFFICES ASSUME Sizes # {} PROVE FALSE
  OBVIOUS
<1>3. PICK n \in Sizes : \A m \in Sizes : n <= m
  <2>1. Sizes \in SUBSET Nat
    BY <1>1
  <2> HIDE DEF Sizes
  <2>2. QED
    BY <2>1, <1>2, LeastOf
<1>4. PICK T \in SUBSET S : T \in Wrong /\ Cardinality(T) = n
  OBVIOUS
<1>5. PICK x \in T : ~Right(T, x)
  BY <1>4
<1> DEFINE y == First(T)
<1>6. y \in T /\ Cardinality(T \ {y}) = n - 1 /\ n \in Nat
  BY <1>1, <1>4, <1>5, SmallerSet
<1>7. Right(T, y)
  BY <1>1, <1>4, <1>5, SumOfFirst
<1>8. x # y
  BY <1>5, <1>7
<1>9. Cardinality(T \ {x}) = n - 1
  BY <1>1, <1>4, <1>5, FS_RemoveElement
<1>10. T \ {y} \notin Wrong /\ T \ {x} \notin Wrong
  <2>1. n - 1 \notin Sizes
    <3> HIDE DEF Sizes
    <3>1. QED
      BY <1>3, <1>6
  <2>2. QED
    BY <1>4, <1>6, <1>9, <2>1
<1>11. Right(T \ {y}, x) /\ Right(T \ {x}, y)
  BY <1>4, <1>5, <1>6, <1>8, <1>10
<1>12. (T \ {y}) \ {x} = (T \ {x}) \ {y}
  OBVIOUS
<1> DEFINE rest == SumFunctionOnSet(f, (T \ {x}) \ {y})
<1>13. rest \in Int /\ f[x] \in Int /\ f[y] \in Int
  BY <1>1, <1>5, <1>6
<1>14. /\ SumFunctionOnSet(f, T) = f[y] + (f[x] + rest)
       /\ SumFunctionOnSet(f, T \ {x}) = f[y] + rest
  BY <1>7, <1>11, <1>12
<1>15. Right(T, x)
  <2> HIDE DEF rest, y
  <2>1. QED
    BY <1>13, <1>14
<1>16. QED
  BY <1>5, <1>15

\* A sum adds up what it is of, one after the other: what the inductions use.
LEMMA SumWith ==
    ASSUME NEW S, IsFiniteSet(S), NEW f, \A x \in S : f[x] \in Int,
           NEW T \in SUBSET S, NEW x \in S, x \notin T
    PROVE  /\ SumFunctionOnSet(f, T) \in Int
           /\ SumFunctionOnSet(f, T \cup {x}) = SumFunctionOnSet(f, T) + f[x]
<1>1. IsFiniteSet(T)
  BY FS_Subset
<1>2. SumFunctionOnSet(f, T) \in Int
  BY <1>1, SumIsInt
<1>3. (T \cup {x}) \ {x} = T /\ T \cup {x} \in SUBSET S /\ x \in T \cup {x}
  OBVIOUS
<1>4. SumFunctionOnSet(f, T \cup {x}) = f[x] + SumFunctionOnSet(f, (T \cup {x}) \ {x})
  BY <1>3, SumOfOneMore
<1>5. f[x] \in Int /\ SumFunctionOnSet(f, T \cup {x}) = f[x] + SumFunctionOnSet(f, T)
  BY <1>3, <1>4
<1>6. QED
  BY <1>2, <1>5

\* Sums of what is the same are the same.
LEMMA SumSame ==
    ASSUME NEW S, IsFiniteSet(S), NEW f, NEW g, \A x \in S : f[x] \in Int /\ f[x] = g[x]
    PROVE  SumFunctionOnSet(f, S) = SumFunctionOnSet(g, S)
<1> DEFINE Good == {T \in SUBSET S : SumFunctionOnSet(f, T) = SumFunctionOnSet(g, T)}
<1>1. {} \in Good
  BY SumOfNothing
<1>2. ASSUME NEW T \in SUBSET S, NEW x \in S, x \notin T, T \in Good PROVE T \cup {x} \in Good
  BY <1>2, SumWith
<1>3. S \in Good
  <2> HIDE DEF Good
  <2>1. QED
    BY <1>1, <1>2, SubsetInduction
<1>4. QED
  BY <1>3

LEMMA SumOrdered ==
    ASSUME NEW S, IsFiniteSet(S), NEW f, NEW g,
           \A x \in S : f[x] \in Int /\ g[x] \in Int /\ f[x] <= g[x]
    PROVE  SumFunctionOnSet(f, S) <= SumFunctionOnSet(g, S)
<1> DEFINE Good == {T \in SUBSET S : SumFunctionOnSet(f, T) <= SumFunctionOnSet(g, T)}
<1>1. {} \in Good
  BY SumOfNothing
<1>2. ASSUME NEW T \in SUBSET S, NEW x \in S, x \notin T, T \in Good PROVE T \cup {x} \in Good
  <2>1. /\ SumFunctionOnSet(f, T) \in Int /\ SumFunctionOnSet(g, T) \in Int
        /\ SumFunctionOnSet(f, T \cup {x}) = SumFunctionOnSet(f, T) + f[x]
        /\ SumFunctionOnSet(g, T \cup {x}) = SumFunctionOnSet(g, T) + g[x]
    BY <1>2, SumWith
  <2>2. QED
    BY <1>2, <2>1
<1>3. S \in Good
  <2> HIDE DEF Good
  <2>1. QED
    BY <1>1, <1>2, SubsetInduction
<1>4. QED
  BY <1>3

LEMMA SumOfSums ==
    ASSUME NEW S, IsFiniteSet(S), NEW f, NEW g, NEW h,
           \A x \in S : f[x] \in Int /\ g[x] \in Int /\ h[x] = f[x] + g[x]
    PROVE  SumFunctionOnSet(h, S) = SumFunctionOnSet(f, S) + SumFunctionOnSet(g, S)
<1> DEFINE Good == {T \in SUBSET S : SumFunctionOnSet(h, T)
                                       = SumFunctionOnSet(f, T) + SumFunctionOnSet(g, T)}
<1>1. {} \in Good
  BY SumOfNothing
<1>2. ASSUME NEW T \in SUBSET S, NEW x \in S, x \notin T, T \in Good PROVE T \cup {x} \in Good
  <2>1. \A y \in S : h[y] \in Int
    OBVIOUS
  <2>2. /\ SumFunctionOnSet(f, T) \in Int /\ SumFunctionOnSet(g, T) \in Int
        /\ SumFunctionOnSet(f, T \cup {x}) = SumFunctionOnSet(f, T) + f[x]
        /\ SumFunctionOnSet(g, T \cup {x}) = SumFunctionOnSet(g, T) + g[x]
        /\ SumFunctionOnSet(h, T \cup {x}) = SumFunctionOnSet(h, T) + h[x]
    <3>1. SumFunctionOnSet(f, T) \in Int /\ SumFunctionOnSet(f, T \cup {x}) = SumFunctionOnSet(f, T) + f[x]
      BY <1>2, SumWith
    <3>2. SumFunctionOnSet(g, T) \in Int /\ SumFunctionOnSet(g, T \cup {x}) = SumFunctionOnSet(g, T) + g[x]
      BY <1>2, SumWith
    <3>3. SumFunctionOnSet(h, T \cup {x}) = SumFunctionOnSet(h, T) + h[x]
      BY <1>2, <2>1, SumWith
    <3>4. QED
      BY <3>1, <3>2, <3>3
  <2>3. SumFunctionOnSet(h, T) = SumFunctionOnSet(f, T) + SumFunctionOnSet(g, T)
    BY <1>2
  <2>4. h[x] = f[x] + g[x] /\ f[x] \in Int /\ g[x] \in Int
    OBVIOUS
  <2>5. SumFunctionOnSet(h, T \cup {x})
          = SumFunctionOnSet(f, T \cup {x}) + SumFunctionOnSet(g, T \cup {x})
    BY <2>2, <2>3, <2>4
  <2>6. QED
    BY <2>5
<1>3. S \in Good
  <2> HIDE DEF Good
  <2>1. QED
    BY <1>1, <1>2, SubsetInduction
<1>4. QED
  BY <1>3

\* What is nothing outside a part need not be added up there.
LEMMA SumOfPart ==
    ASSUME NEW S, IsFiniteSet(S), NEW f, \A x \in S : f[x] \in Int,
           NEW P \in SUBSET S, \A x \in S \ P : f[x] = 0
    PROVE  SumFunctionOnSet(f, S) = SumFunctionOnSet(f, P)
<1> DEFINE Good == {T \in SUBSET S : SumFunctionOnSet(f, T) = SumFunctionOnSet(f, T \cap P)}
<1>1. {} \in Good
  <2>1. {} \cap P = {}
    OBVIOUS
  <2>2. QED
    BY <2>1
<1>2. ASSUME NEW T \in SUBSET S, NEW x \in S, x \notin T, T \in Good PROVE T \cup {x} \in Good
  <2>1. SumFunctionOnSet(f, T) \in Int /\ SumFunctionOnSet(f, T \cup {x}) = SumFunctionOnSet(f, T) + f[x]
    BY <1>2, SumWith
  <2>2. CASE x \in P
    <3>1. (T \cup {x}) \cap P = (T \cap P) \cup {x} /\ T \cap P \in SUBSET S /\ x \notin T \cap P
      BY <1>2, <2>2
    <3>2. SumFunctionOnSet(f, (T \cap P) \cup {x}) = SumFunctionOnSet(f, T \cap P) + f[x]
      BY <3>1, SumWith
    <3>3. QED
      BY <1>2, <2>1, <3>1, <3>2
  <2>3. CASE x \notin P
    <3>1. (T \cup {x}) \cap P = T \cap P /\ f[x] = 0
      BY <2>3
    <3>2. SumFunctionOnSet(f, T \cup {x}) = SumFunctionOnSet(f, T)
      BY <2>1, <3>1
    <3>3. SumFunctionOnSet(f, T) = SumFunctionOnSet(f, T \cap P)
      BY <1>2
    <3>4. QED
      BY <3>1, <3>2, <3>3
  <2>4. QED
    BY <2>2, <2>3
<1>3. S \in Good
  <2> HIDE DEF Good
  <2>1. QED
    BY <1>1, <1>2, SubsetInduction
<1>4. S \cap P = P
  OBVIOUS
<1>5. QED
  BY <1>3, <1>4

\* A sum over one element more.
LEMMA SumOneMore ==
    ASSUME NEW S, IsFiniteSet(S), NEW T, NEW x, S = T \cup {x}, x \notin T,
           NEW f, \A y \in S : f[y] \in Int
    PROVE  /\ SumFunctionOnSet(f, T) \in Int
           /\ SumFunctionOnSet(f, S) = SumFunctionOnSet(f, T) + f[x]
<1>1. T \in SUBSET S /\ x \in S
  OBVIOUS
<1>2. QED
  BY <1>1, SumWith

\* The sum over a window of days, and how a day more changes it.
LEMMA SumOfDays ==
    ASSUME NEW m \in Int, NEW n \in Int, m <= n, NEW f, \A d \in m .. n : f[d] \in Int
    PROVE  /\ SumFunctionOnSet(f, m .. (n - 1)) \in Int
           /\ SumFunctionOnSet(f, m .. n) = SumFunctionOnSet(f, m .. (n - 1)) + f[n]
<1>1. IsFiniteSet(m .. n)
  BY FS_Interval
<1>2. m .. n = (m .. (n - 1)) \cup {n} /\ n \notin m .. (n - 1) /\ m .. (n - 1) \in SUBSET (m .. n) /\ n \in m .. n
  OBVIOUS
<1>3. \A d \in m .. n : f[d] \in Int
  OBVIOUS
<1>4. PICK S, T : S = m .. n /\ T = m .. (n - 1)
  OBVIOUS
<1>5. IsFiniteSet(S) /\ S = T \cup {n} /\ n \notin T /\ \A d \in S : f[d] \in Int
  BY <1>1, <1>2, <1>3, <1>4
<1>6. SumFunctionOnSet(f, T) \in Int /\ SumFunctionOnSet(f, S) = SumFunctionOnSet(f, T) + f[n]
  BY <1>5, SumOneMore
<1>7. QED
  BY <1>4, <1>6

LEMMA SumIsNat ==
    ASSUME NEW S, IsFiniteSet(S), NEW f, \A x \in S : f[x] \in Nat
    PROVE  SumFunctionOnSet(f, S) \in Nat
<1> DEFINE none == [x \in S |-> 0]
<1>1. \A x \in S : f[x] \in Int /\ none[x] \in Int /\ none[x] <= f[x] /\ none[x] = 0
  OBVIOUS
<1> HIDE DEF none
<1>2. SumFunctionOnSet(none, S) = SumFunctionOnSet(none, {})
  BY <1>1, SumOfPart
<1>3. SumFunctionOnSet(none, S) <= SumFunctionOnSet(f, S)
  BY <1>1, SumOrdered
<1>4. SumFunctionOnSet(f, S) \in Int
  BY <1>1, SumIsInt
<1>5. QED
  BY <1>2, <1>3, <1>4, SumOfNothing

\* Sums of two parts that have nothing in common are added.
LEMMA SumOfParts ==
    ASSUME NEW S, IsFiniteSet(S), NEW f, \A x \in S : f[x] \in Int,
           NEW A \in SUBSET S, NEW B \in SUBSET S, A \cap B = {}
    PROVE  SumFunctionOnSet(f, A \cup B) = SumFunctionOnSet(f, A) + SumFunctionOnSet(f, B)
<1> DEFINE Both == A \cup B
           g == [x \in Both |-> IF x \in A THEN f[x] ELSE 0]
           h == [x \in Both |-> IF x \in B THEN f[x] ELSE 0]
<1>1. IsFiniteSet(Both) /\ IsFiniteSet(A) /\ IsFiniteSet(B)
  <2>1. Both \in SUBSET S
    OBVIOUS
  <2>2. QED
    BY <2>1, FS_Subset
<1>2. \A x \in Both : g[x] \in Int /\ h[x] \in Int /\ f[x] = g[x] + h[x]
  OBVIOUS
<1>3. /\ \A x \in Both \ A : g[x] = 0
      /\ \A x \in Both \ B : h[x] = 0
      /\ \A x \in A : g[x] \in Int /\ g[x] = f[x]
      /\ \A x \in B : h[x] \in Int /\ h[x] = f[x]
      /\ A \in SUBSET Both /\ B \in SUBSET Both
  OBVIOUS
<1> HIDE DEF Both, g, h
<1>4. SumFunctionOnSet(f, Both) = SumFunctionOnSet(g, Both) + SumFunctionOnSet(h, Both)
  BY <1>1, <1>2, SumOfSums
<1>5. SumFunctionOnSet(g, Both) = SumFunctionOnSet(g, A) /\ SumFunctionOnSet(h, Both) = SumFunctionOnSet(h, B)
  BY <1>1, <1>2, <1>3, SumOfPart
<1>6. SumFunctionOnSet(g, A) = SumFunctionOnSet(f, A) /\ SumFunctionOnSet(h, B) = SumFunctionOnSet(f, B)
  BY <1>1, <1>3, SumSame
<1>7. QED
  BY <1>4, <1>5, <1>6 DEF Both

\* Adding up by groups is adding up.
LEMMA SumOfGroups ==
    ASSUME NEW S, IsFiniteSet(S), NEW f, \A x \in S : f[x] \in Int,
           NEW D, IsFiniteSet(D), NEW part, \A d \in D : part[d] \in SUBSET S,
           \A x \in S : \E d \in D : x \in part[d],
           \A d \in D, e \in D : d # e => part[d] \cap part[e] = {},
           NEW sums, \A d \in D : sums[d] = SumFunctionOnSet(f, part[d])
    PROVE  SumFunctionOnSet(sums, D) = SumFunctionOnSet(f, S)
<1> DEFINE Of(E) == {x \in S : \E d \in E : x \in part[d]}
           Good == {E \in SUBSET D : SumFunctionOnSet(sums, E) = SumFunctionOnSet(f, Of(E))}
<1>1. \A d \in D : sums[d] \in Int
  <2>1. ASSUME NEW d \in D PROVE sums[d] \in Int
    <3> DEFINE T == part[d]
    <3>1. T \in SUBSET S /\ \A x \in T : f[x] \in Int
      OBVIOUS
    <3> HIDE DEF T
    <3>2. SumFunctionOnSet(f, T) \in Int
      BY <3>1, FS_Subset, SumIsInt
    <3>3. QED
      BY <3>2 DEF T
  <2>2. QED
    BY <2>1
<1>2. {} \in Good
  <2>1. Of({}) = {}
    OBVIOUS
  <2>2. QED
    BY <2>1, SumOfNothing
<1>3. ASSUME NEW E \in SUBSET D, NEW d \in D, d \notin E, E \in Good PROVE E \cup {d} \in Good
  <2> DEFINE A == Of(E)
             B == part[d]
  <2>1. A \in SUBSET S /\ B \in SUBSET S
    OBVIOUS
  <2>2. A \cap B = {}
    BY <1>3
  <2>3. Of(E \cup {d}) = A \cup B
    BY <2>1
  <2>4. SumFunctionOnSet(sums, E \cup {d}) = SumFunctionOnSet(sums, E) + sums[d]
    BY <1>1, <1>3, SumWith
  <2>5. SumFunctionOnSet(sums, E) = SumFunctionOnSet(f, A) /\ sums[d] = SumFunctionOnSet(f, B)
    BY <1>3
  <2>6. SumFunctionOnSet(f, A \cup B) = SumFunctionOnSet(f, A) + SumFunctionOnSet(f, B)
    <3> HIDE DEF A, B
    <3>1. QED
      BY <2>1, <2>2, SumOfParts
  <2>7. QED
    BY <2>3, <2>4, <2>5, <2>6
<1>4. D \in Good
  <2> HIDE DEF Good
  <2>1. QED
    BY <1>2, <1>3, SubsetInduction
<1>5. Of(D) = S
  OBVIOUS
<1>6. QED
  BY <1>4, <1>5

\* A finite set of numbers has a greatest.
LEMMA GreatestOf ==
    ASSUME NEW S \in SUBSET Int, IsFiniteSet(S), S # {}
    PROVE  \E m \in S : \A n \in S : m >= n
<1> DEFINE Good == {T \in SUBSET S : T # {} => \E m \in T : \A n \in T : m >= n}
<1>1. {} \in Good
  OBVIOUS
<1>2. ASSUME NEW T \in SUBSET S, NEW x \in S, x \notin T, T \in Good PROVE T \cup {x} \in Good
  <2>1. CASE T = {}
    <3>1. \A n \in T \cup {x} : x >= n
      BY <2>1
    <3>2. QED
      BY <3>1
  <2>2. CASE T # {}
    <3>1. PICK m \in T : \A n \in T : m >= n
      BY <1>2, <2>2
    <3>2. m \in Int /\ x \in Int /\ T \subseteq Int
      OBVIOUS
    <3>3. CASE m >= x
      <4>1. m \in T \cup {x} /\ \A n \in T \cup {x} : m >= n
        BY <3>1, <3>2, <3>3
      <4>2. QED
        BY <4>1
    <3>4. CASE ~(m >= x)
      <4>1. x \in T \cup {x} /\ \A n \in T \cup {x} : x >= n
        BY <3>1, <3>2, <3>4
      <4>2. QED
        BY <4>1
    <3>5. QED
      BY <3>3, <3>4
  <2>3. QED
    BY <2>1, <2>2
<1>3. S \in Good
  <2> HIDE DEF Good
  <2>1. QED
    BY <1>1, <1>2, SubsetInduction
<1>4. QED
  BY <1>3

-----------------------------------------------------------------------------
(* What is allocated.                                                       *)

LEMMA DayFacts ==
    /\ DayLen \in Nat /\ DayLen > 0
    /\ \A t \in Nat : Usage!DayOf(t) \in Nat
    /\ \A d \in Int : Usage!StartOf(d) \in Int /\ Usage!StartOf(d + 1) = Usage!StartOf(d) + DayLen
    /\ \A d \in Int, e \in Int : d < e => Usage!StartOf(d) + DayLen <= Usage!StartOf(e)
    /\ \A t \in Nat, e \in Int : e <= Usage!DayOf(t) <=> Usage!StartOf(e) <= t
<1>1. DayLen \in Nat /\ DayLen > 0
  BY QueryAssumption
<1>2. \A d \in Int : Usage!StartOf(d) \in Int /\ Usage!StartOf(d + 1) = Usage!StartOf(d) + DayLen
  BY <1>1 DEF Usage!StartOf
<1>3. \A d \in Int, e \in Int : d < e => Usage!StartOf(d) + DayLen <= Usage!StartOf(e)
  <2>1. SUFFICES ASSUME NEW d \in Int, NEW e \in Int, d < e
                 PROVE  d * DayLen + DayLen <= e * DayLen
    BY DEF Usage!StartOf
  <2>2. PICK n \in Nat : e = d + 1 + n
    <3>1. e - d - 1 \in Nat /\ e = d + 1 + (e - d - 1)
      BY <2>1
    <3>2. QED
      BY <3>1
  <2>3. e * DayLen = d * DayLen + DayLen + n * DayLen
    BY <1>1, <2>2
  <2>4. n * DayLen \in Nat
    BY <1>1
  <2>5. QED
    BY <1>1, <2>3, <2>4
<1>4. \A t \in Nat : /\ Usage!DayOf(t) \in Nat /\ Usage!StartOf(Usage!DayOf(t)) <= t
                     /\ t < Usage!StartOf(Usage!DayOf(t)) + DayLen
  BY <1>1 DEF Usage!DayOf, Usage!StartOf
<1>5. ASSUME NEW t \in Nat, NEW e \in Int
      PROVE  e <= Usage!DayOf(t) <=> Usage!StartOf(e) <= t
  <2> DEFINE d == Usage!DayOf(t)
  <2>1. d \in Int /\ Usage!StartOf(d) \in Int /\ Usage!StartOf(e) \in Int
    BY <1>2, <1>4
  <2>2. Usage!StartOf(d) <= t /\ t < Usage!StartOf(d) + DayLen
    BY <1>4
  <2>3. e < d => Usage!StartOf(e) + DayLen <= Usage!StartOf(d)
    BY <1>3, <2>1
  <2>4. d < e => Usage!StartOf(d) + DayLen <= Usage!StartOf(e)
    BY <1>3, <2>1
  <2>5. e = d => Usage!StartOf(e) = Usage!StartOf(d)
    OBVIOUS
  <2>6. QED
    <3> HIDE DEF d
    <3>1. e <= d <=> Usage!StartOf(e) <= t
      BY <1>1, <2>1, <2>2, <2>3, <2>4, <2>5
    <3>2. QED
      BY <3>1 DEF d
<1>6. QED
  BY <1>1, <1>2, <1>3, <1>4, <1>5

LEMMA DayIsNat == ASSUME NEW t \in Nat PROVE Usage!DayOf(t) \in Nat
BY DayFacts

LEMMA StartsInOrder ==
    ASSUME NEW d \in Int, NEW e \in Int
    PROVE  /\ Usage!StartOf(d) \in Int
           /\ d < e => Usage!StartOf(d) + DayLen <= Usage!StartOf(e)
BY DayFacts

\* The query brings the sums of functions with it.
LEMMA UsageSums ==
    ASSUME NEW f PROVE Usage!SumFunction(f) = SumFunctionOnSet(f, DOMAIN f)
BY DEF Usage!SumFunction, Usage!SumFunctionOnSet, Usage!FoldFunctionOnSet, Usage!MapThenFoldSet,
       SumFunctionOnSet, FoldFunctionOnSet, MapThenFoldSet

-----------------------------------------------------------------------------
LEMMA DaysAreDays ==
    /\ Usage!Days \subseteq Nat
    /\ \A t \in Usage!Times : t \in Nat /\ t <= Horizon /\ Usage!DayOf(t) \in Usage!Days
<1>1. Horizon \in Nat /\ Usage!DayOf(Horizon) \in Nat
  BY QueryAssumption, DayFacts
<1>2. Usage!Days \subseteq Nat
  BY <1>1 DEF Usage!Days
<1>3. ASSUME NEW t \in Usage!Times PROVE t \in Nat /\ t <= Horizon /\ Usage!DayOf(t) \in Usage!Days
  <2>1. t \in Nat /\ t <= Horizon
    BY <1>1, <1>3 DEF Usage!Times
  <2> DEFINE d == Usage!DayOf(t)
             s == Usage!StartOf(d)
  <2>2. d \in Nat
    BY <2>1, DayFacts
  <2>3. s \in Int /\ (d <= d <=> s <= t)
    BY <2>1, <2>2, DayFacts
  <2>4. s <= Horizon
    BY <1>1, <2>1, <2>2, <2>3
  <2>5. d <= Usage!DayOf(Horizon) <=> s <= Horizon
    <3>1. d \in Int
      BY <2>2
    <3> HIDE DEF d
    <3>2. QED
      BY <1>1, <3>1, DayFacts
  <2>6. d <= Usage!DayOf(Horizon)
    BY <2>4, <2>5
  <2>7. QED
    BY <1>1, <2>1, <2>2, <2>6 DEF Usage!Days
<1>4. QED
  BY <1>2, <1>3

\* The times of a row, and how long it overlaps a stretch of time.
LEMMA OverlapFacts ==
    ASSUME Usage!TypeOK, NEW p \in Pods, NEW from \in Int, NEW to \in Int
    PROVE  /\ uRow[p].from \in Nat /\ uRow[p].end \in Nat
           /\ Usage!Overlap(p, from, to) \in Nat
           /\ Usage!Overlap(p, from, to) > 0 <=>
                uRow[p].state # "absent" /\ from < to /\ uRow[p].from < to
                /\ from < uRow[p].end /\ uRow[p].from < uRow[p].end
<1>1. /\ uRow[p].from \in Nat /\ uRow[p].end \in Nat
  BY QueryAssumption DEF Usage!TypeOK, Usage!Times, Usage!Never
<1>2. QED
  BY <1>1 DEF Usage!Overlap, Usage!Most, Usage!Least

LEMMA IntegrateFacts ==
    ASSUME Usage!TypeOK, NEW pods \in SUBSET Pods, NEW from \in Int, NEW to \in Int
    PROVE  /\ IsFiniteSet(pods)
           /\ \A p \in pods : [q \in pods |-> Usage!Overlap(q, from, to)][p] \in Nat
           /\ Usage!Integrate(pods, from, to)
                = SumFunctionOnSet([p \in pods |-> Usage!Overlap(p, from, to)], pods)
           /\ Usage!Integrate(pods, from, to) \in Int
<1> DEFINE f == [p \in pods |-> Usage!Overlap(p, from, to)]
<1>1. IsFiniteSet(pods)
  BY QueryAssumption, FS_Subset
<1>2. \A p \in pods : f[p] \in Nat
  BY OverlapFacts
<1>3. Usage!Integrate(pods, from, to) = SumFunctionOnSet(f, pods)
  <2>1. DOMAIN f = pods
    OBVIOUS
  <2>2. Usage!Integrate(pods, from, to) = Usage!SumFunction(f)
    BY DEF Usage!Integrate
  <2>3. QED
    <3> HIDE DEF f
    <3>1. QED
      BY <2>1, <2>2, UsageSums
<1>4. SumFunctionOnSet(f, pods) \in Int
  <2>1. \A p \in pods : f[p] \in Int
    BY <1>2
  <2> HIDE DEF f
  <2>2. QED
    BY <1>1, <2>1, SumIsInt
<1>5. QED
  BY <1>1, <1>2, <1>3, <1>4

LEMMA UsageTypes == Usage!Init => Usage!TypeOK
<1>1. /\ 0 \in Usage!Times /\ 0 \in Usage!Days /\ Usage!Never \in 0 .. Usage!Never
  BY QueryAssumption, DayFacts DEF Usage!Times, Usage!Days, Usage!Never
<1>3. Usage!NoRollup \in Usage!Totals
  BY DEF Usage!NoRollup, Usage!Totals
<1>4. QED
  BY <1>1, <1>3 DEF Usage!Init, Usage!TypeOK, Usage!NoRow, Usage!NoAsk

LEMMA UsageTypeStep == Usage!TypeOK /\ Usage!RowsAreReal /\ Usage!Next => Usage!TypeOK'
<1> SUFFICES ASSUME Usage!TypeOK, Usage!RowsAreReal, Usage!Next PROVE Usage!TypeOK'
  OBVIOUS
<1>1. /\ Horizon \in Nat /\ uNow \in Nat /\ uNow <= Horizon /\ uNow \in 0 .. Usage!Never
      /\ Usage!Today \in Usage!Days
  BY QueryAssumption, DaysAreDays DEF Usage!TypeOK, Usage!Never, Usage!Times, Usage!Today
<1>12. Usage!NoRollup \in Usage!Totals
  BY DEF Usage!NoRollup, Usage!Totals
<1>2. ASSUME Usage!Tick PROVE Usage!TypeOK'
  BY <1>1, <1>2 DEF Usage!Tick, Usage!TypeOK, Usage!Times
<1>3. ASSUME Usage!ExpireIntervals PROVE Usage!TypeOK'
  <2>1. uRow' \in [Pods -> [state : {"absent", "open", "ended", "expired"}, from : Usage!Times,
                         end : 0 .. Usage!Never, late : BOOLEAN]]
    BY <1>3 DEF Usage!ExpireIntervals, Usage!TypeOK
  <2>2. QED
    BY <1>3, <2>1 DEF Usage!ExpireIntervals, Usage!TypeOK
<1>4. ASSUME NEW p \in Pods, Usage!PodStarts(p) PROVE Usage!TypeOK'
  <2>1. Usage!Never \in 0 .. Usage!Never
    BY <1>1 DEF Usage!Never
  <2>2. QED
    BY <1>1, <1>4, <2>1 DEF Usage!PodStarts, Usage!TypeOK, Usage!NoRow
<1>5. ASSUME NEW p \in Pods, Usage!PodEnds(p) PROVE Usage!TypeOK'
  BY <1>1, <1>5 DEF Usage!PodEnds, Usage!TypeOK
<1>6. ASSUME NEW p \in Pods, Usage!EndIsLearntLate(p) PROVE Usage!TypeOK'
  <2>1. PICK end \in (uNow - DayLen) .. (uNow - 1) :
           /\ end >= uRow[p].from
           /\ uRow' = [uRow EXCEPT ![p].state = "ended", ![p].end = end, ![p].late = TRUE]
    BY <1>6 DEF Usage!EndIsLearntLate
  <2>2. uRow[p].from \in Nat /\ DayLen \in Nat
    BY DayFacts DEF Usage!TypeOK, Usage!Times
  <2>3. end \in 0 .. Usage!Never
    BY <1>1, <2>1, <2>2 DEF Usage!Never
  <2>4. uRow' \in [Pods -> [state : {"absent", "open", "ended", "expired"}, from : Usage!Times,
                         end : 0 .. Usage!Never, late : BOOLEAN]]
    <3> DEFINE Rows == [state : {"absent", "open", "ended", "expired"}, from : Usage!Times,
                        end : 0 .. Usage!Never, late : BOOLEAN]
               ended == [uRow[p] EXCEPT !.state = "ended", !.end = end, !.late = TRUE]
    <3>1. uRow \in [Pods -> Rows]
      BY DEF Usage!TypeOK
    <3>2. ended \in Rows
      BY <2>3, <3>1
    <3>3. uRow' = [uRow EXCEPT ![p] = ended]
      BY <2>1, <3>1
    <3> HIDE DEF Rows, ended
    <3>4. uRow' \in [Pods -> Rows]
      BY <3>1, <3>2, <3>3
    <3>5. QED
      BY <3>4 DEF Rows
  <2>5. QED
    BY <1>6, <2>4 DEF Usage!EndIsLearntLate, Usage!TypeOK
<1>7. ASSUME NEW a \in Apps, NEW d \in Usage!Days, Usage!RollupDay(a, d) PROVE Usage!TypeOK'
  <2> DEFINE kept == {p \in Usage!PodsOf(a) : Usage!Kept(p)}
             total == [made |-> TRUE, total |-> Usage!IntegrateDay(kept, d),
                       settled |-> {p \in kept : uRow[p].state = "ended"}]
  <2>1. kept \in SUBSET Pods
    BY DEF Usage!PodsOf
  <2>2. Usage!IntegrateDay(kept, d) \in Int
    <3>1. Usage!StartOf(d) \in Int /\ Usage!StartOf(d + 1) \in Int
      BY DayFacts, DaysAreDays
    <3> HIDE DEF kept
    <3>2. QED
      BY <2>1, <3>1, IntegrateFacts DEF Usage!IntegrateDay
  <2>3. total \in Usage!Totals
    BY <2>1, <2>2 DEF Usage!Totals
  <2>4. uRollup' = [uRollup EXCEPT ![<<a, d>>] = total] /\ UNCHANGED <<uNow, uRow, uAsk>>
    BY <1>7 DEF Usage!RollupDay
  <2>5. QED
    <3> HIDE DEF total
    <3>1. QED
      BY <2>3, <2>4 DEF Usage!TypeOK
<1>8. ASSUME Usage!Ask PROVE Usage!TypeOK'
  <2>1. PICK q \in Usage!Questions :
           uAsk' = [Usage!NoAsk EXCEPT !.at = "rollups", !.apps = q.apps, !.from = q.from, !.to = q.to,
                                 !.detail = q.detail, !.today = Usage!Today, !.since = uNow]
    BY <1>8 DEF Usage!Ask
  <2>2. /\ q.apps \in SUBSET Apps /\ q.from \in Usage!Days /\ q.to \in Usage!Days
        /\ q.detail \in BOOLEAN
    BY DEF Usage!Questions
  <2>4. uNow \in Usage!Times
    BY DEF Usage!TypeOK
  <2>5. QED
    BY <1>1, <1>8, <1>12, <2>1, <2>2, <2>4 DEF Usage!Ask, Usage!TypeOK, Usage!NoAsk
<1>9. ASSUME Usage!ListDailyRollups PROVE Usage!TypeOK'
  <2> DEFINE read == [k \in Apps \X Usage!Days |->
                         IF k \in uAsk.apps \X (uAsk.from .. Usage!Least(uAsk.to, uAsk.today - 1))
                         THEN uRollup[k] ELSE Usage!NoRollup]
  <2>1. uAsk' = [uAsk EXCEPT !.at = "intervals", !.rollups = read]
    BY <1>9 DEF Usage!ListDailyRollups
  <2>2. read \in [Apps \X Usage!Days -> Usage!Totals]
    BY <1>12 DEF Usage!TypeOK
  <2>3. QED
    <3> HIDE DEF read
    <3>1. QED
      BY <1>9, <2>1, <2>2 DEF Usage!ListDailyRollups, Usage!TypeOK
<1>10. ASSUME Usage!ListIntervals \/ Usage!ListDetail PROVE Usage!TypeOK'
  <2>1. uAsk' = Usage!NoAsk \/ uAsk' = [uAsk EXCEPT !.at = "detail"]
    BY <1>10 DEF Usage!ListIntervals, Usage!ListDetail
  <2>2. 0 \in Usage!Days /\ 0 \in Usage!Times
    BY <1>1, DayFacts DEF Usage!Days, Usage!Times
  <2>4. UNCHANGED <<uNow, uRow, uRollup>>
    BY <1>10 DEF Usage!ListIntervals, Usage!ListDetail
  <2>5. CASE uAsk' = Usage!NoAsk
    BY <1>12, <2>2, <2>4, <2>5 DEF Usage!TypeOK, Usage!NoAsk
  <2>6. CASE uAsk' = [uAsk EXCEPT !.at = "detail"]
    BY <2>4, <2>6 DEF Usage!TypeOK
  <2>7. QED
    BY <2>1, <2>5, <2>6
<1>11. QED
  BY <1>2, <1>3, <1>4, <1>5, <1>6, <1>7, <1>8, <1>9, <1>10 DEF Usage!Next

-----------------------------------------------------------------------------
\* What a step may do to the row of a pod, and to the clock.
RowStays(p)  == uRow'[p] = uRow[p]
RowOpens(p)  == /\ uRow[p].state = "absent" /\ uRow'[p].state = "open" /\ uRow'[p].from = uNow
                /\ uRow'[p].end = Usage!Never /\ uRow'[p].late = FALSE
RowEnds(p)   == /\ uRow[p].state = "open" /\ uRow'[p].state = "ended" /\ uRow'[p].from = uRow[p].from
                /\ uRow[p].from <= uRow'[p].end
                /\ uNow - DayLen <= uRow'[p].end /\ uRow'[p].end <= uNow
                /\ uRow'[p].end # uNow => uRow'[p].late
RowGoes(p)   == /\ uRow[p].state = "ended" /\ uRow[p].end < uNow - Retention
                /\ uRow'[p].state = "expired" /\ uRow'[p].from = uRow[p].from
                /\ uRow'[p].end = uRow[p].end /\ uRow'[p].late = uRow[p].late

LEMMA RowMoves ==
    ASSUME Usage!TypeOK, Usage!RowsAreReal, Usage!Next
    PROVE  /\ \A p \in Pods : RowStays(p) \/ RowOpens(p) \/ RowEnds(p) \/ RowGoes(p)
           /\ \/ Usage!Tick /\ uRow' = uRow /\ uNow' = uNow + 1
              \/ ~Usage!Tick /\ uNow' = uNow
<1>1. /\ uNow \in Nat /\ DayLen \in Nat /\ DayLen > 0
      /\ \A p \in Pods : uRow[p].from \in Nat /\ uRow[p].end \in Nat
  BY QueryAssumption DEF Usage!TypeOK, Usage!Times, Usage!Never
<1>2. \/ Usage!Tick /\ uRow' = uRow /\ uNow' = uNow + 1
      \/ ~Usage!Tick /\ uNow' = uNow
  <2>1. Usage!Tick => uRow' = uRow /\ uNow' = uNow + 1
    BY DEF Usage!Tick
  <2>2. ~Usage!Tick => uNow' = uNow
    BY DEF Usage!Next, Usage!ExpireIntervals, Usage!PodStarts, Usage!PodEnds, Usage!EndIsLearntLate,
           Usage!RollupDay, Usage!Ask, Usage!ListDailyRollups, Usage!ListIntervals, Usage!ListDetail
  <2>3. QED
    BY <2>1, <2>2
<1>3. ASSUME Usage!ExpireIntervals, NEW p \in Pods PROVE RowStays(p) \/ RowGoes(p)
  <2>1. uRow'[p] = IF Usage!Expirable(p) THEN [uRow[p] EXCEPT !.state = "expired"] ELSE uRow[p]
    BY <1>3 DEF Usage!ExpireIntervals
  <2>2. QED
    BY <2>1 DEF Usage!Expirable, RowStays, RowGoes, Usage!TypeOK
<1>4. ASSUME NEW q \in Pods, Usage!PodStarts(q), NEW p \in Pods PROVE RowStays(p) \/ RowOpens(p)
  BY <1>4 DEF Usage!PodStarts, RowStays, RowOpens, Usage!NoRow, Usage!TypeOK
<1>5. ASSUME NEW q \in Pods, Usage!PodEnds(q), NEW p \in Pods PROVE RowStays(p) \/ RowEnds(p)
  <2>1. p # q => RowStays(p)
    BY <1>5 DEF Usage!PodEnds, RowStays, Usage!TypeOK
  <2>2. /\ uRow'[q].state = "ended" /\ uRow'[q].end = uNow /\ uRow'[q].from = uRow[q].from
        /\ uRow[q].state = "open"
    BY <1>5 DEF Usage!PodEnds, Usage!TypeOK
  <2>3. uRow[q].from <= uNow
    BY <2>2 DEF Usage!RowsAreReal
  <2>4. RowEnds(q)
    BY <1>1, <2>2, <2>3 DEF RowEnds
  <2>5. QED
    BY <2>1, <2>4
<1>6. ASSUME NEW q \in Pods, Usage!EndIsLearntLate(q), NEW p \in Pods PROVE RowStays(p) \/ RowEnds(p)
  <2>1. PICK end \in (uNow - DayLen) .. (uNow - 1) :
           /\ end >= uRow[q].from
           /\ uRow' = [uRow EXCEPT ![q].state = "ended", ![q].end = end, ![q].late = TRUE]
    BY <1>6 DEF Usage!EndIsLearntLate
  <2>2. p # q => RowStays(p)
    BY <2>1 DEF RowStays, Usage!TypeOK
  <2>3. /\ uRow'[q].state = "ended" /\ uRow'[q].end = end /\ uRow'[q].from = uRow[q].from
        /\ uRow[q].state = "open" /\ uRow'[q].late = TRUE
    BY <1>6, <2>1 DEF Usage!EndIsLearntLate, Usage!TypeOK
  <2>4. RowEnds(q)
    BY <1>1, <2>1, <2>3 DEF RowEnds
  <2>5. QED
    BY <2>2, <2>4
<1>7. ASSUME uRow' = uRow, NEW p \in Pods PROVE RowStays(p)
  BY <1>7 DEF RowStays
<1>8. ASSUME NEW p \in Pods PROVE RowStays(p) \/ RowOpens(p) \/ RowEnds(p) \/ RowGoes(p)
  <2>1. \/ Usage!ExpireIntervals
        \/ \E q \in Pods : Usage!PodStarts(q) \/ Usage!PodEnds(q) \/ Usage!EndIsLearntLate(q)
        \/ uRow' = uRow
    BY DEF Usage!Next, Usage!Tick,
           Usage!RollupDay, Usage!Ask, Usage!ListDailyRollups, Usage!ListIntervals, Usage!ListDetail
  <2>2. QED
    BY <1>3, <1>4, <1>5, <1>6, <1>7, <2>1
<1>9. QED
  BY <1>2, <1>8

LEMMA RowsStep ==
    Usage!TypeOK /\ Usage!RowsAreReal /\ Usage!Next => Usage!RowsAreReal'
<1> SUFFICES ASSUME Usage!TypeOK, Usage!RowsAreReal, Usage!Next, NEW p \in Pods
             PROVE  /\ uRow'[p].state \in {"absent", "open"} => uRow'[p].end = Usage!Never /\ ~uRow'[p].late
                    /\ uRow'[p].state = "open" => uRow'[p].from <= uNow' /\ uNow' <= uRow'[p].from + MaxLife
                    /\ Usage!Over(p)' => uRow'[p].from <= uRow'[p].end /\ uRow'[p].end <= uNow'
                    /\ uRow'[p].state = "expired" => uRow'[p].end < uNow' - Retention
  BY DEF Usage!RowsAreReal, Usage!Never
<1>1. /\ uNow \in Nat /\ uNow' \in {uNow, uNow + 1} /\ MaxLife \in Nat /\ Retention \in Nat
      /\ uRow[p].from \in Nat /\ uRow[p].end \in Nat
  BY QueryAssumption, RowMoves DEF Usage!TypeOK, Usage!Times, Usage!Never
<1>2. /\ uRow[p].state \in {"absent", "open"} => uRow[p].end = Usage!Never /\ ~uRow[p].late
      /\ uRow[p].state = "open" => uRow[p].from <= uNow /\ uNow <= uRow[p].from + MaxLife
      /\ Usage!Over(p) => uRow[p].from <= uRow[p].end /\ uRow[p].end <= uNow
      /\ uRow[p].state = "expired" => uRow[p].end < uNow - Retention
  BY DEF Usage!RowsAreReal
<1>3. CASE RowStays(p)
  <2>1. uRow[p].state = "open" => uNow' <= uRow[p].from + MaxLife
    <3>1. CASE Usage!Tick
      BY <1>1, <3>1 DEF Usage!Tick
    <3>2. CASE ~Usage!Tick
      BY <1>2, <3>2, RowMoves
    <3>3. QED
      BY <3>1, <3>2
  <2>2. QED
    BY <1>1, <1>2, <1>3, <2>1 DEF RowStays, Usage!Over
<1>4. CASE RowOpens(p) \/ RowEnds(p) \/ RowGoes(p)
  <2>1. ~RowStays(p)
    BY <1>4 DEF RowStays, RowOpens, RowEnds, RowGoes
  <2>2. uNow' = uNow
    BY <2>1, RowMoves DEF RowStays
  <2>3. CASE RowOpens(p)
    BY <1>1, <2>2, <2>3 DEF RowOpens, Usage!Over
  <2>4. CASE RowEnds(p)
    BY <1>1, <2>2, <2>4 DEF RowEnds, Usage!Over
  <2>5. CASE RowGoes(p)
    BY <1>1, <1>2, <2>2, <2>5 DEF RowGoes, Usage!Over
  <2>6. QED
    BY <1>4, <2>3, <2>4, <2>5
<1>5. QED
  BY <1>3, <1>4, RowMoves

\* The clock does not turn back, and what is over stays what it is.
LEMMA StepFacts ==
    ASSUME Usage!TypeOK, Usage!RowsAreReal, Usage!Next
    PROVE  /\ uNow \in Nat /\ uNow' \in Nat /\ uNow <= uNow' /\ uNow <= Horizon /\ uNow' <= Horizon
           /\ Usage!Today \in Nat /\ Usage!Today' \in Nat /\ Usage!Today <= Usage!Today'
           /\ \A p \in Pods : Usage!Over(p) =>
                /\ Usage!Over(p)' /\ uRow'[p].from = uRow[p].from /\ uRow'[p].end = uRow[p].end
                /\ uRow'[p].late = uRow[p].late
<1>1. Usage!TypeOK'
  BY UsageTypeStep
<1>2. uNow \in Nat /\ uNow' \in Nat /\ uNow <= Horizon /\ uNow' <= Horizon
  BY <1>1, DaysAreDays DEF Usage!TypeOK
<1>3. uNow <= uNow'
  BY <1>2, RowMoves
<1>4. Usage!Today \in Nat /\ Usage!Today' \in Nat
  BY <1>2, DayFacts DEF Usage!Today
<1>5. Usage!Today <= Usage!Today'
  <2>1. Usage!StartOf(Usage!Today) <= uNow /\ Usage!StartOf(Usage!Today) \in Int
    BY <1>2, <1>4, DayFacts DEF Usage!Today
  <2>2. Usage!StartOf(Usage!Today) <= uNow'
    BY <1>2, <1>3, <2>1
  <2>3. \A e \in Int : e <= Usage!DayOf(uNow') <=> Usage!StartOf(e) <= uNow'
    BY <1>2, DayFacts
  <2>4. Usage!Today \in Int /\ Usage!Today' = Usage!DayOf(uNow')
    BY <1>4 DEF Usage!Today
  <2>5. QED
    BY <2>2, <2>3, <2>4
<1>6. ASSUME NEW p \in Pods, Usage!Over(p)
      PROVE  /\ Usage!Over(p)' /\ uRow'[p].from = uRow[p].from /\ uRow'[p].end = uRow[p].end
             /\ uRow'[p].late = uRow[p].late
  BY <1>6, RowMoves DEF Usage!Over, RowStays, RowOpens, RowEnds, RowGoes
<1>7. QED
  BY <1>2, <1>3, <1>4, <1>5, <1>6

\* The midnights of a day that is past.
LEMMA PastDay ==
    ASSUME Usage!TypeOK, NEW d \in Usage!Days
    PROVE  /\ d \in Nat /\ d + 1 \in Int
           /\ Usage!StartOf(d) \in Int /\ Usage!StartOf(d + 1) = Usage!StartOf(d) + DayLen
           /\ d < Usage!Today <=> Usage!StartOf(d + 1) <= uNow
<1>1. d \in Nat /\ uNow \in Nat
  BY DaysAreDays DEF Usage!TypeOK
<1>2. Usage!StartOf(d) \in Int /\ Usage!StartOf(d + 1) = Usage!StartOf(d) + DayLen
  BY <1>1, DayFacts
<1>3. d + 1 <= Usage!Today <=> Usage!StartOf(d + 1) <= uNow
  BY <1>1, DayFacts DEF Usage!Today
<1>4. Usage!Today \in Nat
  BY <1>1, DayFacts DEF Usage!Today
<1>5. QED
  BY <1>1, <1>2, <1>3, <1>4

\* A time is of a day if it is between its midnights.
LEMMA DayCut ==
    ASSUME NEW t \in Nat, NEW d \in Usage!Days
    PROVE  /\ Usage!DayOf(t) \in Nat /\ d \in Nat
           /\ Usage!DayOf(t) <= d <=> t < Usage!StartOf(d + 1)
           /\ d <= Usage!DayOf(t) <=> Usage!StartOf(d) <= t
<1>1. d \in Int /\ d \in Nat /\ d + 1 \in Int
  BY DaysAreDays
<1>2. Usage!DayOf(t) \in Nat /\ Usage!StartOf(d + 1) \in Int
  BY <1>1, DayFacts
<1>3. d + 1 <= Usage!DayOf(t) <=> Usage!StartOf(d + 1) <= t
  BY <1>1, DayFacts
<1>4. d <= Usage!DayOf(t) <=> Usage!StartOf(d) <= t
  BY <1>1, DayFacts
<1>5. QED
  BY <1>1, <1>2, <1>3, <1>4

\* An interval that is over spans the days between its midnights.
LEMMA SpansOver ==
    ASSUME Usage!TypeOK, NEW p \in Pods, NEW d \in Usage!Days, Usage!Over(p)
    PROVE  Usage!Spans(p, d) <=> uRow[p].from < Usage!StartOf(d + 1) /\ Usage!StartOf(d) <= uRow[p].end
<1>1. uRow[p].from \in Nat /\ uRow[p].end \in Nat
  BY QueryAssumption DEF Usage!TypeOK, Usage!Times, Usage!Never
<1>2. /\ Usage!DayOf(uRow[p].from) \in Nat /\ Usage!DayOf(uRow[p].end) \in Nat /\ d \in Nat
      /\ Usage!DayOf(uRow[p].from) <= d <=> uRow[p].from < Usage!StartOf(d + 1)
      /\ d <= Usage!DayOf(uRow[p].end) <=> Usage!StartOf(d) <= uRow[p].end
  BY <1>1, DayCut
<1>3. Usage!Spans(p, d) <=> Usage!DayOf(uRow[p].from) <= d /\ d <= Usage!DayOf(uRow[p].end)
  BY <1>2 DEF Usage!Spans, Usage!Over
<1>4. QED
  BY <1>2, <1>3

\* Of a day that is past, an interval has what it had, unless it turned out to
\* have ended then.
LEMMA PastOverlap ==
    ASSUME Usage!TypeOK, Usage!RowsAreReal, Usage!Next,
           NEW p \in Pods, NEW d \in Usage!Days, d < Usage!Today
    PROVE  \/ Usage!Overlap(p, Usage!StartOf(d), Usage!StartOf(d + 1))'
                = Usage!Overlap(p, Usage!StartOf(d), Usage!StartOf(d + 1))
           \/ ~Usage!Over(p) /\ uRow'[p].late /\ Usage!Spans(p, d)'
<1> DEFINE from == Usage!StartOf(d)
           to   == Usage!StartOf(d + 1)
<1>1. /\ uNow \in Nat /\ DayLen \in Nat /\ DayLen > 0 /\ Horizon \in Nat /\ uNow <= Horizon
      /\ uRow[p].from \in Nat /\ uRow[p].end \in Nat /\ uRow'[p].from \in Nat /\ uRow'[p].end \in Nat
  BY QueryAssumption, UsageTypeStep DEF Usage!TypeOK, Usage!Times, Usage!Never
<1>2. from \in Int /\ to = from + DayLen /\ to <= uNow
  BY PastDay
<1>3. CASE RowStays(p) \/ RowGoes(p)
  <2>1. /\ uRow'[p].from = uRow[p].from /\ uRow'[p].end = uRow[p].end
        /\ (uRow'[p].state = "absent") <=> (uRow[p].state = "absent")
    BY <1>3 DEF RowStays, RowGoes
  <2> HIDE DEF from, to
  <2>2. Usage!Overlap(p, from, to)' = Usage!Overlap(p, from, to)
    BY <2>1 DEF Usage!Overlap
  <2>3. QED
    BY <2>2 DEF from, to
<1>4. CASE RowOpens(p)
  <2>1. uRow'[p].from = uNow /\ uRow[p].state = "absent"
    BY <1>4 DEF RowOpens
  <2> HIDE DEF from, to
  <2>2. Usage!Overlap(p, from, to)' = 0 /\ Usage!Overlap(p, from, to) = 0
    BY <1>1, <1>2, <2>1 DEF Usage!Overlap, Usage!Most, Usage!Least
  <2>3. QED
    BY <2>2 DEF from, to
<1>5. CASE RowEnds(p)
  <2>1. /\ uRow[p].end = Usage!Never /\ uRow[p].state = "open" /\ ~Usage!Over(p)
        /\ uRow'[p].from = uRow[p].from /\ uRow'[p].state = "ended" /\ Usage!Over(p)'
        /\ uNow - DayLen <= uRow'[p].end /\ uRow'[p].end <= uNow
        /\ uRow'[p].end # uNow => uRow'[p].late
    BY <1>5 DEF RowEnds, Usage!RowsAreReal, Usage!Over
  <2>2. CASE uRow'[p].end >= to \/ uRow[p].from >= to
    <3> HIDE DEF from, to
    <3>1. Usage!Overlap(p, from, to)' = Usage!Overlap(p, from, to)
      BY <1>1, <1>2, <2>1, <2>2 DEF Usage!Overlap, Usage!Most, Usage!Least, Usage!Never
    <3>2. QED
      BY <3>1 DEF from, to
  <2>3. CASE uRow'[p].end < to /\ uRow[p].from < to
    <3>1. uRow'[p].from < to /\ from <= uRow'[p].end
      <4> HIDE DEF from, to
      <4>1. QED
        BY <1>1, <1>2, <2>1, <2>3
    <3>2. Usage!Spans(p, d)'
      <4>1. uRow'[p].from \in Nat /\ uRow'[p].end \in Nat
        BY <1>1
      <4>2. /\ Usage!DayOf(uRow'[p].from) \in Nat /\ Usage!DayOf(uRow'[p].end) \in Nat /\ d \in Nat
            /\ Usage!DayOf(uRow'[p].from) <= d <=> uRow'[p].from < to
            /\ d <= Usage!DayOf(uRow'[p].end) <=> from <= uRow'[p].end
        BY <4>1, DayCut
      <4>3. QED
        BY <2>1, <3>1, <4>2 DEF Usage!Spans
    <3>3. uRow'[p].late
      <4> HIDE DEF from, to
      <4>1. QED
        BY <1>1, <1>2, <2>1, <2>3
    <3>4. QED
      BY <2>1, <3>2, <3>3
  <2>4. QED
    <3> HIDE DEF from, to
    <3>1. QED
      BY <1>1, <1>2, <2>2, <2>3
<1>6. QED
  BY <1>3, <1>4, <1>5, RowMoves

\* A total that was right, or is excused, is so after the step.
LEMMA StandsStep ==
    ASSUME Usage!TypeOK, Usage!RowsAreReal, Usage!Next,
           NEW total \in Usage!Totals, NEW a \in Apps, NEW d \in Usage!Days, Usage!Stands(total, a, d)
    PROVE  Usage!Stands(total, a, d)'
<1> DEFINE from == Usage!StartOf(d)
           to   == Usage!StartOf(d + 1)
           pods == Usage!PodsOf(a)
<1>1. d < Usage!Today /\ d < Usage!Today' /\ d \in Nat
  BY StepFacts, DaysAreDays DEF Usage!Stands
<1>2. \A p \in total.settled : Usage!Over(p) /\ Usage!Over(p)'
  BY StepFacts DEF Usage!Stands, Usage!Totals
<1>3. pods \in SUBSET Pods /\ (Usage!PodsOf(a))' = pods
  BY DEF Usage!PodsOf
<1>4. CASE \E p \in pods : uRow[p].late /\ Usage!Spans(p, d) /\ p \notin total.settled
  <2>1. PICK p \in pods : uRow[p].late /\ Usage!Spans(p, d) /\ p \notin total.settled
    BY <1>4
  <2>2. Usage!Over(p)
    BY <1>3, <2>1 DEF Usage!RowsAreReal, Usage!Over, Usage!TypeOK
  <2>3. /\ uRow'[p].from = uRow[p].from /\ uRow'[p].end = uRow[p].end /\ uRow'[p].late
        /\ Usage!Over(p)'
    BY <1>3, <2>1, <2>2, StepFacts
  <2>4. Usage!Spans(p, d)'
    BY <2>1, <2>2, <2>3 DEF Usage!Spans, Usage!Over
  <2>5. QED
    BY <1>1, <1>2, <1>3, <2>1, <2>3, <2>4 DEF Usage!Stands
<1>5. CASE /\ total.total = Usage!IntegrateDay(pods, d)
           /\ \A p \in pods : Usage!Overlap(p, from, to)' = Usage!Overlap(p, from, to)
  <2>1. [p \in pods |-> Usage!Overlap(p, from, to)]' = [p \in pods |-> Usage!Overlap(p, from, to)]
    BY <1>3, <1>5
  <2>2. Usage!Integrate(pods, from, to)' = Usage!Integrate(pods, from, to)
    BY <2>1 DEF Usage!Integrate
  <2>3. Usage!IntegrateDay(pods, d)' = Usage!IntegrateDay(pods, d)
    BY <2>2 DEF Usage!IntegrateDay
  <2>4. QED
    BY <1>1, <1>2, <1>3, <1>5, <2>3 DEF Usage!Stands
<1>6. CASE \E p \in pods : Usage!Overlap(p, from, to)' # Usage!Overlap(p, from, to)
  <2>1. PICK p \in pods : ~Usage!Over(p) /\ uRow'[p].late /\ Usage!Spans(p, d)'
    BY <1>1, <1>3, <1>6, PastOverlap
  <2>2. p \notin total.settled
    BY <1>2, <2>1
  <2>3. QED
    BY <1>1, <1>2, <1>3, <2>1, <2>2 DEF Usage!Stands
<1>7. QED
  BY <1>4, <1>5, <1>6 DEF Usage!Stands

\* What a step may do to the totals, and to the query.
LEMMA TotalMoves ==
    ASSUME Usage!TypeOK, Usage!Next, NEW a \in Apps, NEW d \in Usage!Days
    PROVE  \/ uRollup'[<<a, d>>] = uRollup[<<a, d>>]
           \/ Usage!RollupDay(a, d)
<1>1. ASSUME NEW b \in Apps, NEW e \in Usage!Days, Usage!RollupDay(b, e), <<b, e>> # <<a, d>>
      PROVE  uRollup'[<<a, d>>] = uRollup[<<a, d>>]
  BY <1>1 DEF Usage!RollupDay, Usage!TypeOK
<1>2. \/ uRollup' = uRollup
      \/ \E b \in Apps, e \in Usage!Days : Usage!RollupDay(b, e)
  BY DEF Usage!Next, Usage!Tick, Usage!ExpireIntervals, Usage!PodStarts, Usage!PodEnds, Usage!EndIsLearntLate,
         Usage!Ask, Usage!ListDailyRollups, Usage!ListIntervals, Usage!ListDetail
<1>3. QED
  BY <1>1, <1>2

LEMMA AskMoves ==
    ASSUME Usage!TypeOK, Usage!Next
    PROVE  \/ uAsk' = uAsk
           \/ Usage!Ask /\ uAsk'.at = "rollups"
           \/ Usage!ListDailyRollups
           \/ uAsk' = Usage!NoAsk /\ uNow' = uNow
           \/ uAsk' = [uAsk EXCEPT !.at = "detail"] /\ uAsk.at = "intervals" /\ uNow' = uNow
<1>1. Usage!Ask => uAsk'.at = "rollups"
  BY DEF Usage!Ask, Usage!NoAsk
<1>2. Usage!ListIntervals \/ Usage!ListDetail =>
         \/ uAsk' = Usage!NoAsk /\ uNow' = uNow
         \/ uAsk' = [uAsk EXCEPT !.at = "detail"] /\ uAsk.at = "intervals" /\ uNow' = uNow
  BY DEF Usage!ListIntervals, Usage!ListDetail
<1>3. \/ uAsk' = uAsk \/ Usage!Ask \/ Usage!ListDailyRollups \/ Usage!ListIntervals \/ Usage!ListDetail
  BY DEF Usage!Next, Usage!Tick, Usage!ExpireIntervals, Usage!PodStarts, Usage!PodEnds, Usage!EndIsLearntLate,
         Usage!RollupDay
<1>4. QED
  BY <1>1, <1>2, <1>3

LEMMA RetentionFacts ==
    /\ Retention \in Nat /\ MaxLife \in Nat /\ MaxLife > 0 /\ Backlog \in Nat
    /\ MaxLife + DayLen <= Retention
    /\ \A d \in Int : /\ Usage!StartOf(d + Backlog + 1) \in Int
                      /\ Usage!StartOf(d + Backlog + 1) <= Usage!StartOf(d) + Retention
<1>1. /\ Retention \in Nat /\ MaxLife \in Nat /\ MaxLife > 0 /\ Backlog \in Nat
      /\ MaxLife + DayLen <= Retention /\ DayLen \in Nat
      /\ (Backlog + 1) * DayLen <= Retention
  BY QueryAssumption
<1>2. ASSUME NEW d \in Int
      PROVE  /\ Usage!StartOf(d + Backlog + 1) \in Int
             /\ Usage!StartOf(d + Backlog + 1) <= Usage!StartOf(d) + Retention
  <2>1. (d + Backlog + 1) * DayLen = d * DayLen + (Backlog + 1) * DayLen
    BY <1>1
  <2>2. d * DayLen \in Int /\ (Backlog + 1) * DayLen \in Int
    BY <1>1
  <2>3. QED
    BY <1>1, <2>1, <2>2 DEF Usage!StartOf
<1>3. QED
  BY <1>1, <1>2

LEMMA YoungStep ==
    ASSUME Usage!TypeOK, Usage!RowsAreReal, Usage!PendingIsYoung, Usage!Next
    PROVE  Usage!PendingIsYoung'
<1> SUFFICES ASSUME NEW a \in Apps, NEW d \in Usage!Days, Usage!Pending(a, d)'
             PROVE  uNow' - Retention <= Usage!StartOf(d)
  BY DEF Usage!PendingIsYoung, Usage!Days
<1> DEFINE from == Usage!StartOf(d)
           to   == Usage!StartOf(d + 1)
<1>1. /\ uNow \in Nat /\ uNow' \in Nat /\ DayLen \in Nat /\ DayLen > 0 /\ d \in Nat
      /\ from \in Int /\ to = from + DayLen
      /\ Retention \in Nat /\ MaxLife \in Nat /\ MaxLife + DayLen <= Retention
  BY StepFacts, DayFacts, PastDay, RetentionFacts
<1>2. PICK p \in Pods :
         /\ p \in Usage!PodsOf(a) /\ Usage!Kept(p)' /\ Usage!Spans(p, d)'
         /\ \/ ~uRollup'[<<a, d>>].made
            \/ uRow'[p].state = "ended" /\ p \notin uRollup'[<<a, d>>].settled
  BY DEF Usage!Pending, Usage!PodsOf
<1>3. d < Usage!Today'
  BY DEF Usage!Pending
<1>4. CASE Usage!Tick
  <2>1. uRow' = uRow /\ uRollup' = uRollup /\ uNow' = uNow + 1
    BY <1>4 DEF Usage!Tick
  <2>2. CASE d < Usage!Today
    <3>1. Usage!Spans(p, d)
      <4>1. Usage!Today \in Nat /\ Usage!DayOf(uRow[p].from) \in Nat
        <5>1. uRow[p].from \in Nat
          BY <1>2 DEF Usage!PodsOf, Usage!TypeOK, Usage!Times
        <5>2. QED
          BY <5>1, StepFacts, DayIsNat
      <4>2. QED
        BY <1>1, <1>2, <2>1, <2>2, <4>1 DEF Usage!Spans
    <3>2. Usage!Pending(a, d)
      BY <1>2, <2>1, <2>2, <3>1 DEF Usage!Pending, Usage!Kept
    <3>3. Usage!DayOf(uNow + 1) <= d + Backlog
      BY <1>4, <3>2 DEF Usage!Tick
    <3> DEFINE next == d + Backlog + 1
    <3>4. next \in Int /\ uNow + 1 \in Nat /\ Usage!DayOf(uNow + 1) \in Nat /\ Backlog \in Nat
      BY <1>1, DayIsNat, RetentionFacts
    <3>5. ~(next <= Usage!DayOf(uNow + 1))
      BY <1>1, <3>3, <3>4
    <3>6. ~(Usage!StartOf(next) <= uNow + 1)
      <4> HIDE DEF next
      <4>1. QED
        BY <3>4, <3>5, DayFacts
    <3>7. Usage!StartOf(next) \in Int /\ Usage!StartOf(next) <= from + Retention
      BY <1>1, RetentionFacts
    <3>8. QED
      <4> HIDE DEF next, from
      <4>1. uNow' - Retention <= from
        BY <1>1, <2>1, <3>6, <3>7
      <4>2. QED
        BY <4>1 DEF from
  <2>3. CASE ~(d < Usage!Today)
    <3>1. ~(to <= uNow)
      BY <2>3, PastDay
    <3>2. QED
      <4> HIDE DEF from, to
      <4>1. uNow' - Retention <= from
        BY <1>1, <2>1, <3>1
      <4>2. QED
        BY <4>1 DEF from
  <2>4. QED
    BY <2>2, <2>3
<1>5. CASE ~Usage!Tick
  <2>1. uNow' = uNow /\ Usage!Today' = Usage!Today /\ d < Usage!Today
    BY <1>3, <1>5, RowMoves DEF Usage!Today
  <2>2. CASE RowStays(p)
    <3>1. Usage!Kept(p) /\ Usage!Spans(p, d)
      BY <1>2, <2>1, <2>2 DEF RowStays, Usage!Kept, Usage!Spans
    <3>2. CASE uRollup'[<<a, d>>] = uRollup[<<a, d>>]
      <4>1. Usage!Pending(a, d)
        BY <1>2, <2>1, <2>2, <3>1, <3>2 DEF Usage!Pending, RowStays
      <4>2. QED
        BY <2>1, <4>1 DEF Usage!PendingIsYoung
    <3>3. CASE Usage!RollupDay(a, d)
      <4>1. /\ uRollup'[<<a, d>>].made
            /\ uRollup'[<<a, d>>].settled = {q \in {r \in Usage!PodsOf(a) : Usage!Kept(r)} : uRow[q].state = "ended"}
        BY <3>3 DEF Usage!RollupDay, Usage!TypeOK
      <4>2. QED
        BY <1>2, <2>2, <3>1, <4>1 DEF RowStays
    <3>4. QED
      BY <3>2, <3>3, TotalMoves
  <2>3. CASE RowOpens(p)
    <3>1. Usage!DayOf(uNow) \in Nat
      BY <1>1, DayIsNat
    <3>2. Usage!DayOf(uNow) <= d
      BY <1>1, <1>2, <2>3, <3>1 DEF Usage!Spans, RowOpens
    <3>3. QED
      BY <1>1, <2>1, <3>1, <3>2 DEF Usage!Today
  <2>4. CASE RowEnds(p)
    <3>1. /\ uRow'[p].from = uRow[p].from /\ uRow[p].from \in Nat
          /\ uNow <= uRow[p].from + MaxLife
      BY <2>4 DEF RowEnds, Usage!RowsAreReal, Usage!TypeOK, Usage!Times
    <3>2. /\ Usage!DayOf(uRow[p].from) \in Nat
          /\ Usage!DayOf(uRow[p].from) <= d <=> uRow[p].from < to
      BY <3>1, DayCut
    <3>3. Usage!DayOf(uRow[p].from) <= d
      BY <1>1, <1>2, <3>1, <3>2 DEF Usage!Spans
    <3>4. QED
      <4> HIDE DEF from, to
      <4>1. uNow' - Retention <= from
        BY <1>1, <2>1, <3>1, <3>2, <3>3
      <4>2. QED
        BY <4>1 DEF from
  <2>5. CASE RowGoes(p)
    BY <1>2, <2>5 DEF RowGoes, Usage!Kept
  <2>6. QED
    BY <2>2, <2>3, <2>4, <2>5, RowMoves
<1>6. QED
  BY <1>4, <1>5

\* What ended so early as to expire has its seconds in a total.
LEMMA Booked ==
    ASSUME Usage!TypeOK, Usage!RowsAreReal, Usage!PendingIsYoung, Usage!ExpiredIsBooked,
           NEW p \in Pods, NEW d \in Usage!Days,
           Usage!Over(p), uRow[p].end <= uNow - Retention,
           Usage!Overlap(p, Usage!StartOf(d), Usage!StartOf(d + 1)) > 0
    PROVE  uRollup[<<AppOf[p], d>>].made
<1> DEFINE from == Usage!StartOf(d)
           to   == Usage!StartOf(d + 1)
<1>1. /\ uNow \in Nat /\ DayLen \in Nat /\ DayLen > 0 /\ from \in Int /\ to = from + DayLen
      /\ Retention \in Nat /\ MaxLife \in Nat /\ MaxLife + DayLen <= Retention /\ to \in Int
  BY DayFacts, PastDay, RetentionFacts, DaysAreDays DEF Usage!TypeOK
<1>2. /\ uRow[p].from \in Nat /\ uRow[p].end \in Nat /\ uRow[p].from < to /\ from < uRow[p].end
  <2> HIDE DEF from, to
  <2>1. Usage!Overlap(p, from, to) > 0
    BY DEF from, to
  <2>2. QED
    BY <1>1, <2>1, OverlapFacts
<1>3. CASE uRow[p].state = "expired"
  BY <1>3 DEF Usage!ExpiredIsBooked
<1>4. CASE uRow[p].state = "ended"
  <2>1. SUFFICES ASSUME ~uRollup[<<AppOf[p], d>>].made PROVE FALSE
    OBVIOUS
  <2>2. Usage!Spans(p, d)
    <3>1. from <= uRow[p].end
      <4> HIDE DEF from, to
      <4>1. QED
        BY <1>1, <1>2
    <3>2. QED
      BY <1>2, <3>1, SpansOver
  <2>3. d < Usage!Today
    <3>1. to <= uNow
      <4> HIDE DEF from, to
      <4>1. QED
        BY <1>1, <1>2
    <3>2. QED
      BY <3>1, PastDay
  <2>4. AppOf[p] \in Apps /\ p \in Usage!PodsOf(AppOf[p])
    BY QueryAssumption DEF Usage!PodsOf
  <2>5. Usage!Pending(AppOf[p], d)
    BY <1>4, <2>1, <2>2, <2>3, <2>4 DEF Usage!Pending, Usage!Kept
  <2>6. uNow - Retention <= from
    BY <2>4, <2>5 DEF Usage!PendingIsYoung
  <2>7. QED
    <3> HIDE DEF from, to
    <3>1. QED
      BY <1>1, <1>2, <2>6
<1>5. QED
  BY <1>3, <1>4 DEF Usage!Over

LEMMA BookedStep ==
    ASSUME Usage!TypeOK, Usage!RowsAreReal, Usage!PendingIsYoung, Usage!ExpiredIsBooked, Usage!Next
    PROVE  Usage!ExpiredIsBooked'
<1> SUFFICES ASSUME NEW p \in Pods, NEW d \in Usage!Days, uRow'[p].state = "expired",
                    Usage!Overlap(p, Usage!StartOf(d), Usage!StartOf(d + 1))' > 0
             PROVE  uRollup'[<<AppOf[p], d>>].made
  BY DEF Usage!ExpiredIsBooked
<1>1. uRow'[p].from = uRow[p].from /\ uRow'[p].end = uRow[p].end /\ Usage!Over(p)
  BY RowMoves DEF RowStays, RowOpens, RowEnds, RowGoes, Usage!Over
<1>2. Usage!Overlap(p, Usage!StartOf(d), Usage!StartOf(d + 1)) > 0
  BY <1>1 DEF Usage!Overlap, Usage!Over, Usage!StartOf
<1>3. uRow[p].end <= uNow - Retention
  <2>1. uNow \in Nat /\ Retention \in Nat /\ uRow[p].end \in Nat
    BY QueryAssumption DEF Usage!TypeOK, Usage!Times, Usage!Never
  <2>2. uRow[p].end < uNow - Retention
    BY RowMoves DEF RowStays, RowOpens, RowEnds, RowGoes, Usage!RowsAreReal
  <2>3. QED
    BY <2>1, <2>2
<1>4. uRollup[<<AppOf[p], d>>].made /\ AppOf[p] \in Apps
  BY <1>1, <1>2, <1>3, Booked, QueryAssumption
<1>5. Usage!RollupDay(AppOf[p], d) => uRollup'[<<AppOf[p], d>>].made
  BY <1>4 DEF Usage!RollupDay, Usage!TypeOK
<1>6. QED
  BY <1>4, <1>5, TotalMoves

\* The total the pass has just made is right: what is not there any more ended
\* before the day began.
LEMMA FreshTotal ==
    ASSUME Usage!TypeOK, Usage!RowsAreReal, Usage!PendingIsYoung,
           NEW a \in Apps, NEW d \in Usage!Days, Usage!RollupDay(a, d)
    PROVE  uRollup'[<<a, d>>] \in Usage!Totals /\ Usage!Stands(uRollup'[<<a, d>>], a, d)
<1> DEFINE from == Usage!StartOf(d)
           to   == Usage!StartOf(d + 1)
           pods == Usage!PodsOf(a)
           kept == {p \in pods : Usage!Kept(p)}
           f    == [p \in pods |-> Usage!Overlap(p, from, to)]
           g    == [p \in kept |-> Usage!Overlap(p, from, to)]
           made == [made |-> TRUE, total |-> Usage!IntegrateDay(kept, d),
                    settled |-> {p \in kept : uRow[p].state = "ended"}]
<1>1. /\ Usage!Pending(a, d)
      /\ uRollup'[<<a, d>>] = made
  BY DEF Usage!RollupDay, Usage!TypeOK
<1>2. d < Usage!Today /\ uNow - Retention <= from
  BY <1>1 DEF Usage!Pending, Usage!PendingIsYoung
<1>3. /\ pods \in SUBSET Pods /\ kept \in SUBSET pods /\ kept \in SUBSET Pods
      /\ uNow \in Nat /\ Retention \in Nat /\ from \in Int /\ to \in Int
  <2>1. pods \in SUBSET Pods /\ kept \in SUBSET pods /\ kept \in SUBSET Pods
    BY DEF Usage!PodsOf
  <2>2. from \in Int /\ to \in Int
    BY PastDay, DayFacts
  <2>3. uNow \in Nat /\ Retention \in Nat
    BY RetentionFacts, DaysAreDays DEF Usage!TypeOK
  <2>4. QED
    BY <2>1, <2>2, <2>3
<1>4. ASSUME NEW p \in pods, p \notin kept PROVE Usage!Overlap(p, from, to) = 0
  <2>1. uRow[p].state \in {"absent", "expired"}
    BY <1>3, <1>4 DEF Usage!Kept, Usage!TypeOK
  <2>2. uRow[p].state = "expired" => uRow[p].end < uNow - Retention
    BY <1>3 DEF Usage!RowsAreReal
  <2>3. /\ uRow[p].end \in Nat /\ Usage!Overlap(p, from, to) \in Nat
        /\ Usage!Overlap(p, from, to) > 0 => uRow[p].state # "absent" /\ from < uRow[p].end
    <3> HIDE DEF from, to, pods
    <3>1. QED
      BY <1>3, OverlapFacts
  <2>4. QED
    <3> HIDE DEF from, to
    <3>1. QED
      BY <1>2, <1>3, <2>1, <2>2, <2>3
<1>5. /\ IsFiniteSet(pods) /\ IsFiniteSet(kept)
      /\ \A p \in pods : f[p] \in Nat
      /\ Usage!IntegrateDay(pods, d) = SumFunctionOnSet(f, pods)
      /\ Usage!IntegrateDay(kept, d) = SumFunctionOnSet(g, kept)
      /\ Usage!IntegrateDay(kept, d) \in Int
  <2> HIDE DEF pods, kept
  <2>1. /\ IsFiniteSet(pods) /\ \A p \in pods : f[p] \in Nat
        /\ Usage!Integrate(pods, from, to) = SumFunctionOnSet(f, pods)
    BY <1>3, IntegrateFacts
  <2>2. /\ IsFiniteSet(kept)
        /\ Usage!Integrate(kept, from, to) = SumFunctionOnSet(g, kept)
        /\ Usage!Integrate(kept, from, to) \in Int
    BY <1>3, IntegrateFacts
  <2>3. QED
    BY <2>1, <2>2 DEF Usage!IntegrateDay
<1>6. SumFunctionOnSet(f, pods) = SumFunctionOnSet(f, kept)
  <2>1. \A p \in pods \ kept : f[p] = 0
    BY <1>4
  <2>2. \A p \in pods : f[p] \in Int
    BY <1>5
  <2> HIDE DEF pods, kept, f
  <2>3. QED
    BY <1>3, <1>5, <2>1, <2>2, SumOfPart
<1>7. SumFunctionOnSet(f, kept) = SumFunctionOnSet(g, kept)
  <2>1. \A p \in kept : f[p] \in Int /\ f[p] = g[p]
    BY <1>3, <1>5
  <2> HIDE DEF pods, kept, f, g
  <2>2. QED
    BY <1>5, <2>1, SumSame
<1>8. made.total = Usage!IntegrateDay(pods, d)
  BY <1>5, <1>6, <1>7
<1>9. made \in Usage!Totals
  BY <1>3, <1>5 DEF Usage!Totals
<1>10. \A p \in made.settled : Usage!Over(p)
  BY DEF Usage!Over
<1>11. QED
  <2> HIDE DEF made
  <2>1. QED
    BY <1>1, <1>2, <1>8, <1>9, <1>10 DEF Usage!Stands

\* What the query reads of the totals.
LEMMA ReadTotals ==
    ASSUME Usage!TypeOK, Usage!ListDailyRollups, NEW a \in Apps, NEW d \in Usage!Days
    PROVE  /\ uAsk.at = "rollups" /\ UNCHANGED <<uNow, uRow, uRollup>>
           /\ uAsk'.apps = uAsk.apps /\ uAsk'.from = uAsk.from /\ uAsk'.to = uAsk.to
           /\ uAsk'.since = uAsk.since /\ uAsk'.today = uAsk.today
           /\ uAsk'.rollups[<<a, d>>]
                = IF a \in uAsk.apps /\ d \in uAsk.from .. Usage!Least(uAsk.to, uAsk.today - 1)
                  THEN uRollup[<<a, d>>] ELSE Usage!NoRollup
BY DEF Usage!TypeOK, Usage!ListDailyRollups

LEMMA TotalsStep ==
    ASSUME Usage!TypeOK, Usage!RowsAreReal, Usage!PendingIsYoung, Usage!TotalsStand, Usage!Next
    PROVE  Usage!TotalsStand'
<1> USE DEF Usage!TotalsStand
<1>1. ASSUME NEW a \in Apps, NEW d \in Usage!Days, uRollup'[<<a, d>>].made
      PROVE  \E t \in Usage!Totals : t = uRollup'[<<a, d>>] /\ Usage!Stands(t, a, d)'
  <2>1. uRollup'[<<a, d>>] \in Usage!Totals
    BY UsageTypeStep DEF Usage!TypeOK
  <2> DEFINE total == uRollup'[<<a, d>>]
  <2>2. Usage!Stands(total, a, d)
    BY <1>1, TotalMoves, FreshTotal
  <2>3. total \in Usage!Totals
    BY <2>1
  <2>4. PICK t \in Usage!Totals : t = total
    BY <2>3
  <2>5. Usage!Stands(t, a, d)
    BY <2>2, <2>4
  <2>6. Usage!Stands(t, a, d)'
    BY <2>5, StandsStep
  <2>7. QED
    BY <2>4, <2>6
<1>2. ASSUME uAsk'.at = "intervals", NEW a \in Apps, NEW d \in Usage!Days,
             uAsk'.rollups[<<a, d>>].made
      PROVE  \E t \in Usage!Totals : t = uAsk'.rollups[<<a, d>>] /\ Usage!Stands(t, a, d)'
  <2> DEFINE total == uAsk'.rollups[<<a, d>>]
  <2>1. total \in Usage!Totals
    BY UsageTypeStep DEF Usage!TypeOK
  <2>2. Usage!Stands(total, a, d)
    <3>1. CASE uAsk' = uAsk
      BY <1>2, <3>1
    <3>2. CASE Usage!ListDailyRollups
      <4>1. total = uRollup[<<a, d>>]
        BY <1>2, <3>2, ReadTotals DEF Usage!NoRollup
      <4>2. QED
        BY <1>2, <4>1
    <3>3. uAsk' = uAsk \/ Usage!ListDailyRollups
      BY <1>2, AskMoves DEF Usage!NoAsk, Usage!TypeOK
    <3>4. QED
      BY <3>1, <3>2, <3>3
  <2>3. PICK t \in Usage!Totals : t = total
    BY <2>1
  <2>4. Usage!Stands(t, a, d)
    BY <2>2, <2>3
  <2>5. Usage!Stands(t, a, d)'
    BY <2>4, StandsStep
  <2>6. QED
    BY <2>3, <2>5
<1>3. QED
  BY <1>1, <1>2 DEF Usage!Days, Usage!Stands

LEMMA QueryStep ==
    ASSUME Usage!TypeOK, Usage!RowsAreReal, Usage!QueryIsShort, Usage!Next
    PROVE  Usage!QueryIsShort'
<1>1. uNow \in Nat /\ uAsk.since \in Nat
  BY DaysAreDays DEF Usage!TypeOK
<1>2. CASE uAsk' = uAsk
  <2>1. CASE Usage!Tick
    BY <1>1, <1>2, <2>1 DEF Usage!Tick, Usage!QueryIsShort, Usage!DayOf
  <2>2. CASE ~Usage!Tick
    BY <1>2, <2>2, RowMoves DEF Usage!QueryIsShort, Usage!DayOf
  <2>3. QED
    BY <2>1, <2>2
<1>3. CASE Usage!Ask
  <2>1. PICK q \in Usage!Questions :
           /\ Usage!Admitted(q)
           /\ uAsk' = [Usage!NoAsk EXCEPT !.at = "rollups", !.apps = q.apps, !.from = q.from, !.to = q.to,
                                 !.detail = q.detail, !.today = Usage!Today, !.since = uNow]
    BY <1>3 DEF Usage!Ask
  <2>2. /\ uAsk'.from = q.from /\ uAsk'.to = q.to /\ uAsk'.today = Usage!Today /\ uAsk'.since = uNow
        /\ uNow' = uNow
    BY <1>3, <2>1 DEF Usage!NoAsk, Usage!Ask
  <2>3. QED
    BY <1>1, <2>1, <2>2 DEF Usage!QueryIsShort, Usage!Admitted, Usage!Today, Usage!DayOf
<1>4. CASE Usage!ListDailyRollups
  <2>1. /\ uAsk.at = "rollups" /\ uNow' = uNow
        /\ uAsk'.from = uAsk.from /\ uAsk'.to = uAsk.to /\ uAsk'.today = uAsk.today
        /\ uAsk'.since = uAsk.since
    BY <1>4 DEF Usage!ListDailyRollups, Usage!TypeOK
  <2>2. QED
    BY <2>1 DEF Usage!QueryIsShort, Usage!DayOf
<1>5. CASE uAsk' = Usage!NoAsk
  BY <1>5 DEF Usage!NoAsk, Usage!QueryIsShort
<1>6. CASE uAsk' = [uAsk EXCEPT !.at = "detail"] /\ uAsk.at = "intervals" /\ uNow' = uNow
  BY <1>6 DEF Usage!QueryIsShort, Usage!TypeOK, Usage!DayOf
<1>7. QED
  BY <1>2, <1>3, <1>4, <1>5, <1>6, AskMoves

LEMMA WindowDays ==
    ASSUME Usage!TypeOK
    PROVE  /\ uAsk.from \in Nat /\ uAsk.to \in Nat /\ uAsk.today \in Nat /\ uAsk.since \in Nat
           /\ uAsk.from .. uAsk.to \subseteq Usage!Days
<1>1. Usage!DayOf(Horizon) \in Nat
  BY QueryAssumption, DayIsNat
<1>2. uAsk.from \in Usage!Days /\ uAsk.to \in Usage!Days /\ uAsk.today \in Usage!Days /\ uAsk.since \in Usage!Times
  BY DEF Usage!TypeOK
<1>3. QED
  BY <1>1, <1>2, DaysAreDays DEF Usage!Days

LEMMA ReadStep ==
    ASSUME Usage!TypeOK, Usage!RowsAreReal, Usage!PendingIsYoung, Usage!ExpiredIsBooked,
           Usage!QueryIsShort, Usage!ExpiringIsRead, Usage!Next
    PROVE  Usage!ExpiringIsRead'
<1> SUFFICES ASSUME uAsk'.at = "intervals", NEW p \in Pods, NEW d \in uAsk'.from .. uAsk'.to,
                    Usage!Over(p)', uRow'[p].end <= uAsk'.since - Retention,
                    AppOf[p] \in uAsk'.apps,
                    Usage!Overlap(p, Usage!StartOf(d), Usage!StartOf(d + 1))' > 0
             PROVE  uAsk'.rollups[<<AppOf[p], d>>].made
  BY DEF Usage!ExpiringIsRead
<1>1. uAsk' = uAsk \/ Usage!ListDailyRollups
  BY AskMoves DEF Usage!NoAsk, Usage!TypeOK
<1>2. /\ uAsk.at \in {"rollups", "intervals"} /\ uAsk'.from = uAsk.from /\ uAsk'.to = uAsk.to
      /\ uAsk'.since = uAsk.since /\ uAsk'.apps = uAsk.apps /\ uAsk'.today = uAsk.today
  BY <1>1 DEF Usage!ListDailyRollups, Usage!TypeOK
<1>3. d \in Usage!Days /\ d \in Nat
  BY <1>2, WindowDays, DaysAreDays
<1>4. /\ uAsk.since <= uNow /\ uAsk.today = Usage!DayOf(uAsk.since) /\ uAsk.since \in Nat
      /\ uNow \in Nat /\ Retention \in Nat /\ DayLen \in Nat /\ DayLen > 0 /\ MaxLife \in Nat /\ MaxLife > 0
      /\ MaxLife + DayLen <= Retention
      /\ uAsk.to \in Nat /\ uAsk.from \in Nat /\ uAsk.today \in Nat
  BY <1>2, WindowDays, StepFacts, RetentionFacts, DayFacts DEF Usage!QueryIsShort
<1>5. uRow'[p].end \in Nat /\ uRow[p].end \in Nat
  BY QueryAssumption, UsageTypeStep DEF Usage!TypeOK, Usage!Times, Usage!Never
<1>6. Usage!Over(p)
  <2>1. ~RowEnds(p)
    BY <1>2, <1>4, <1>5 DEF RowEnds
  <2>2. QED
    BY <2>1, RowMoves DEF RowStays, RowOpens, RowGoes, Usage!Over
<1>7. uRow[p].end = uRow'[p].end /\ uRow[p].from = uRow'[p].from
  BY <1>6, StepFacts
<1>8. Usage!Overlap(p, Usage!StartOf(d), Usage!StartOf(d + 1)) > 0
  BY <1>6, <1>7 DEF Usage!Overlap, Usage!Over, Usage!StartOf
<1>9. CASE uAsk' = uAsk
  BY <1>2, <1>6, <1>7, <1>8, <1>9 DEF Usage!ExpiringIsRead
<1>10. CASE Usage!ListDailyRollups
  <2>1. uRollup[<<AppOf[p], d>>].made
    <3>1. uRow[p].end <= uNow - Retention
      BY <1>2, <1>4, <1>5, <1>7
    <3>2. QED
      BY <1>3, <1>6, <1>8, <3>1, Booked
  <2> DEFINE from == Usage!StartOf(d)
             to   == Usage!StartOf(d + 1)
  <2>2. from < uRow[p].end
    <3>1. from \in Int /\ to \in Int
      BY <1>3, PastDay, DayFacts
    <3> HIDE DEF from, to
    <3>2. Usage!Overlap(p, from, to) > 0
      BY <1>8 DEF from, to
    <3>3. QED
      BY <3>1, <3>2, OverlapFacts
  <2>3. d <= uAsk.today - 1
    <3>1. to <= uAsk.since
      <4>1. from \in Int /\ to = from + DayLen
        BY <1>3, PastDay
      <4> HIDE DEF from, to
      <4>2. QED
        BY <1>2, <1>4, <1>5, <1>7, <2>2, <4>1
    <3>2. Usage!DayOf(uAsk.since) <= d <=> uAsk.since < to
      BY <1>3, <1>4, DayCut
    <3>3. to \in Int
      BY <1>3, DayFacts
    <3>4. QED
      <4> HIDE DEF to
      <4>1. QED
        BY <1>3, <1>4, <3>1, <3>2, <3>3
  <2>4. d \in uAsk.from .. Usage!Least(uAsk.to, uAsk.today - 1)
    BY <1>2, <1>3, <1>4, <2>3 DEF Usage!Least
  <2>5. AppOf[p] \in Apps /\ AppOf[p] \in uAsk.apps
    BY <1>2, QueryAssumption
  <2>6. uAsk'.rollups[<<AppOf[p], d>>] = uRollup[<<AppOf[p], d>>]
    BY <1>3, <1>10, <2>4, <2>5, ReadTotals
  <2>7. QED
    BY <2>1, <2>6
<1>11. QED
  BY <1>1, <1>9, <1>10

LEMMA UsageInit == Usage!Init => Usage!IInv
<1> SUFFICES ASSUME Usage!Init PROVE Usage!IInv
  OBVIOUS
<1>1. Usage!TypeOK
  BY UsageTypes
<1>2. \A p \in Pods : uRow[p] = Usage!NoRow
  BY DEF Usage!Init
<1>3. \A a \in Apps, d \in Usage!Days : ~uRollup[<<a, d>>].made
  BY DEF Usage!Init, Usage!NoRollup
<1>4. uAsk.at = "idle"
  BY DEF Usage!Init, Usage!NoAsk
<1>5. Usage!RowsAreReal
  BY <1>2 DEF Usage!NoRow, Usage!RowsAreReal, Usage!Over
<1>6. Usage!PendingIsYoung
  BY <1>2 DEF Usage!NoRow, Usage!PendingIsYoung, Usage!Pending, Usage!Kept, Usage!PodsOf
<1>7. Usage!ExpiredIsBooked
  BY <1>2 DEF Usage!NoRow, Usage!ExpiredIsBooked
<1>8. Usage!TotalsStand
  BY <1>3, <1>4 DEF Usage!TotalsStand
<1>9. Usage!QueryIsShort /\ Usage!ExpiringIsRead
  BY <1>4 DEF Usage!QueryIsShort, Usage!ExpiringIsRead
<1>10. QED
  BY <1>1, <1>5, <1>6, <1>7, <1>8, <1>9 DEF Usage!IInv

LEMMA UsageStep == Usage!IInv /\ [Usage!Next]_<<uNow, uRow, uRollup, uAsk>> => Usage!IInv'
<1> SUFFICES ASSUME Usage!IInv, [Usage!Next]_<<uNow, uRow, uRollup, uAsk>> PROVE Usage!IInv'
  OBVIOUS
<1>1. CASE Usage!Next
  BY <1>1, UsageTypeStep, RowsStep, YoungStep, BookedStep, TotalsStep, QueryStep, ReadStep DEF Usage!IInv
<1>2. CASE UNCHANGED <<uNow, uRow, uRollup, uAsk>>
  <2> USE <1>2 DEF Usage!IInv
  <2>1. Usage!TypeOK'
    BY DEF Usage!TypeOK
  <2>2. Usage!RowsAreReal'
    BY DEF Usage!RowsAreReal, Usage!Over
  <2>3. Usage!PendingIsYoung'
    BY DEF Usage!PendingIsYoung, Usage!Pending, Usage!Kept, Usage!Spans, Usage!Today
  <2>4. Usage!ExpiredIsBooked'
    BY DEF Usage!ExpiredIsBooked, Usage!Overlap
  <2>5. Usage!TotalsStand'
    <3>1. \A q, i, j : Usage!Overlap(q, i, j)' = Usage!Overlap(q, i, j)
      BY DEF Usage!Overlap
    <3>2. \A a, d : Usage!IntegrateDay(Usage!PodsOf(a), d)' = Usage!IntegrateDay(Usage!PodsOf(a), d)
      BY <3>1 DEF Usage!IntegrateDay, Usage!Integrate
    <3>3. \A total, a, d : Usage!Stands(total, a, d) => Usage!Stands(total, a, d)'
      BY <3>2 DEF Usage!Stands, Usage!Over, Usage!Spans, Usage!Today
    <3>4. QED
      BY <3>3 DEF Usage!TotalsStand
  <2>6. Usage!QueryIsShort'
    BY DEF Usage!QueryIsShort
  <2>7. Usage!ExpiringIsRead'
    BY DEF Usage!ExpiringIsRead, Usage!Over, Usage!Overlap
  <2>8. QED
    BY <2>1, <2>2, <2>3, <2>4, <2>5, <2>6, <2>7
<1>3. QED
  BY <1>1, <1>2

-----------------------------------------------------------------------------
\* The days of the window, and where the part of each ends that is over.
LEMMA WindowFacts ==
    ASSUME Usage!IInv, uAsk.at = "intervals"
    PROVE  LET last == Usage!Least(uAsk.to, uAsk.today)
               start == Usage!StartOf(uAsk.from)
           IN  /\ last \in Nat /\ uAsk.from \in Nat /\ Usage!LiveDays = uAsk.from .. last
               /\ uAsk.from <= uAsk.to /\ last <= uAsk.to
               /\ uNow \in Nat /\ start \in Int /\ Usage!WindowEnd \in Int
               /\ uAsk.from > last => Usage!WindowEnd <= start
               /\ Usage!LiveDays \subseteq Usage!Days
               /\ \A d \in Usage!LiveDays :
                    /\ d \in Nat /\ Usage!StartOf(d) \in Int
                    /\ Usage!StartOf(d + 1) = Usage!StartOf(d) + DayLen
                    /\ start <= Usage!StartOf(d) /\ Usage!StartOf(d) <= uNow
                    /\ Usage!StartOf(d) <= Usage!WindowEnd
                    /\ d < last => Usage!StartOf(d + 1) <= Usage!WindowEnd
                    /\ d < Usage!Today => Usage!StartOf(d + 1) <= Usage!WindowEnd
                    /\ d = last => Usage!WindowEnd <= Usage!StartOf(d + 1)
<1> DEFINE last == Usage!Least(uAsk.to, uAsk.today)
           start == Usage!StartOf(uAsk.from)
           end == Usage!WindowEnd
<1> USE DEF Usage!IInv
<1>1. /\ uAsk.from \in Nat /\ uAsk.to \in Nat /\ uAsk.today \in Nat /\ uAsk.since \in Nat
      /\ uAsk.from .. uAsk.to \subseteq Usage!Days
      /\ uAsk.from <= uAsk.to /\ uAsk.today = Usage!DayOf(uAsk.since)
      /\ uAsk.since <= uNow /\ uNow <= uAsk.since + 1
      /\ uNow \in Nat /\ DayLen \in Nat /\ DayLen > 0
  BY WindowDays, DayFacts, DaysAreDays DEF Usage!QueryIsShort, Usage!TypeOK
<1>2. last \in Nat /\ last <= uAsk.to /\ last <= uAsk.today
  BY <1>1 DEF Usage!Least
<1>3. Usage!LiveDays = uAsk.from .. last
  BY DEF Usage!LiveDays
<1>4. Usage!LiveDays \subseteq Usage!Days
  BY <1>1, <1>2, <1>3
<1>5. start \in Int
  BY <1>1, StartsInOrder
<1>6. CASE uAsk.from > last
  <2>1. Usage!LiveDays = {}
    BY <1>1, <1>2, <1>3, <1>6
  <2>2. uAsk.today < uAsk.from
    BY <1>1, <1>6 DEF Usage!Least
  <2>3. ~(uAsk.from <= Usage!DayOf(uAsk.since)) /\ uAsk.from \in Usage!Days
    BY <1>1, <2>2
  <2>4. ~(start <= uAsk.since)
    BY <1>1, <2>3, DayCut
  <2>5. uNow <= start
    <3> HIDE DEF start
    <3>1. QED
      BY <1>1, <1>5, <2>4
  <2>6. end \in Int /\ end <= uNow
    <3>1. Usage!StartOf(Usage!Most(uAsk.from, last) + 1) \in Int
      <4>1. Usage!Most(uAsk.from, last) + 1 \in Int
        BY <1>1, <1>2 DEF Usage!Most
      <4>2. QED
        BY <4>1, DayFacts
    <3>2. QED
      BY <1>1, <3>1 DEF Usage!WindowEnd, Usage!Least
  <2>7. end <= start
    <3> HIDE DEF start, end
    <3>1. QED
      BY <1>1, <1>5, <2>5, <2>6
  <2>8. QED
    BY <1>1, <1>2, <1>3, <1>4, <1>5, <2>1, <2>6, <2>7
<1>7. CASE ~(uAsk.from > last)
  <2> DEFINE close == Usage!StartOf(last + 1)
  <2>1. close \in Int /\ end = Usage!Least(uNow, close) /\ end \in Int
    <3>1. Usage!Most(uAsk.from, last) = last
      BY <1>1, <1>2, <1>7 DEF Usage!Most
    <3>2. end = Usage!Least(uNow, close)
      BY <3>1 DEF Usage!WindowEnd
    <3>3. close \in Int
      BY <1>2, DayFacts
    <3> HIDE DEF close, end
    <3>4. QED
      BY <1>1, <3>2, <3>3 DEF Usage!Least
  <2>2. ASSUME NEW d \in Usage!LiveDays
        PROVE  /\ d \in Nat /\ Usage!StartOf(d) \in Int
               /\ Usage!StartOf(d + 1) = Usage!StartOf(d) + DayLen
               /\ start <= Usage!StartOf(d) /\ Usage!StartOf(d) <= uNow
               /\ Usage!StartOf(d) <= end
               /\ d < last => Usage!StartOf(d + 1) <= end
               /\ d < Usage!Today => Usage!StartOf(d + 1) <= end
               /\ d = last => end <= Usage!StartOf(d + 1)
    <3>1. d \in Nat /\ d \in Usage!Days /\ uAsk.from <= d /\ d <= last
      BY <1>1, <1>2, <1>3, <1>4
    <3> DEFINE from == Usage!StartOf(d)
               to   == Usage!StartOf(d + 1)
    <3>2. from \in Int /\ to = from + DayLen
      BY <3>1, DayFacts
    <3>3. start <= from
      <4>1. uAsk.from < d => start + DayLen <= from
        BY <1>1, <3>1, StartsInOrder
      <4>2. uAsk.from = d => start = from
        OBVIOUS
      <4> HIDE DEF start, from
      <4>3. QED
        BY <1>1, <1>5, <3>1, <3>2, <4>1, <4>2
    <3>4. from <= uAsk.since
      <4>1. d <= Usage!DayOf(uAsk.since)
        BY <1>1, <1>2, <3>1
      <4>2. QED
        BY <1>1, <3>1, <4>1, DayCut
    <3>5. d < last => to + DayLen <= close
      <4>1. d < last => d + 1 < last + 1 /\ d + 1 \in Int /\ last + 1 \in Int
        BY <1>2, <3>1
      <4>2. QED
        BY <4>1, DayFacts
    <3>6. d = last => to = close
      OBVIOUS
    <3>7. d < last => to <= uNow
      <4>1. SUFFICES ASSUME d < last PROVE to <= uNow
        OBVIOUS
      <4>2. d + 1 \in Usage!Days /\ d + 1 <= Usage!DayOf(uAsk.since)
        BY <1>1, <1>2, <1>3, <3>1, <4>1
      <4>3. to <= uAsk.since
        BY <1>1, <4>2, DayCut
      <4> HIDE DEF to
      <4>4. QED
        BY <1>1, <3>2, <4>3
    <3>8. d < Usage!Today => to <= uNow
      BY <3>1, PastDay
    <3>9. from <= uNow
      <4> HIDE DEF from
      <4>1. QED
        BY <1>1, <3>2, <3>4
    <3> HIDE DEF from, to, start, end, close
    <3>10. /\ from <= end
           /\ d < last => to <= end
           /\ d < Usage!Today => to <= end
           /\ d = last => end <= to
      BY <1>1, <1>2, <2>1, <3>1, <3>2, <3>5, <3>6, <3>7, <3>8, <3>9 DEF Usage!Least
    <3>11. QED
      BY <3>1, <3>2, <3>3, <3>9, <3>10 DEF from, to
  <2>3. QED
    BY <1>1, <1>2, <1>3, <1>4, <1>5, <1>7, <2>1, <2>2
<1>8. QED
  BY <1>6, <1>7

\* Whichever source a figure comes from, it is what the pods had of the day.
LEMMA DayIsExact ==
    ASSUME Usage!IInv, uAsk.at = "intervals", NEW a \in uAsk.apps, NEW d \in Usage!LiveDays
    PROVE  \/ Usage!Answer(a, d) = Usage!Integrate(Usage!PodsOf(a), Usage!StartOf(d), Usage!EndOf(d))
           \/ Usage!Outdated(a, d)
<1> DEFINE from == Usage!StartOf(d)
           to   == Usage!StartOf(d + 1)
           end  == Usage!WindowEnd
           stop == Usage!EndOf(d)
           pods == Usage!PodsOf(a)
           live == pods \cap Usage!InWindow
<1> USE DEF Usage!IInv
<1>1. /\ from \in Int /\ to \in Int /\ end \in Int /\ from <= end /\ d \in Nat /\ d \in Usage!Days
      /\ DayLen \in Nat /\ DayLen > 0 /\ to = from + DayLen
      /\ Usage!StartOf(uAsk.from) <= from /\ Usage!StartOf(uAsk.from) \in Int
      /\ d < Usage!Today => to <= end
      /\ d \in uAsk.from .. uAsk.to
  <2>1. /\ from \in Int /\ end \in Int /\ from <= end /\ d \in Nat /\ d \in Usage!Days
        /\ to = from + DayLen
        /\ Usage!StartOf(uAsk.from) <= from /\ Usage!StartOf(uAsk.from) \in Int
        /\ d < Usage!Today => to <= end
    BY WindowFacts
  <2>2. d \in uAsk.from .. uAsk.to
    BY <2>1, WindowFacts, WindowDays
  <2>3. DayLen \in Nat /\ DayLen > 0 /\ to \in Int
    BY <2>1, DayFacts
  <2>4. QED
    BY <2>1, <2>2, <2>3
<1>2. stop \in Int /\ stop <= to /\ stop <= end
  <2> HIDE DEF from
  <2>1. QED
    BY <1>1 DEF Usage!EndOf, Usage!Least
<1>3. a \in Apps /\ pods \in SUBSET Pods /\ live \in SUBSET pods /\ live \in SUBSET Pods
  BY DEF Usage!PodsOf, Usage!TypeOK
<1>4. CASE uAsk.rollups[<<a, d>>].made
  <2>1. Usage!Stands(uAsk.rollups[<<a, d>>], a, d)
    BY <1>1, <1>3, <1>4 DEF Usage!TotalsStand
  <2>2. d < Usage!Today
    BY <2>1 DEF Usage!Stands
  <2>3. stop = to
    <3> HIDE DEF from
    <3>1. QED
      BY <1>1, <2>2 DEF Usage!EndOf, Usage!Least
  <2>4. \/ uAsk.rollups[<<a, d>>].total = Usage!Integrate(pods, from, to)
        \/ Usage!Outdated(a, d)
    BY <1>4, <2>1 DEF Usage!Stands, Usage!IntegrateDay, Usage!Outdated
  <2>5. Usage!Answer(a, d) = uAsk.rollups[<<a, d>>].total
    BY <1>4 DEF Usage!Answer
  <2>6. QED
    BY <2>3, <2>4, <2>5
<1>5. CASE ~uAsk.rollups[<<a, d>>].made
  <2> DEFINE f == [p \in pods |-> Usage!Overlap(p, from, stop)]
             g == [p \in live |-> Usage!Overlap(p, from, stop)]
  <2>1. ASSUME NEW p \in pods, p \notin live PROVE Usage!Overlap(p, from, stop) = 0
    <3>1. p \in Pods /\ Usage!Overlap(p, from, stop) \in Nat
      <4> HIDE DEF from, stop, pods, live
      <4>1. QED
        BY <1>1, <1>2, <1>3, <2>1, OverlapFacts
    <3>2. SUFFICES ASSUME Usage!Overlap(p, from, stop) > 0 PROVE FALSE
      <4> HIDE DEF from, stop
      <4>1. QED
        BY <3>1
    <3>3. /\ uRow[p].from \in Nat /\ uRow[p].end \in Nat
          /\ uRow[p].state # "absent" /\ from < stop /\ uRow[p].from < stop
          /\ from < uRow[p].end /\ uRow[p].from < uRow[p].end
      <4> HIDE DEF from, stop
      <4>1. QED
        BY <1>1, <1>2, <3>1, <3>2, OverlapFacts
    <3>4. AppOf[p] = a /\ uRow[p].from < end /\ uRow[p].end > Usage!StartOf(uAsk.from)
      <4>1. AppOf[p] = a
        BY DEF Usage!PodsOf
      <4> HIDE DEF from, stop, end
      <4>2. QED
        BY <1>1, <1>2, <3>3, <4>1
    <3>5. ~Usage!Kept(p)
      BY <2>1, <3>1, <3>4 DEF Usage!InWindow, Usage!Listed
    <3>6. uRow[p].state = "expired"
      BY <3>1, <3>3, <3>5 DEF Usage!Kept, Usage!TypeOK
    <3>7. uRow[p].end <= uAsk.since - Retention
      <4>1. uRow[p].end < uNow - Retention
        BY <3>1, <3>6 DEF Usage!RowsAreReal
      <4>2. uNow <= uAsk.since + 1 /\ uAsk.since \in Nat /\ uNow \in Nat /\ Retention \in Nat
        BY WindowDays, DaysAreDays, RetentionFacts DEF Usage!QueryIsShort, Usage!TypeOK
      <4>3. QED
        BY <3>3, <4>1, <4>2
    <3>8. Usage!Overlap(p, from, to) > 0
      <4>1. from < to /\ uRow[p].from < to
        <5> HIDE DEF from, to, stop
        <5>1. QED
          BY <1>1, <1>2, <3>3
      <4> HIDE DEF from, to, stop
      <4>2. QED
        BY <1>1, <3>1, <3>3, <4>1, OverlapFacts
    <3>9. QED
      BY <1>1, <1>5, <3>1, <3>4, <3>6, <3>7, <3>8 DEF Usage!ExpiringIsRead, Usage!Over
  <2>2. /\ IsFiniteSet(pods) /\ \A p \in pods : f[p] \in Nat
        /\ Usage!Integrate(pods, from, stop) = SumFunctionOnSet(f, pods)
    <3> HIDE DEF pods, from, stop
    <3>1. QED
      BY <1>1, <1>2, <1>3, IntegrateFacts
  <2>3. /\ IsFiniteSet(live)
        /\ Usage!Integrate(live, from, stop) = SumFunctionOnSet(g, live)
    <3> HIDE DEF live, from, stop
    <3>1. QED
      BY <1>1, <1>2, <1>3, IntegrateFacts
  <2>4. SumFunctionOnSet(f, pods) = SumFunctionOnSet(f, live)
    <3>1. \A p \in pods \ live : f[p] = 0
      BY <2>1
    <3>2. \A p \in pods : f[p] \in Int
      BY <2>2
    <3> HIDE DEF f, pods, live
    <3>3. QED
      BY <1>3, <2>2, <3>1, <3>2, SumOfPart
  <2>5. SumFunctionOnSet(f, live) = SumFunctionOnSet(g, live)
    <3>1. \A p \in live : f[p] \in Int /\ f[p] = g[p]
      BY <1>3, <2>2
    <3> HIDE DEF f, g, live
    <3>2. QED
      BY <2>3, <3>1, SumSame
  <2>6. Usage!Answer(a, d) = Usage!Integrate(live, from, stop)
    BY <1>5 DEF Usage!Answer, Usage!Live
  <2>7. QED
    BY <2>2, <2>3, <2>4, <2>5, <2>6
<1>6. QED
  BY <1>4, <1>5

\* What is had from x to y and from y to z is what is had from x to z.
LEMMA IntegrateAdds ==
    ASSUME Usage!TypeOK, NEW pods \in SUBSET Pods, NEW x \in Int, NEW y \in Int, NEW z \in Int,
           x <= y, y <= z
    PROVE  Usage!Integrate(pods, x, z) = Usage!Integrate(pods, x, y) + Usage!Integrate(pods, y, z)
<1> DEFINE f == [p \in pods |-> Usage!Overlap(p, x, y)]
           g == [p \in pods |-> Usage!Overlap(p, y, z)]
           h == [p \in pods |-> Usage!Overlap(p, x, z)]
<1>1. /\ IsFiniteSet(pods) /\ Usage!Integrate(pods, x, y) = SumFunctionOnSet(f, pods)
      /\ Usage!Integrate(pods, y, z) = SumFunctionOnSet(g, pods)
      /\ Usage!Integrate(pods, x, z) = SumFunctionOnSet(h, pods)
  BY IntegrateFacts
<1>2. \A p \in pods : f[p] \in Int /\ g[p] \in Int /\ h[p] = f[p] + g[p]
  <2>1. ASSUME NEW p \in pods
        PROVE  /\ Usage!Overlap(p, x, y) \in Nat /\ Usage!Overlap(p, y, z) \in Nat
               /\ Usage!Overlap(p, x, z) = Usage!Overlap(p, x, y) + Usage!Overlap(p, y, z)
    <3>1. uRow[p].from \in Nat /\ uRow[p].end \in Nat
      BY OverlapFacts
    <3>2. QED
      BY <3>1 DEF Usage!Overlap, Usage!Most, Usage!Least
  <2>2. QED
    BY <2>1
<1>3. SumFunctionOnSet(h, pods) = SumFunctionOnSet(f, pods) + SumFunctionOnSet(g, pods)
  <2> HIDE DEF f, g, h
  <2>1. QED
    BY <1>1, <1>2, SumOfSums
<1>4. QED
  BY <1>1, <1>3

\* The days add up to what the pods had of the window.
LEMMA TotalIsExact ==
    ASSUME Usage!IInv, uAsk.at = "intervals", NEW a \in uAsk.apps,
           ~ \E d \in Usage!LiveDays : Usage!Outdated(a, d)
    PROVE  Usage!AppTotal(a)
             = Usage!Integrate(Usage!PodsOf(a), Usage!StartOf(uAsk.from), Usage!WindowEnd)
<1> DEFINE first == uAsk.from
           last  == Usage!Least(uAsk.to, uAsk.today)
           start == Usage!StartOf(first)
           end   == Usage!WindowEnd
           pods  == Usage!PodsOf(a)
           f     == [d \in Usage!LiveDays |-> Usage!Answer(a, d)]
<1>1. /\ last \in Nat /\ first \in Nat /\ start \in Int /\ end \in Int
      /\ Usage!LiveDays = first .. last
      /\ first > last => end <= start
  BY WindowFacts
<1>2. pods \in SUBSET Pods /\ Usage!TypeOK
  BY DEF Usage!PodsOf, Usage!IInv
<1>3. Usage!AppTotal(a) = SumFunctionOnSet(f, first .. last)
  <2>1. DOMAIN f = first .. last
    BY <1>1
  <2>2. Usage!AppTotal(a) = Usage!SumFunction(f)
    BY DEF Usage!AppTotal
  <2>3. QED
    <3> HIDE DEF f
    <3>1. QED
      BY <2>1, <2>2, UsageSums
<1>4. ASSUME NEW d \in first .. last
      PROVE  /\ d \in Nat /\ d \in Usage!LiveDays /\ Usage!StartOf(d) \in Int /\ Usage!EndOf(d) \in Int
             /\ start <= Usage!StartOf(d) /\ Usage!StartOf(d) <= Usage!EndOf(d)
             /\ d < last => Usage!EndOf(d) = Usage!StartOf(d + 1)
             /\ d = last => Usage!EndOf(d) = end
             /\ f[d] = Usage!Integrate(pods, Usage!StartOf(d), Usage!EndOf(d))
  <2>1. d \in Usage!LiveDays
    BY <1>1
  <2> DEFINE from == Usage!StartOf(d)
             to   == Usage!StartOf(d + 1)
  <2>2. /\ d \in Nat /\ from \in Int /\ to = from + DayLen /\ start <= from /\ from <= end
        /\ d < last => to <= end
        /\ d = last => end <= to
    BY <2>1, WindowFacts
  <2>3. DayLen \in Nat /\ DayLen > 0
    BY QueryAssumption
  <2>4. Usage!EndOf(d) = Usage!Least(to, end)
    BY DEF Usage!EndOf
  <2>5. f[d] = Usage!Integrate(pods, from, Usage!EndOf(d))
    BY <2>1, DayIsExact
  <2> HIDE DEF from, to, start, end, f, pods, last
  <2>6. /\ Usage!EndOf(d) \in Int /\ from <= Usage!EndOf(d)
        /\ d < last => Usage!EndOf(d) = to
        /\ d = last => Usage!EndOf(d) = end
    BY <1>1, <2>2, <2>3, <2>4 DEF Usage!Least
  <2>7. QED
    BY <2>1, <2>2, <2>5, <2>6 DEF from, to
<1>5. CASE first > last
  <2> DEFINE g == [p \in pods |-> Usage!Overlap(p, start, end)]
  <2>1. first .. last = {}
    BY <1>1, <1>5
  <2>2. Usage!AppTotal(a) = 0
    <3> HIDE DEF f, first, last
    <3>1. QED
      BY <1>3, <2>1, SumOfNothing
  <2>3. /\ IsFiniteSet(pods) /\ \A p \in pods : g[p] \in Nat
        /\ Usage!Integrate(pods, start, end) = SumFunctionOnSet(g, pods)
    <3> HIDE DEF pods, start, end
    <3>1. QED
      BY <1>1, <1>2, IntegrateFacts
  <2>4. \A p \in pods : g[p] = 0
    <3>1. ASSUME NEW p \in pods PROVE Usage!Overlap(p, start, end) = 0
      <4> HIDE DEF pods, start, end, first, last
      <4>1. p \in Pods /\ end <= start
        BY <1>1, <1>2, <1>5
      <4>2. /\ Usage!Overlap(p, start, end) \in Nat
            /\ Usage!Overlap(p, start, end) > 0 => start < end
        BY <1>1, <1>2, <4>1, OverlapFacts
      <4>3. QED
        BY <1>1, <4>1, <4>2
    <3>2. QED
      BY <3>1
  <2>5. SumFunctionOnSet(g, pods) = SumFunctionOnSet(g, {})
    <3> HIDE DEF g, pods
    <3>1. QED
      BY <2>3, <2>4, SumOfPart
  <2>6. QED
    BY <2>2, <2>3, <2>5, SumOfNothing
<1>6. CASE first <= last
  <2> DEFINE Right(n) == SumFunctionOnSet(f, first .. n) = Usage!Integrate(pods, start, Usage!EndOf(n))
             Wrong == {n \in first .. last : ~Right(n)}
  <2>1. ASSUME NEW n \in first .. last
        PROVE  /\ SumFunctionOnSet(f, first .. (n - 1)) \in Int
               /\ SumFunctionOnSet(f, first .. n) = SumFunctionOnSet(f, first .. (n - 1)) + f[n]
    <3>1. n \in Int /\ first <= n /\ first \in Int
      BY <1>1, <2>1
    <3>2. \A d \in first .. n : f[d] \in Int
      <4>1. ASSUME NEW d \in first .. n PROVE f[d] \in Int
        <5>1. d \in first .. last
          BY <1>1, <2>1, <4>1
        <5>2. /\ Usage!StartOf(d) \in Int /\ Usage!EndOf(d) \in Int
              /\ f[d] = Usage!Integrate(pods, Usage!StartOf(d), Usage!EndOf(d))
          BY <1>4, <5>1
        <5> HIDE DEF f, pods
        <5>3. QED
          BY <1>2, <5>2, IntegrateFacts
      <4>2. QED
        BY <4>1
    <3> HIDE DEF f, first
    <3>3. QED
      BY <3>1, <3>2, SumOfDays
  <2>2. SUFFICES ASSUME Wrong # {} PROVE FALSE
    <3>1. last \in first .. last
      BY <1>1, <1>6
    <3>2. Right(last)
      BY <2>2, <3>1
    <3>3. Usage!EndOf(last) = end
      BY <1>4, <3>1
    <3> HIDE DEF f, pods, start, end, first, last
    <3>4. QED
      BY <1>3, <3>2, <3>3 DEF pods, start, end, first
  <2>3. PICK n \in Wrong : \A m \in Wrong : n <= m
    <3>1. Wrong \in SUBSET Nat
      BY <1>1
    <3> HIDE DEF Wrong
    <3>2. QED
      BY <2>2, <3>1, LeastOf
  <2>4. n \in first .. last /\ n \in Nat
    BY <1>1
  <2>5. CASE n = first
    <3>1. first .. (n - 1) = {}
      BY <1>1, <2>5
    <3>2. SumFunctionOnSet(f, first .. n) = f[n]
      <4>1. SumFunctionOnSet(f, first .. (n - 1)) = 0
        BY <3>1, SumOfNothing
      <4>2. SumFunctionOnSet(f, first .. n) = 0 + f[n] /\ f[n] \in Int
        <5>1. f[n] = Usage!Integrate(pods, Usage!StartOf(n), Usage!EndOf(n))
              /\ Usage!StartOf(n) \in Int /\ Usage!EndOf(n) \in Int
          BY <1>4, <2>4
        <5>2. f[n] \in Int
          <6> HIDE DEF f, pods
          <6>1. QED
            BY <1>2, <5>1, IntegrateFacts
        <5>3. QED
          BY <2>1, <2>4, <4>1, <5>2
      <4> HIDE DEF f
      <4>3. QED
        BY <4>2
    <3>3. f[n] = Usage!Integrate(pods, start, Usage!EndOf(n))
      BY <1>4, <2>4, <2>5
    <3>4. QED
      BY <2>3, <3>2, <3>3
  <2>6. CASE n # first
    <3> DEFINE m == n - 1
    <3>1. m \in first .. last /\ m < last /\ m + 1 = n /\ m \in Nat /\ m < n
      BY <1>1, <2>4, <2>6
    <3>2. Right(m)
      <4>1. m \notin Wrong
        <5> HIDE DEF Wrong
        <5>1. QED
          BY <2>3, <2>4, <3>1
      <4>2. QED
        BY <3>1, <4>1
    <3>3. Usage!EndOf(m) = Usage!StartOf(n)
      BY <1>4, <3>1
    <3>4. /\ Usage!StartOf(n) \in Int /\ Usage!EndOf(n) \in Int
          /\ start <= Usage!StartOf(n) /\ Usage!StartOf(n) <= Usage!EndOf(n)
          /\ f[n] = Usage!Integrate(pods, Usage!StartOf(n), Usage!EndOf(n))
      BY <1>4, <2>4
    <3>5. Usage!Integrate(pods, start, Usage!EndOf(n))
            = Usage!Integrate(pods, start, Usage!StartOf(n))
                + Usage!Integrate(pods, Usage!StartOf(n), Usage!EndOf(n))
      <4> HIDE DEF pods, start, f
      <4>1. QED
        BY <1>1, <1>2, <3>4, IntegrateAdds
    <3>6. SumFunctionOnSet(f, first .. n) = SumFunctionOnSet(f, first .. m) + f[n]
      BY <2>1, <2>4
    <3>7. Right(n)
      BY <3>2, <3>3, <3>4, <3>5, <3>6
    <3>8. QED
      BY <2>3, <3>7
  <2>7. QED
    BY <2>5, <2>6
<1>7. QED
  BY <1>1, <1>5, <1>6

LEMMA UsageIsExact == Usage!IInv => Usage!AnswersAreExact
<1> SUFFICES ASSUME Usage!IInv, uAsk.at = "intervals", NEW a \in uAsk.apps
             PROVE  /\ \A d \in Usage!LiveDays :
                         \/ Usage!Answer(a, d)
                              = Usage!Integrate(Usage!PodsOf(a), Usage!StartOf(d), Usage!EndOf(d))
                         \/ Usage!Outdated(a, d)
                    /\ \/ Usage!AppTotal(a)
                            = Usage!Integrate(Usage!PodsOf(a), Usage!StartOf(uAsk.from), Usage!WindowEnd)
                       \/ \E d \in Usage!LiveDays : Usage!Outdated(a, d)
  BY DEF Usage!AnswersAreExact
<1>1. QED
  BY DayIsExact, TotalIsExact

-----------------------------------------------------------------------------
(* What is observed.                                                        *)

-----------------------------------------------------------------------------
\* The samples bring the sums of functions with them.
LEMMA SampleSums ==
    ASSUME NEW f, NEW S
    PROVE  /\ Observed!SumFunction(f) = SumFunctionOnSet(f, DOMAIN f)
           /\ Observed!SumFunctionOnSet(f, S) = SumFunctionOnSet(f, S)
BY DEF Observed!SumFunction, Observed!SumFunctionOnSet, Observed!FoldFunctionOnSet, Observed!MapThenFoldSet,
       SumFunctionOnSet, FoldFunctionOnSet, MapThenFoldSet

LEMMA SampleFinite == ASSUME NEW S PROVE Observed!IsFiniteSet(S) <=> IsFiniteSet(S)
BY DEF Observed!IsFiniteSet, IsFiniteSet

LEMMA ReadingsFacts ==
    /\ \A u \in Observed!Readings : DOMAIN u \in SUBSET SampledPods /\ \A p \in DOMAIN u : u[p] \in Nat
    /\ \A S \in SUBSET SampledPods : [S -> Nat] \subseteq Observed!Readings
    /\ Observed!Nothing \in Observed!Readings /\ DOMAIN Observed!Nothing = {}
<1>1. ASSUME NEW u \in Observed!Readings
      PROVE  DOMAIN u \in SUBSET SampledPods /\ \A p \in DOMAIN u : u[p] \in Nat
  <2>1. PICK S \in SUBSET SampledPods : u \in [S -> Nat]
    BY DEF Observed!Readings
  <2>2. QED
    BY <2>1
<1>2. ASSUME NEW S \in SUBSET SampledPods PROVE [S -> Nat] \subseteq Observed!Readings
  BY DEF Observed!Readings
<1>3. Observed!Nothing \in [{} -> Nat] /\ {} \in SUBSET SampledPods /\ DOMAIN Observed!Nothing = {}
  BY DEF Observed!Nothing
<1>4. QED
  BY <1>1, <1>2, <1>3

LEMMA ObservedInit == Observed!Init => Observed!TypeOK
<1> SUFFICES ASSUME Observed!Init PROVE Observed!TypeOK
  OBVIOUS
<1>1. 0 \in Observed!Times
  BY SamplesAssumption DEF Observed!Times
<1>2. IsFiniteSet({})
  BY FS_EmptySet
<1>3. DOMAIN oSamples = {}
  BY ReadingsFacts DEF Observed!Init
<1>4. oSampler \in [Samplers -> [at : {"idle", "pods", "refs", "write", "expire"},
                                 usage : Observed!Readings, refs : SUBSET Sampled]]
  BY ReadingsFacts DEF Observed!Init, Observed!Resting
<1>5. QED
  BY <1>1, <1>2, <1>3, <1>4, SampleFinite DEF Observed!Init, Observed!TypeOK

\* A part of the table is a table.
LEMMA TableOfPart ==
    ASSUME Observed!TypeOK, NEW S \in SUBSET DOMAIN oSamples
    PROVE  /\ DOMAIN Observed!Restrict(oSamples, S) = S
           /\ S \in SUBSET Observed!Rows /\ IsFiniteSet(S)
           /\ \A x \in S : /\ Observed!Restrict(oSamples, S)[x] = oSamples[x]
                           /\ oSamples[x] \in Nat \ {0}
                           /\ x.cpu \in Nat /\ x.at \in Nat
<1>1. DOMAIN oSamples \in SUBSET Observed!Rows /\ IsFiniteSet(DOMAIN oSamples)
  BY SampleFinite DEF Observed!TypeOK
<1>2. IsFiniteSet(S)
  BY <1>1, FS_Subset
<1>3. \A x \in S : x.cpu \in Nat /\ x.at \in Nat
  BY <1>1, SamplesAssumption DEF Observed!Rows, Observed!Times
<1>4. QED
  BY <1>1, <1>2, <1>3 DEF Observed!Restrict, Observed!TypeOK

\* What a tick files is one row for each of finitely many apps.
LEMMA FiledRows ==
    ASSUME Observed!TypeOK, NEW s \in Samplers
    PROVE  Observed!AggregateSamples(s) \in SUBSET Observed!Rows
           /\ IsFiniteSet(Observed!AggregateSamples(s))
<1> DEFINE usage == oSampler[s].usage
           of(a) == {p \in DOMAIN usage : SampledAppOf[p] = a}
           seen  == {b \in oSampler[s].refs : of(b) # {}}
           rowOf == [a \in seen |-> [app |-> a, at |-> oNow,
                                     cpu |-> Observed!SumFunctionOnSet(usage, of(a))]]
           rows  == {rowOf[a] : a \in seen}
<1>1. /\ usage \in Observed!Readings /\ oSampler[s].refs \in SUBSET Sampled /\ oNow \in Observed!Times
  BY DEF Observed!TypeOK
<1>2. DOMAIN usage \in SUBSET SampledPods /\ \A p \in DOMAIN usage : usage[p] \in Nat
  BY <1>1, ReadingsFacts
<1>3. ASSUME NEW a \in seen PROVE Observed!SumFunctionOnSet(usage, of(a)) \in Nat
  <2>1. of(a) \in SUBSET DOMAIN usage
    OBVIOUS
  <2>2. IsFiniteSet(of(a)) /\ \A p \in of(a) : usage[p] \in Nat
    <3> HIDE DEF usage, of
    <3>1. IsFiniteSet(SampledPods)
      BY SamplesAssumption
    <3>2. QED
      BY <1>2, <2>1, <3>1, FS_Subset
  <2> DEFINE T == of(a)
             u == usage
  <2>3. SumFunctionOnSet(u, T) \in Nat
    <3> HIDE DEF u, T
    <3>1. IsFiniteSet(T) /\ \A p \in T : u[p] \in Nat
      BY <2>2 DEF u, T
    <3>2. QED
      BY <3>1, SumIsNat
  <2>4. QED
    BY <2>3, SampleSums
<1>4. rowOf \in [seen -> rows]
  OBVIOUS
<1>5. rows \in SUBSET Observed!Rows
  <2> SUFFICES ASSUME NEW a \in seen PROVE rowOf[a] \in Observed!Rows
    OBVIOUS
  <2>1. a \in Sampled
    BY <1>1
  <2> DEFINE cpu == Observed!SumFunctionOnSet(usage, of(a))
  <2>2. cpu \in Nat /\ rowOf[a] = [app |-> a, at |-> oNow, cpu |-> cpu]
    BY <1>3
  <2> HIDE DEF cpu, rowOf
  <2>3. QED
    BY <1>1, <2>1, <2>2 DEF Observed!Rows
<1>6. IsFiniteSet(seen)
  <2>1. seen \in SUBSET Sampled /\ IsFiniteSet(Sampled)
    BY <1>1, SamplesAssumption
  <2>2. QED
    BY <2>1, FS_Subset
<1>7. rowOf \in Surjection(seen, rows)
  <2> HIDE DEF seen, rowOf
  <2>1. QED
    BY <1>4 DEF Surjection
<1>8. IsFiniteSet(rows)
  <2> HIDE DEF seen, rows, rowOf
  <2>1. QED
    BY <1>6, <1>7, FS_Surjection
<1>9. Observed!AggregateSamples(s) = rows
  BY DEF Observed!AggregateSamples
<1>10. QED
  BY <1>5, <1>8, <1>9

LEMMA ObservedStep == Observed!TypeOK /\ Observed!Next => Observed!TypeOK'
<1> SUFFICES ASSUME Observed!TypeOK, Observed!Next PROVE Observed!TypeOK'
  OBVIOUS
<1> DEFINE Samples == [Samplers -> [at : {"idle", "pods", "refs", "write", "expire"},
                                    usage : Observed!Readings, refs : SUBSET Sampled]]
           Table(B) == /\ DOMAIN B \in SUBSET Observed!Rows /\ IsFiniteSet(DOMAIN B)
                       /\ \A x \in DOMAIN B : B[x] \in Nat \ {0}
<1>1. /\ oNow \in Observed!Times /\ oApps \in SUBSET Sampled /\ oSampler \in Samples /\ Table(oSamples)
  BY SampleFinite DEF Observed!TypeOK
<1>2. SUFFICES oNow' \in Observed!Times /\ oApps' \in SUBSET Sampled /\ oSampler' \in Samples /\ Table(oSamples')
  BY SampleFinite DEF Observed!TypeOK
<1>3. ASSUME NEW S \in SUBSET DOMAIN oSamples PROVE Table(Observed!Restrict(oSamples, S))
  BY TableOfPart
<1>4. CASE Observed!Tick
  BY <1>1, <1>4, SamplesAssumption DEF Observed!Tick, Observed!Times
<1>5. CASE \E a \in Sampled : Observed!DeleteAppByID(a)
  <2>1. PICK a \in Sampled : Observed!DeleteAppByID(a)
    BY <1>5
  <2> DEFINE S == {x \in DOMAIN oSamples : x.app # a}
  <2>2. oSamples' = Observed!Restrict(oSamples, S) /\ S \in SUBSET DOMAIN oSamples
    BY <2>1 DEF Observed!DeleteAppByID
  <2>3. Table(oSamples')
    <3> HIDE DEF Table, S
    <3>1. QED
      BY <1>3, <2>2
  <2>4. QED
    BY <1>1, <2>1, <2>3 DEF Observed!DeleteAppByID
<1>6. CASE \E p \in SampledPods : Observed!PodStarts(p) \/ Observed!PodGoes(p)
  BY <1>1, <1>6 DEF Observed!PodStarts, Observed!PodGoes
<1>7. CASE \E s \in Samplers : Observed!ListPodUsage(s)
  <2>1. PICK s \in Samplers, scraped \in SUBSET Observed!Running : \E usage \in [scraped -> Loads] :
           /\ oSampler' = [oSampler EXCEPT ![s] = [Observed!Resting EXCEPT !.at = "pods", !.usage = usage]]
           /\ UNCHANGED <<oNow, oApps, oPod, oSamples>>
    BY <1>7 DEF Observed!ListPodUsage
  <2>2. PICK usage \in [scraped -> Loads] :
           /\ oSampler' = [oSampler EXCEPT ![s] = [Observed!Resting EXCEPT !.at = "pods", !.usage = usage]]
           /\ UNCHANGED <<oNow, oApps, oPod, oSamples>>
    BY <2>1
  <2>3. usage \in Observed!Readings
    <3>1. scraped \in SUBSET SampledPods /\ usage \in [scraped -> Nat]
      BY SamplesAssumption DEF Observed!Running
    <3>2. QED
      BY <3>1, ReadingsFacts
  <2>4. oSampler' \in Samples
    BY <1>1, <2>2, <2>3 DEF Observed!Resting
  <2>5. QED
    BY <1>1, <2>2, <2>4
<1>8. CASE \E s \in Samplers : Observed!ListManagedPods(s)
  <2>1. PICK s \in Samplers : Observed!ListManagedPods(s)
    BY <1>8
  <2> DEFINE old == oSampler[s].usage
             S   == DOMAIN old \cap Observed!Running
  <2>2. /\ oSampler' = [oSampler EXCEPT ![s].at = "refs", ![s].usage = Observed!Restrict(old, S)]
        /\ UNCHANGED <<oNow, oApps, oPod, oSamples>>
    BY <1>1, <2>1 DEF Observed!ListManagedPods
  <2>3. DOMAIN old \in SUBSET SampledPods /\ \A p \in DOMAIN old : old[p] \in Nat
    BY <1>1, ReadingsFacts
  <2>4. Observed!Restrict(old, S) \in Observed!Readings
    <3>1. S \in SUBSET SampledPods /\ Observed!Restrict(old, S) \in [S -> Nat]
      BY <2>3 DEF Observed!Restrict
    <3> HIDE DEF S, old
    <3>2. QED
      BY <3>1, ReadingsFacts
  <2>5. oSampler' \in Samples
    <3> HIDE DEF S, old
    <3>1. QED
      BY <1>1, <2>2, <2>4
  <2>6. QED
    BY <1>1, <2>2, <2>5
<1>9. CASE \E s \in Samplers : Observed!ListAppRefs(s)
  <2>1. PICK s \in Samplers : Observed!ListAppRefs(s)
    BY <1>9
  <2>2. oSampler' = [oSampler EXCEPT ![s] = [oSampler[s] EXCEPT !.at = "write", !.refs = oApps]]
    BY <1>1, <2>1 DEF Observed!ListAppRefs
  <2>3. [oSampler[s] EXCEPT !.at = "write", !.refs = oApps]
            \in [at : {"idle", "pods", "refs", "write", "expire"},
                usage : Observed!Readings, refs : SUBSET Sampled]
    BY <1>1
  <2>4. oSampler' \in Samples
    BY <1>1, <2>2, <2>3
  <2>5. QED
    BY <1>1, <2>1, <2>4 DEF Observed!ListAppRefs
<1>10. CASE \E s \in Samplers : Observed!InsertUsageSamples(s)
  <2>1. PICK s \in Samplers : Observed!InsertUsageSamples(s)
    BY <1>10
  <2> DEFINE rows == Observed!AggregateSamples(s)
  <2>2. /\ oSamples' = Observed!Filed(oSamples, rows)
        /\ oSampler' = [oSampler EXCEPT ![s] = [Observed!Resting EXCEPT !.at = "expire"]]
        /\ UNCHANGED <<oNow, oApps, oPod>>
    BY <2>1 DEF Observed!InsertUsageSamples
  <2>3. rows \in SUBSET Observed!Rows /\ IsFiniteSet(rows)
    BY FiledRows
  <2> HIDE DEF rows
  <2>4. DOMAIN oSamples' = DOMAIN oSamples \cup rows
    BY <2>2 DEF Observed!Filed
  <2>5. \A x \in DOMAIN oSamples' : oSamples'[x] \in Nat \ {0}
    <3> SUFFICES ASSUME NEW x \in DOMAIN oSamples \cup rows PROVE oSamples'[x] \in Nat \ {0}
      BY <2>4
    <3>1. oSamples'[x] = (IF x \in DOMAIN oSamples THEN oSamples[x] ELSE 0) + (IF x \in rows THEN 1 ELSE 0)
      BY <2>2 DEF Observed!Filed
    <3>2. x \in DOMAIN oSamples => oSamples[x] \in Nat \ {0}
      BY <1>1
    <3>3. x \in DOMAIN oSamples \/ x \in rows
      OBVIOUS
    <3>4. QED
      BY <3>1, <3>2, <3>3
  <2>6. IsFiniteSet(DOMAIN oSamples')
    <3>1. IsFiniteSet(DOMAIN oSamples) /\ IsFiniteSet(rows)
      BY <1>1, <2>3
    <3>2. IsFiniteSet(DOMAIN oSamples \cup rows)
      BY <3>1, FS_Union
    <3>3. QED
      BY <2>4, <3>2
  <2>7. oSampler' \in Samples
    BY <1>1, <2>2, ReadingsFacts DEF Observed!Resting
  <2>8. QED
    BY <1>1, <2>2, <2>3, <2>4, <2>5, <2>6, <2>7
<1>11. CASE \E s \in Samplers : Observed!DeleteUsageSamplesBefore(s)
  <2>1. PICK s \in Samplers : Observed!DeleteUsageSamplesBefore(s)
    BY <1>11
  <2> DEFINE S == {x \in DOMAIN oSamples : x.at >= oNow - SampleRetention}
  <2>2. oSamples' = Observed!Restrict(oSamples, S) /\ S \in SUBSET DOMAIN oSamples
    BY <2>1 DEF Observed!DeleteUsageSamplesBefore, Observed!UsageSamplesSince
  <2>3. Table(oSamples')
    <3> HIDE DEF Table, S
    <3>1. QED
      BY <1>3, <2>2
  <2>4. oSampler' \in Samples
    BY <1>1, <2>1, ReadingsFacts DEF Observed!DeleteUsageSamplesBefore, Observed!Resting
  <2>5. QED
    BY <1>1, <2>1, <2>3, <2>4 DEF Observed!DeleteUsageSamplesBefore
<1>12. CASE \E s \in Samplers : Observed!Fails(s)
  BY <1>1, <1>12, ReadingsFacts DEF Observed!Fails, Observed!Resting
<1>13. QED
  BY <1>4, <1>5, <1>6, <1>7, <1>8, <1>9, <1>10, <1>11, <1>12 DEF Observed!Next

-----------------------------------------------------------------------------
\* Division rounds down.
LEMMA DivFacts ==
    ASSUME NEW x \in Int, NEW y \in Int, y > 0
    PROVE  x \div y \in Int /\ y * (x \div y) <= x /\ x < y * (x \div y) + y
BY SMT

\* The rounding of a day: half away from its mean at most.
LEMMA DayRounds ==
    ASSUME NEW t \in Int, NEW n \in Int, n > 0
    PROVE  /\ (2 * t + n) \div (2 * n) \in Int
           /\ 2 * (((2 * t + n) \div (2 * n)) * n) <= 2 * t + n
           /\ 2 * t - n <= 2 * (((2 * t + n) \div (2 * n)) * n)
<1> DEFINE avg == (2 * t + n) \div (2 * n)
<1>1. avg \in Int /\ (2 * n) * avg <= 2 * t + n /\ 2 * t + n < (2 * n) * avg + 2 * n
  BY DivFacts
<1> HIDE DEF avg
<1>2. (2 * n) * avg = 2 * (avg * n)
  BY <1>1
<1>3. avg * n \in Int
  BY <1>1
<1>4. QED
  BY <1>1, <1>2, <1>3 DEF avg

\* The mean of the days' rounded means, weighted by their samples, is the mean
\* of the samples but for the two roundings.
LEMMA MeanOfDays ==
    ASSUME NEW D, IsFiniteSet(D), NEW count, NEW total, NEW weighted,
           \A d \in D : /\ count[d] \in Int /\ count[d] > 0 /\ total[d] \in Int
                        /\ weighted[d] = ((2 * total[d] + count[d]) \div (2 * count[d])) * count[d],
           NEW n \in Int, n > 0, n = SumFunctionOnSet(count, D),
           NEW t \in Int, t = SumFunctionOnSet(total, D)
    PROVE  /\ 2 * n * (SumFunctionOnSet(weighted, D) \div n) <= 2 * t + n
           /\ 2 * n * (SumFunctionOnSet(weighted, D) \div n) > 2 * t - 3 * n
<1> DEFINE w     == SumFunctionOnSet(weighted, D)
           twice == [d \in D |-> weighted[d] + weighted[d]]
           both  == [d \in D |-> total[d] + total[d]]
           high  == [d \in D |-> both[d] + count[d]]
           low   == [d \in D |-> both[d] - count[d]]
<1>1. \A d \in D : /\ weighted[d] \in Int
                   /\ twice[d] \in Int /\ both[d] \in Int /\ high[d] \in Int /\ low[d] \in Int
                   /\ low[d] <= twice[d] /\ twice[d] <= high[d]
                   /\ twice[d] = weighted[d] + weighted[d] /\ both[d] = total[d] + total[d]
                   /\ high[d] = both[d] + count[d] /\ both[d] = low[d] + count[d]
  <2> SUFFICES ASSUME NEW d \in D
               PROVE  /\ weighted[d] \in Int
                      /\ low[d] <= twice[d] /\ twice[d] <= high[d]
    OBVIOUS
  <2> DEFINE c == count[d]
             s == total[d]
             avg == (2 * s + c) \div (2 * c)
  <2>1. c \in Int /\ c > 0 /\ s \in Int /\ weighted[d] = avg * c
    OBVIOUS
  <2>2. avg \in Int /\ 2 * (avg * c) <= 2 * s + c /\ 2 * s - c <= 2 * (avg * c)
    <3> HIDE DEF c, s
    <3>1. QED
      BY <2>1, DayRounds
  <2>3. twice[d] = weighted[d] + weighted[d] /\ high[d] = s + s + c /\ low[d] = s + s - c
    OBVIOUS
  <2> HIDE DEF c, s, avg, twice, high, low
  <2>4. avg * c \in Int
    BY <2>1, <2>2
  <2>5. QED
    BY <2>1, <2>2, <2>3, <2>4
<1> HIDE DEF twice, both, high, low
<1>2. /\ w \in Int /\ SumFunctionOnSet(both, D) \in Int
      /\ SumFunctionOnSet(twice, D) \in Int /\ SumFunctionOnSet(low, D) \in Int
      /\ SumFunctionOnSet(high, D) \in Int
  BY <1>1, SumIsInt
<1>3. SumFunctionOnSet(twice, D) = w + w
  BY <1>1, SumOfSums
<1>4. SumFunctionOnSet(both, D) = t + t
  BY <1>1, SumOfSums
<1>5. SumFunctionOnSet(high, D) = SumFunctionOnSet(both, D) + n
  BY <1>1, SumOfSums
<1>6. SumFunctionOnSet(both, D) = SumFunctionOnSet(low, D) + n
  BY <1>1, SumOfSums
<1>7. SumFunctionOnSet(low, D) <= SumFunctionOnSet(twice, D)
  BY <1>1, SumOrdered
<1>8. SumFunctionOnSet(twice, D) <= SumFunctionOnSet(high, D)
  BY <1>1, SumOrdered
<1>9. 2 * w <= 2 * t + n /\ 2 * t - n <= 2 * w
  BY <1>2, <1>3, <1>4, <1>5, <1>6, <1>7, <1>8
<1> HIDE DEF w
<1>10. w \div n \in Int /\ n * (w \div n) <= w /\ w < n * (w \div n) + n
  BY <1>2, DivFacts
<1> DEFINE m == w \div n
<1>11. 2 * n * m = 2 * (n * m) /\ n * m \in Int
  BY <1>10
<1>12. 2 * n * m <= 2 * t + n /\ 2 * n * m > 2 * t - 3 * n
  <2> HIDE DEF m
  <2>1. m \in Int /\ n * m <= w /\ w < n * m + n
    BY <1>10 DEF m
  <2>2. QED
    BY <1>2, <1>9, <1>11, <2>1
<1>13. QED
  BY <1>12 DEF w

-----------------------------------------------------------------------------
\* The greatest of a finite set of integers.
LEMMA SampleMax ==
    ASSUME NEW S \in SUBSET Int, IsFiniteSet(S), S # {}
    PROVE  Observed!Max(S) \in S /\ \A n \in S : Observed!Max(S) >= n
BY GreatestOf DEF Observed!Max

LEMMA ImageFinite ==
    ASSUME NEW S, IsFiniteSet(S), NEW f, DOMAIN f = S
    PROVE  IsFiniteSet({f[x] : x \in S})
<1> DEFINE T == {f[x] : x \in S}
           g == [x \in S |-> f[x]]
<1>1. g \in Surjection(S, T)
  BY DEF Surjection
<1>2. QED
  BY <1>1, FS_Surjection

\* The peak of a set of samples is one of theirs and the greatest of them.
LEMMA PeakOf ==
    ASSUME NEW B, IsFiniteSet(DOMAIN B), DOMAIN B # {}, \A x \in DOMAIN B : x.cpu \in Nat
    PROVE  /\ \E x \in DOMAIN B : Observed!Peak(B) = x.cpu
           /\ \A x \in DOMAIN B : Observed!Peak(B) >= x.cpu
<1> DEFINE cpu == [x \in DOMAIN B |-> x.cpu]
           S   == {x.cpu : x \in DOMAIN B}
<1>1. S = {cpu[x] : x \in DOMAIN B}
  OBVIOUS
<1>2. IsFiniteSet(S)
  <2> HIDE DEF S
  <2>1. IsFiniteSet({cpu[x] : x \in DOMAIN B})
    BY ImageFinite
  <2>2. QED
    BY <1>1, <2>1
<1>3. S \in SUBSET Int /\ S # {}
  OBVIOUS
<1>4. Observed!Max(S) \in S /\ \A n \in S : Observed!Max(S) >= n
  <2> HIDE DEF S
  <2>1. QED
    BY <1>2, <1>3, SampleMax
<1>5. Observed!Peak(B) = Observed!Max(S)
  BY DEF Observed!Peak
<1>6. QED
  BY <1>4, <1>5

\* Those of some samples that were taken on a day, and what they weigh.
OnDay(B, d) == {x \in DOMAIN B : x.at \div SampleDay = d}
CpuOf(B)    == [x \in DOMAIN B |-> x.cpu * B[x]]

\* The samples of a day are those of the window that were taken on it.
LEMMA DayOfWindow ==
    ASSUME Observed!TypeOK, NEW a, NEW from \in Int, NEW to \in Int
    PROVE  /\ IsFiniteSet(DOMAIN Observed!OfDays(a, from, to))
           /\ \A x \in DOMAIN Observed!OfDays(a, from, to) :
                /\ Observed!OfDays(a, from, to)[x] = oSamples[x]
                /\ oSamples[x] \in Nat \ {0} /\ x.cpu \in Nat
                /\ x.at \div SampleDay \in Int
                /\ DOMAIN Observed!OfDays(a, x.at \div SampleDay, x.at \div SampleDay)
                      = OnDay(Observed!OfDays(a, from, to), x.at \div SampleDay)
<1> DEFINE In(f, t) == {x \in DOMAIN oSamples : x.app = a /\ x.at \div SampleDay \in f .. t}
<1>1. \A f, t : /\ DOMAIN Observed!OfDays(a, f, t) = In(f, t)
                /\ In(f, t) \in SUBSET Observed!Rows /\ IsFiniteSet(In(f, t))
                /\ \A x \in In(f, t) : /\ Observed!OfDays(a, f, t)[x] = oSamples[x]
                                       /\ oSamples[x] \in Nat \ {0}
                                       /\ x.cpu \in Nat /\ x.at \in Nat
  <2> SUFFICES ASSUME NEW f, NEW t
               PROVE  /\ DOMAIN Observed!OfDays(a, f, t) = In(f, t)
                      /\ In(f, t) \in SUBSET Observed!Rows /\ IsFiniteSet(In(f, t))
                      /\ \A x \in In(f, t) : /\ Observed!OfDays(a, f, t)[x] = oSamples[x]
                                             /\ oSamples[x] \in Nat \ {0}
                                             /\ x.cpu \in Nat /\ x.at \in Nat
    OBVIOUS
  <2> DEFINE S == In(f, t)
  <2>1. S \in SUBSET DOMAIN oSamples /\ Observed!OfDays(a, f, t) = Observed!Restrict(oSamples, S)
    BY DEF Observed!OfDays
  <2> HIDE DEF S
  <2>2. /\ DOMAIN Observed!Restrict(oSamples, S) = S
        /\ S \in SUBSET Observed!Rows /\ IsFiniteSet(S)
        /\ \A x \in S : /\ Observed!Restrict(oSamples, S)[x] = oSamples[x]
                        /\ oSamples[x] \in Nat \ {0}
                        /\ x.cpu \in Nat /\ x.at \in Nat
    BY <2>1, TableOfPart
  <2>3. QED
    BY <2>1, <2>2 DEF S
<1>2. \A x \in In(from, to) : x.at \div SampleDay \in Int
  <2>1. \A t \in Nat : t \div SampleDay \in Int
    BY SamplesAssumption, DivFacts
  <2>2. \A x \in In(from, to) : x.at \in Nat
    BY <1>1
  <2> HIDE DEF In
  <2>3. QED
    BY <2>1, <2>2
<1>3. ASSUME NEW x \in In(from, to)
      PROVE  In(x.at \div SampleDay, x.at \div SampleDay)
                = {y \in In(from, to) : y.at \div SampleDay = x.at \div SampleDay}
  <2> DEFINE d == x.at \div SampleDay
  <2>1. d \in Int /\ d \in from .. to
    BY <1>2
  <2> HIDE DEF d
  <2>2. \A e : e \in d .. d <=> e = d
    BY <2>1
  <2>3. In(d, d) = {y \in In(from, to) : y.at \div SampleDay = d}
    BY <2>1, <2>2
  <2>4. QED
    BY <2>3 DEF d
<1> DEFINE B == Observed!OfDays(a, from, to)
<1>4. /\ DOMAIN B = In(from, to) /\ IsFiniteSet(DOMAIN B)
      /\ \A x \in DOMAIN B : /\ B[x] = oSamples[x] /\ oSamples[x] \in Nat \ {0} /\ x.cpu \in Nat
                             /\ x.at \div SampleDay \in Int
  <2> HIDE DEF In
  <2>1. QED
    BY <1>1, <1>2
<1>5. \A x \in DOMAIN B : DOMAIN Observed!OfDays(a, x.at \div SampleDay, x.at \div SampleDay)
                            = OnDay(B, x.at \div SampleDay)
  <2> HIDE DEF In, B
  <2>1. QED
    BY <1>1, <1>3, <1>4 DEF OnDay
<1>6. QED
  BY <1>4, <1>5

\* A sum of positive numbers, of which there is one, is positive.
LEMMA SumIsPositive ==
    ASSUME NEW S, IsFiniteSet(S), S # {}, NEW f, \A x \in S : f[x] \in Nat \ {0}
    PROVE  SumFunctionOnSet(f, S) \in Nat \ {0}
<1>1. PICK x : x \in S
  OBVIOUS
<1>2. SumFunctionOnSet(f, S) = f[x] + SumFunctionOnSet(f, S \ {x})
  <2> DEFINE T == S \ {x}
  <2>1. \A y \in S : f[y] \in Int
    OBVIOUS
  <2>2. T \in SUBSET S /\ x \notin T /\ S = T \cup {x}
    BY <1>1
  <2> HIDE DEF T
  <2>3. /\ SumFunctionOnSet(f, T) \in Int
        /\ SumFunctionOnSet(f, T \cup {x}) = SumFunctionOnSet(f, T) + f[x]
    BY <1>1, <2>1, <2>2, SumWith
  <2>4. f[x] \in Int
    BY <1>1, <2>1
  <2>5. SumFunctionOnSet(f, S) = f[x] + SumFunctionOnSet(f, T)
    BY <2>2, <2>3, <2>4
  <2>6. QED
    BY <2>5 DEF T
<1>3. SumFunctionOnSet(f, S \ {x}) \in Nat
  <2>1. IsFiniteSet(S \ {x}) /\ \A y \in S \ {x} : f[y] \in Nat
    BY FS_Subset
  <2>2. QED
    BY <2>1, SumIsNat
<1>4. QED
  BY <1>1, <1>2, <1>3

\* A day of an answer: of so many samples, with so much CPU, which are those.
DaySummed(day, count, total, S) ==
    /\ count \in Nat \ {0} /\ total \in Int
    /\ day.count = count
    /\ day.avg = (2 * total + count) \div (2 * count)
    /\ \E x \in S : day.max = x.cpu
    /\ \A x \in S : day.max >= x.cpu

\* What the statement says of each day that has samples of the window.
LEMMA DaysAreSummed ==
    ASSUME Observed!TypeOK, NEW a, NEW from \in Int, NEW to \in Int
    PROVE  LET B    == Observed!OfDays(a, from, to)
               days == Observed!SummarizeObservedUsage(a, from, to)
           IN  /\ DOMAIN days = {x.at \div SampleDay : x \in DOMAIN B}
               /\ \A d \in DOMAIN days :
                    DaySummed(days[d], SumFunctionOnSet(B, OnDay(B, d)),
                              SumFunctionOnSet(CpuOf(B), OnDay(B, d)), OnDay(B, d))
<1> DEFINE B    == Observed!OfDays(a, from, to)
           days == Observed!SummarizeObservedUsage(a, from, to)
           cpu  == CpuOf(B)
<1>1. /\ IsFiniteSet(DOMAIN B)
      /\ \A x \in DOMAIN B :
           /\ B[x] = oSamples[x] /\ oSamples[x] \in Nat \ {0} /\ x.cpu \in Nat
           /\ x.at \div SampleDay \in Int
           /\ DOMAIN Observed!OfDays(a, x.at \div SampleDay, x.at \div SampleDay) = OnDay(B, x.at \div SampleDay)
  BY DayOfWindow
<1>2. DOMAIN days = {x.at \div SampleDay : x \in DOMAIN B}
  BY DEF Observed!SummarizeObservedUsage
<1>3. ASSUME NEW d \in DOMAIN days
      PROVE  DaySummed(days[d], SumFunctionOnSet(B, OnDay(B, d)),
                       SumFunctionOnSet(cpu, OnDay(B, d)), OnDay(B, d))
  <2> DEFINE C    == Observed!OfDays(a, d, d)
             cpuC == [x \in DOMAIN C |-> x.cpu * C[x]]
             S    == OnDay(B, d)
  <2>1. PICK w \in DOMAIN B : d = w.at \div SampleDay
    BY <1>2
  <2>2. d \in Int /\ w \in S /\ DOMAIN C = S
    <3>1. d \in Int /\ DOMAIN C = S
      BY <1>1, <2>1
    <3>2. w \in S
      BY <2>1 DEF OnDay
    <3>3. QED
      BY <3>1, <3>2
  <2>3. \A x \in DOMAIN C : C[x] = oSamples[x]
    BY <2>2, DayOfWindow
  <2>4. S \in SUBSET DOMAIN B /\ IsFiniteSet(S)
    <3>1. S \in SUBSET DOMAIN B
      BY DEF OnDay
    <3>2. QED
      BY <1>1, <3>1, FS_Subset
  <2>5. days[d] = [avg   |-> (2 * Observed!Total(C) + Observed!Size(C)) \div (2 * Observed!Size(C)),
                   max   |-> Observed!Peak(C),
                   count |-> Observed!Size(C)]
    <3>1. d \in {x.at \div SampleDay : x \in DOMAIN B}
      BY <1>2
    <3>2. QED
      BY <3>1 DEF Observed!SummarizeObservedUsage
  <2>6. /\ Observed!Size(C) = SumFunctionOnSet(C, DOMAIN C)
        /\ Observed!Total(C) = SumFunctionOnSet(cpuC, DOMAIN cpuC)
    BY SampleSums DEF Observed!Size, Observed!Total
  <2>7. \A x \in S : /\ C[x] = B[x] /\ B[x] \in Nat \ {0} /\ x.cpu \in Nat
                     /\ cpu[x] = x.cpu * B[x] /\ cpuC[x] = x.cpu * C[x]
    BY <1>1, <2>2, <2>3, <2>4 DEF CpuOf
  <2>8. DOMAIN cpuC = S
    BY <2>2
  <2> HIDE DEF cpuC, S, C
  <2>9. \A x \in S : cpu[x] \in Int /\ cpu[x] = cpuC[x]
    BY <2>7
  <2>10. SumFunctionOnSet(B, S) = SumFunctionOnSet(C, S)
    <3>1. \A x \in S : B[x] \in Int /\ B[x] = C[x]
      BY <2>7
    <3>2. QED
      BY <2>4, <3>1, SumSame
  <2>11. SumFunctionOnSet(cpu, S) = SumFunctionOnSet(cpuC, S) /\ SumFunctionOnSet(cpu, S) \in Int
    BY <2>4, <2>9, SumSame, SumIsInt
  <2>12. SumFunctionOnSet(B, S) \in Nat \ {0}
    <3>1. S # {} /\ \A x \in S : B[x] \in Nat \ {0}
      BY <2>2, <2>7
    <3>2. QED
      BY <2>4, <3>1, SumIsPositive
  <2>13. /\ \E x \in DOMAIN C : Observed!Peak(C) = x.cpu
         /\ \A x \in DOMAIN C : Observed!Peak(C) >= x.cpu
    <3>1. IsFiniteSet(DOMAIN C) /\ DOMAIN C # {} /\ \A x \in DOMAIN C : x.cpu \in Nat
      BY <2>2, <2>4, <2>7
    <3>2. QED
      BY <3>1, PeakOf
  <2>14. /\ days[d].count = SumFunctionOnSet(B, S)
         /\ days[d].avg = (2 * SumFunctionOnSet(cpu, S) + SumFunctionOnSet(B, S)) \div (2 * SumFunctionOnSet(B, S))
         /\ days[d].max = Observed!Peak(C)
    BY <2>2, <2>5, <2>6, <2>8, <2>10, <2>11
  <2>15. QED
    BY <2>2, <2>11, <2>12, <2>13, <2>14 DEF S, DaySummed
<1>4. QED
  BY <1>2, <1>3

-----------------------------------------------------------------------------
LEMMA ObservedIsRight == Observed!TypeOK => Observed!ObservedIsMeasured
<1> SUFFICES ASSUME Observed!TypeOK, NEW a \in oApps,
                    NEW from \in 0 .. (SampleHorizon \div SampleDay),
                    NEW to \in 0 .. (SampleHorizon \div SampleDay),
                    Observed!Size(Observed!OfDays(a, from, to)) > 0
             PROVE  LET B      == Observed!OfDays(a, from, to)
                        n      == Observed!Size(B)
                        answer == Observed!AttachObserved(a, from, to)
                    IN  /\ answer.count = n /\ answer.max = Observed!Peak(B)
                        /\ 2 * n * answer.avg <= 2 * Observed!Total(B) + n
                        /\ 2 * n * answer.avg > 2 * Observed!Total(B) - 3 * n
  BY DEF Observed!ObservedIsMeasured
<1> DEFINE B     == Observed!OfDays(a, from, to)
           n     == Observed!Size(B)
           t     == Observed!Total(B)
           days  == Observed!SummarizeObservedUsage(a, from, to)
           D     == DOMAIN days
           S     == DOMAIN B
           cpu   == CpuOf(B)
           part  == [d \in D |-> OnDay(B, d)]
           count == [d \in D |-> SumFunctionOnSet(B, OnDay(B, d))]
           total == [d \in D |-> SumFunctionOnSet(cpu, OnDay(B, d))]
           weighted == [d \in D |-> days[d].avg * days[d].count]
<1>1. from \in Int /\ to \in Int
  OBVIOUS
<1>2. /\ IsFiniteSet(S)
      /\ \A x \in S : B[x] \in Nat \ {0} /\ x.cpu \in Nat
  <2>1. IsFiniteSet(S)
    BY <1>1, DayOfWindow
  <2>2. \A x \in S : B[x] = oSamples[x] /\ oSamples[x] \in Nat \ {0} /\ x.cpu \in Nat
    BY <1>1, DayOfWindow
  <2> HIDE DEF B
  <2>3. QED
    BY <2>1, <2>2
<1>3. n = SumFunctionOnSet(B, S) /\ t = SumFunctionOnSet(cpu, S)
  BY SampleSums DEF Observed!Size, Observed!Total, CpuOf
<1>4. D = {x.at \div SampleDay : x \in S}
  BY <1>1, DaysAreSummed
<1>5. \A d \in D : DaySummed(days[d], count[d], total[d], OnDay(B, d))
  <2>1. \A d \in D : DaySummed(days[d], SumFunctionOnSet(B, OnDay(B, d)),
                              SumFunctionOnSet(cpu, OnDay(B, d)), OnDay(B, d))
    BY <1>1, DaysAreSummed
  <2>2. \A d \in D : count[d] = SumFunctionOnSet(B, OnDay(B, d)) /\ total[d] = SumFunctionOnSet(cpu, OnDay(B, d))
    OBVIOUS
  <2> HIDE DEF D, S, B, days, count, total, cpu, part
  <2>3. QED
    BY <2>1, <2>2
<1>6. (\A x \in S : B[x] \in Int) /\ (\A x \in S : cpu[x] \in Int)
  <2> SUFFICES ASSUME NEW x \in S PROVE x.cpu * B[x] \in Int
    BY <1>2 DEF CpuOf
  <2>1. x.cpu \in Int /\ B[x] \in Int
    BY <1>2
  <2>2. QED
    BY <2>1
<1>7. /\ Observed!Count(days) = SumFunctionOnSet(count, D)
      /\ Observed!Weighted(days) = SumFunctionOnSet(weighted, D)
  <2>1. [d \in D |-> days[d].count] = count
    <3> HIDE DEF B, days, total, cpu
    <3>1. \A d \in D : days[d].count = count[d]
      BY <1>5 DEF DaySummed
    <3>2. count = [d \in D |-> count[d]]
      OBVIOUS
    <3> HIDE DEF count
    <3>3. QED
      BY <3>1, <3>2
  <2>2. Observed!Count(days) = Observed!SumFunction([d \in D |-> days[d].count])
    BY DEF Observed!Count
  <2>3. Observed!Weighted(days) = Observed!SumFunction(weighted)
    BY DEF Observed!Weighted
  <2>4. DOMAIN count = D /\ DOMAIN weighted = D
    OBVIOUS
  <2>5. QED
    BY <2>1, <2>2, <2>3, <2>4, SampleSums
<1>8. \A x \in S : x.at \div SampleDay \in D /\ x \in OnDay(B, x.at \div SampleDay)
  <2>1. \A x \in S : x.at \div SampleDay \in D
    <3> HIDE DEF D, S
    <3>1. QED
      BY <1>4
  <2>2. \A x \in S : x \in OnDay(B, x.at \div SampleDay)
    BY DEF OnDay
  <2>3. QED
    BY <2>1, <2>2
<1>9. Observed!AttachObserved(a, from, to)
        = [avg |-> Observed!Weighted(days) \div Observed!Count(days),
           max |-> Observed!Max({days[d].max : d \in D}),
           count |-> Observed!Count(days)]
  BY DEF Observed!AttachObserved, Observed!MergeObserved
<1>10. /\ \A d \in D : part[d] \in SUBSET S
       /\ \A x \in S : \E d \in D : x \in part[d]
       /\ \A d \in D, e \in D : d # e => part[d] \cap part[e] = {}
       /\ \A d \in D : count[d] = SumFunctionOnSet(B, part[d])
       /\ \A d \in D : total[d] = SumFunctionOnSet(cpu, part[d])
  <2>1. \A d \in D : part[d] = OnDay(B, d)
    OBVIOUS
  <2>2. \A d \in D : count[d] = SumFunctionOnSet(B, OnDay(B, d)) /\ total[d] = SumFunctionOnSet(cpu, OnDay(B, d))
    OBVIOUS
  <2>3. \A d, e : OnDay(B, d) \in SUBSET S /\ (d # e => OnDay(B, d) \cap OnDay(B, e) = {})
    BY DEF OnDay
  <2> HIDE DEF D, S, B, count, total, cpu, part
  <2>4. \A x \in S : \E d \in D : x \in part[d]
    BY <1>8, <2>1
  <2>5. QED
    BY <2>1, <2>2, <2>3, <2>4
<1>11. n > 0
  OBVIOUS
<1>12. \A d \in D : weighted[d] = days[d].avg * days[d].count
  OBVIOUS
<1>13. IsFiniteSet(D)
  <2> DEFINE group == [x \in S |-> x.at \div SampleDay]
  <2> HIDE DEF S, B, D
  <2>1. IsFiniteSet({group[x] : x \in S})
    BY <1>2, ImageFinite
  <2>2. D = {group[x] : x \in S}
    BY <1>4
  <2>3. QED
    BY <2>1, <2>2
<1>14. Observed!Peak(B) = Observed!Max({days[d].max : d \in D})
  <2> DEFINE M == {days[d].max : d \in D}
             m == [d \in D |-> days[d].max]
  <2> HIDE DEF D, S, B, n, t, days, count, total, weighted, cpu, part
  <2>1. IsFiniteSet(D)
    BY <1>13
  <2>2. IsFiniteSet({m[d] : d \in D}) /\ M = {m[d] : d \in D}
    BY <2>1, ImageFinite
  <2>3. S # {}
    BY <1>3, <1>11, SumOfNothing
  <2>4. /\ \E x \in S : Observed!Peak(B) = x.cpu
        /\ \A x \in S : Observed!Peak(B) >= x.cpu
    <3>1. IsFiniteSet(DOMAIN B) /\ DOMAIN B # {} /\ \A x \in DOMAIN B : x.cpu \in Nat
      BY <1>2, <2>3 DEF S
    <3>2. QED
      BY <3>1, PeakOf DEF S
  <2>5. \A d \in D : days[d].max \in Int /\ Observed!Peak(B) >= days[d].max
    <3> SUFFICES ASSUME NEW d \in D PROVE days[d].max \in Int /\ Observed!Peak(B) >= days[d].max
      OBVIOUS
    <3>1. PICK x \in part[d] : days[d].max = x.cpu
      BY <1>5 DEF DaySummed, part
    <3>2. x \in S
      BY <1>10
    <3>3. QED
      BY <1>2, <2>4, <3>1, <3>2
  <2>6. \E d \in D : days[d].max >= Observed!Peak(B)
    <3>1. PICK x \in S : Observed!Peak(B) = x.cpu
      BY <2>4
    <3>2. PICK d \in D : x \in OnDay(B, d)
      BY <1>8
    <3>3. QED
      BY <1>5, <3>1, <3>2 DEF DaySummed
  <2>7. Observed!Max(M) \in M /\ \A k \in M : Observed!Max(M) >= k
    <3>1. M \in SUBSET Int /\ IsFiniteSet(M) /\ M # {}
      BY <2>2, <2>5, <2>6
    <3> HIDE DEF M
    <3>2. QED
      BY <3>1, SampleMax
  <2>8. Observed!Max(M) \in Int /\ Observed!Peak(B) \in Int
    BY <1>2, <2>4, <2>5, <2>7
  <2>9. Observed!Max(M) <= Observed!Peak(B) /\ Observed!Peak(B) <= Observed!Max(M)
    BY <2>5, <2>6, <2>7, <2>8
  <2>10. QED
    BY <2>8, <2>9
<1> HIDE DEF D, S, B, n, t, days, count, total, weighted, cpu, part
<1>15. SumFunctionOnSet(count, D) = n
  <2>1. \A x \in S : B[x] \in Int
    BY <1>6
  <2>2. \A d \in D : count[d] = SumFunctionOnSet(B, part[d])
    BY <1>10
  <2>3. /\ \A d \in D : part[d] \in SUBSET S
        /\ \A x \in S : \E d \in D : x \in part[d]
        /\ \A d \in D, e \in D : d # e => part[d] \cap part[e] = {}
    BY <1>10
  <2>4. QED
    BY <1>2, <1>3, <1>13, <2>1, <2>2, <2>3, SumOfGroups
<1>16. SumFunctionOnSet(total, D) = t
  <2>1. \A x \in S : cpu[x] \in Int
    BY <1>6
  <2>2. \A d \in D : total[d] = SumFunctionOnSet(cpu, part[d])
    BY <1>10
  <2>3. /\ \A d \in D : part[d] \in SUBSET S
        /\ \A x \in S : \E d \in D : x \in part[d]
        /\ \A d \in D, e \in D : d # e => part[d] \cap part[e] = {}
    BY <1>10
  <2>4. QED
    BY <1>2, <1>3, <1>13, <2>1, <2>2, <2>3, SumOfGroups
<1>17. n \in Int /\ t \in Int
  BY <1>2, <1>3, <1>6, SumIsInt
<1>18. \A d \in D : /\ count[d] \in Int /\ count[d] > 0 /\ total[d] \in Int
                    /\ weighted[d] = ((2 * total[d] + count[d]) \div (2 * count[d])) * count[d]
  <2> SUFFICES ASSUME NEW d \in D
               PROVE  /\ count[d] \in Int /\ count[d] > 0 /\ total[d] \in Int
                      /\ weighted[d] = ((2 * total[d] + count[d]) \div (2 * count[d])) * count[d]
    OBVIOUS
  <2>1. /\ count[d] \in Nat \ {0} /\ total[d] \in Int /\ days[d].count = count[d]
        /\ days[d].avg = (2 * total[d] + count[d]) \div (2 * count[d])
    BY <1>5 DEF DaySummed
  <2>2. weighted[d] = days[d].avg * days[d].count
    BY <1>12
  <2>3. QED
    BY <2>1, <2>2
<1>19. /\ 2 * n * (SumFunctionOnSet(weighted, D) \div n) <= 2 * t + n
       /\ 2 * n * (SumFunctionOnSet(weighted, D) \div n) > 2 * t - 3 * n
  BY <1>11, <1>13, <1>15, <1>16, <1>17, <1>18, MeanOfDays
<1>20. QED
  BY <1>7, <1>9, <1>14, <1>15, <1>19 DEF n, t, B

-----------------------------------------------------------------------------
LEMMA QueryInvariant == AnswersSpec => []Usage!IInv
<1>1. AnswersInit => Usage!IInv
  BY UsageInit DEF AnswersInit
<1>2. Usage!IInv /\ [AnswersNext]_AnswersVars => Usage!IInv'
  <2>1. [AnswersNext]_AnswersVars => [Usage!Next]_uVars
    BY DEF AnswersNext, AnswersVars, QueryMoves, SampleMoves
  <2>2. QED
    BY <2>1, UsageStep DEF uVars
<1>3. QED
  BY <1>1, <1>2, PTL DEF AnswersSpec

LEMMA SamplesInvariant == AnswersSpec => []Observed!TypeOK
<1>1. AnswersInit => Observed!TypeOK
  BY ObservedInit DEF AnswersInit
<1>2. Observed!TypeOK /\ [AnswersNext]_AnswersVars => Observed!TypeOK'
  <2>1. [AnswersNext]_AnswersVars => Observed!Next \/ UNCHANGED oVars
    BY DEF AnswersNext, AnswersVars, QueryMoves, SampleMoves
  <2>2. Observed!TypeOK /\ UNCHANGED oVars => Observed!TypeOK'
    BY DEF oVars, Observed!TypeOK
  <2>3. QED
    BY <2>1, <2>2, ObservedStep
<1>3. QED
  BY <1>1, <1>2, PTL DEF AnswersSpec

\* Whatever was rolled up, expired, ended or passed midnight between the reads
\* of a query, each figure is what the pods had of the day and the days add up
\* to the window; and what is told of their consumption is the number, the peak
\* and the rounded mean of the samples (query, attachObserved).
THEOREM AnswersExact == AnswersSpec => []AnswersAreExact
<1>1. Usage!IInv /\ Observed!TypeOK => AnswersAreExact
  BY UsageIsExact, ObservedIsRight DEF AnswersAreExact
<1>2. QED
  BY <1>1, QueryInvariant, SamplesInvariant, PTL
=============================================================================
