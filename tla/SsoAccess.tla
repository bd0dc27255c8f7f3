------------------------------ MODULE SsoAccess ------------------------------
(* Single sign-on of one team (auth/sso, db/sso.go): its identity provider   *)
(* is configured by owners, people log in through it and are provisioned on  *)
(* the way, and one call deprovisions them.  What a bearer token may do is   *)
(* decided by the middleware: it reads the token, and then the membership.   *)
(*                                                                           *)
(* Left out: roles and groups, expiry of tokens, signatures and PKCE, the    *)
(* audit rows; one domain stands for the domains of the team.  People whose  *)
(* account has no e-mail address are two accounts to this code.              *)
EXTENDS Naturals

CONSTANTS
    People,
    Creates,    \* requests that create the configuration
    Updates,    \* requests that switch enforcement on or off
    Deletes,    \* requests that delete the configuration
    Logins,     \* logins through the provider
    Requests,   \* requests for a personal access token
    Revocations,\* back-channel logouts and deprovisions by an owner
    LoginOf,    \* the person who logs in
    NoConfig,
    NoPerson,
    MaxFaults   \* bound: failed calls and restarts

VARIABLES
    config,     \* idp_config: the request that created it
    enforce,    \* enforcement is on, and personal access tokens are disallowed
    domain,     \* idp_domain: "none", "added", "verified"
    secret,     \* the secret store, in memory: the request that put it
    admin,      \* admin[o]: how far an owner's request is
    idp,        \* idp[p]: the provider lets p in
    states,     \* logins whose state is in memory
    login,      \* login[l]: how far it is, and the configuration it read
    identity,   \* people with a row in idp_identity
    member,     \* member[p]: "none", "active", "off" (deactivated_at is set)
    token,      \* token[t]: "none", "live", "revoked", of a login, a PAT or a device
    request,    \* request[q]: how far it is, and who made it
    revocation, \* revocation[d]: how far it is, and of whom
    epoch,      \* history: how often p was deprovisioned
    born,       \* history: epoch of the holder when the token was inserted
    returned,   \* history: people let in again since they were deprovisioned
    faults

vars == <<config, enforce, domain, secret, admin, idp, states, login, identity,
          member, token, request, revocation, epoch, born, returned, faults>>

setup == <<config, enforce, domain, secret, admin>>
access == <<identity, member, token, epoch, born, returned>>

Tokens == Logins \cup Requests \cup People   \* a person stands for a device token

Init ==
    /\ config = NoConfig /\ enforce = FALSE /\ domain = "none" /\ secret = NoConfig
    /\ admin = [o \in Creates \cup Updates \cup Deletes |-> "idle"]
    /\ idp = [p \in People |-> TRUE]
    /\ states = {}
    /\ login = [l \in Logins |-> [at |-> "idle", config |-> NoConfig]]
    /\ identity = {}
    /\ member \in [People -> {"none", "active"}]
    /\ token = [t \in Tokens |-> IF t \in People /\ member[t] = "active" THEN "live" ELSE "none"]
    /\ request = [q \in Requests |-> [at |-> "idle", by |-> NoPerson]]
    /\ revocation = [d \in Revocations |-> [at |-> "idle", of |-> NoPerson]]
    /\ epoch = [p \in People |-> 0]
    /\ born = [t \in Tokens |-> 0]
    /\ returned = {}
    /\ faults = 0

Fault == faults < MaxFaults /\ faults' = faults + 1

------------------------------------------------------------------------------
(* The owners.                                                               *)

Admin(o, from, to) == admin[o] = from /\ admin' = [admin EXCEPT ![o] = to]

\* The secret goes into the store before the row, and stays if the row is refused.
PutSecret(o) ==
    /\ Admin(o, "idle", "put")
    /\ secret' = o
    /\ UNCHANGED <<config, enforce, domain, idp, states, login, access, request, revocation, faults>>

CreateIdPConfig(o) ==
    /\ \/ /\ config = NoConfig /\ Admin(o, "put", "done")
          /\ config' = o
       \/ config # NoConfig /\ Admin(o, "put", "conflict") /\ UNCHANGED config
    /\ UNCHANGED <<enforce, domain, secret, idp, states, login, access, request, revocation, faults>>

HasVerifiedDomain == domain = "verified"

\* Enforcement is switched on if a domain of the configuration is verified.
CheckUpdate(o) ==
    /\ config # NoConfig
    /\ \/ HasVerifiedDomain /\ Admin(o, "idle", "on")
       \/ Admin(o, "idle", "off")
    /\ UNCHANGED <<config, enforce, domain, secret, idp, states, login, access,
                   request, revocation, faults>>

\* By team: the row may be of another configuration by now.
UpdateIdPConfig(o) ==
    /\ admin[o] \in {"on", "off"}
    /\ \/ config # NoConfig /\ enforce' = (admin[o] = "on")
       \/ config = NoConfig /\ UNCHANGED enforce
    /\ admin' = [admin EXCEPT ![o] = "done"]
    /\ UNCHANGED <<config, domain, secret, idp, states, login, access, request, revocation, faults>>

CheckDelete(o) ==
    /\ config # NoConfig /\ ~enforce
    /\ Admin(o, "idle", "checked")
    /\ UNCHANGED <<config, enforce, domain, secret, idp, states, login, access,
                   request, revocation, faults>>

\* cli_token references the configuration: a token that was issued keeps it.
Referenced == \E l \in Logins : token[l] # "none" /\ login[l].config = config

DeleteIdPConfig(o) ==
    /\ Admin(o, "checked", "done")
    /\ \/ /\ config # NoConfig /\ ~Referenced
          /\ config' = NoConfig /\ enforce' = FALSE /\ domain' = "none" /\ identity' = {}
       \/ /\ config = NoConfig \/ Referenced
          /\ UNCHANGED <<config, enforce, domain, identity>>
    /\ UNCHANGED <<secret, idp, states, login, member, token, request, revocation,
                   epoch, born, returned, faults>>

\* A domain is in the table once.
AddIdPDomain == domain = "none" /\ domain' = "added"

AddDomain ==
    /\ config # NoConfig
    /\ AddIdPDomain
    /\ UNCHANGED <<config, enforce, secret, admin, idp, states, login, access,
                   request, revocation, faults>>

MarkIdPDomainVerified == domain' = "verified"

\* The TXT record is there.
VerifyDomain ==
    /\ domain = "added"
    /\ MarkIdPDomainVerified
    /\ UNCHANGED <<config, enforce, secret, admin, idp, states, login, access,
                   request, revocation, faults>>

------------------------------------------------------------------------------
(* A login.                                                                  *)

Goto(l, at) == login' = [login EXCEPT ![l].at = at]

Authorize(l) ==
    /\ login[l].at = "idle" /\ config # NoConfig
    /\ states' = states \cup {l}
    /\ Goto(l, "redirected")
    /\ UNCHANGED <<setup, idp, access, request, revocation, faults>>

\* The provider lets the person in and redirects to the callback.
Grant(l) ==
    /\ login[l].at = "redirected" /\ idp[LoginOf[l]]
    /\ Goto(l, "granted")
    /\ UNCHANGED <<setup, idp, states, access, request, revocation, faults>>

\* The code is exchanged with the secret of the configuration.
Callback(l) ==
    /\ login[l].at = "granted"
    /\ \/ /\ config # NoConfig /\ l \in states /\ secret = config
          /\ login' = [login EXCEPT ![l] = [at |-> "verified", config |-> config]]
       \/ /\ config = NoConfig \/ l \notin states \/ secret # config
          /\ Goto(l, "failed")
    /\ states' = states \ {l}
    /\ UNCHANGED <<setup, idp, access, request, revocation, faults>>

\* The domain of the address, which belongs to the configuration that was read.
IsDomainVerifiedForConfig(c) == config = c /\ domain = "verified"

\* One transaction, after the check of the domain.
JITProvision(l) ==
    /\ login[l].at = "verified"
    /\ \/ /\ IsDomainVerifiedForConfig(login[l].config)
          /\ identity' = identity \cup {LoginOf[l]}
          /\ member' = [member EXCEPT ![LoginOf[l]] = "active"]
          /\ returned' = returned \cup {LoginOf[l]}
          /\ Goto(l, "provisioned")
       \/ /\ ~IsDomainVerifiedForConfig(login[l].config)
          /\ Goto(l, "failed")
          /\ UNCHANGED <<identity, member, returned>>
    /\ UNCHANGED <<setup, idp, states, token, request, revocation, epoch, born, faults>>

Insert(t, p) ==
    /\ token' = [token EXCEPT ![t] = "live"]
    /\ born' = [born EXCEPT ![t] = epoch[p]]

\* A statement of its own: the person may have been deprovisioned meanwhile.
IssueSSOToken(l) ==
    /\ login[l].at = "provisioned"
    /\ \/ login[l].config = config /\ Insert(l, LoginOf[l]) /\ Goto(l, "done")
       \/ login[l].config # config /\ Goto(l, "failed") /\ UNCHANGED <<token, born>>
    /\ UNCHANGED <<setup, idp, states, identity, member, request, revocation, epoch,
                   returned, faults>>

LoginFails(l) ==
    /\ login[l].at \in {"granted", "verified", "provisioned"} /\ Fault
    /\ Goto(l, "failed")
    /\ states' = states \ {l}
    /\ UNCHANGED <<setup, idp, access, request, revocation>>

\* A login at GitHub: any row of team_membership makes this team a default team.
DeviceLogin(p) ==
    /\ member[p] # "none" /\ token[p] # "live"
    /\ Insert(p, p)
    /\ UNCHANGED <<setup, idp, states, login, identity, member, request, revocation,
                   epoch, returned, faults>>

------------------------------------------------------------------------------
(* A request with a bearer token, one that creates a personal access token.  *)

Holder(t) ==
    IF t \in Logins THEN LoginOf[t] ELSE IF t \in Requests THEN request[t].by ELSE t

Bearer(q) ==
    /\ request[q].at = "idle"
    /\ \E t \in Tokens :
          /\ token[t] = "live"
          /\ request' = [request EXCEPT ![q] = [at |-> "authenticated", by |-> Holder(t)]]
    /\ UNCHANGED <<setup, idp, states, login, access, revocation, faults>>

CheckMembership(q) ==
    /\ request[q].at = "authenticated"
    /\ request' = [request EXCEPT ![q].at =
                      IF member[request[q].by] = "active" THEN "admitted" ELSE "refused"]
    /\ UNCHANGED <<setup, idp, states, login, access, revocation, faults>>

PATDisabled == config # NoConfig /\ enforce

CheckPolicy(q) ==
    /\ request[q].at = "admitted"
    /\ request' = [request EXCEPT ![q].at = IF PATDisabled THEN "refused" ELSE "allowed"]
    /\ UNCHANGED <<setup, idp, states, login, access, revocation, faults>>

CreatePAT(q) == Insert(q, request[q].by)

CreateToken(q) ==
    /\ request[q].at = "allowed"
    /\ CreatePAT(q)
    /\ request' = [request EXCEPT ![q].at = "done"]
    /\ UNCHANGED <<setup, idp, states, login, identity, member, revocation, epoch,
                   returned, faults>>

\* Only a token that is not revoked yet.
Revoke(t) == token[t] = "live" /\ token' = [token EXCEPT ![t] = "revoked"]

RevokePATByName(q) == q \in Requests /\ Revoke(q)

RevokeToken(q) ==
    /\ RevokePATByName(q)
    /\ UNCHANGED <<setup, idp, states, login, identity, member, request, revocation,
                   epoch, born, returned, faults>>

RevokeCLITokenByID(t) == Revoke(t)

\* A bearer gives up the token it bears, a member or not.
Logout(t) ==
    /\ RevokeCLITokenByID(t)
    /\ UNCHANGED <<setup, idp, states, login, identity, member, request, revocation,
                   epoch, born, returned, faults>>

------------------------------------------------------------------------------
(* Leaving the team, and coming back.                                        *)

\* The provider disables a person; it lets nobody in again.
Disable(p) ==
    /\ idp[p]
    /\ idp' = [idp EXCEPT ![p] = FALSE]
    /\ UNCHANGED <<setup, states, login, access, request, revocation, faults>>

FindSSOUser(d, people) ==
    /\ revocation[d].at = "idle" /\ config # NoConfig
    /\ \E p \in people : revocation' = [revocation EXCEPT ![d] = [at |-> "found", of |-> p]]
    /\ UNCHANGED <<setup, idp, states, login, access, request, faults>>

\* The provider names a subject in its logout token.
BackchannelLogout(d) == FindSSOUser(d, identity)

\* An owner gives an address, or names the user.
FindSSOUserByEmail == identity

Deprovision(d) == FindSSOUser(d, FindSSOUserByEmail) \/ FindSSOUser(d, People)

\* Mutant: only what the provider issued is revoked.
HeldFromProvider(p) == {t \in Logins : LoginOf[t] = p /\ token[t] = "live"}

Held(p) == {t \in Tokens : Holder(t) = p /\ token[t] = "live"}

\* One transaction.
DeprovisionSSOUser(d) ==
    /\ revocation[d].at = "found"
    /\ LET p == revocation[d].of IN
       /\ member' = [member EXCEPT ![p] = IF @ = "active" THEN "off" ELSE @]
       /\ token' = [t \in Tokens |-> IF t \in Held(p) THEN "revoked" ELSE token[t]]
       /\ epoch' = [epoch EXCEPT ![p] = @ + 1]
       /\ returned' = returned \ {p}
    /\ revocation' = [revocation EXCEPT ![d].at = "done"]
    /\ UNCHANGED <<setup, idp, states, login, identity, request, born, faults>>

\* The row goes, whether it is deactivated or not.
RemoveMember(p) ==
    /\ member[p] # "none"
    /\ member' = [member EXCEPT ![p] = "none"]
    /\ UNCHANGED <<setup, idp, states, login, identity, token, request, revocation,
                   epoch, born, returned, faults>>

\* Mutant: a row that is there is taken over whole.
InviteClears(p) ==
    /\ member' = [member EXCEPT ![p] = "active"]
    /\ returned' = IF member[p] = "none" THEN returned \cup {p} ELSE returned
    /\ UNCHANGED <<setup, idp, states, login, identity, token, request, revocation,
                   epoch, born, faults>>

\* A row that is there gets the role and no more: it stays deactivated.
InviteMember(p) ==
    /\ member[p] = "none"
    /\ member' = [member EXCEPT ![p] = "active"]
    /\ returned' = returned \cup {p}
    /\ UNCHANGED <<setup, idp, states, login, identity, token, request, revocation,
                   epoch, born, faults>>

\* The stores in memory are empty afterwards, and requests are gone.
Restart ==
    /\ Fault
    /\ secret' = NoConfig
    /\ states' = {}
    /\ admin' = [o \in DOMAIN admin |-> IF admin[o] = "idle" THEN "idle" ELSE "done"]
    /\ login' = [l \in Logins |-> IF login[l].at \in {"idle", "redirected", "granted"}
                                  THEN login[l] ELSE [login[l] EXCEPT !.at = "done"]]
    /\ request' = [q \in Requests |-> IF request[q].at = "idle" THEN request[q]
                                      ELSE [request[q] EXCEPT !.at = "done"]]
    /\ revocation' = [d \in Revocations |-> IF revocation[d].at = "idle" THEN revocation[d]
                                            ELSE [revocation[d] EXCEPT !.at = "done"]]
    /\ UNCHANGED <<config, enforce, domain, idp, access>>

Next ==
    \/ \E o \in Creates : PutSecret(o) \/ CreateIdPConfig(o)
    \/ \E o \in Updates : CheckUpdate(o) \/ UpdateIdPConfig(o)
    \/ \E o \in Deletes : CheckDelete(o) \/ DeleteIdPConfig(o)
    \/ AddDomain \/ VerifyDomain
    \/ \E l \in Logins : Authorize(l) \/ Grant(l) \/ Callback(l) \/ JITProvision(l)
                         \/ IssueSSOToken(l) \/ LoginFails(l)
    \/ \E q \in Requests : Bearer(q) \/ CheckMembership(q) \/ CheckPolicy(q)
                           \/ CreateToken(q) \/ RevokeToken(q)
    \/ \E t \in Tokens : Logout(t)
    \/ \E d \in Revocations : BackchannelLogout(d) \/ Deprovision(d) \/ DeprovisionSSOUser(d)
    \/ \E p \in People : DeviceLogin(p) \/ Disable(p) \/ RemoveMember(p) \/ InviteMember(p)
    \/ Restart

Spec == Init /\ [][Next]_vars

------------------------------------------------------------------------------
(* Properties.                                                               *)

\* One deprovision covers every token its person holds: a token that works
\* again when they come back was inserted after it, by a request or a login
\* that had overlapped it or by a later one.
RevocationIsWhole ==
    \A t \in Tokens : token[t] = "live" => born[t] = epoch[Holder(t)]

\* Someone who was deprovisioned is a member again only if a login through the
\* provider or an invitation after a removal let them in since.
LockedOutStayOut ==
    \A p \in People : epoch[p] > 0 /\ member[p] = "active" => p \in returned

------------------------------------------------------------------------------
(* What the properties rest on: the inductive invariant.                     *)

TypeOK ==
    /\ member \in [People -> {"none", "active", "off"}]
    /\ token \in [Tokens -> {"none", "live", "revoked"}]
    /\ epoch \in [People -> Nat]
    /\ born \in [Tokens -> Nat]
    /\ identity \subseteq People
    /\ returned \subseteq People
    /\ request \in [Requests -> [at : {"idle", "authenticated", "refused", "admitted",
                                       "allowed", "done"},
                                 by : People \cup {NoPerson}]]
    /\ revocation \in [Revocations -> [at : {"idle", "found", "done"},
                                       of : People \cup {NoPerson}]]

\* Whoever makes a request was the holder of a token, and a deprovision that
\* has begun has found somebody.
ActorsAreKnown ==
    /\ \A q \in Requests : request[q].at # "idle" => request[q].by \in People
    /\ \A d \in Revocations : revocation[d].at # "idle" => revocation[d].of \in People

\* The token of a request is inserted by its last step: until then its holder
\* may still change.
TokensComeLast == \A q \in Requests : token[q] = "live" => request[q].at = "done"

IInv == TypeOK /\ ActorsAreKnown /\ TokensComeLast /\ RevocationIsWhole /\ LockedOutStayOut
=============================================================================
