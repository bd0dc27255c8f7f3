---------------------------- MODULE AccessControl ----------------------------
(* Who may act for a team and which hostname serves it: membership and the   *)
(* device login, single sign-on with its bearer tokens, and a custom         *)
(* hostname.  Each is modelled on tables of its own (what single sign-on and *)
(* the device login share of the members is in both), so each moves without  *)
(* the others and their steps interleave.                                    *)
EXTENDS TeamAccess

CONSTANTS
    Users, Creates, Updates, Deletes, Arrivals, Requests, Revocations,
    ArrivalOf, NoConfig, NoPerson, SsoFaults,                \* of SsoAccess
    Adds, Calls, Extends, Poller, NoAdd, NoMark, GraceWindow, MaxTime,
    HostFaults                                               \* of DomainVerify

\* A token is of a login through the provider, of a request, or of a device.
ASSUME TokensAssumption ==
    /\ Arrivals \cap Requests = {} /\ Arrivals \cap Users = {} /\ Requests \cap Users = {}
    /\ ArrivalOf \in [Arrivals -> Users]
    /\ SsoFaults \in Nat

\* No mark is NULL, which is no time, and no binding has no request.
ASSUME HostnameAssumption ==
    /\ NoAdd \notin Adds /\ NoMark \notin Nat /\ Poller \notin Calls
    /\ GraceWindow \in Nat /\ MaxTime \in Nat /\ HostFaults \in Nat

VARIABLES
    sConfig, sEnforce, sDomain, sSecret, sAdmin, sIdp, sStates, sLogin,
    sIdentity, sMember, sToken, sRequest, sRevocation, sEpoch, sBorn,
    sReturned, sFaults,
    hRow, hCf, hAdd, hVerify, hExtend, hSweep, hList, hReleasing, hDns,
    hClock, hPassed, hFaults

sVars == <<sConfig, sEnforce, sDomain, sSecret, sAdmin, sIdp, sStates, sLogin,
           sIdentity, sMember, sToken, sRequest, sRevocation, sEpoch, sBorn,
           sReturned, sFaults>>
hVars == <<hRow, hCf, hAdd, hVerify, hExtend, hSweep, hList, hReleasing, hDns,
           hClock, hPassed, hFaults>>

SSO == INSTANCE SsoAccess WITH
    People <- Users, Logins <- Arrivals, LoginOf <- ArrivalOf, MaxFaults <- SsoFaults,
    config <- sConfig, enforce <- sEnforce, domain <- sDomain,
    secret <- sSecret, admin <- sAdmin, idp <- sIdp, states <- sStates,
    login <- sLogin, identity <- sIdentity, member <- sMember,
    token <- sToken, request <- sRequest, revocation <- sRevocation,
    epoch <- sEpoch, born <- sBorn, returned <- sReturned, faults <- sFaults

Hostname == INSTANCE DomainVerify WITH
    MaxFaults <- HostFaults,
    row <- hRow, cf <- hCf, add <- hAdd, verify <- hVerify, extend <- hExtend,
    sweep <- hSweep, list <- hList, releasing <- hReleasing, dns <- hDns,
    clock <- hClock, passed <- hPassed, faults <- hFaults

TeamMoves     == Next /\ UNCHANGED <<sVars, hVars>>
SsoMoves      == SSO!Next /\ UNCHANGED <<vars, hVars>>
HostnameMoves == Hostname!Next /\ UNCHANGED <<vars, sVars>>

AccessVars == <<vars, sVars, hVars>>
AccessInit == Init /\ SSO!Init /\ Hostname!Init
AccessNext == TeamMoves \/ SsoMoves \/ HostnameMoves
AccessSpec == AccessInit /\ [][AccessNext]_AccessVars

-----------------------------------------------------------------------------
\* One deprovision covers every token its person holds (DeprovisionSSOUser).
RevocationIsWhole == SSO!RevocationIsWhole

\* A deprovisioned member comes back by a login or by an invitation after a
\* removal (JITProvision, InviteMember).
LockedOutStayOut == SSO!LockedOutStayOut

\* A verified hostname is released only after a whole grace window (EvaluateGrace).
GraceIsGranted == Hostname!GraceIsGranted
=============================================================================
