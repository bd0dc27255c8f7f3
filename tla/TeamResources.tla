---------------------------- MODULE TeamResources ----------------------------
(* What a team has outside the database: the archives of its uploads, its    *)
(* installation of the GitHub App, and the buckets its requests are limited  *)
(* by.  Their requests interleave; they share no row and no memory, so none  *)
(* can disturb another.                                                      *)
EXTENDS SourceUpload

CONSTANTS
    NumInstalls, Suspensions, Apps, Requests, NoInstall, InstallFaults,
                                                           \* of GithubInstall
    Limited, Tokens, Team, TokenOf, Scoped, Plans, Free, Quota, IdleTTL,
    RetryMax, NoBucket, NoKey, MaxClock, MaxPlanChanges    \* of RateLimit

VARIABLES
    iInstall, iLink, iBound, iApp, iPreviewed, iHook, iCall, iOlder, iLate, iFaults,
    lPlan, lBucket, lEntry, lRequest, lSweep, lClock, lChanges, lAdmitted, lRenewed

iVars == <<iInstall, iLink, iBound, iApp, iPreviewed, iHook, iCall, iOlder, iLate, iFaults>>
lVars == <<lPlan, lBucket, lEntry, lRequest, lSweep, lClock, lChanges, lAdmitted, lRenewed>>

Installation == INSTANCE GithubInstall WITH
    MaxFaults <- InstallFaults,
    install <- iInstall, link <- iLink, bound <- iBound, app <- iApp,
    previewed <- iPreviewed, hook <- iHook, call <- iCall, older <- iOlder,
    late <- iLate, faults <- iFaults

\* A request is not an event, and no installation has the id that stands for none.
ASSUME InstallAssumption ==
    /\ NoInstall \notin Installation!Installs
    /\ Requests \cap Installation!Events = {}

Limits == INSTANCE RateLimit WITH
    Requests <- Limited,
    plan <- lPlan, bucket <- lBucket, entry <- lEntry, request <- lRequest,
    sweep <- lSweep, clock <- lClock, changes <- lChanges,
    admitted <- lAdmitted, renewed <- lRenewed

\* A bucket that was idle for so long has filled; no bucket is NULL, and NULL
\* is no key (New and DefaultPlanQuotas of middleware/ratelimit).
ASSUME LimitsAssumption ==
    /\ Free \in Plans /\ TokenOf \in [Limited -> Tokens]
    /\ IdleTTL \in Nat /\ Quota \in [Limits!Keys -> [Plans -> 0..IdleTTL]]
    /\ NoBucket \notin Nat /\ NoKey \notin Limits!Keys

UploadMoves       == Next /\ UNCHANGED <<iVars, lVars>>
InstallationMoves == Installation!Next /\ UNCHANGED <<vars, lVars>>
LimitMoves        == Limits!Next /\ UNCHANGED <<vars, iVars>>

ResourceVars == <<vars, iVars, lVars>>
ResourceInit == Init /\ Installation!Init /\ Limits!Init
ResourceNext == UploadMoves \/ InstallationMoves \/ LimitMoves
ResourceSpec == ResourceInit /\ [][ResourceNext]_ResourceVars

-----------------------------------------------------------------------------
\* When the binding is cleared, the apps the clearing handler found are paused.
ClearedTeamsArePaused == Installation!ClearedTeamsArePaused

\* A key is admitted its quota, whoever races to make its bucket (entry, Allow).
QuotaHolds == Limits!QuotaHolds
=============================================================================
