------------------------------ MODULE MCAccess ------------------------------
(* Who may act for a team, which hostname serves it and what it is told of   *)
(* its usage, on small instances: membership and device login, single        *)
(* sign-on, a custom hostname, the usage query, the samples of what is       *)
(* consumed.  They share no state, so one of them moves in each behaviour    *)
(* and the state spaces add up.                                              *)
EXTENDS AccessControl, UsageAnswers, TLC

CONSTANTS p1, p2, ops, b2, s1, s2, v1, v2, v3, a1, u1, u2, w1, w2

\* A bootstrap that takes the login p1 for another owner; p1 logs in twice, and
\* is invited as a member, invited as an owner, and removed.
MCBootTeam == b2 :> p1
MCBootOwner == b2 :> p2
MCLoginOf == [s \in {s1, s2} |-> p1]
MCTarget == [v \in {v1, v2, v3} |-> p1]
MCRank == v1 :> "member" @@ v2 :> "owner"

\* Either there is no fault, or there is no bootstrap.
TeamParts == {"team", "faulty team"}
WithoutFault == UNCHANGED faults
WithoutBoot  == UNCHANGED boot

\* The one login through the provider.
MCArrivalOf == "l" :> "p"

\* Two pods of an app, alike, over four days of two seconds; 395 days of detail
\* and 390 of retention are three days and two.
MCAppOf == [p \in {u1, u2} |-> a1]
PodSymmetry == Permutations({u1, u2})

\* Two pods of one app, three samples over three days, kept for one.
MCSampledAppOf == [p \in {w1, w2} |-> a1]

VARIABLE part  \* the component that moves, and on which instance

AllInit ==
    /\ part \in TeamParts \cup {"sso", "hostname", "usage", "samples"}
    /\ AccessInit /\ AnswersInit
    /\ part # "hostname" => hDns
    /\ part # "sso" => sMember["p"] = "none"

AllNext ==
    \/ part = "team" /\ TeamMoves /\ WithoutFault /\ UNCHANGED <<part, AnswersVars>>
    \/ part = "faulty team" /\ TeamMoves /\ WithoutBoot /\ UNCHANGED <<part, AnswersVars>>
    \/ part = "sso" /\ SsoMoves /\ UNCHANGED <<part, AnswersVars>>
    \/ part = "hostname" /\ HostnameMoves /\ UNCHANGED <<part, AnswersVars>>
    \/ part = "usage" /\ QueryMoves /\ UNCHANGED <<part, AccessVars>>
    \/ part = "samples" /\ SampleMoves /\ UNCHANGED <<part, AccessVars>>

AllVars == <<part, AccessVars, AnswersVars>>

AllSpec == AllInit /\ [][AllNext]_AllVars
=============================================================================
