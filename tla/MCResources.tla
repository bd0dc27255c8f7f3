---------------------------- MODULE MCResources ----------------------------
(* What a team has outside the database, on small instances: the archives of *)
(* uploads, the installation of the GitHub App, the request limits.  They    *)
(* share no state, so one of them moves in each behaviour and the state      *)
(* spaces add up.                                                            *)
EXTENDS TeamResources, TLC

\* One token; both plans hold a single one.
MCTokenOf == [r \in {"q", "r"} |-> "k"]
MCQuota   == [k \in {"k", "t"} |-> [free |-> 1, pro |-> 1]]

VARIABLE part  \* the component that moves, and on which instance

\* Of the uploads, either there is no fault, or the last one is not made.
UploadParts == {"uploads", "faulty uploads"}
WithoutFault == UNCHANGED faults
WithoutLast  == \A q \in Handlers : handler'[q].id # MaxUploads

AllInit ==
    /\ part \in UploadParts \cup {"installation", "limits"}
    /\ ResourceInit
    /\ part # "limits" => lPlan = "free"

AllNext ==
    \/ part = "uploads" /\ UploadMoves /\ WithoutFault /\ UNCHANGED part
    \/ part = "faulty uploads" /\ UploadMoves /\ WithoutLast /\ UNCHANGED part
    \/ part = "installation" /\ InstallationMoves /\ UNCHANGED part
    \/ part = "limits" /\ LimitMoves /\ UNCHANGED part

\* SourceUpload!Fairness and GithubInstall!Fairness, each for the behaviours in
\* which its component moves.
UploadFairness ==
    /\ \A u \in Uploads : /\ WF_vars(part \in UploadParts /\ DayPasses(u))
                          /\ WF_vars(part \in UploadParts /\ MonthPasses(u))
    /\ \A g \in Collectors : WF_vars(part \in UploadParts /\ Collect(g))

InstallationFairness ==
    /\ \A e \in Installation!Events :
          WF_iVars(part = "installation" /\ Installation!HookStep(e))
    /\ \A r \in Requests :
          WF_iVars(part = "installation" /\ Installation!UninstallStep(r))

AllVars == <<part, vars, iVars, lVars>>

AllSpec == AllInit /\ [][AllNext]_AllVars /\ UploadFairness /\ InstallationFairness

\* An uninstall that failed half-way is completed by the event of its deletion.
UninstallsConverge == Installation!UninstallsConverge
=============================================================================
