------------------------------ MODULE MCIntake ------------------------------
(* Small instances of DeployIntake for TLC.                                  *)
EXTENDS DeployIntake, TLC

\* Requests, run ids, previews and deliveries appear only through their identity.
IdSymmetry ==
    Permutations(Requests) \cup Permutations(Runs) \cup Permutations(Previews)
        \cup Permutations(Deliveries)
=============================================================================
