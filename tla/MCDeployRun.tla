---------------------------- MODULE MCDeployRun ----------------------------
(* Small instances of DeployRun for TLC.                                     *)
EXTENDS DeployRun, TLC
=============================================================================
