----------------------------- MODULE MCJobQueue -----------------------------
(* Small instances of JobQueue for TLC: replicas are interchangeable.        *)
EXTENDS JobQueue, TLC

\* Replicas appear in the model only through their identity.
ReplicaSymmetry == Permutations(Workers)
=============================================================================
