---------------------------- MODULE MCDeleteApp ----------------------------
(* Small instances of DeleteApp for TLC.                                     *)
EXTENDS DeleteApp, TLC

\* Previews and confirm requests appear only through their identity.
RequestSymmetry == Permutations(Requests) \cup Permutations(Previews)
=============================================================================
