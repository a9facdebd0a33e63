------------------------------- MODULE MCDebugPod -------------------------------
(* Small instances of DebugPod for TLC.                                       *)
EXTENDS DebugPod, TLC

Symmetry == Permutations(Calls) \cup Permutations(Jobs)

================================================================================
