----------------------------- MODULE MCResultCache -----------------------------
(* Small instances of ResultCache for TLC.                                    *)
EXTENDS ResultCache, TLC

CallerSymmetry == Permutations(Callers)

================================================================================
