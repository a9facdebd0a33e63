------------------------------ MODULE MCGroupCache ------------------------------
(* Small instances of GroupCache for TLC.                                     *)
EXTENDS GroupCache

================================================================================
