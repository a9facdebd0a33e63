-------------------------------- MODULE MCExecCall --------------------------------
(* A small instance of ExecCall for TLC.                                       *)
EXTENDS ExecCall

(* A Duration of 4 bits, -8..7, with 3 units in a second: 3 seconds wrap to -7 *)
(* and 11 to 1, and a limit of 6 has a deadline of 9, which wraps to -7.       *)
AnyDuration == {-1, 0, 2, 4, 6}
AnyAsked == {0, 1, 3, 11}

=================================================================================
