------------------------------- MODULE MCExec -------------------------------
(* Two programs per exec and a table of three: it fills up, and an exec    *)
(* can find processes of an earlier one.                                   *)
EXTENDS Exec

=============================================================================
