------------------------------- MODULE MCTask -------------------------------
(***************************************************************************)
(* Instances of Task for TLC.  The cfgs give MAX_PROCESS 4 of its 20 slots *)
(* and MAX_TICK its value in the source: with four slots the table fills   *)
(* up, a process has a grandparent, and two READY processes can compete    *)
(* while a third is blocked.                                               *)
(***************************************************************************)
EXTENDS Task

=============================================================================
