---------------------------- MODULE MCKernelStack ----------------------------
(* One process alone and the stack at its true size: each of its time      *)
(* slices moves the stack down.                                            *)
EXTENDS KernelStack

=============================================================================
