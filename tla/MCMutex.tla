------------------------------- MODULE MCMutex -------------------------------
(* Two contenders never queue on each other; three do.                     *)
EXTENDS Mutex

=============================================================================
