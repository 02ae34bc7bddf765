----------------------------- MODULE MCSemaphore -----------------------------
(***************************************************************************)
(* Instances of Semaphore for TLC: three slots make two waiters and one    *)
(* that signals possible; two semaphores let one process be the waiter of  *)
(* one while it signals the other.                                         *)
(***************************************************************************)
EXTENDS Semaphore

=============================================================================
