-------------------------- MODULE CountingSemaphore --------------------------
(***************************************************************************)
(* What P and V promise: a semaphore in use holds tokens or has processes  *)
(* queued.  P takes a token, or queues its caller and puts it to sleep.  V *)
(* hands its token to exactly one of the queued processes, which wakes, or *)
(* keeps it if none is queued.  Tokens are given out at no other place but *)
(* when an unused semaphore is taken.                                      *)
(***************************************************************************)
EXTENDS Integers

CONSTANTS
  Proc,
  Sem,
  Initial  \* what a semaphore may be asked for with

VARIABLES
  used,    \* used[s]: somebody got s and has not given it back
  tokens,  \* tokens[s]: how many P on s may still succeed
  queued,  \* queued[s]: the processes that P on s has queued
  asleep   \* the processes that are blocked, on a semaphore or otherwise

vars == <<used, tokens, queued, asleep>>

Init ==
  /\ used = [s \in Sem |-> FALSE]
  /\ tokens = [s \in Sem |-> 0]
  /\ queued = [s \in Sem |-> {}]
  /\ asleep = {}

Get(s, v) ==
  /\ ~used[s] /\ queued[s] = {}
  /\ used' = [used EXCEPT ![s] = TRUE]
  /\ tokens' = [tokens EXCEPT ![s] = v]
  /\ UNCHANGED <<queued, asleep>>

Free(s) ==
  /\ used[s] /\ queued[s] = {}
  /\ used' = [used EXCEPT ![s] = FALSE]
  /\ UNCHANGED <<tokens, queued, asleep>>

P(s, p) ==
  /\ used[s]
  /\ \/ /\ tokens[s] > 0
        /\ tokens' = [tokens EXCEPT ![s] = @ - 1]
        /\ UNCHANGED <<queued, asleep>>
     \/ /\ tokens[s] = 0 /\ p \notin queued[s]
        /\ queued' = [queued EXCEPT ![s] = @ \cup {p}]
        /\ asleep' = asleep \cup {p}
        /\ UNCHANGED tokens
  /\ UNCHANGED used

V(s) ==
  /\ used[s]
  /\ \/ /\ queued[s] = {}
        /\ tokens' = [tokens EXCEPT ![s] = @ + 1]
        /\ UNCHANGED <<queued, asleep>>
     \/ /\ \E p \in queued[s] :
             /\ queued' = [queued EXCEPT ![s] = @ \ {p}]
             /\ asleep' = asleep \ {p}
        /\ UNCHANGED tokens
  /\ UNCHANGED used

\* What is no business of the semaphores: p waits for a child, or p ends and
\* with it the sleep of its parent q.
Elsewhere(p, q) ==
  /\ asleep' \in {asleep \cup {p}, asleep \ {p}, asleep \ {p, q}}
  /\ UNCHANGED <<used, tokens, queued>>

Next ==
  \/ \E s \in Sem :
       \/ \E v \in Initial : Get(s, v)
       \/ Free(s) \/ V(s)
       \/ \E p \in Proc : P(s, p)
  \/ \E p, q \in Proc : Elsewhere(p, q)

Spec == Init /\ [][Next]_vars

=============================================================================
