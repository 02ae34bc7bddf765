-------------------------------- MODULE ProCon --------------------------------
(***************************************************************************)
(* usr/pro-con.c: a producer and a consumer, synchronized by a counting    *)
(* semaphore n and a mutex.  tot is only touched under the mutex, so its   *)
(* updates are single steps.                                               *)
(***************************************************************************)
EXTENDS Program, FiniteSets

CONSTANT MaxStock  \* the models let the producer get at most so far ahead

\* fork finds a free slot, and the second get_sem a semaphore.
Constants ==
  /\ MaxStock \in Nat \ {0}
  /\ Background + 1 < MAX_PROCESS
  /\ N_SEMAPHORE >= 2

VARIABLE tot

vars == <<progVars, tot>>

mutex == 0
n == 1
Producer == 0

main ==
  /\ \/ at("mutex") /\ do_getsem(mutex, 1) /\ goto("n")
     \/ at("n") /\ do_getsem(n, 0) /\ goto("fork")
  /\ UNCHANGED tot

\* Constants has a free slot for the child: the answer -1 and its exit(-1) are
\* left out.
fork ==
  /\ at("fork")
  /\ \E c \in Slot : do_fork(c) /\ pc' = [pc EXCEPT ![c] = "take", ![curr_proc] = "p_wait"]
  /\ UNCHANGED <<semVars, tot>>

produce ==
  \/ /\ at("p_wait") /\ val[n] < MaxStock /\ do_sem_p(mutex)
     /\ goto("add")
     /\ UNCHANGED tot
  \/ /\ at("add")
     /\ tot' = tot + 1
     /\ goto("p_signal")
     /\ UNCHANGED <<taskVars, semVars>>
  \/ /\ at("p_signal") /\ do_sem_v(mutex) /\ goto("offer") /\ UNCHANGED tot
  \/ /\ at("offer") /\ do_sem_v(n) /\ goto("p_wait") /\ UNCHANGED tot

consume ==
  \/ /\ at("take") /\ do_sem_p(n) /\ goto("c_wait") /\ UNCHANGED tot
  \/ /\ at("c_wait") /\ do_sem_p(mutex) /\ goto("subtract") /\ UNCHANGED tot
  \/ /\ at("subtract")
     /\ tot' = tot - 1
     /\ goto("c_signal")
     /\ UNCHANGED <<taskVars, semVars>>
  \/ /\ at("c_signal") /\ do_sem_v(mutex) /\ goto("take") /\ UNCHANGED tot

Step == main \/ fork \/ produce \/ consume

Init == exec_user_prg("mutex") /\ tot = 0

Next ==
  \/ Step
  \/ other_return /\ UNCHANGED tot
  \/ tick_step /\ UNCHANGED tot

Spec == Init /\ [][Next]_vars

-----------------------------------------------------------------------------
Blocked(i) == status[i] = "WAITING" /\ curr_proc # i
InMutex(i) ==
  pc[i] \in {"add", "p_signal", "subtract", "c_signal"} /\ ~Blocked(i)

\* Producer and consumer are never both between their P and V on the mutex.
MutualExclusion == \A i, j \in Slot : InMutex(i) /\ InMutex(j) => i = j

\* tot is the stock: what semaphore n offers, plus what the producer has added
\* and not offered, plus what the consumer has taken and not subtracted.  (It
\* never takes what was not produced: this sum is not negative.)
StockExact ==
  tot = (IF val[n] > 0 THEN val[n] ELSE 0)
        + Cardinality({i \in Slot : pc[i] \in {"p_signal", "offer"}})
        + Cardinality({i \in Slot : \/ pc[i] = "c_wait" /\ ~Blocked(i)
                                    \/ pc[i] = "subtract"})

=============================================================================
