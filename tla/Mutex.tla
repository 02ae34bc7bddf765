-------------------------------- MODULE Mutex --------------------------------
(***************************************************************************)
(* The kernel's mutex (mutex_get, mutex_lock and mutex_unlock of           *)
(* include/semaphore.h), used by N processes of one program that enter and *)
(* leave a critical section forever, next to the Background.               *)
(***************************************************************************)
EXTENDS Program

CONSTANT N  \* contenders

Constants == N \in 1 .. MAX_PROCESS - Background

\* main and the processes it forks, which take the slots after the Background.
Contender == {0} \cup Background + 1 .. Background + N - 1

mutex_get(lock_id) == do_getsem(lock_id, 1)
mutex_lock(lock_id) == do_sem_p(lock_id)
mutex_unlock(lock_id) == do_sem_v(lock_id)

get == at("get") /\ mutex_get(0) /\ goto("fork")

\* main forks until there are N processes, then joins the others.
fork ==
  /\ at("fork")
  /\ IF curr_pid < Background + N
     THEN \E c \in Slot : do_fork(c) /\ pc' = [pc EXCEPT ![c] = "lock"]
     ELSE goto("lock") /\ UNCHANGED taskVars
  /\ UNCHANGED semVars

lock == at("lock") /\ mutex_lock(0) /\ goto("inside")

unlock == at("inside") /\ mutex_unlock(0) /\ goto("lock")

Step == get \/ fork \/ lock \/ unlock

Init == exec_user_prg("get")

Next == Step \/ other_return \/ tick_step

\* Every process that keeps getting the CPU keeps taking steps, and the PIT
\* keeps ticking.
Spec ==
  /\ Init /\ [][Next]_progVars
  /\ \A i \in Contender : SF_progVars(curr_proc = i /\ Step)
  /\ WF_progVars(tick_step)

-----------------------------------------------------------------------------

\* In mutex_lock, off the CPU, and not yet woken.  A call that found nobody
\* else READY has returned: its caller is inside, WAITING or not.
Blocked(i) == pc[i] = "inside" /\ status[i] = "WAITING" /\ curr_proc # i

Holds(i) == pc[i] = "inside" /\ ~Blocked(i)

\* At most one contender is between mutex_lock and mutex_unlock.
MutualExclusion ==
  \A i, j \in Contender : Holds(i) /\ Holds(j) => i = j

\* A contender is blocked only while another one holds the mutex.
NobodyLost ==
  \A i \in Contender : Blocked(i) => \E j \in Contender : Holds(j)

\* Every contender that asks for the mutex gets it.
EveryoneEnters == \A i \in Contender : pc[i] = "lock" ~> Holds(i)

=============================================================================
