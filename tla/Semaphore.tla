------------------------------ MODULE Semaphore ------------------------------
(***************************************************************************)
(* Counting semaphores (include/semaphore.h) on top of the process table,  *)
(* behind int 0x80 calls 20 to 23.                                         *)
(*                                                                         *)
(* The waiters of a semaphore are chained through process.next, the last   *)
(* one to block in front.  There is one `next` per process and do_sem_v    *)
(* takes the new head from it, but from curr_proc->next, the link of the   *)
(* process that signals, where the queue asks for head->next.  The module  *)
(* keeps the code's version.                                               *)
(***************************************************************************)
EXTENDS Task, FiniteSets

CONSTANTS
  N_SEMAPHORE,  \* semaphores of sem_list; 100 in the source
  InitVals      \* the initial values user programs ask get_sem for

Sem == 0 .. N_SEMAPHORE - 1

ASSUME SemaphoreAssumption ==
  /\ N_SEMAPHORE \in Nat \ {0}
  /\ InitVals \subseteq Nat

VARIABLES
  next,  \* proc_list[i].next, a slot or NULL
  val,   \* sem_list[s].val
  used,  \* sem_list[s].used
  head   \* sem_list[s].head, a slot or NULL

semVars == <<next, val, used, head>>

sem_init ==
  /\ next = [i \in Slot |-> NULL]
  /\ val = [s \in Sem |-> 0]
  /\ used = [s \in Sem |-> FALSE]
  /\ head = [s \in Sem |-> NULL]

\* Faulty variants of sem_wait: block from another value on.
faulty_p(s, most) ==
  /\ curr_proc # NULL
  /\ val' = [val EXCEPT ![s] = @ - 1]
  /\ \/ /\ val[s] > most
        /\ UNCHANGED <<next, head, taskVars>>
     \/ /\ val[s] <= most
        /\ next' = [next EXCEPT ![curr_proc] = head[s]]
        /\ head' = [head EXCEPT ![s] = curr_proc]
        /\ do_wait
  /\ UNCHANGED used

\* One caller too many gets past the semaphore.
do_sem_p_late(s) == faulty_p(s, -1)

\* The caller that takes the last token blocks.
do_sem_p_early(s) == faulty_p(s, 1)

\* sem_wait: the caller queues itself and blocks when the value was not positive.
do_sem_p(s) ==
  /\ curr_proc # NULL
  /\ val' = [val EXCEPT ![s] = @ - 1]
  /\ \/ /\ val[s] > 0
        /\ UNCHANGED <<next, head, taskVars>>
     \/ /\ val[s] <= 0
        /\ next' = [next EXCEPT ![curr_proc] = head[s]]
        /\ head' = [head EXCEPT ![s] = curr_proc]
        /\ do_wait
  /\ UNCHANGED used

\* The pid do_sem_v reads through head.  The code does not test head for NULL:
\* there it reads whatever low memory holds, and 0 .. MAX_PROCESS are all the
\* values wakeup tells apart.
head_pid(s) == IF head[s] = NULL THEN 0 .. MAX_PROCESS ELSE {pid[head[s]]}

\* Faulty: the last waiter is forgotten.
do_sem_v_late(s) ==
  /\ curr_proc # NULL
  /\ val' = [val EXCEPT ![s] = @ + 1]
  /\ \/ /\ val[s] >= -1
        /\ UNCHANGED <<head, taskVars>>
     \/ /\ val[s] < -1
        /\ head' = [head EXCEPT ![s] = next[curr_proc]]
        /\ \E p \in head_pid(s) : wake(p)
  /\ UNCHANGED <<next, used>>

\* Faulty: the process that is woken stays in the queue.
do_sem_v_keeps_head(s) ==
  /\ curr_proc # NULL
  /\ val' = [val EXCEPT ![s] = @ + 1]
  /\ \/ val[s] >= 0 /\ UNCHANGED taskVars
     \/ val[s] < 0 /\ \E p \in head_pid(s) : wake(p)
  /\ UNCHANGED <<next, used, head>>

\* Faulty: makes the waiter READY behind the scheduler's back.
do_sem_v_unscheduled(s) ==
  /\ curr_proc # NULL
  /\ val' = [val EXCEPT ![s] = @ + 1]
  /\ IF val[s] < 0 /\ head[s] # NULL
     THEN /\ status' = [status EXCEPT ![head[s]] = "READY"]
          /\ head' = [head EXCEPT ![s] = next[curr_proc]]
     ELSE UNCHANGED <<status, head>>
  /\ UNCHANGED <<next, used, pid, parent, tick, curr_proc, curr_pid>>

\* sem_signal: wake the front of the queue when somebody was waiting.
do_sem_v(s) ==
  /\ curr_proc # NULL
  /\ val' = [val EXCEPT ![s] = @ + 1]
  /\ \/ /\ val[s] >= 0
        /\ UNCHANGED <<head, taskVars>>
     \/ /\ val[s] < 0
        /\ head' = [head EXCEPT ![s] = next[curr_proc]]
        /\ \E p \in head_pid(s) : wake(p)
  /\ UNCHANGED <<next, used>>

\* Faulty: every semaphore starts with one token.
do_getsem_open(s, v) ==
  /\ curr_proc # NULL
  /\ ~used[s] /\ \A t \in Sem : t < s => used[t]
  /\ val' = [val EXCEPT ![s] = 1]
  /\ used' = [used EXCEPT ![s] = TRUE]
  /\ UNCHANGED <<next, head, taskVars>>

\* get_sem(v) returns s, the first unused semaphore.  With none left it
\* returns -1 and changes nothing.
do_getsem(s, v) ==
  /\ curr_proc # NULL
  /\ ~used[s] /\ \A t \in Sem : t < s => used[t]
  /\ val' = [val EXCEPT ![s] = v]
  /\ used' = [used EXCEPT ![s] = TRUE]
  /\ UNCHANGED <<next, head, taskVars>>

do_freesem(s) ==
  /\ curr_proc # NULL
  /\ used' = [used EXCEPT ![s] = FALSE]
  /\ head' = [head EXCEPT ![s] = NULL]
  /\ UNCHANGED <<next, val, taskVars>>

-----------------------------------------------------------------------------
(* Processes that use semaphores they got, and give back semaphores nobody *)
(* waits for, next to all they can do in Task.                             *)

CONSTANTS MaxDown, MaxUp  \* the models keep val in -MaxDown .. MaxUp

ProcessNext ==
  \/ \E c \in Slot \cup {NULL} : proc_create(c) \/ do_fork(c)
  \/ do_wait \/ do_exit \/ user_process_return \/ pit_handler_main

SemNext ==
  \/ ProcessNext /\ UNCHANGED semVars
  \/ \E s \in Sem :
       \/ \E v \in InitVals : do_getsem(s, v)
       \/ used[s] /\ val[s] > -MaxDown /\ do_sem_p(s)
       \/ used[s] /\ val[s] < MaxUp /\ do_sem_v(s)
       \/ used[s] /\ val[s] >= 0 /\ do_freesem(s)

SemSpec == proc_init /\ sem_init /\ [][SemNext]_<<taskVars, semVars>>

\* The programs in usr/ keep to one waiter at a time on every semaphore.
OneWaiter == \A s \in Sem : val[s] < 0 => val'[s] >= val[s]

SoloSpec ==
  proc_init /\ sem_init /\ [][SemNext /\ OneWaiter]_<<taskVars, semVars>>

\* Any such programs under the free-running timer.
FairSpec == SoloSpec /\ WF_<<taskVars, semVars>>(pit_handler_main /\ UNCHANGED semVars)

-----------------------------------------------------------------------------
(* Properties.                                                             *)

\* With one waiter at a time the queue is right although do_sem_v takes the
\* wrong link: the value counts the waiter, and no link is ever set, so that
\* curr_proc->next and head->next are the same null pointer.
QueueExact ==
  /\ \A s \in Sem : val[s] >= -1 /\ (val[s] = -1 <=> head[s] # NULL)
  /\ \A i \in Slot : next[i] = NULL

\* sem_signal on a semaphore that has a waiter releases that waiter.
SignalReleases ==
  [][\A s \in Sem :
       /\ val[s] < 0 /\ head[s] # NULL
       /\ val'[s] = val[s] + 1
       => status'[head[s]] # "WAITING"]_<<taskVars, semVars>>

\* From each process, the processes that at most n links lead to.
chain[n \in 0 .. MAX_PROCESS] ==
  [i \in Slot \cup {NULL} |->
     IF i = NULL \/ n = 0 THEN {} ELSE {i} \cup chain[n - 1][next[i]]]

\* Who is queued at s by the links.
waiters(s) == chain[MAX_PROCESS][head[s]]

\* A process that sem_wait has blocked sleeps until somebody signals its
\* semaphore.  do_exit (task.h:468) does not see to it, which wakes the parent
\* whatever that waits for: the programs must, by when they exit.
SleepsUntilSignal ==
  [][\A s \in Sem : \A i \in waiters(s) \ {curr_proc} :
       status[i] = "WAITING" /\ status'[i] # "WAITING"
       => val'[s] > val[s]]_<<taskVars, semVars>>

\* How the semaphores of the textbook are read from the code's: the value and
\* those queued by the links make up the tokens, and asleep is who is blocked in
\* the process table.
Counting == INSTANCE CountingSemaphore WITH
  Proc <- Slot,
  Sem <- Sem,
  Initial <- InitVals,
  tokens <- [s \in Sem |-> val[s] + Cardinality(waiters(s))],
  queued <- [s \in Sem |-> waiters(s)],
  asleep <- {i \in Slot : status[i] = "WAITING"}

\* sem_wait is P of its caller and sem_signal is V, and no other step.
CallsCount ==
  \A s \in Sem :
    /\ \A p \in Slot : curr_proc = p /\ do_sem_p(s) => Counting!P(s, p)
    /\ do_sem_v(s) => Counting!V(s)

\* The semaphores of the kernel count: with one waiter at a time they implement
\* those of the textbook, call by call, and do_sem_p and do_sem_v block and wake
\* in the table exactly those whom they queue and release.
CountingSemaphores == Counting!Spec /\ [][CallsCount]_<<taskVars, semVars>>

=============================================================================
