---------------------------- MODULE ProgramProofs ----------------------------
(***************************************************************************)
(* What the user programs promise, for any number of contenders, rounds,   *)
(* rows and threads, on a table and semaphores of any size.                *)
(***************************************************************************)
EXTENDS MCPrograms, SemaphoreProofs, FiniteSetTheorems

-----------------------------------------------------------------------------
(* What all programs have in common.                                       *)

\* The handlers below see a table in order, and every slot that is taken has a
\* place in its program.
Base(labels) ==
  /\ Kernel /\ LinksTyped /\ val \in [Sem -> Int]
  /\ pc \in [Slot -> labels]
  /\ \A i \in Slot : pc[i] = "none" <=> i >= curr_pid

LEMMA CallerPlace ==
  ASSUME NEW labels, Base(labels), NEW l, at(l)
  PROVE  /\ curr_proc \in Slot /\ curr_proc < curr_pid
         /\ pc[curr_proc] = l /\ l \in labels
         /\ ~Asleep(curr_proc)
BY DEF Base, at, Kernel, TaskInv, TaskTypeOK, PidOfSlot, CurrNotReady, Asleep

\* exec hands over a table in order: B other programs beside the modelled one.
Loaded(B, start) ==
  /\ status = [i \in Slot |-> IF i = 0 THEN "RUNNING"
                              ELSE IF i <= B THEN "READY" ELSE "NEW"]
  /\ pid = [i \in Slot |-> IF i <= B THEN i + 1 ELSE 0]
  /\ parent = [i \in Slot |-> NULL]
  /\ tick = [i \in Slot |-> IF i <= B THEN MAX_TICK ELSE 0]
  /\ curr_proc = 0 /\ curr_pid = B + 1
  /\ sem_init
  /\ pc = [i \in Slot |-> IF i = 0 THEN start
                          ELSE IF i \in 1 .. B THEN "other" ELSE "none"]

LEMMA ExecTable ==
  ASSUME NEW B \in 0 .. MAX_PROCESS - 1, NEW start, Loaded(B, start),
         start \notin {"other", "none"}
  PROVE  /\ Kernel /\ LinksTyped /\ val = [s \in Sem |-> 0] /\ QueueExact
         /\ curr_proc = 0 /\ curr_pid = B + 1 /\ 0 \in Slot
         /\ pc \in [Slot -> {start, "other", "none"}]
         /\ \A i \in Slot : /\ ~Waiting(i) /\ ~Dead(i) /\ parent[i] = NULL
                            /\ pc[i] = "none" <=> i >= curr_pid
                            /\ pc[i] = start <=> i = 0
                            /\ pc[i] = "other" <=> i \in 1 .. B
<1> USE TableAssumption DEF Slot, Loaded
<1>1. /\ TaskTypeOK /\ OneRunning /\ CurrNotReady /\ PidOfSlot /\ ParentOlder /\ IdleWait
  BY DEF TaskTypeOK, OneRunning, CurrNotReady, PidOfSlot, ParentOlder, IdleWait, Status
<1>2. LinksTyped /\ val = [s \in Sem |-> 0] /\ QueueExact
  BY DEF sem_init, LinksTyped, QueueExact
<1> QED BY <1>1, <1>2 DEF Kernel, TaskInv, Waiting, Dead

\* P and V leave typed links and values, whatever the queues hold.
LEMMA SemKeeps ==
  ASSUME LinksTyped, val \in [Sem -> Int], curr_proc \in Slot, NEW s \in Sem
  PROVE  /\ do_sem_p(s) => /\ LinksTyped' /\ val' = [val EXCEPT ![s] = @ - 1]
                           /\ val' \in [Sem -> Int]
         /\ do_sem_v(s) => /\ LinksTyped' /\ val' = [val EXCEPT ![s] = @ + 1]
                           /\ val' \in [Sem -> Int]
         /\ \A v \in Int : do_getsem(s, v) =>
              /\ LinksTyped' /\ val' = [val EXCEPT ![s] = v]
              /\ val' \in [Sem -> Int] /\ UNCHANGED <<taskVars, head, next>>
<1> USE DEF LinksTyped
<1>1. do_sem_p(s) => /\ LinksTyped' /\ val' = [val EXCEPT ![s] = @ - 1]
                     /\ val' \in [Sem -> Int]
  BY DEF do_sem_p
<1>2. do_sem_v(s) => /\ LinksTyped' /\ val' = [val EXCEPT ![s] = @ + 1]
                     /\ val' \in [Sem -> Int]
  BY DEF do_sem_v
<1> QED BY <1>1, <1>2 DEF do_getsem

\* A step that takes no slot moves one process to another place.
LEMMA BaseKeeps ==
  ASSUME NEW labels, Base(labels), NEW me \in Slot, me < curr_pid,
         Kernel', LinksTyped', val' \in [Sem -> Int], UNCHANGED curr_pid,
         NEW l \in labels, l # "none", pc' = [pc EXCEPT ![me] = l]
  PROVE  Base(labels)'
<1>1. curr_pid \in Int
  BY DEF Base, Kernel, TaskInv, TaskTypeOK
<1>2. \A i \in Slot : pc'[i] = "none" <=> i >= curr_pid'
  BY <1>1, TableAssumption DEF Base, Slot
<1> QED BY <1>2 DEF Base

\* The table and the sleepers of a step that calls nothing.
LEMMA Unmoved ==
  ASSUME UNCHANGED taskVars
  PROVE  /\ Kernel => Kernel'
         /\ UNCHANGED <<curr_pid, curr_proc, parent>>
         /\ \A i : /\ Waiting(i)' <=> Waiting(i)
                   /\ Asleep(i)' <=> Asleep(i)
                   /\ Dead(i)' <=> Dead(i)
BY DEF taskVars, Kernel, TaskInv, TaskTypeOK, OneRunning, CurrNotReady, PidOfSlot, ParentOlder,
       IdleWait, Waiting, Asleep, Dead

LEMMA TickEffect ==
  ASSUME NEW labels, Base(labels), tick_step
  PROVE  /\ Base(labels)' /\ UNCHANGED <<pc, val, head, next, curr_pid, parent>>
         /\ \A i \in Slot : /\ Waiting(i)' <=> Waiting(i)
                            /\ Asleep(i)' <=> Asleep(i)
                            /\ Dead(i)' <=> Dead(i)
BY TimerEffect DEF tick_step, Base, semVars, LinksTyped, pit_handler_main

LEMMA OtherEffect ==
  ASSUME NEW labels, Base(labels), "gone" \in labels, other_return
  PROVE  /\ Base(labels)' /\ UNCHANGED <<val, head, next, curr_pid, parent>>
         /\ \E me \in Slot :
              /\ pc[me] = "other" /\ pc' = [pc EXCEPT ![me] = "gone"] /\ ~Asleep(me)
              /\ \A i \in Slot : /\ Waiting(i)' <=> Waiting(i) /\ i # me
                                 /\ Asleep(i)' <=> Asleep(i)
                                 /\ Dead(i)' <=> Dead(i) \/ i = me
<1> DEFINE me == curr_proc
<1>1. PICK w \in Slot : w = curr_proc /\ w < curr_pid /\ pc[w] = "other" /\ ~Asleep(w)
  BY CallerPlace DEF other_return
<1>2. /\ Kernel' /\ UNCHANGED curr_pid
      /\ \A i \in Slot : /\ Asleep(i)' <=> Asleep(i)
                         /\ Waiting(i)' <=> Waiting(i) /\ i # w
                         /\ Dead(i)' <=> Dead(i) \/ i = w
  BY <1>1, ReturnEffect DEF other_return, Base
<1>3. /\ UNCHANGED <<val, head, next, parent>> /\ pc' = [pc EXCEPT ![w] = "gone"]
  BY <1>1 DEF other_return, semVars, user_process_return, goto
<1>4. LinksTyped' /\ val' \in [Sem -> Int]
  BY <1>3 DEF Base, LinksTyped
<1>5. Base(labels)'
  BY <1>1, <1>2, <1>3, <1>4, BaseKeeps
<1> QED BY <1>1, <1>2, <1>3, <1>5

\* The exact queues of semaphores with one waiter.
LEMMA SoloKeeps ==
  ASSUME Solo, Kernel', UNCHANGED <<val, head, next>>
  PROVE  Solo'
BY DEF Solo, LinksTyped, QueueExact

LEMMA SoloGet ==
  ASSUME Solo, NEW s \in Sem, val[s] >= 0, NEW v \in Nat, do_getsem(s, v)
  PROVE  /\ Solo' /\ val' = [val EXCEPT ![s] = v]
         /\ UNCHANGED <<taskVars, head, next>>
<1>1. /\ val' = [val EXCEPT ![s] = v] /\ UNCHANGED <<taskVars, head, next>>
  BY DEF do_getsem
<1>2. Kernel'
  BY <1>1, Unmoved DEF Solo
<1> QED BY <1>1, <1>2 DEF Solo, LinksTyped, QueueExact

-----------------------------------------------------------------------------
(* The mutex of N contenders.                                              *)

LEMMA MutexHandlers ==
  /\ \A s \in Sem : /\ mutex!do_sem_p(s) <=> do_sem_p(s)
                    /\ mutex!do_sem_v(s) <=> do_sem_v(s)
                    /\ \A v : mutex!do_getsem(s, v) <=> do_getsem(s, v)
  /\ \A c \in Slot : mutex!do_fork(c) <=> do_fork(c)
<1> USE DEF mutex!Slot, Slot, mutex!Sem, Sem, mutex!taskVars, taskVars
<1>w. mutex!do_wait <=> do_wait
  BY DEF mutex!do_wait, do_wait, mutex!schedule_proc, schedule_proc, mutex!proc_pick, proc_pick, mutex!proc_switch, proc_switch, mutex!curr_index, curr_index, mutex!scan_pos, scan_pos
<1>1. ASSUME NEW s \in Sem PROVE mutex!do_sem_p(s) <=> do_sem_p(s)
  BY <1>w DEF mutex!do_sem_p, do_sem_p
<1>2. ASSUME NEW s \in Sem PROVE mutex!do_sem_v(s) <=> do_sem_v(s)
  BY DEF mutex!do_sem_v, do_sem_v, mutex!head_pid, head_pid, mutex!wake, wake, mutex!wakeup, wakeup, mutex!schedule_proc, schedule_proc, mutex!proc_pick, proc_pick, mutex!proc_switch, proc_switch, mutex!curr_index, curr_index, mutex!scan_pos, scan_pos
<1>3. ASSUME NEW s \in Sem, NEW v PROVE mutex!do_getsem(s, v) <=> do_getsem(s, v)
  BY DEF mutex!do_getsem, do_getsem
<1>4. ASSUME NEW c \in Slot PROVE mutex!do_fork(c) <=> do_fork(c)
  BY DEF mutex!do_fork, do_fork, mutex!proc_alloc, proc_alloc, mutex!reset_time, reset_time
<1> QED BY <1>1, <1>2, <1>3, <1>4

MutexLabels == {"get", "fork", "lock", "inside", "other", "gone", "none"}

Lockers == {i \in Slot : pc[i] = "inside"}

\* The value counts who is between P and V; of those at most one is awake.
\* The others sleep, some of them for ever when V woke the wrong one.
MutexInv ==
  /\ Base(MutexLabels)
  /\ \A i \in Slot : pc[i] \in {"get", "fork"} => i = 0 /\ ~Waiting(i)
  /\ \A i \in Slot : Dead(i) => pc[i] = "gone"
  /\ pc[0] = "get" => \A i \in Slot : pc[i] \notin {"lock", "inside"}
  /\ pc[0] # "get" => val[0] = 1 - Cardinality(Lockers)
  /\ \A i, j \in Lockers : ~Asleep(i) /\ ~Asleep(j) => i = j

LEMMA LockersFinite ==
  /\ IsFiniteSet(Lockers) /\ Cardinality(Lockers) \in Nat
  /\ Lockers = {} <=> Cardinality(Lockers) = 0
<1>1. IsFiniteSet(Slot)
  BY FS_Interval, TableAssumption DEF Slot
<1>2. IsFiniteSet(Lockers)
  BY <1>1, FS_Subset DEF Lockers
<1> QED BY <1>2, FS_CardinalityType, FS_EmptySet

LEMMA LockersMove ==
  ASSUME pc \in [Slot -> MutexLabels], NEW me \in Slot, NEW l \in MutexLabels,
         pc' = [pc EXCEPT ![me] = l]
  PROVE  /\ pc[me] # "inside" /\ l = "inside" =>
              /\ Lockers' = Lockers \cup {me}
              /\ Cardinality(Lockers)' = Cardinality(Lockers) + 1
         /\ pc[me] = "inside" /\ l # "inside" =>
              /\ Lockers' = Lockers \ {me}
              /\ Cardinality(Lockers)' = Cardinality(Lockers) - 1
         /\ pc[me] # "inside" /\ l # "inside" => Lockers' = Lockers
<1>1. pc[me] # "inside" /\ l = "inside" => Lockers' = Lockers \cup {me} /\ me \notin Lockers
  BY DEF Lockers
<1>2. pc[me] = "inside" /\ l # "inside" => Lockers' = Lockers \ {me} /\ me \in Lockers
  BY DEF Lockers
<1>3. pc[me] # "inside" /\ l # "inside" => Lockers' = Lockers
  BY DEF Lockers
<1> QED BY <1>1, <1>2, <1>3, LockersFinite, FS_AddElement, FS_RemoveElement

\* The sleepers of P and V on a mutex, whatever became of its queue.
LEMMA LockEffect ==
  ASSUME NEW labels, Base(labels), NEW me \in Slot, curr_proc = me, NEW s \in Sem, do_sem_p(s)
  PROVE  /\ Kernel' /\ UNCHANGED curr_pid
         /\ \A i \in Slot : Dead(i)' => Dead(i)
         /\ \A i \in Slot \ {me} : /\ Waiting(i)' <=> Waiting(i)
                                   /\ Asleep(i)' <=> Asleep(i)
         /\ val[s] <= 0 /\ (\E i \in Slot : status[i] = "READY") => Asleep(me)'
<1>1. CASE val[s] > 0
  BY <1>1, Unmoved DEF do_sem_p, Base
<1>2. CASE val[s] <= 0
  BY <1>2, WaitEffect DEF do_sem_p, Base
<1> QED BY <1>1, <1>2 DEF Base

LEMMA UnlockEffect ==
  ASSUME NEW labels, Base(labels), NEW me \in Slot, curr_proc = me, NEW s \in Sem, do_sem_v(s)
  PROVE  /\ Kernel' /\ UNCHANGED curr_pid
         /\ \A i \in Slot : /\ Dead(i)' <=> Dead(i)
                            /\ Waiting(i)' => Waiting(i)
         /\ \/ \A i \in Slot \ {me} : Asleep(i)' <=> Asleep(i)
            \/ \E w \in Slot : \A i \in Slot \ {me} : Asleep(i)' <=> Asleep(i) /\ i # w
<1>1. CASE val[s] >= 0
  BY <1>1, Unmoved DEF do_sem_v, Base
<1>2. CASE val[s] < 0
  <2>1. PICK p : wake(p)
    BY <1>2 DEF do_sem_v, Base
  <2> QED BY <2>1, WakeEffect DEF Base
<1> QED BY <1>1, <1>2 DEF Base

LEMMA MutexStart ==
  ASSUME mutex!Init PROVE MutexInv
<1>1. Loaded(Background, "get")
  BY DEF mutex!Init, mutex!exec_user_prg, Loaded, mutex!Slot, Slot, mutex!sem_init, sem_init, mutex!Sem, Sem
<1>2. /\ Kernel /\ LinksTyped /\ val = [s \in Sem |-> 0]
      /\ pc \in [Slot -> {"get", "other", "none"}] /\ 0 \in Slot
      /\ \A i \in Slot : /\ ~Waiting(i) /\ ~Dead(i)
                         /\ pc[i] = "none" <=> i >= curr_pid
                         /\ pc[i] = "get" <=> i = 0
  BY <1>1, ExecTable, ProgramAssumption
<1> QED BY <1>2 DEF MutexInv, Base, MutexLabels, Lockers

LEMMA MutexStep ==
  ASSUME MutexInv, mutex!Step
  PROVE  MutexInv'
<1> DEFINE me == curr_proc
<1>0. 0 \in Sem /\ 0 \in Slot /\ 1 \in Int
  BY SemaphoreAssumption, TableAssumption DEF Sem, Slot
<1>1. Base(MutexLabels) /\ Cardinality(Lockers) \in Nat
  BY LockersFinite DEF MutexInv
<1>2. CASE mutex!get
  <2>1. PICK w \in Slot : w = curr_proc /\ w < curr_pid /\ pc[w] = "get"
    BY <1>1, <1>2, CallerPlace DEF mutex!get, mutex!at, at
  <2>2. do_getsem(0, 1) /\ pc' = [pc EXCEPT ![w] = "fork"]
    BY <1>0, <1>2, <2>1, MutexHandlers DEF mutex!get, mutex!mutex_get, mutex!goto
  <2>3. /\ LinksTyped' /\ val' = [val EXCEPT ![0] = 1] /\ val' \in [Sem -> Int]
        /\ UNCHANGED taskVars
    BY <1>0, <1>1, <2>1, <2>2, SemKeeps DEF Base
  <2>4. Base(MutexLabels)'
    BY <1>1, <2>1, <2>2, <2>3, Unmoved, BaseKeeps DEF Base, MutexLabels
  <2>5. w = 0 /\ Lockers = {} /\ Cardinality(Lockers) = 0 /\ Lockers' = Lockers
    BY <1>0, <1>1, <2>1, <2>2, LockersMove, LockersFinite DEF MutexInv, Lockers, Base, MutexLabels
  <2>6. val'[0] = 1
    BY <1>0, <1>1, <2>3 DEF Base
  <2> QED BY <1>0, <1>1, <2>1, <2>2, <2>3, <2>4, <2>5, <2>6, Unmoved DEF MutexInv, Base
<1>3. CASE mutex!fork
  <2>1. PICK w \in Slot : w = curr_proc /\ w < curr_pid /\ pc[w] = "fork" /\ w = 0 /\ ~Waiting(w)
    BY <1>1, <1>3, CallerPlace DEF mutex!fork, mutex!at, at, MutexInv
  <2>2. LinksTyped' /\ val' \in [Sem -> Int] /\ val' = val
    BY <1>1, <1>3 DEF mutex!fork, mutex!semVars, LinksTyped, Base
  <2>3. CASE UNCHANGED taskVars /\ pc' = [pc EXCEPT ![w] = "lock"]
    <3>1. Base(MutexLabels)'
      BY <1>1, <2>1, <2>2, <2>3, Unmoved, BaseKeeps DEF Base, MutexLabels
    <3>2. Lockers' = Lockers
      BY <1>1, <2>1, <2>3, LockersMove DEF Base, MutexLabels
    <3>3. \A i \in Slot : /\ Waiting(i)' <=> Waiting(i)
                          /\ Asleep(i)' <=> Asleep(i)
                          /\ Dead(i)' <=> Dead(i)
      BY <2>3, Unmoved
    <3>4. Lockers \subseteq Slot /\ Cardinality(Lockers)' = Cardinality(Lockers)
      BY <3>2 DEF Lockers
    <3> QED BY <1>0, <1>1, <2>1, <2>2, <2>3, <3>1, <3>2, <3>3, <3>4 DEF MutexInv, Base
  <2>4. ASSUME NEW c \in Slot, do_fork(c), pc' = [pc EXCEPT ![c] = "lock"] PROVE MutexInv'
    <3>1. /\ Kernel' /\ UNCHANGED curr_proc
          /\ c = curr_pid /\ curr_pid' = c + 1
          /\ \A i \in Slot : /\ Asleep(i)' <=> Asleep(i)
                             /\ Waiting(i)' <=> Waiting(i)
                             /\ Dead(i)' <=> Dead(i)
      BY <1>1, <2>1, <2>4, ForkEffect DEF Base, Waiting
    <3>2. Base(MutexLabels)' /\ pc[c] = "none" /\ c # 0
      BY <1>1, <2>1, <2>2, <2>4, <3>1, TableAssumption DEF Base, MutexLabels, Slot
    <3>3. Lockers' = Lockers
      BY <1>1, <2>4, <3>2, LockersMove DEF Base, MutexLabels
    <3>4. /\ Lockers \subseteq Slot /\ Cardinality(Lockers)' = Cardinality(Lockers)
          /\ pc'[0] = "fork" /\ pc[0] = "fork"
          /\ \A i \in Slot : i # c => pc'[i] = pc[i]
          /\ pc'[c] = "lock" /\ ~Dead(c)
      BY <1>0, <1>1, <2>1, <2>4, <3>2, <3>3 DEF Lockers, Base, MutexInv
    <3>5. \A i \in Slot : /\ pc'[i] \in {"get", "fork"} => i = 0 /\ ~Waiting(i)'
                          /\ Dead(i)' => pc'[i] = "gone"
      BY <3>1, <3>4 DEF MutexInv
    <3>6. \A i, j \in Lockers' : ~Asleep(i)' /\ ~Asleep(j)' => i = j
      BY <3>1, <3>3, <3>4 DEF MutexInv
    <3> QED BY <2>2, <3>2, <3>4, <3>5, <3>6 DEF MutexInv
  <2> QED BY <1>0, <1>3, <2>1, <2>3, <2>4, MutexHandlers DEF mutex!fork, mutex!goto, mutex!Slot, Slot, mutex!taskVars, taskVars
<1>4. CASE mutex!lock
  <2>1. PICK w \in Slot : w = curr_proc /\ w < curr_pid /\ pc[w] = "lock"
    BY <1>1, <1>4, CallerPlace DEF mutex!lock, mutex!at, at
  <2>2. do_sem_p(0) /\ pc' = [pc EXCEPT ![w] = "inside"]
    BY <1>0, <1>4, <2>1, MutexHandlers DEF mutex!lock, mutex!mutex_lock, mutex!goto
  <2>3. /\ LinksTyped' /\ val' = [val EXCEPT ![0] = @ - 1] /\ val' \in [Sem -> Int]
        /\ val'[0] = val[0] - 1 /\ val[0] \in Int
    BY <1>0, <1>1, <2>1, <2>2, SemKeeps DEF Base
  <2>4. /\ Kernel' /\ UNCHANGED curr_pid
        /\ \A i \in Slot : Dead(i)' => Dead(i)
        /\ \A i \in Slot \ {w} : /\ Waiting(i)' <=> Waiting(i)
                                 /\ Asleep(i)' <=> Asleep(i)
        /\ val[0] <= 0 /\ (\E i \in Slot : status[i] = "READY") => Asleep(w)'
    BY <1>0, <1>1, <2>1, <2>2, LockEffect
  <2>5. Base(MutexLabels)'
    BY <1>1, <2>1, <2>2, <2>3, <2>4, BaseKeeps DEF MutexLabels
  <2>6. /\ Lockers' = Lockers \cup {w} /\ w \notin Lockers
        /\ Cardinality(Lockers)' = Cardinality(Lockers) + 1
    BY <1>1, <2>1, <2>2, LockersMove DEF Base, MutexLabels, Lockers
  <2>7. pc[0] # "get" /\ val[0] = 1 - Cardinality(Lockers)
    BY <2>1 DEF MutexInv
  <2>8. ASSUME NEW i \in Lockers, ~Asleep(i) PROVE Asleep(w)'
    <3>1. i \in Slot /\ i # w /\ i < curr_pid /\ ~Dead(i)
      BY <1>1, <2>1, <2>6, <2>8, TableAssumption DEF Lockers, MutexInv, Base, Slot, Kernel, TaskInv, TaskTypeOK
    <3>2. status[i] = "READY"
      BY <1>1, <2>1, <2>8, <3>1, AwakeReady DEF Base
    <3>3. val[0] <= 0
      BY <1>1, <2>7, <2>8, LockersFinite
    <3> QED BY <2>4, <3>1, <3>2, <3>3
  <2>9. \A i, j \in Lockers' : ~Asleep(i)' /\ ~Asleep(j)' => i = j
    BY <2>4, <2>6, <2>8 DEF MutexInv, Lockers
  <2> QED BY <1>0, <1>1, <2>1, <2>2, <2>3, <2>4, <2>5, <2>6, <2>7, <2>9 DEF MutexInv, Base
<1>5. CASE mutex!unlock
  <2>1. PICK w \in Slot : w = curr_proc /\ w < curr_pid /\ pc[w] = "inside" /\ ~Asleep(w)
    BY <1>1, <1>5, CallerPlace DEF mutex!unlock, mutex!at, at
  <2>2. do_sem_v(0) /\ pc' = [pc EXCEPT ![w] = "lock"]
    BY <1>0, <1>5, <2>1, MutexHandlers DEF mutex!unlock, mutex!mutex_unlock, mutex!goto
  <2>3. /\ LinksTyped' /\ val' = [val EXCEPT ![0] = @ + 1] /\ val' \in [Sem -> Int]
        /\ val'[0] = val[0] + 1 /\ val[0] \in Int
    BY <1>0, <1>1, <2>1, <2>2, SemKeeps DEF Base
  <2>4. /\ Kernel' /\ UNCHANGED curr_pid
        /\ \A i \in Slot : /\ Dead(i)' <=> Dead(i)
                           /\ Waiting(i)' => Waiting(i)
        /\ \/ \A i \in Slot \ {w} : Asleep(i)' <=> Asleep(i)
           \/ \E x \in Slot : \A i \in Slot \ {w} : Asleep(i)' <=> Asleep(i) /\ i # x
    BY <1>0, <1>1, <2>1, <2>2, UnlockEffect
  <2>5. Base(MutexLabels)'
    BY <1>1, <2>1, <2>2, <2>3, <2>4, BaseKeeps DEF MutexLabels
  <2>6. /\ Lockers' = Lockers \ {w} /\ w \in Lockers
        /\ Cardinality(Lockers)' = Cardinality(Lockers) - 1
    BY <1>1, <2>1, <2>2, LockersMove DEF Base, MutexLabels, Lockers
  <2>7. pc[0] # "get" /\ val[0] = 1 - Cardinality(Lockers)
    BY <2>1 DEF MutexInv
  <2>8. \A i \in Lockers \ {w} : i \in Slot /\ Asleep(i)
    BY <2>1, <2>6 DEF MutexInv, Lockers
  <2>9. \A i, j \in Lockers' : ~Asleep(i)' /\ ~Asleep(j)' => i = j
    BY <2>4, <2>6, <2>8
  <2> QED BY <1>0, <1>1, <2>1, <2>2, <2>3, <2>4, <2>5, <2>6, <2>7, <2>9 DEF MutexInv, Base
<1> QED BY <1>2, <1>3, <1>4, <1>5 DEF mutex!Step

\* Two contenders: the second waits as the only one, at the head of the queue,
\* while the first is awake.
DuoInv ==
  LET Duo == {0, Background + 1}
  IN  /\ Solo
      /\ curr_pid \in Background + 1 .. Background + N
      /\ \A i \in Slot : pc[i] \in {"get", "fork", "lock", "inside"} => i \in Duo
      /\ \A i \in Slot : Waiting(i) => i = head[0] /\ pc[i] = "inside"
      /\ \A i \in Slot : head[0] = i => Asleep(i)
      /\ pc[0] = "get" => val[0] >= 0

\* How many of two are inside.
LEMMA DuoLockers ==
  ASSUME MutexInv, DuoInv, NEW w \in Slot, pc[w] \in {"lock", "inside"}
  PROVE  \E o \in {0, Background + 1} :
           /\ o # w
           /\ pc[w] = "lock" =>
                \/ Lockers = {} /\ val[0] = 1
                \/ Lockers = {o} /\ o \in Slot /\ val[0] = 0
           /\ pc[w] = "inside" =>
                \/ Lockers = {w} /\ val[0] = 0
                \/ Lockers = {w, o} /\ o \in Slot /\ val[0] = -1
<1>1. PICK o \in {0, Background + 1} : o # w /\ \A i \in Slot : pc[i] = "inside" => i \in {w, o}
  BY ProgramAssumption DEF DuoInv
<1>2. pc[0] # "get" /\ val[0] = 1 - Cardinality(Lockers)
  BY DEF MutexInv
<1>3. Cardinality({}) = 0 /\ Cardinality({o}) = 1 /\ Cardinality({w}) = 1 /\ Cardinality({w, o}) = 2
  <2>1. IsFiniteSet({w}) /\ Cardinality({w}) = 1 /\ Cardinality({o}) = 1 /\ {w} \cup {o} = {w, o}
    BY FS_Singleton
  <2>2. Cardinality({w} \cup {o}) = IF o \in {w} THEN Cardinality({w}) ELSE Cardinality({w}) + 1
    BY <2>1, FS_AddElement
  <2> QED BY <1>1, <2>1, <2>2, FS_EmptySet
<1>4. CASE pc[w] = "lock"
  <2>1. Lockers = {} \/ (Lockers = {o} /\ o \in Slot)
    BY <1>1, <1>4 DEF Lockers
  <2>2. (Lockers = {} /\ val[0] = 1) \/ (Lockers = {o} /\ o \in Slot /\ val[0] = 0)
    <3>1. CASE Lockers = {}
      BY <1>2, <1>3, <3>1
    <3>2. CASE Lockers = {o} /\ o \in Slot
      BY <1>2, <1>3, <3>2
    <3> QED BY <2>1, <3>1, <3>2
  <2> QED BY <1>1, <1>4, <2>2
<1>5. CASE pc[w] = "inside"
  <2>1. Lockers = {w} \/ (Lockers = {w, o} /\ o \in Slot)
    BY <1>1, <1>5 DEF Lockers
  <2>2. (Lockers = {w} /\ val[0] = 0) \/ (Lockers = {w, o} /\ o \in Slot /\ val[0] = -1)
    <3>1. CASE Lockers = {w}
      BY <1>2, <1>3, <3>1
    <3>2. CASE Lockers = {w, o} /\ o \in Slot
      BY <1>2, <1>3, <3>2
    <3> QED BY <2>1, <3>1, <3>2
  <2> QED BY <1>1, <1>5, <2>2
<1> QED BY <1>4, <1>5

LEMMA DuoStep ==
  ASSUME MutexInv, DuoInv, N <= 2, N \in Nat, mutex!Step
  PROVE  DuoInv'
<1> USE DEF DuoInv
<1>0. 0 \in Sem /\ 0 \in Slot /\ NULL \notin Slot
  BY SemaphoreAssumption, TableAssumption DEF Sem, Slot
<1>1. Base(MutexLabels) /\ curr_pid \in Nat /\ Background \in Nat
  BY ProgramAssumption DEF MutexInv, Base, Kernel, TaskInv, TaskTypeOK
<1>2. CASE mutex!get
  <2>1. PICK w \in Slot : w = curr_proc /\ w < curr_pid /\ pc[w] = "get" /\ w = 0
    BY <1>1, <1>2, CallerPlace DEF mutex!get, mutex!at, at, MutexInv
  <2>2. do_getsem(0, 1) /\ pc' = [pc EXCEPT ![w] = "fork"]
    BY <1>0, <1>2, <2>1, MutexHandlers DEF mutex!get, mutex!mutex_get, mutex!goto
  <2>3. Solo' /\ UNCHANGED <<taskVars, head>>
    BY <1>0, <2>1, <2>2, SoloGet
  <2>4. \A i \in Slot : /\ Waiting(i)' <=> Waiting(i)
                        /\ Asleep(i)' <=> Asleep(i)
    BY <2>3, Unmoved
  <2> QED BY <1>0, <1>1, <2>1, <2>2, <2>3, <2>4 DEF Base, taskVars
<1>3. CASE mutex!fork
  <2>1. PICK w \in Slot : w = curr_proc /\ w < curr_pid /\ pc[w] = "fork" /\ w = 0 /\ ~Waiting(w)
    BY <1>1, <1>3, CallerPlace DEF mutex!fork, mutex!at, at, MutexInv
  <2>2. UNCHANGED <<val, head, next>>
    BY <1>3 DEF mutex!fork, mutex!semVars
  <2>3. CASE UNCHANGED taskVars /\ pc' = [pc EXCEPT ![w] = "lock"]
    <3>1. Solo' /\ UNCHANGED curr_pid
      BY <2>2, <2>3, Unmoved, SoloKeeps DEF Solo
    <3>2. \A i \in Slot : /\ Waiting(i)' <=> Waiting(i)
                          /\ Asleep(i)' <=> Asleep(i)
      BY <2>3, Unmoved
    <3> QED BY <1>0, <1>1, <2>1, <2>2, <2>3, <3>1, <3>2 DEF Base
  <2>4. ASSUME NEW c \in Slot, do_fork(c), pc' = [pc EXCEPT ![c] = "lock"],
               curr_pid < Background + N
        PROVE DuoInv'
    <3>1. /\ Kernel' /\ UNCHANGED curr_proc
          /\ c = curr_pid /\ curr_pid' = c + 1
          /\ \A i \in Slot : /\ Asleep(i)' <=> Asleep(i)
                             /\ Waiting(i)' <=> Waiting(i)
      BY <1>1, <2>1, <2>4, ForkEffect DEF Base, Waiting
    <3>2. Solo' /\ c = Background + 1 /\ c # 0 /\ pc[c] = "none"
      BY <1>1, <2>2, <2>4, <3>1, SoloKeeps DEF Base
    <3> QED BY <1>0, <1>1, <2>1, <2>2, <2>4, <3>1, <3>2 DEF Base
  <2> QED BY <1>0, <1>3, <2>1, <2>3, <2>4, MutexHandlers DEF mutex!fork, mutex!goto, mutex!Slot, Slot, mutex!taskVars, taskVars
<1>4. CASE mutex!lock
  <2>1. PICK w \in Slot : w = curr_proc /\ w < curr_pid /\ pc[w] = "lock"
    BY <1>1, <1>4, CallerPlace DEF mutex!lock, mutex!at, at
  <2>2. do_sem_p(0) /\ pc' = [pc EXCEPT ![w] = "inside"]
    BY <1>0, <1>4, <2>1, MutexHandlers DEF mutex!lock, mutex!mutex_lock, mutex!goto
  <2>3. PICK o \in {0, Background + 1} :
               \/ Lockers = {} /\ val[0] = 1
               \/ Lockers = {o} /\ o \in Slot /\ val[0] = 0
    BY <2>1, DuoLockers
  <2>4. head[0] = NULL /\ \A i \in Slot : ~Waiting(i)
    BY <1>0, <2>3 DEF Solo, QueueExact
  <2>5. val[0] = 0 => \E i \in Slot : status[i] = "READY"
    <3> SUFFICES ASSUME val[0] = 0 PROVE status[o] = "READY"
      BY <2>3
    <3>1. o \in Slot /\ pc[o] = "inside" /\ ~Asleep(o) /\ ~Dead(o)
      BY <2>3, <2>4 DEF Lockers, Asleep, MutexInv
    <3> QED BY <1>1, <2>1, <3>1, AwakeReady, TableAssumption DEF Base, Slot
  <2>6. /\ Solo' /\ UNCHANGED curr_pid
        /\ head' = [head EXCEPT ![0] = IF val[0] = 0 THEN w ELSE NULL]
        /\ \A i \in Slot : /\ Waiting(i)' <=> Waiting(i) \/ (i = w /\ val[0] = 0)
        /\ \A i \in Slot : Asleep(i)' <=> Asleep(i) \/ (i = w /\ val[0] = 0)
    BY <1>0, <2>1, <2>2, <2>3, <2>5, SoloP
  <2>7. head'[0] = IF val[0] = 0 THEN w ELSE NULL
    BY <1>0, <2>6 DEF Solo, LinksTyped
  <2>8. pc' \in [Slot -> MutexLabels] /\ pc'[w] = "inside"
        /\ \A i \in Slot : i # w => pc'[i] = pc[i]
    BY <1>1, <2>1, <2>2 DEF Base, MutexLabels
  <2>9. \A i \in Slot : /\ Waiting(i)' => i = head'[0] /\ pc'[i] = "inside"
                        /\ head'[0] = i => Asleep(i)'
    BY <1>0, <2>4, <2>6, <2>7, <2>8
  <2>10. \A i \in Slot : pc'[i] \in {"get", "fork", "lock", "inside"} => i \in {0, Background + 1}
    BY <2>1, <2>8
  <2>11. pc'[0] # "get"
    BY <1>0, <2>1, <2>8 DEF MutexInv
  <2> QED BY <1>0, <2>1, <2>6, <2>9, <2>10, <2>11
<1>5. CASE mutex!unlock
  <2>1. PICK w \in Slot : w = curr_proc /\ w < curr_pid /\ pc[w] = "inside" /\ ~Asleep(w)
    BY <1>1, <1>5, CallerPlace DEF mutex!unlock, mutex!at, at
  <2>2. do_sem_v(0) /\ pc' = [pc EXCEPT ![w] = "lock"]
    BY <1>0, <1>5, <2>1, MutexHandlers DEF mutex!unlock, mutex!mutex_unlock, mutex!goto
  <2>3. PICK h : h = head[0]
    OBVIOUS
  <2>4. ~Waiting(w) /\ (h # NULL => h \in Slot /\ Waiting(h))
    BY <1>0, <2>1, <2>3 DEF Asleep, Solo, LinksTyped
  <2>5. /\ Solo' /\ UNCHANGED curr_pid
        /\ head' = [head EXCEPT ![0] = NULL]
        /\ \A i \in Slot : /\ Waiting(i)' <=> Waiting(i) /\ i # h
    BY <1>0, <2>1, <2>2, <2>3, <2>4, SoloV
  <2>6. head'[0] = NULL /\ \A i \in Slot : ~Waiting(i)'
    BY <1>0, <2>3, <2>5 DEF Solo, LinksTyped
  <2>7. pc' \in [Slot -> MutexLabels] /\ pc'[w] = "lock"
        /\ \A i \in Slot : i # w => pc'[i] = pc[i]
    BY <1>1, <2>1, <2>2 DEF Base, MutexLabels
  <2>8. \A i \in Slot : pc'[i] \in {"get", "fork", "lock", "inside"} => i \in {0, Background + 1}
    BY <2>1, <2>7
  <2>9. pc'[0] # "get"
    BY <1>0, <2>1, <2>7 DEF MutexInv
  <2> QED BY <1>0, <2>1, <2>5, <2>6, <2>8, <2>9
<1> QED BY <1>2, <1>3, <1>4, <1>5 DEF mutex!Step

\* The timer and the other programs change none of it.
LEMMA MutexBeside ==
  ASSUME MutexInv, tick_step \/ other_return
  PROVE  MutexInv' /\ (DuoInv => DuoInv')
<1>1. CASE tick_step
  <2>1. /\ Base(MutexLabels)' /\ UNCHANGED <<pc, val, head, next, curr_pid>>
        /\ \A i \in Slot : /\ Waiting(i)' <=> Waiting(i)
                           /\ Asleep(i)' <=> Asleep(i)
                           /\ Dead(i)' <=> Dead(i)
    BY <1>1, TickEffect DEF MutexInv
  <2>2. Lockers' = Lockers /\ Lockers \subseteq Slot
    BY <2>1 DEF Lockers
  <2>3. MutexInv'
    BY <2>1, <2>2 DEF MutexInv
  <2>4. DuoInv => DuoInv'
    BY <2>1, SoloKeeps DEF DuoInv, Base
  <2> QED BY <2>3, <2>4
<1>2. CASE other_return
  <2>1. /\ Base(MutexLabels)' /\ UNCHANGED <<val, head, next, curr_pid>>
        /\ \E me \in Slot :
              /\ pc[me] = "other" /\ pc' = [pc EXCEPT ![me] = "gone"] /\ ~Asleep(me)
              /\ \A i \in Slot : /\ Waiting(i)' <=> Waiting(i) /\ i # me
                                 /\ Asleep(i)' <=> Asleep(i)
                                 /\ Dead(i)' <=> Dead(i) \/ i = me
    BY <1>2, OtherEffect DEF MutexInv, MutexLabels
  <2>2. PICK me \in Slot :
          /\ pc[me] = "other" /\ pc' = [pc EXCEPT ![me] = "gone"] /\ ~Asleep(me)
          /\ \A i \in Slot : /\ Waiting(i)' <=> Waiting(i) /\ i # me
                             /\ Asleep(i)' <=> Asleep(i)
                             /\ Dead(i)' <=> Dead(i) \/ i = me
    BY <2>1
  <2>3. /\ 0 \in Slot /\ pc'[me] = "gone" /\ \A i \in Slot : i # me => pc'[i] = pc[i]
        /\ \A i \in Slot : pc'[i] # "gone" => pc'[i] = pc[i] /\ i # me
    BY <2>2, TableAssumption DEF MutexInv, Base, Slot
  <2>4. Lockers' = Lockers /\ Lockers \subseteq Slot
    BY <2>2, <2>3 DEF Lockers
  <2>5. MutexInv'
    <3>1. \A i \in Slot : Dead(i)' => pc'[i] = "gone"
      BY <2>2, <2>3 DEF MutexInv
    <3>2. \A i \in Slot : pc'[i] \in {"get", "fork"} => i = 0 /\ ~Waiting(i)'
      BY <2>2, <2>3 DEF MutexInv
    <3>3. /\ pc'[0] = "get" => \A i \in Slot : pc'[i] \notin {"lock", "inside"}
          /\ pc'[0] # "get" => val'[0] = 1 - Cardinality(Lockers)
          /\ \A i, j \in Lockers : ~Asleep(i)' /\ ~Asleep(j)' => i = j
      BY <2>1, <2>2, <2>3, <2>4 DEF MutexInv
    <3> QED BY <2>1, <2>4, <3>1, <3>2, <3>3 DEF MutexInv
  <2>6. ASSUME DuoInv PROVE DuoInv'
    <3>1. Solo'
      BY <2>1, <2>6, SoloKeeps DEF DuoInv, Base
    <3> QED BY <2>1, <2>2, <2>3, <2>6, <3>1 DEF DuoInv
  <2> QED BY <2>5, <2>6
<1> QED BY <1>1, <1>2

LEMMA DuoStart ==
  ASSUME mutex!Init PROVE DuoInv
<1>1. Loaded(Background, "get")
  BY DEF mutex!Init, mutex!exec_user_prg, Loaded, mutex!Slot, Slot, mutex!sem_init, sem_init, mutex!Sem, Sem
<1>2. /\ Kernel /\ LinksTyped /\ val = [s \in Sem |-> 0] /\ QueueExact
      /\ curr_pid = Background + 1
      /\ pc \in [Slot -> {"get", "other", "none"}] /\ 0 \in Slot
      /\ \A i \in Slot : ~Waiting(i) /\ (pc[i] = "get" <=> i = 0)
  BY <1>1, ExecTable, ProgramAssumption
<1>3. 0 \in Sem /\ val[0] = 0 /\ NULL \notin Slot
  BY <1>2, SemaphoreAssumption, TableAssumption DEF Sem
<1>4. head[0] = NULL
  BY <1>2, <1>3 DEF QueueExact
<1> QED BY <1>2, <1>3, <1>4, ProgramAssumption, ProgramsAssumption, TableAssumption DEF DuoInv, Solo, mutex!Constants

LEMMA MutexExcludes ==
  ASSUME MutexInv PROVE mutex!MutualExclusion
<1>1. \A i \in mutex!Contender : i \in Slot
  BY ProgramsAssumption, ProgramAssumption, TableAssumption
     DEF mutex!Contender, mutex!Constants, Slot
<1> QED BY <1>1 DEF MutexInv, Lockers, mutex!MutualExclusion, mutex!Holds, mutex!Blocked, Asleep, Waiting

LEMMA MutexLosesNobody ==
  ASSUME MutexInv, DuoInv, N <= 2 PROVE mutex!NobodyLost
<1> SUFFICES ASSUME NEW i \in mutex!Contender, mutex!Blocked(i)
             PROVE  \E j \in mutex!Contender : mutex!Holds(j)
  BY DEF mutex!NobodyLost
<1>1. /\ mutex!Contender = {0} \cup Background + 1 .. Background + N - 1
      /\ i \in Slot /\ 0 \in Sem
  BY ProgramsAssumption, ProgramAssumption, TableAssumption, SemaphoreAssumption
     DEF mutex!Contender, mutex!Constants, Slot, Sem
<1>2. pc[i] = "inside" /\ Waiting(i) /\ i = head[0]
  BY <1>1 DEF mutex!Blocked, Waiting, DuoInv
<1>3. val[0] = -1
  BY <1>1, <1>2, TableAssumption DEF DuoInv, Solo, QueueExact
<1>4. PICK o \in {0, Background + 1} : o # i /\ Lockers = {i, o} /\ o \in Slot
  BY <1>1, <1>2, <1>3, DuoLockers
<1>5. pc[o] = "inside" /\ ~Waiting(o)
  BY <1>2, <1>4 DEF Lockers, DuoInv
<1>6. o \in mutex!Contender
  BY <1>1, <1>4, <1>5, ProgramAssumption, ProgramsAssumption, TableAssumption
     DEF MutexInv, Base, DuoInv, mutex!Constants, Slot
<1> QED BY <1>4, <1>5, <1>6 DEF mutex!Holds, mutex!Blocked, Waiting

-----------------------------------------------------------------------------
(* bank.c: a parent in slot 0 and a child in slot 3, behind two others.    *)

LEMMA BankHandlers ==
  /\ \A s \in Sem : /\ bank!do_sem_p(s) <=> do_sem_p(s)
                    /\ bank!do_sem_v(s) <=> do_sem_v(s)
                    /\ \A v : bank!do_getsem(s, v) <=> do_getsem(s, v)
  /\ \A c \in Slot : bank!do_fork(c) <=> do_fork(c)
  /\ bank!do_wait <=> do_wait
  /\ bank!do_exit <=> do_exit
  /\ bank!user_process_return <=> user_process_return
<1> USE DEF bank!Slot, Slot, bank!Sem, Sem, bank!taskVars, taskVars
<1>w. bank!do_wait <=> do_wait
  BY DEF bank!do_wait, do_wait, bank!schedule_proc, schedule_proc, bank!proc_pick, proc_pick, bank!proc_switch, proc_switch, bank!curr_index, curr_index, bank!scan_pos, scan_pos
<1>1. ASSUME NEW s \in Sem PROVE bank!do_sem_p(s) <=> do_sem_p(s)
  BY <1>w DEF bank!do_sem_p, do_sem_p
<1>2. ASSUME NEW s \in Sem PROVE bank!do_sem_v(s) <=> do_sem_v(s)
  BY DEF bank!do_sem_v, do_sem_v, bank!head_pid, head_pid, bank!wake, wake, bank!wakeup, wakeup, bank!schedule_proc, schedule_proc, bank!proc_pick, proc_pick, bank!proc_switch, proc_switch, bank!curr_index, curr_index, bank!scan_pos, scan_pos
<1>3. ASSUME NEW s \in Sem, NEW v PROVE bank!do_getsem(s, v) <=> do_getsem(s, v)
  BY DEF bank!do_getsem, do_getsem
<1>4. ASSUME NEW c \in Slot PROVE bank!do_fork(c) <=> do_fork(c)
  BY DEF bank!do_fork, do_fork, bank!proc_alloc, proc_alloc, bank!reset_time, reset_time
<1>5. bank!do_exit <=> do_exit
  BY DEF bank!do_exit, do_exit, bank!wakeup, wakeup, bank!schedule_proc, schedule_proc, bank!proc_pick, proc_pick, bank!proc_switch, proc_switch, bank!curr_index, curr_index, bank!scan_pos, scan_pos
<1>6. bank!user_process_return <=> user_process_return
  BY DEF bank!user_process_return, user_process_return
<1> QED BY <1>w, <1>1, <1>2, <1>3, <1>4, <1>5, <1>6

BankLabels == {"main", "fork", "loop", "load", "store", "signal", "wait", "return",
               "other", "gone", "none"}

In(i) == pc[i] \in {"load", "store", "signal"}
Bit(b) == IF b THEN 1 ELSE 0

\* Who sleeps, and where: in sem_wait at the head of the queue, or in wait.
BankSleepers ==
  /\ \A i \in Slot : Waiting(i) => pc[i] = "return" \/ (pc[i] = "load" /\ head[0] = i)
  /\ \A i \in Slot : head[0] = i => pc[i] = "load" /\ Asleep(i)
  /\ \A i \in Slot : Dead(i) => pc[i] \in {"wait", "gone"}

BankPlaces ==
  /\ curr_pid \in {3, 4}
  /\ \A i \in Slot : pc[i] \notin {"other", "gone", "none"} => i \in {0, 3}
  /\ \A i \in Slot : pc[i] = "other" => i \in {1, 2}
  /\ pc[0] \in {"main", "fork"} <=> curr_pid = 3
  /\ pc[3] \notin {"main", "fork"} /\ pc[0] # "wait"

BankRounds ==
  /\ bank_account \in Int /\ reg \in [Slot -> Int] /\ left \in [Slot -> Nat]
  /\ \A i \in {0, 3} : /\ In(i) => left[i] > 0
                       /\ pc[i] = "store" => reg[i] = bank_account
  /\ pc[3] \in {"wait", "return", "gone"} => left[3] = 0

BankInv ==
  /\ Base(BankLabels) /\ Solo
  /\ BankPlaces /\ BankSleepers /\ BankRounds
  /\ pc[0] = "main" => val[0] = 0
  /\ pc[0] # "main" => val[0] = 1 - Bit(In(0)) - Bit(In(3))
  \* Until the child is done with the account, the parent does not return.
  /\ pc[0] \in {"return", "gone"} /\ left[3] # 0 => pc[0] = "return" /\ Asleep(0)

LEMMA BankConstants ==
  /\ 0 \in Slot /\ 3 \in Slot /\ 0 \in Sem /\ NULL \notin Slot
  /\ Deposits \in Nat /\ Withdrawals \in Nat /\ 2 \in 0 .. MAX_PROCESS - 1
BY ProgramsAssumption, TableAssumption, SemaphoreAssumption DEF bank!Constants, Slot, Sem

LEMMA BankStart ==
  ASSUME bank!Init PROVE BankInv
<1>1. Loaded(2, "main")
  BY DEF bank!Init, bank!exec_user_prg, Loaded, bank!Slot, Slot, bank!sem_init, sem_init, bank!Sem, Sem
<1>2. /\ Kernel /\ LinksTyped /\ val = [s \in Sem |-> 0] /\ QueueExact
      /\ curr_proc = 0 /\ curr_pid = 3
      /\ pc \in [Slot -> {"main", "other", "none"}]
      /\ \A i \in Slot : /\ ~Waiting(i) /\ ~Dead(i)
                         /\ pc[i] = "none" <=> i >= curr_pid
                         /\ pc[i] = "main" <=> i = 0
                         /\ pc[i] = "other" <=> i \in 1 .. 2
  BY <1>1, ExecTable, BankConstants
<1>3. /\ bank_account = 1000 /\ reg = [i \in Slot |-> 0]
      /\ left = [i \in Slot |-> IF i = 0 THEN Deposits ELSE IF i = 3 THEN Withdrawals ELSE 0]
  BY DEF bank!Init, bank!userInit, bank!Slot, Slot, bank!Parent, bank!Child
<1>4. head[0] = NULL /\ val[0] = 0
  BY <1>2, BankConstants DEF QueueExact
<1> QED BY <1>2, <1>3, <1>4, BankConstants
        DEF BankInv, Base, BankLabels, Solo, BankPlaces, BankSleepers, BankRounds, In

\* The other of the two.
Peer(i) == IF i = 0 THEN 3 ELSE 0

\* What the value says of the two when one of them has the CPU.
LEMMA BankPeer ==
  ASSUME BankInv, NEW w \in {0, 3}, curr_proc = w, pc[w] # "main"
  PROVE  /\ w \in Slot /\ Peer(w) \in Slot /\ Peer(w) # w /\ w < curr_pid
         /\ val[0] \in Int /\ val[0] = 1 - Bit(In(w)) - Bit(In(Peer(w)))
         /\ pc[0] # "main"
         /\ val[0] = 0 /\ ~In(w) => status[Peer(w)] = "READY"
         /\ \A i \in Slot : Waiting(i) /\ ~In(w) => pc[i] = "return"
         /\ head[0] # NULL => head[0] = Peer(w) /\ In(w)
<1> USE BankConstants
<1>0. w \in Slot /\ Peer(w) \in Slot /\ Peer(w) # w /\ val[0] \in Int /\ curr_pid \in {3, 4}
      /\ w < curr_pid /\ ~Asleep(w)
  BY CallerExists DEF BankInv, Base, Peer, BankPlaces
<1>1. pc[0] # "main"
  BY <1>0 DEF BankInv, BankPlaces, Base
<1>2. val[0] = 1 - Bit(In(w)) - Bit(In(Peer(w)))
  BY <1>0, <1>1 DEF BankInv, Peer, Bit
<1>3. head[0] # NULL => head[0] \in Slot /\ val[0] = -1 /\ pc[head[0]] = "load" /\ Asleep(head[0])
  BY <1>0 DEF BankInv, BankSleepers, Solo, QueueExact, LinksTyped
<1>4. head[0] # NULL => head[0] = Peer(w) /\ In(w)
  <2>1. head[0] # NULL => head[0] \in {0, 3}
    BY <1>3 DEF BankInv, BankPlaces
  <2> QED BY <1>0, <1>2, <1>3, <2>1 DEF Peer, Bit
<1>5. \A i \in Slot : Waiting(i) /\ ~In(w) => pc[i] = "return"
  BY <1>4 DEF BankInv, BankSleepers
<1>6. ASSUME val[0] = 0, ~In(w) PROVE status[Peer(w)] = "READY"
  <2>1. In(Peer(w))
    BY <1>2, <1>6 DEF Bit
  <2>2. Peer(w) < curr_pid
    BY <1>0, <2>1 DEF BankInv, Base, In, Slot
  <2>3. ~Asleep(Peer(w)) /\ ~Dead(Peer(w))
    BY <1>0, <1>5, <1>6, <2>1 DEF In, Asleep, BankInv, BankSleepers
  <2> QED BY <1>0, <2>2, <2>3, AwakeReady DEF BankInv, Base
<1> QED BY <1>0, <1>1, <1>2, <1>4, <1>5, <1>6

\* Who calls, and that the step leaves everybody else where he is.
LEMMA BankCaller ==
  ASSUME BankInv, NEW l, l \notin {"other", "gone", "none"}, bank!at(l)
  PROVE  \E w \in {0, 3} : w = curr_proc /\ pc[w] = l /\ l \in BankLabels
BY CallerPlace DEF bank!at, at, BankInv, BankPlaces

LEMMA BankMoved ==
  ASSUME BankInv, NEW w \in {0, 3}, NEW l \in BankLabels, pc' = [pc EXCEPT ![w] = l]
  PROVE  /\ pc'[w] = l /\ \A i \in Slot : i # w => pc'[i] = pc[i]
         /\ In(w)' <=> l \in {"load", "store", "signal"}
         /\ \A i \in Slot : i # w => (In(i)' <=> In(i))
BY BankConstants DEF BankInv, Base, In

LEMMA BankP ==
  ASSUME BankInv, bank!sem_wait
  PROVE  BankInv'
<1> USE BankConstants
<1>1. PICK w \in {0, 3} : w = curr_proc /\ pc[w] = "loop"
  BY BankCaller DEF bank!sem_wait
<1>2. /\ left[w] > 0 /\ do_sem_p(0) /\ pc' = [pc EXCEPT ![w] = "load"]
      /\ UNCHANGED <<bank_account, reg, left>>
  BY <1>1, BankHandlers DEF bank!sem_wait, bank!sem, bank!goto, bank!userVars
<1>3. ~In(w)
  BY <1>1 DEF In
<1>4. /\ w \in Slot /\ Peer(w) \in Slot /\ Peer(w) # w /\ w < curr_pid
      /\ val[0] = 1 - Bit(In(Peer(w))) /\ val[0] \in {0, 1} /\ pc[0] # "main"
      /\ val[0] = 0 => status[Peer(w)] = "READY"
      /\ head[0] = NULL
      /\ \A i \in Slot : Waiting(i) => pc[i] = "return"
  BY <1>1, <1>3, BankPeer DEF Bit
<1>5. /\ Solo' /\ UNCHANGED curr_pid
      /\ val' = [val EXCEPT ![0] = @ - 1]
      /\ head' = [head EXCEPT ![0] = IF val[0] = 0 THEN w ELSE NULL]
      /\ \A i \in Slot : /\ Waiting(i)' <=> Waiting(i) \/ (i = w /\ val[0] = 0)
                         /\ Dead(i)' <=> Dead(i) /\ ~(i = w /\ val[0] = 0)
      /\ \A i \in Slot : Asleep(i)' <=> Asleep(i) \/ (i = w /\ val[0] = 0)
  <2>1. /\ Solo /\ curr_proc = w /\ w \in Slot /\ do_sem_p(0) /\ 0 \in Sem
        /\ val[0] >= 0 /\ (val[0] = 0 => \E i \in Slot : status[i] = "READY")
    <3>1. Solo BY DEF BankInv
    <3>2. curr_proc = w BY <1>1
    <3>3. do_sem_p(0) BY <1>2
    <3>4. val[0] >= 0 BY <1>4
    <3>5. (val[0] = 0 => \E i \in Slot : status[i] = "READY") BY <1>4
    <3> QED BY <1>4, <3>1, <3>2, <3>3, <3>4, <3>5
  <2> QED BY ONLY <2>1, SoloP
<1>6. /\ val'[0] = val[0] - 1 /\ head'[0] = IF val[0] = 0 THEN w ELSE NULL
  BY <1>4, <1>5 DEF BankInv, Solo, LinksTyped
<1>7. /\ pc'[w] = "load" /\ \A i \in Slot : i # w => pc'[i] = pc[i]
      /\ In(w)' /\ \A i \in Slot : i # w => (In(i)' <=> In(i))
  BY <1>2, BankMoved DEF BankLabels
<1>8. Base(BankLabels)'
  BY <1>2, <1>4, <1>5, BaseKeeps DEF BankInv, BankLabels, Solo
<1>9. BankSleepers'
  BY <1>1, <1>4, <1>5, <1>6, <1>7 DEF BankInv, BankSleepers
<1>10. BankPlaces'
  BY <1>1, <1>5, <1>7 DEF BankInv, BankPlaces
<1>11. BankRounds'
  BY <1>1, <1>2, <1>4, <1>7 DEF BankInv, BankRounds
<1>12. val'[0] = 1 - Bit(In(0)') - Bit(In(3)') /\ pc'[0] # "main"
  BY <1>1, <1>3, <1>4, <1>6, <1>7 DEF Bit, Peer
<1>13. pc'[0] \in {"return", "gone"} /\ left'[3] # 0 => pc'[0] = "return" /\ Asleep(0)'
  BY <1>1, <1>2, <1>5, <1>7 DEF BankInv
<1> QED BY <1>5, <1>8, <1>9, <1>10, <1>11, <1>12, <1>13 DEF BankInv, Bit
LEMMA BankV ==
  ASSUME BankInv, bank!sem_signal
  PROVE  BankInv'
<1> USE BankConstants
<1>1. PICK w \in {0, 3} : w = curr_proc /\ pc[w] = "signal"
  BY BankCaller DEF bank!sem_signal
<1>2. /\ do_sem_v(0) /\ pc' = [pc EXCEPT ![w] = "loop"]
      /\ left' = [left EXCEPT ![w] = @ - 1] /\ UNCHANGED <<bank_account, reg>>
  BY <1>1, BankHandlers DEF bank!sem_signal, bank!sem, bank!goto, bank!userVars
<1>3. In(w)
  BY <1>1 DEF In
<1>4. /\ w \in Slot /\ Peer(w) \in Slot /\ Peer(w) # w /\ w < curr_pid
      /\ val[0] = 0 - Bit(In(Peer(w))) /\ val[0] \in Int /\ pc[0] # "main"
      /\ head[0] # NULL => head[0] = Peer(w)
  BY <1>1, <1>3, BankPeer DEF Bit
<1>5. PICK h : h = head[0]
  OBVIOUS
<1>6. ~Waiting(w) /\ (h # NULL => h \in Slot /\ Waiting(h))
  BY <1>1, <1>4, <1>5 DEF BankInv, BankSleepers, Asleep
<1>7. /\ Solo' /\ UNCHANGED curr_pid
      /\ val' = [val EXCEPT ![0] = @ + 1]
      /\ head' = [head EXCEPT ![0] = NULL]
      /\ \A i \in Slot : /\ Waiting(i)' <=> Waiting(i) /\ i # h
                         /\ Dead(i)' <=> Dead(i)
                         /\ Asleep(i)' <=> Asleep(i) /\ i # h
  <2>1. Solo
    BY DEF BankInv
  <2>2. curr_proc = w /\ do_sem_v(0)
    BY <1>1, <1>2
  <2> QED BY <1>4, <1>5, <1>6, <2>1, <2>2, SoloV
<1>8. val'[0] = val[0] + 1 /\ head'[0] = NULL
  BY <1>4, <1>7 DEF BankInv, Solo, LinksTyped
<1>9. /\ pc'[w] = "loop" /\ \A i \in Slot : i # w => pc'[i] = pc[i]
      /\ ~In(w)' /\ \A i \in Slot : i # w => (In(i)' <=> In(i))
  BY <1>2, BankMoved DEF BankLabels
<1>10. Base(BankLabels)'
  BY <1>2, <1>4, <1>7, BaseKeeps DEF BankInv, BankLabels, Solo
<1>11. BankSleepers'
  BY <1>1, <1>4, <1>5, <1>6, <1>7, <1>8, <1>9 DEF BankInv, BankSleepers
<1>12. BankPlaces'
  BY <1>1, <1>7, <1>9 DEF BankInv, BankPlaces
<1>13. left[w] > 0 /\ left \in [Slot -> Nat] /\ left' \in [Slot -> Nat]
       /\ left'[w] = left[w] - 1 /\ \A i \in Slot : i # w => left'[i] = left[i]
  BY <1>2, <1>3, <1>4 DEF BankInv, BankRounds
<1>14. BankRounds'
  BY <1>1, <1>2, <1>4, <1>9, <1>13 DEF BankInv, BankRounds
<1>15. val'[0] = 1 - Bit(In(0)') - Bit(In(3)') /\ pc'[0] # "main"
  BY <1>1, <1>4, <1>8, <1>9 DEF Bit, Peer
<1>16. pc'[0] \in {"return", "gone"} /\ left'[3] # 0 => pc'[0] = "return" /\ Asleep(0)'
  <2>1. h # 0 \/ pc[0] = "load"
    BY <1>5 DEF BankInv, BankSleepers
  <2>2. pc'[0] \in {"return", "gone"} => w # 0 /\ pc[0] = pc'[0] /\ h # 0
    BY <1>1, <1>9, <2>1
  <2>3. left'[3] # 0 => left[3] # 0
    BY <1>1, <1>13 DEF BankInv, BankRounds
  <2> QED BY <1>7, <2>2, <2>3 DEF BankInv
<1> QED BY <1>7, <1>10, <1>11, <1>12, <1>14, <1>15, <1>16 DEF BankInv, Bit

\* The register and the account, under the semaphore.
LEMMA BankAccount ==
  ASSUME BankInv, bank!load \/ bank!store
  PROVE  BankInv'
<1> USE BankConstants
<1>1. PICK w \in {0, 3} : /\ w = curr_proc
                          /\ \/ bank!load /\ pc[w] = "load"
                             \/ bank!store /\ pc[w] = "store"
  BY BankCaller DEF bank!load, bank!store
<1>2. PICK l \in {"store", "signal"} : pc' = [pc EXCEPT ![w] = l] /\ (l = "store" <=> pc[w] = "load")
  BY <1>1 DEF bank!load, bank!store, bank!goto
<1>3. UNCHANGED <<taskVars, semVars, left>>
  BY <1>1 DEF bank!load, bank!store, bank!taskVars, bank!semVars, taskVars, semVars
<1>4. In(w) /\ pc[0] # "main" /\ w \in Slot /\ Peer(w) \in Slot /\ Peer(w) # w /\ w < curr_pid
      /\ val[0] = 0 - Bit(In(Peer(w)))
  <2>1. In(w)
    BY <1>1 DEF In
  <2> QED BY <1>1, <2>1, BankPeer DEF Bit, In
<1>5. Kernel' /\ UNCHANGED curr_pid /\ curr_proc' = w /\ ~Asleep(w)
      /\ \A i \in Slot : /\ Waiting(i)' <=> Waiting(i)
                         /\ Asleep(i)' <=> Asleep(i)
                         /\ Dead(i)' <=> Dead(i)
  BY <1>1, <1>3, Unmoved DEF BankInv, Base, Asleep
<1>6. UNCHANGED <<val, head, next>>
  BY <1>3 DEF semVars
<1>7. Solo'
  BY <1>5, <1>6, SoloKeeps DEF BankInv
<1>8. /\ pc'[w] = l /\ \A i \in Slot : i # w => pc'[i] = pc[i]
      /\ In(w)' /\ \A i \in Slot : i # w => (In(i)' <=> In(i))
  BY <1>2, BankMoved DEF BankLabels
<1>9. Base(BankLabels)'
  BY <1>2, <1>4, <1>5, <1>7, BaseKeeps DEF BankInv, BankLabels, Solo
<1>10. ~Waiting(w)
  <2>1. Waiting(w) => Asleep(w)
    BY <1>1, <1>4 DEF BankInv, BankSleepers
  <2> QED BY <1>5, <2>1
<1>11. BankSleepers'
  <2>1. \A i \in Slot : head[0] = i => i # w
    BY <1>10 DEF BankInv, BankSleepers, Asleep
  <2> QED BY <1>1, <1>2, <1>4, <1>5, <1>6, <1>8, <1>10, <2>1 DEF BankInv, BankSleepers
<1>12. BankPlaces'
  BY <1>1, <1>5, <1>8 DEF BankInv, BankPlaces
<1>13. BankRounds'
  <2> USE DEF BankInv, BankRounds
  <2>1. CASE pc[w] = "load"
    <3>1. reg' = [reg EXCEPT ![w] = bank_account] /\ UNCHANGED bank_account /\ l = "store"
      BY <1>1, <1>2, <2>1 DEF bank!load
    <3> QED BY <1>3, <1>4, <1>8, <3>1
  <2>2. CASE pc[w] = "store"
    <3>1. UNCHANGED reg /\ bank_account' = reg[w] + (IF w = 0 THEN 10 ELSE -20) /\ l = "signal"
      BY <1>1, <1>2, <2>2 DEF bank!store, bank!Parent
    <3>2. bank_account' \in Int
      BY <1>4, <3>1
    <3>3. pc[Peer(w)] # "store"
      <4>1. In(Peer(w)) => val[0] = -1
        BY <1>4 DEF Bit
      <4>2. val[0] = -1 => head[0] = Peer(w) /\ pc[Peer(w)] = "load"
        <5>1. val[0] = -1 => head[0] # NULL /\ head[0] \in Slot
          BY DEF Solo, QueueExact, LinksTyped
        <5>2. head[0] # NULL => head[0] = Peer(w)
          BY <1>1, <1>4, BankPeer
        <5> QED BY <5>1, <5>2 DEF BankSleepers
      <4> QED BY <4>1, <4>2 DEF In
    <3> QED BY <1>3, <1>4, <1>8, <3>1, <3>2, <3>3 DEF Peer
  <2> QED BY <1>1, <2>1, <2>2
<1>14. val'[0] = 1 - Bit(In(0)') - Bit(In(3)') /\ pc'[0] # "main"
  BY <1>1, <1>4, <1>6, <1>8 DEF Bit, Peer
<1>15. pc'[0] \in {"return", "gone"} /\ left'[3] # 0 => pc'[0] = "return" /\ Asleep(0)'
  BY <1>1, <1>2, <1>3, <1>5, <1>8 DEF BankInv
<1> QED BY <1>7, <1>9, <1>11, <1>12, <1>13, <1>14, <1>15 DEF BankInv, Bit
\* main gets the semaphore and forks the child.
LEMMA BankMain ==
  ASSUME BankInv, bank!main \/ bank!fork
  PROVE  BankInv'
<1> USE BankConstants
<1>0. Base(BankLabels) /\ Solo /\ curr_pid \in {3, 4}
  BY DEF BankInv, BankPlaces
<1>1. CASE bank!main
  <2>1. PICK w \in {0, 3} : w = curr_proc /\ pc[w] = "main"
    BY <1>1, BankCaller DEF bank!main
  <2>2. w = 0 /\ val[0] = 0 /\ curr_pid = 3 /\ pc[3] = "none"
    BY <1>0, <2>1 DEF BankInv, BankPlaces, Base
  <2>3. /\ do_getsem(0, 1) /\ pc' = [pc EXCEPT ![0] = "fork"]
        /\ UNCHANGED <<bank_account, reg, left>>
    BY <1>1, <2>1, <2>2, BankHandlers DEF bank!main, bank!sem, bank!goto, bank!userVars
  <2>4. Solo' /\ val' = [val EXCEPT ![0] = 1] /\ UNCHANGED <<taskVars, head, next>>
    BY <1>0, <2>2, <2>3, SoloGet
  <2>5. Kernel' /\ UNCHANGED curr_pid
        /\ \A i \in Slot : /\ Waiting(i)' <=> Waiting(i)
                           /\ Asleep(i)' <=> Asleep(i)
                           /\ Dead(i)' <=> Dead(i)
    BY <2>4, <1>0, Unmoved DEF Base
  <2>6. val'[0] = 1 /\ UNCHANGED head
    BY <1>0, <2>4 DEF Base
  <2>7. /\ pc'[0] = "fork" /\ \A i \in Slot : i # 0 => pc'[i] = pc[i]
        /\ ~In(0)' /\ ~In(3)'
    BY <2>2, <2>3, BankMoved DEF BankLabels, In
  <2>8. Base(BankLabels)'
    <3>1. LinksTyped' /\ val' \in [Sem -> Int] /\ "fork" \in BankLabels /\ 0 < curr_pid
      BY <2>2, <2>4 DEF BankLabels, Solo
    <3> QED BY <1>0, <2>3, <2>5, <3>1, BaseKeeps
  <2>9. BankSleepers' /\ BankPlaces' /\ BankRounds'
    BY <2>2, <2>3, <2>5, <2>6, <2>7 DEF BankInv, BankSleepers, BankPlaces, BankRounds, In
  <2> QED BY <2>4, <2>6, <2>7, <2>8, <2>9 DEF BankInv, Bit
<1>2. CASE bank!fork
  <2>1. PICK w \in {0, 3} : w = curr_proc /\ pc[w] = "fork"
    BY <1>2, BankCaller DEF bank!fork
  <2>2. w = 0 /\ curr_pid = 3 /\ ~Waiting(0) /\ pc[0] = "fork" /\ ~Dead(0)
    BY <1>0, <2>1 DEF BankInv, BankPlaces, Base, BankSleepers
  <2>3. PICK c \in Slot : do_fork(c) /\ pc' = [pc EXCEPT ![c] = "loop", ![0] = "loop"]
    BY <1>2, <2>1, <2>2, BankHandlers DEF bank!fork, bank!Slot, Slot
  <2>4. UNCHANGED <<val, head, next, bank_account, reg, left>>
    BY <1>2 DEF bank!fork, bank!semVars, bank!userVars
  <2>5. /\ Kernel' /\ c = 3 /\ curr_pid' = 4
        /\ \A i \in Slot : /\ Asleep(i)' <=> Asleep(i)
                           /\ Waiting(i)' <=> Waiting(i)
                           /\ Dead(i)' <=> Dead(i)
    BY <1>0, <2>1, <2>2, <2>3, ForkEffect DEF Base, Waiting
  <2>6. Solo'
    BY <1>0, <2>4, <2>5, SoloKeeps
  <2>7. /\ pc' \in [Slot -> BankLabels] /\ pc'[0] = "loop" /\ pc'[3] = "loop"
        /\ \A i \in Slot \ {0, 3} : pc'[i] = pc[i]
    BY <1>0, <2>3, <2>5 DEF Base, BankLabels
  <2>8. pc[3] = "none"
    BY <1>0, <2>2 DEF Base
  <2>9. Base(BankLabels)'
    <3>1. \A i \in Slot : pc[i] = "none" <=> i >= 3
      BY <1>0, <2>2 DEF Base
    <3>2. \A i \in Slot : pc'[i] = "none" <=> i >= 4
      BY <3>1, <2>7 DEF Slot
    <3>3. Kernel' /\ LinksTyped' /\ val' \in [Sem -> Int]
      BY <2>6 DEF Solo
    <3> QED BY <2>5, <2>7, <3>2, <3>3 DEF Base
  <2>10. BankSleepers'
    BY <2>2, <2>4, <2>5, <2>7, <2>8 DEF BankInv, BankSleepers
  <2>11. BankPlaces' /\ BankRounds'
    BY <2>2, <2>4, <2>5, <2>7, <2>8 DEF BankInv, BankPlaces, BankRounds, In
  <2>12. val[0] = 1 /\ ~In(0)' /\ ~In(3)'
    BY <2>2, <2>7, <2>8 DEF BankInv, In, Bit
  <2> QED BY <2>4, <2>6, <2>7, <2>9, <2>10, <2>11, <2>12 DEF BankInv, Bit
<1> QED BY <1>1, <1>2

\* Steps that leave semaphore and account alone and go on to a place outside.
LEMMA BankOutside ==
  ASSUME BankInv, NEW w \in {0, 3}, w < curr_pid,
         pc[w] \in {"loop", "wait", "return"}, ~Asleep(w),
         NEW l \in {"wait", "return", "gone"}, pc' = [pc EXCEPT ![w] = l],
         UNCHANGED <<val, head, next, curr_pid, bank_account, reg, left>>, Kernel',
         l = "wait" => w = 3,
         w = 3 => left[3] = 0,
         \A i \in Slot \ {w} : /\ Waiting(i)' => Waiting(i)
                               /\ head[0] = i => (Asleep(i)' <=> Asleep(i))
                               /\ Dead(i)' => Dead(i),
         Waiting(w)' => l = "return",
         Dead(w)' => l \in {"wait", "gone"},
         pc'[0] \in {"return", "gone"} /\ left[3] # 0 => pc'[0] = "return" /\ Asleep(0)'
  PROVE  BankInv'
<1> USE BankConstants
<1>1. Base(BankLabels) /\ Solo /\ curr_pid \in {3, 4} /\ w \in Slot
  BY DEF BankInv, BankPlaces
<1>2. /\ pc'[w] = l /\ \A i \in Slot : i # w => pc'[i] = pc[i]
      /\ ~In(w)' /\ ~In(w) /\ \A i \in Slot : i # w => (In(i)' <=> In(i))
  BY BankMoved DEF BankLabels, In
<1>3. Solo'
  BY <1>1, SoloKeeps
<1>4. Base(BankLabels)'
  BY <1>1, <1>3, BaseKeeps DEF BankLabels, Solo
<1>5. BankSleepers'
  <2>1. head[0] # w
    BY <1>1 DEF BankInv, BankSleepers
  <2> QED BY <1>1, <1>2, <2>1 DEF BankInv, BankSleepers
<1>6. pc[0] \notin {"main", "fork"} /\ BankPlaces'
  <2>1. pc[0] \notin {"main", "fork"}
    BY <1>1 DEF BankInv, BankPlaces, Base
  <2> QED BY <1>1, <1>2, <2>1 DEF BankInv, BankPlaces
<1>7. BankRounds'
  BY <1>1, <1>2 DEF BankInv, BankRounds
<1>8. val[0] = 1 - Bit(In(0)') - Bit(In(3)') /\ pc'[0] # "main"
  BY <1>2, <1>6 DEF BankInv, Bit
<1> QED BY <1>3, <1>4, <1>5, <1>6, <1>7, <1>8 DEF BankInv, Bit

LEMMA BankEnds ==
  ASSUME BankInv, bank!exit \/ bank!wait \/ bank!return
  PROVE  BankInv'
<1> USE BankConstants
<1>0. Base(BankLabels) /\ Kernel
  BY DEF BankInv, Base
<1>1. CASE bank!exit
  <2>1. PICK w \in {0, 3} : w = curr_proc /\ pc[w] = "loop" /\ w = 3 /\ left[3] = 0
    BY <1>1, BankCaller DEF bank!exit, bank!Child
  <2>2. /\ do_exit /\ pc' = [pc EXCEPT ![w] = "wait"]
        /\ UNCHANGED <<val, head, next, bank_account, reg, left>>
    BY <1>1, <2>1, BankHandlers DEF bank!exit, bank!goto, bank!userVars, bank!semVars
  <2>3. PICK par : par = parent[w]
    OBVIOUS
  <2>4. /\ Kernel' /\ UNCHANGED curr_pid
        /\ \A i \in Slot : Dead(i)' <=> Dead(i) \/ i = w
        /\ \A i \in Slot : Waiting(i)' <=> Waiting(i) /\ i \notin {w, par}
        /\ \A i \in Slot : Asleep(i)' <=> Asleep(i) /\ i # par
    BY <1>0, <2>1, <2>2, <2>3, ExitEffect
  <2>5. w < curr_pid /\ ~Asleep(w) /\ head[0] = NULL
    BY <1>0, <2>1, CallerExists, BankPeer DEF In
  <2>6. 0 \in Slot /\ w \in Slot /\ \A i \in Slot : head[0] # i
    BY <2>5
  <2> QED BY <2>1, <2>2, <2>4, <2>5, <2>6, BankOutside
<1>2. CASE bank!wait
  <2>1. PICK w \in {0, 3} : /\ w = curr_proc /\ pc[w] \in {"loop", "wait"}
                            /\ pc[w] = "loop" => w = 0
    BY <1>2, BankCaller DEF bank!wait, bank!Parent
  <2>2. /\ do_wait /\ pc' = [pc EXCEPT ![w] = "return"]
        /\ UNCHANGED <<val, head, next, bank_account, reg, left>>
    BY <1>2, <2>1, BankHandlers DEF bank!wait, bank!goto, bank!userVars, bank!semVars
  <2>3. w \in Slot /\ w < curr_pid /\ ~Asleep(w) /\ (w = 3 => left[3] = 0)
    BY <1>0, <2>1, CallerExists DEF BankInv, BankRounds
  <2>4. /\ Kernel' /\ UNCHANGED curr_pid
        /\ \A i \in Slot : /\ Waiting(i)' <=> Waiting(i) \/ i = w
                           /\ Dead(i)' <=> Dead(i) /\ i # w
        /\ \A i \in Slot \ {w} : Asleep(i)' <=> Asleep(i)
        /\ Asleep(w)' <=> \E i \in Slot : status[i] = "READY"
    BY <1>0, <2>1, <2>2, <2>3, WaitEffect
  <2>5. ASSUME w = 0, left[3] # 0 PROVE Asleep(0)'
    <3>1. ~In(0) /\ pc[0] # "main" /\ ~Asleep(3) /\ ~Dead(3) /\ 3 < curr_pid
      <4>1. ~In(0) /\ pc[0] \notin {"main", "fork"}
        BY <2>1, <2>5 DEF In
      <4>2. pc[3] \notin {"wait", "return", "gone"} /\ curr_pid = 4
        BY <2>5, <4>1 DEF BankInv, BankRounds, BankPlaces
      <4>3. head[0] = NULL
        BY <2>1, <2>5, <4>1, BankPeer
      <4>4. ~Asleep(3) /\ ~Dead(3)
        BY <4>2, <4>3 DEF BankInv, BankSleepers, Asleep
      <4> QED BY <4>1, <4>2, <4>4
    <3>2. status[3] = "READY"
      BY <1>0, <2>1, <2>5, <3>1, AwakeReady
    <3> QED BY <2>4, <2>5, <3>2
  <2>6. pc'[0] \in {"return", "gone"} /\ left[3] # 0 => pc'[0] = "return" /\ Asleep(0)'
    <3>1. w = 0 => pc'[0] = "return"
      BY <1>0, <2>2 DEF Base
    <3>2. w # 0 => left[3] = 0
      BY <2>1, <2>3
    <3> QED BY <2>5, <3>1, <3>2
  <2>7. pc[w] \in {"loop", "wait", "return"} /\ "return" \in {"wait", "return", "gone"}
    BY <2>1
  <2> QED BY <2>2, <2>3, <2>4, <2>6, <2>7, BankOutside
<1>3. CASE bank!return
  <2>1. PICK w \in {0, 3} : w = curr_proc /\ pc[w] = "return"
    BY <1>3, BankCaller DEF bank!return
  <2>2. /\ user_process_return /\ pc' = [pc EXCEPT ![w] = "gone"]
        /\ UNCHANGED <<val, head, next, bank_account, reg, left>>
    BY <1>3, <2>1, BankHandlers DEF bank!return, bank!goto, bank!userVars, bank!semVars
  <2>3. w \in Slot /\ w < curr_pid /\ ~Asleep(w) /\ left[3] = 0
    BY <1>0, <2>1, CallerExists DEF BankInv, BankRounds
  <2>4. /\ Kernel' /\ UNCHANGED curr_pid
        /\ \A i \in Slot : /\ Asleep(i)' <=> Asleep(i)
                           /\ Waiting(i)' <=> Waiting(i) /\ i # w
                           /\ Dead(i)' <=> Dead(i) \/ i = w
    BY <1>0, <2>1, <2>2, <2>3, ReturnEffect
  <2>5. pc[w] \in {"loop", "wait", "return"} /\ "gone" \in {"wait", "return", "gone"}
    BY <2>1
  <2> QED BY <2>2, <2>3, <2>4, <2>5, BankOutside
<1> QED BY <1>1, <1>2, <1>3

LEMMA BankStep ==
  ASSUME BankInv, bank!Step PROVE BankInv'
BY BankMain, BankP, BankAccount, BankV, BankEnds DEF bank!Step

LEMMA BankBeside ==
  ASSUME BankInv, tick_step \/ other_return, UNCHANGED <<bank_account, reg, left>>
  PROVE  BankInv'
<1> USE BankConstants
<1>0. Base(BankLabels) /\ Solo
  BY DEF BankInv
<1>1. CASE tick_step
  <2>1. /\ Base(BankLabels)' /\ UNCHANGED <<pc, val, head, next, curr_pid>>
        /\ \A i \in Slot : /\ Waiting(i)' <=> Waiting(i)
                           /\ Asleep(i)' <=> Asleep(i)
                           /\ Dead(i)' <=> Dead(i)
    BY <1>0, <1>1, TickEffect
  <2>2. Solo'
    BY <1>0, <2>1, SoloKeeps DEF Base
  <2>3. BankSleepers'
    BY <2>1 DEF BankInv, BankSleepers
  <2>4. BankPlaces' /\ BankRounds' /\ In(0)' = In(0) /\ In(3)' = In(3)
    BY <2>1 DEF BankInv, BankPlaces, BankRounds, In
  <2> QED BY <2>1, <2>2, <2>3, <2>4 DEF BankInv, Bit
<1>2. CASE other_return
  <2>1. /\ Base(BankLabels)' /\ UNCHANGED <<val, head, next, curr_pid>>
        /\ \E me \in Slot :
              /\ pc[me] = "other" /\ pc' = [pc EXCEPT ![me] = "gone"] /\ ~Asleep(me)
              /\ \A i \in Slot : /\ Waiting(i)' <=> Waiting(i) /\ i # me
                                 /\ Asleep(i)' <=> Asleep(i)
                                 /\ Dead(i)' <=> Dead(i) \/ i = me
    BY <1>0, <1>2, OtherEffect DEF BankLabels
  <2>2. PICK me \in Slot :
          /\ pc[me] = "other" /\ pc' = [pc EXCEPT ![me] = "gone"] /\ ~Asleep(me)
          /\ \A i \in Slot : /\ Waiting(i)' <=> Waiting(i) /\ i # me
                             /\ Asleep(i)' <=> Asleep(i)
                             /\ Dead(i)' <=> Dead(i) \/ i = me
    BY <2>1
  <2>3. Solo'
    BY <1>0, <2>1, SoloKeeps DEF Base
  <2>4. pc'[me] = "gone" /\ \A i \in Slot : i # me => pc'[i] = pc[i]
    BY <1>0, <2>2 DEF Base
  <2>5. me \notin {0, 3} /\ pc'[0] = pc[0] /\ pc'[3] = pc[3]
    BY <2>2, <2>4 DEF BankInv, BankPlaces
  <2>6. BankSleepers'
    BY <2>1, <2>2, <2>4 DEF BankInv, BankSleepers
  <2>7. BankPlaces' /\ BankRounds' /\ In(0)' = In(0) /\ In(3)' = In(3)
    BY <2>1, <2>2, <2>4, <2>5 DEF BankInv, BankPlaces, BankRounds, In
  <2>8. Asleep(0)' <=> Asleep(0)
    BY <2>2
  <2> QED BY <2>1, <2>3, <2>5, <2>6, <2>7, <2>8 DEF BankInv, Bit
<1> QED BY <1>1, <1>2

LEMMA BankExcludes ==
  ASSUME BankInv
  PROVE  bank!MutualExclusion /\ bank!WaitedForChild
<1> USE BankConstants
<1>1. bank!WaitedForChild
  BY DEF BankInv, bank!WaitedForChild, bank!Blocked, bank!Parent, bank!Child, Asleep, Waiting
<1>2. ASSUME In(0), In(3) PROVE Asleep(0) \/ Asleep(3)
  <2>1. val[0] = -1
    BY <1>2 DEF BankInv, Bit, In
  <2>2. head[0] \in Slot /\ Asleep(head[0]) /\ pc[head[0]] = "load"
    BY <2>1 DEF BankInv, Solo, QueueExact, LinksTyped, BankSleepers
  <2> QED BY <2>2 DEF BankInv, BankPlaces
<1> QED BY <1>1, <1>2
        DEF bank!MutualExclusion, bank!Inside, bank!Blocked, bank!Parent, bank!Child, In, Asleep, Waiting

\* A round counts when its store is done: the account moves as the atomic one.
BankDone(i, n) == n - left[i] + (IF pc[i] = "signal" THEN 1 ELSE 0)

LEMMA BankAtomic ==
  ASSUME BankInv, bank!Step
  PROVE  \/ bank!Atomic!Deposit \/ bank!Atomic!Withdraw
         \/ UNCHANGED <<bank_account, BankDone(0, Deposits), BankDone(3, Withdrawals)>>
<1> USE BankConstants
<1>1. CASE bank!store
  <2>1. PICK w \in {0, 3} : w = curr_proc /\ pc[w] = "store"
    BY <1>1, BankCaller DEF bank!store
  <2>2. /\ pc' = [pc EXCEPT ![w] = "signal"] /\ UNCHANGED left
        /\ bank_account' = bank_account + (IF w = 0 THEN 10 ELSE -20)
        /\ left[w] > 0
    BY <1>1, <2>1 DEF bank!store, bank!goto, bank!Parent, BankInv, BankRounds, In
  <2>3. /\ pc'[w] = "signal" /\ \A i \in Slot : i # w => pc'[i] = pc[i]
        /\ left \in [Slot -> Nat]
    BY <2>2, BankMoved DEF BankLabels, BankInv, BankRounds
  <2>4. CASE w = 0
    <3>1. /\ BankDone(0, Deposits) < Deposits
          /\ BankDone(0, Deposits)' = BankDone(0, Deposits) + 1
          /\ BankDone(3, Withdrawals)' = BankDone(3, Withdrawals)
      BY <2>1, <2>2, <2>3, <2>4 DEF BankDone
    <3> QED BY <2>2, <2>4, <3>1 DEF BankDone, bank!Atomic!Deposit, bank!done, bank!Parent, bank!Child
  <2>5. CASE w = 3
    <3>1. /\ BankDone(3, Withdrawals) < Withdrawals
          /\ BankDone(3, Withdrawals)' = BankDone(3, Withdrawals) + 1
          /\ BankDone(0, Deposits)' = BankDone(0, Deposits)
      BY <2>1, <2>2, <2>3, <2>5 DEF BankDone
    <3>2. bank_account' = bank_account - 20
      BY <2>2, <2>5 DEF BankInv, BankRounds
    <3> QED BY <3>1, <3>2 DEF BankDone, bank!Atomic!Withdraw, bank!done, bank!Parent, bank!Child
  <2> QED BY <2>1, <2>4, <2>5
<1>2. CASE bank!sem_signal
  <2>1. PICK w \in {0, 3} : w = curr_proc /\ pc[w] = "signal"
    BY <1>2, BankCaller DEF bank!sem_signal
  <2>2. /\ pc' = [pc EXCEPT ![w] = "loop"] /\ UNCHANGED bank_account
        /\ left' = [left EXCEPT ![w] = @ - 1] /\ left \in [Slot -> Nat]
    BY <1>2, <2>1 DEF bank!sem_signal, bank!goto, BankInv, BankRounds
  <2>3. pc'[w] = "loop" /\ \A i \in Slot : i # w => pc'[i] = pc[i]
    BY <2>2, BankMoved DEF BankLabels
  <2>4. left'[w] = left[w] - 1 /\ \A i \in Slot : i # w => left'[i] = left[i]
    BY <2>2
  <2> QED BY <2>1, <2>2, <2>3, <2>4 DEF BankDone
<1>3. ASSUME NEW w \in {0, 3}, NEW l \in BankLabels, pc[w] # "signal", l # "signal",
             pc' = [pc EXCEPT ![w] = l], UNCHANGED <<bank_account, left>>
      PROVE  UNCHANGED <<bank_account, BankDone(0, Deposits), BankDone(3, Withdrawals)>>
  <2>1. pc'[w] = l /\ \A i \in Slot : i # w => pc'[i] = pc[i]
    BY <1>3, BankMoved
  <2> QED BY <1>3, <2>1 DEF BankDone
<1>4. CASE bank!main \/ bank!sem_wait \/ bank!load \/ bank!exit \/ bank!wait \/ bank!return
  <2>1. PICK w \in {0, 3} : w = curr_proc /\ pc[w] \in {"main", "loop", "load", "wait", "return"}
    BY <1>4, BankCaller DEF bank!main, bank!sem_wait, bank!load, bank!exit, bank!wait, bank!return
  <2>2. /\ \E l \in {"fork", "load", "store", "wait", "return", "gone"} : pc' = [pc EXCEPT ![w] = l]
        /\ UNCHANGED <<bank_account, left>>
    BY <1>4, <2>1 DEF bank!main, bank!sem_wait, bank!load, bank!exit, bank!wait, bank!return, bank!goto, bank!userVars
  <2> QED BY <1>3, <2>1, <2>2 DEF BankLabels
<1>5. CASE bank!fork
  <2>1. PICK w \in {0, 3} : w = curr_proc /\ pc[w] = "fork"
    BY <1>5, BankCaller DEF bank!fork
  <2>2. PICK c \in Slot : do_fork(c) /\ pc' = [pc EXCEPT ![c] = "loop", ![w] = "loop"]
    BY <1>5, <2>1, BankHandlers DEF bank!fork, bank!Slot, Slot
  <2>3. UNCHANGED <<bank_account, left>>
    BY <1>5 DEF bank!fork, bank!userVars
  <2>4. pc[0] # "signal" /\ pc[3] # "signal" /\ w = 0 /\ curr_pid = 3
    BY <2>1 DEF BankInv, BankPlaces, Base
  <2>5. c = 3
    <3>1. ~Waiting(w)
      BY <2>1 DEF BankInv, BankSleepers
    <3> QED BY <2>1, <2>2, <2>4, <3>1, ForkEffect DEF Waiting, BankInv, Base
  <2>6. pc'[0] = "loop" /\ pc'[3] = "loop"
    BY <2>2, <2>4, <2>5 DEF BankInv, Base
  <2> QED BY <2>3, <2>4, <2>6 DEF BankDone
<1> QED BY <1>1, <1>2, <1>4, <1>5 DEF bank!Step

\* In the other programs there is no place called signal, and no account.
LEMMA NoAccount ==
  ASSUME UNCHANGED <<bank_account, left>>,
         pc[0] # "signal", pc[3] # "signal", pc'[0] # "signal", pc'[3] # "signal"
  PROVE  UNCHANGED <<bank_account, BankDone(0, Deposits), BankDone(3, Withdrawals)>>
BY DEF BankDone

-----------------------------------------------------------------------------
(* pro-con.c: the producer in slot 0, the consumer behind the others.      *)

LEMMA ProConHandlers ==
  /\ \A s \in Sem : /\ procon!do_sem_p(s) <=> do_sem_p(s)
                    /\ procon!do_sem_v(s) <=> do_sem_v(s)
                    /\ \A v : procon!do_getsem(s, v) <=> do_getsem(s, v)
  /\ \A c \in Slot : procon!do_fork(c) <=> do_fork(c)
<1> USE DEF procon!Slot, Slot, procon!Sem, Sem, procon!taskVars, taskVars
<1>w. procon!do_wait <=> do_wait
  BY DEF procon!do_wait, do_wait, procon!schedule_proc, schedule_proc, procon!proc_pick, proc_pick, procon!proc_switch, proc_switch, procon!curr_index, curr_index, procon!scan_pos, scan_pos
<1>1. ASSUME NEW s \in Sem PROVE procon!do_sem_p(s) <=> do_sem_p(s)
  BY <1>w DEF procon!do_sem_p, do_sem_p
<1>2. ASSUME NEW s \in Sem PROVE procon!do_sem_v(s) <=> do_sem_v(s)
  BY DEF procon!do_sem_v, do_sem_v, procon!head_pid, head_pid, procon!wake, wake, procon!wakeup, wakeup, procon!schedule_proc, schedule_proc, procon!proc_pick, proc_pick, procon!proc_switch, proc_switch, procon!curr_index, curr_index, procon!scan_pos, scan_pos
<1>3. ASSUME NEW s \in Sem, NEW v PROVE procon!do_getsem(s, v) <=> do_getsem(s, v)
  BY DEF procon!do_getsem, do_getsem
<1>4. ASSUME NEW c \in Slot PROVE procon!do_fork(c) <=> do_fork(c)
  BY DEF procon!do_fork, do_fork, procon!proc_alloc, proc_alloc, procon!reset_time, reset_time
<1> QED BY <1>1, <1>2, <1>3, <1>4

Consumer == Background + 1
ProducerPlaces == {"mutex", "n", "fork", "p_wait", "add", "p_signal", "offer"}
ConsumerPlaces == {"take", "c_wait", "subtract", "c_signal"}
ProLabels == ProducerPlaces \cup ConsumerPlaces \cup {"other", "gone", "none"}

InMutex(i) == pc[i] \in {"add", "p_signal", "subtract", "c_signal"}

ProPlaces ==
  /\ curr_pid \in {Consumer, Consumer + 1}
  /\ \A i \in Slot : /\ pc[i] \in ProducerPlaces <=> i = 0
                     /\ pc[i] \in ConsumerPlaces => i = Consumer
                     /\ pc[i] \in {"other", "gone"} => i \in 1 .. Background
  /\ pc[0] \in {"mutex", "n", "fork"} <=> curr_pid = Consumer

\* Who sleeps is the head of a queue: of the mutex's, or the consumer of n's.
ProSleepers ==
  /\ \A i \in Slot : Waiting(i) => \/ head[0] = i /\ pc[i] \in {"add", "subtract"}
                                   \/ head[1] = i /\ pc[i] = "c_wait"
  /\ \A i \in Slot : /\ head[0] = i => Asleep(i) /\ pc[i] \in {"add", "subtract"}
                     /\ head[1] = i => Asleep(i) /\ pc[i] = "c_wait"
                     /\ Dead(i) => pc[i] = "gone"

Offered == Bit(pc[0] \in {"p_signal", "offer"})
Taken == Bit(pc[Consumer] = "subtract" \/ (pc[Consumer] = "c_wait" /\ ~Asleep(Consumer)))

ProInv ==
  /\ Base(ProLabels) /\ Solo
  /\ ProPlaces /\ ProSleepers
  /\ pc[0] = "mutex" => val[0] = 0
  /\ pc[0] # "mutex" => val[0] = 1 - Bit(InMutex(0)) - Bit(InMutex(Consumer))
  /\ pc[0] \in {"mutex", "n"} => val[1] = 0
  /\ tot \in Int
  /\ tot = (IF val[1] > 0 THEN val[1] ELSE 0) + Offered + Taken

LEMMA ProConstants ==
  /\ 0 \in Slot /\ Consumer \in Slot /\ Consumer # 0 /\ NULL \notin Slot
  /\ 0 \in Sem /\ 1 \in Sem /\ Background \in 0 .. MAX_PROCESS - 1
BY ProgramsAssumption, ProgramAssumption, TableAssumption, SemaphoreAssumption
   DEF procon!Constants, Slot, Sem, Consumer

LEMMA ProStart ==
  ASSUME procon!Init PROVE ProInv
<1> USE ProConstants
<1>1. Loaded(Background, "mutex")
  BY DEF procon!Init, procon!exec_user_prg, Loaded, procon!Slot, Slot, procon!sem_init, sem_init, procon!Sem, Sem
<1>2. /\ Kernel /\ LinksTyped /\ val = [s \in Sem |-> 0] /\ QueueExact
      /\ curr_proc = 0 /\ curr_pid = Consumer
      /\ pc \in [Slot -> {"mutex", "other", "none"}]
      /\ \A i \in Slot : /\ ~Waiting(i) /\ ~Dead(i)
                         /\ pc[i] = "none" <=> i >= curr_pid
                         /\ pc[i] = "mutex" <=> i = 0
                         /\ pc[i] = "other" <=> i \in 1 .. Background
  BY <1>1, ExecTable DEF Consumer
<1>3. head[0] = NULL /\ val[0] = 0 /\ head[1] = NULL /\ val[1] = 0
  BY <1>2 DEF QueueExact
<1>4. tot = 0
  BY DEF procon!Init
<1>5. pc[Consumer] = "none" /\ pc[0] = "mutex"
  BY <1>2
<1>6. Base(ProLabels) /\ Solo
  BY <1>2, <1>3 DEF Base, Solo, ProLabels, ProducerPlaces
<1>7. ProPlaces /\ ProSleepers
  BY <1>2, <1>3, <1>5 DEF ProPlaces, ProSleepers, ProducerPlaces, ConsumerPlaces
<1> QED BY <1>3, <1>4, <1>5, <1>6, <1>7 DEF ProInv, Offered, Taken, Bit

\* Who calls is one of the two, and awake.
LEMMA ProCaller ==
  ASSUME ProInv, NEW l \in ProducerPlaces \cup ConsumerPlaces, procon!at(l)
  PROVE  \E w \in {0, Consumer} :
           /\ w = curr_proc /\ pc[w] = l /\ w \in Slot /\ w < curr_pid
           /\ l \in ProducerPlaces <=> w = 0
           /\ ~Asleep(w) /\ ~Waiting(w) /\ ~Dead(w) /\ head[0] # w /\ head[1] # w
<1> USE ProConstants
<1>1. PICK w \in Slot : /\ w = curr_proc /\ w < curr_pid /\ pc[w] = l /\ ~Asleep(w)
  BY CallerPlace DEF procon!at, at, ProInv
<1>2. w \in {0, Consumer} /\ (l \in ProducerPlaces <=> w = 0)
  BY <1>1 DEF ProInv, ProPlaces
<1>3. head[0] # w /\ head[1] # w
  BY <1>1 DEF ProInv, ProSleepers
<1>4. ~Waiting(w) /\ ~Dead(w)
  BY <1>1, <1>3 DEF ProInv, ProSleepers, ProducerPlaces, ConsumerPlaces
<1> QED BY <1>1, <1>2, <1>3, <1>4

LEMMA ProMoved ==
  ASSUME ProInv, NEW w \in {0, Consumer}, NEW l \in ProLabels, pc' = [pc EXCEPT ![w] = l]
  PROVE  /\ pc'[w] = l /\ \A i \in Slot : i # w => pc'[i] = pc[i]
         /\ InMutex(w)' <=> l \in {"add", "p_signal", "subtract", "c_signal"}
         /\ \A i \in Slot : i # w => (InMutex(i)' <=> InMutex(i))
BY ProConstants DEF ProInv, Base, InMutex
PeerOf(i) == IF i = 0 THEN Consumer ELSE 0

\* Sleeping on the mutex means that the other one is inside and awake, and a
\* consumer that sleeps on n is outside.
LEMMA ProPeer ==
  ASSUME ProInv, NEW w \in {0, Consumer}, curr_proc = w, w < curr_pid, ~Asleep(w),
         pc[w] \in ConsumerPlaces \cup {"p_wait", "add", "p_signal", "offer"}
  PROVE  /\ PeerOf(w) \in Slot /\ PeerOf(w) # w /\ pc[0] \notin {"mutex", "n", "fork"}
         /\ val[0] \in Int /\ val[0] = 1 - Bit(InMutex(w)) - Bit(InMutex(PeerOf(w)))
         /\ ~InMutex(w) => /\ val[0] >= 0
                           /\ val[0] = 0 => status[PeerOf(w)] = "READY"
         /\ w = Consumer /\ ~InMutex(w) => status[0] = "READY"
         /\ w = Consumer => val[1] >= 0
         /\ head[0] # NULL => head[0] = PeerOf(w) /\ InMutex(w)
         /\ head[1] # NULL => head[1] = Consumer /\ w = 0
<1> USE ProConstants
<1>1. PeerOf(w) \in Slot /\ PeerOf(w) # w /\ PeerOf(w) \in {0, Consumer} /\ w \in Slot
  BY DEF PeerOf
<1>2. pc[0] \notin {"mutex", "n", "fork"}
  <2>1. CASE w = 0
    BY <2>1 DEF ConsumerPlaces
  <2>2. CASE w = Consumer
    BY <2>2 DEF ProInv, ProPlaces
  <2> QED BY <2>1, <2>2
<1>3. val[0] \in Int /\ val[1] \in Int /\ val[0] = 1 - Bit(InMutex(w)) - Bit(InMutex(PeerOf(w)))
  BY <1>2 DEF ProInv, PeerOf, Bit, Base
<1>4. head[0] # NULL => head[0] = PeerOf(w) /\ InMutex(w)
  <2>1. head[0] # NULL => val[0] = -1 /\ head[0] \in Slot /\ Asleep(head[0])
                          /\ pc[head[0]] \in {"add", "subtract"}
    BY DEF ProInv, Solo, QueueExact, LinksTyped, ProSleepers
  <2>2. head[0] # NULL => head[0] \in {0, Consumer}
    BY <2>1 DEF ProInv, ProPlaces, ProducerPlaces, ConsumerPlaces
  <2> QED BY <1>1, <1>3, <2>1, <2>2 DEF PeerOf, Bit
<1>5. head[1] # NULL => head[1] = Consumer /\ w = 0
  <2>1. head[1] # NULL => head[1] \in Slot /\ Asleep(head[1]) /\ pc[head[1]] = "c_wait"
    BY DEF ProInv, Solo, LinksTyped, ProSleepers
  <2> QED BY <2>1 DEF ProInv, ProPlaces, ConsumerPlaces
<1>6. w = Consumer => val[1] >= 0
  BY <1>3, <1>5 DEF ProInv, Solo, QueueExact
<1>7. ASSUME ~InMutex(w) PROVE val[0] >= 0
  BY <1>3, <1>7 DEF Bit
<1>8. ASSUME NEW i \in {0, Consumer}, i # w, ~InMutex(w), i = 0 \/ InMutex(i)
      PROVE  status[i] = "READY"
  <2>1. i \in Slot /\ i < curr_pid /\ ~Dead(i)
    BY <1>8 DEF ProInv, ProPlaces, ProSleepers, Base, ProducerPlaces, InMutex
  <2>2. ~Asleep(i)
    BY <1>4, <1>5, <1>8, <2>1 DEF ProInv, ProSleepers, Asleep, InMutex
  <2> QED BY <1>8, <2>1, <2>2, AwakeReady DEF ProInv, Base
<1>9. ASSUME ~InMutex(w), val[0] = 0 PROVE status[PeerOf(w)] = "READY"
  <2>1. InMutex(PeerOf(w))
    BY <1>3, <1>9 DEF Bit
  <2> QED BY <1>1, <1>8, <1>9, <2>1
<1>10. w = Consumer /\ ~InMutex(w) => status[0] = "READY"
  BY <1>8
<1> QED BY <1>1, <1>2, <1>3, <1>4, <1>5, <1>6, <1>7, <1>9, <1>10

\* P of either, on the mutex or on n.
LEMMA ProP ==
  ASSUME ProInv, NEW w \in {0, Consumer}, curr_proc = w, w < curr_pid, ~Asleep(w), ~Waiting(w),
         NEW s \in {0, 1}, do_sem_p(s),
         pc[w] \in ConsumerPlaces \cup {"p_wait"}, ~InMutex(w), s = 1 => w = Consumer
  PROVE  /\ Solo' /\ UNCHANGED curr_pid /\ val[s] \in Nat
         /\ val'[s] = val[s] - 1 /\ val'[1 - s] = val[1 - s]
         /\ head'[s] = (IF val[s] = 0 THEN w ELSE NULL) /\ head'[1 - s] = head[1 - s]
         /\ \A i \in Slot : /\ Waiting(i)' <=> Waiting(i) \/ (i = w /\ val[s] = 0)
                            /\ Dead(i)' => Dead(i)
                            /\ Asleep(i)' <=> Asleep(i) \/ (i = w /\ val[s] = 0)
<1> USE ProConstants
<1>1. /\ PeerOf(w) \in Slot /\ PeerOf(w) # w
      /\ val[0] \in Int /\ val[0] >= 0 /\ (val[0] = 0 => status[PeerOf(w)] = "READY")
      /\ w = Consumer => status[0] = "READY" /\ val[1] >= 0
  BY ProPeer
<1>2. s \in Sem /\ 1 - s \in Sem /\ 1 - s # s /\ w \in Slot /\ val[s] \in Nat
      /\ (val[s] = 0 => \E i \in Slot : status[i] = "READY")
  <2>1. val \in [Sem -> Int]
    BY DEF ProInv, Base
  <2> QED BY <1>1, <2>1
<1>3. Solo
  BY DEF ProInv
<1>4. /\ Solo' /\ UNCHANGED curr_pid
      /\ val' = [val EXCEPT ![s] = @ - 1]
      /\ head' = [head EXCEPT ![s] = IF val[s] = 0 THEN w ELSE NULL]
      /\ \A i \in Slot : /\ Waiting(i)' <=> Waiting(i) \/ (i = w /\ val[s] = 0)
                         /\ Dead(i)' <=> Dead(i) /\ ~(i = w /\ val[s] = 0)
      /\ \A i \in Slot : Asleep(i)' <=> Asleep(i) \/ (i = w /\ val[s] = 0)
  BY <1>2, <1>3, SoloP
<1>5. /\ val'[s] = val[s] - 1 /\ val'[1 - s] = val[1 - s]
      /\ head'[s] = (IF val[s] = 0 THEN w ELSE NULL) /\ head'[1 - s] = head[1 - s]
  BY <1>2, <1>3, <1>4 DEF Solo, LinksTyped
<1> QED BY <1>2, <1>4, <1>5

LEMMA ProV ==
  ASSUME ProInv, NEW w \in {0, Consumer}, curr_proc = w, w < curr_pid, ~Asleep(w), ~Waiting(w),
         NEW s \in {0, 1}, do_sem_v(s), NEW h, h = head[s],
         pc[w] \in ConsumerPlaces \cup {"p_wait", "add", "p_signal", "offer"}
  PROVE  /\ Solo' /\ UNCHANGED curr_pid /\ val[s] \in Int /\ val[s] >= -1
         /\ val[s] = -1 <=> h # NULL
         /\ val'[s] = val[s] + 1 /\ val'[1 - s] = val[1 - s]
         /\ head'[s] = NULL /\ head'[1 - s] = head[1 - s]
         /\ h # NULL => h \in Slot /\ Asleep(h)
         /\ \A i \in Slot : /\ Waiting(i)' <=> Waiting(i) /\ i # h
                            /\ Dead(i)' <=> Dead(i)
                            /\ Asleep(i)' <=> Asleep(i) /\ i # h
<1> USE ProConstants
<1>1. s \in Sem /\ 1 - s \in Sem /\ 1 - s # s /\ w \in Slot
  OBVIOUS
<1>2. Solo /\ val[s] \in Int /\ val[s] >= -1 /\ (val[s] = -1 <=> h # NULL) /\ h \in Slot \cup {NULL}
  BY <1>1 DEF ProInv, Solo, QueueExact, LinksTyped
<1>3. h # NULL => h \in Slot /\ Asleep(h) /\ Waiting(h)
  BY <1>2 DEF ProInv, ProSleepers, Asleep
<1>4. /\ Solo' /\ UNCHANGED curr_pid
      /\ val' = [val EXCEPT ![s] = @ + 1]
      /\ head' = [head EXCEPT ![s] = NULL]
      /\ \A i \in Slot : /\ Waiting(i)' <=> Waiting(i) /\ i # h
                         /\ Dead(i)' <=> Dead(i)
                         /\ Asleep(i)' <=> Asleep(i) /\ i # h
  BY <1>1, <1>2, <1>3, SoloV
<1>5. /\ val'[s] = val[s] + 1 /\ val'[1 - s] = val[1 - s]
      /\ head'[s] = NULL /\ head'[1 - s] = head[1 - s]
  BY <1>1, <1>2, <1>4 DEF Solo, LinksTyped
<1> QED BY <1>2, <1>3, <1>4, <1>5

\* The parts of the invariant that every step of the two keeps alike.
LEMMA ProFrame ==
  ASSUME ProInv, NEW w \in {0, Consumer}, w < curr_pid, NEW l,
         pc[w] \notin {"mutex", "n", "fork"},
         (w = 0 /\ l \in {"p_wait", "add", "p_signal", "offer"}) \/ (w = Consumer /\ l \in ConsumerPlaces),
         pc' = [pc EXCEPT ![w] = l], Solo', UNCHANGED curr_pid
  PROVE  /\ Base(ProLabels)' /\ ProPlaces' /\ pc'[0] \notin {"mutex", "n"}
         /\ pc'[w] = l /\ \A i \in Slot : i # w => pc'[i] = pc[i]
         /\ InMutex(w)' <=> l \in {"add", "p_signal", "subtract", "c_signal"}
         /\ InMutex(PeerOf(w))' <=> InMutex(PeerOf(w))
<1> USE ProConstants
<1>1. l \in ProLabels /\ l # "none" /\ (l \in ProducerPlaces <=> w = 0) /\ (l \in ConsumerPlaces <=> w = Consumer)
      /\ l \notin {"mutex", "n", "fork", "other", "gone"}
  BY DEF ProLabels, ProducerPlaces, ConsumerPlaces
<1>2. /\ pc'[w] = l /\ \A i \in Slot : i # w => pc'[i] = pc[i]
      /\ InMutex(w)' <=> l \in {"add", "p_signal", "subtract", "c_signal"}
      /\ \A i \in Slot : i # w => (InMutex(i)' <=> InMutex(i))
  BY <1>1, ProMoved
<1>3. PeerOf(w) \in Slot /\ PeerOf(w) # w /\ w \in Slot
  BY DEF PeerOf
<1>4. Base(ProLabels)'
  <2>1. LinksTyped' /\ val' \in [Sem -> Int] /\ Kernel'
    BY DEF Solo
  <2> QED BY <1>1, <1>3, <2>1, BaseKeeps DEF ProInv
<1>5. pc[0] \notin {"mutex", "n", "fork"} /\ curr_pid = Consumer + 1
  <2>1. CASE w = 0
    BY <2>1 DEF ProInv, ProPlaces
  <2>2. CASE w = Consumer
    BY <2>2 DEF ProInv, ProPlaces
  <2> QED BY <2>1, <2>2
<1>6. pc'[0] \notin {"mutex", "n", "fork"}
  BY <1>1, <1>2, <1>5
<1>7. ProPlaces'
  BY <1>1, <1>2, <1>5, <1>6 DEF ProInv, ProPlaces
<1> QED BY <1>2, <1>3, <1>4, <1>6, <1>7

\* The producer and the consumer ask for the mutex, the consumer for an item.
LEMMA ProAsks ==
  ASSUME ProInv, NEW w \in {0, Consumer}, curr_proc = w, w < curr_pid,
         ~Asleep(w), ~Waiting(w), head[0] # w, head[1] # w, NEW s \in {0, 1}, do_sem_p(s), NEW l,
         \/ s = 0 /\ w = 0 /\ pc[w] = "p_wait" /\ l = "add"
         \/ s = 0 /\ w = Consumer /\ pc[w] = "c_wait" /\ l = "subtract"
         \/ s = 1 /\ w = Consumer /\ pc[w] = "take" /\ l = "c_wait",
         pc' = [pc EXCEPT ![w] = l], UNCHANGED tot
  PROVE  ProInv'
<1> USE ProConstants
<1>1. ~InMutex(w) /\ pc[w] \in ConsumerPlaces \cup {"p_wait"} /\ (s = 1 => w = Consumer)
      /\ pc[w] \notin {"mutex", "n", "fork"}
  BY DEF InMutex, ConsumerPlaces
<1>2. /\ Solo' /\ UNCHANGED curr_pid /\ val[s] \in Nat
      /\ val'[s] = val[s] - 1 /\ val'[1 - s] = val[1 - s]
      /\ head'[s] = (IF val[s] = 0 THEN w ELSE NULL) /\ head'[1 - s] = head[1 - s]
      /\ \A i \in Slot : /\ Waiting(i)' <=> Waiting(i) \/ (i = w /\ val[s] = 0)
                         /\ Dead(i)' => Dead(i)
                         /\ Asleep(i)' <=> Asleep(i) \/ (i = w /\ val[s] = 0)
  BY <1>1, ProP
<1>3. /\ Base(ProLabels)' /\ ProPlaces' /\ pc'[0] \notin {"mutex", "n"}
      /\ pc'[w] = l /\ \A i \in Slot : i # w => pc'[i] = pc[i]
      /\ InMutex(w)' <=> l \in {"add", "p_signal", "subtract", "c_signal"}
      /\ InMutex(PeerOf(w))' <=> InMutex(PeerOf(w))
  BY <1>1, <1>2, ProFrame DEF ConsumerPlaces
<1>4. /\ val[0] \in Int /\ val[0] = 1 - Bit(InMutex(w)) - Bit(InMutex(PeerOf(w)))
      /\ pc[0] \notin {"mutex", "n"}
  BY <1>1, ProPeer
<1>5. head[s] = NULL \/ val[s] = -1
  BY DEF ProInv, Solo, QueueExact
<1>6. head[s] = NULL
  BY <1>2, <1>5
<1>7. w \in Slot /\ ~Dead(w)
  BY <1>1 DEF ProInv, ProSleepers
<1>8. ProSleepers'
  <2>1. CASE s = 0
    BY <1>2, <1>3, <1>6, <1>7, <2>1 DEF ProInv, ProSleepers
  <2>2. CASE s = 1
    BY <1>2, <1>3, <1>6, <1>7, <2>2 DEF ProInv, ProSleepers
  <2> QED BY <2>1, <2>2
<1>9. val'[0] = 1 - Bit(InMutex(0)') - Bit(InMutex(Consumer)')
  <2>1. val'[0] = 1 - Bit(InMutex(w)') - Bit(InMutex(PeerOf(w))')
    <3>1. CASE s = 0
      BY <1>1, <1>2, <1>3, <1>4, <3>1 DEF Bit
    <3>2. CASE s = 1
      BY <1>1, <1>2, <1>3, <1>4, <3>2 DEF Bit
    <3> QED BY <3>1, <3>2
  <2>2. CASE w = 0
    BY <2>1, <2>2 DEF PeerOf
  <2>3. CASE w = Consumer
    BY <2>1, <2>3 DEF PeerOf, Bit
  <2> QED BY <2>2, <2>3
<1>10. tot' = (IF val'[1] > 0 THEN val'[1] ELSE 0) + Offered' + Taken'
  <2>0. tot = (IF val[1] > 0 THEN val[1] ELSE 0) + Offered + Taken /\ val[1] \in Int
    BY DEF ProInv, Base
  <2>1. CASE w = 0
    <3>1. val'[1] = val[1] /\ pc'[Consumer] = pc[Consumer] /\ (Asleep(Consumer)' <=> Asleep(Consumer))
          /\ pc'[0] = "add" /\ pc[0] = "p_wait"
      BY <1>2, <1>3, <2>1
    <3>2. Offered' = Offered /\ Taken' = Taken
      BY <3>1 DEF Offered, Taken, Bit
    <3> QED BY <2>0, <3>1, <3>2
  <2>2. CASE s = 0 /\ w = Consumer
    <3>1. val'[1] = val[1] /\ pc'[0] = pc[0] /\ pc'[Consumer] = "subtract" /\ pc[Consumer] = "c_wait"
      BY <1>2, <1>3, <2>2
    <3>2. Offered' = Offered /\ Taken' = Taken
      BY <2>2, <3>1 DEF Offered, Taken, Bit
    <3> QED BY <2>0, <3>1, <3>2
  <2>3. CASE s = 1 /\ w = Consumer
    <3>1. val'[1] = val[1] - 1 /\ pc'[0] = pc[0] /\ pc'[Consumer] = "c_wait" /\ pc[Consumer] = "take"
          /\ (Asleep(Consumer)' <=> val[1] = 0) /\ val[1] \in Nat
      BY <1>2, <1>3, <2>3
    <3>2. Offered' = Offered /\ Taken = 0 /\ Taken' = (IF val[1] = 0 THEN 0 ELSE 1) /\ Offered \in {0, 1}
      BY <3>1 DEF Offered, Taken, Bit
    <3> QED BY <2>0, <3>1, <3>2
  <2> QED BY <2>1, <2>2, <2>3
<1> QED BY <1>2, <1>3, <1>8, <1>9, <1>10 DEF ProInv, Bit

\* Either gives the mutex back, the producer offers an item.
LEMMA ProGives ==
  ASSUME ProInv, NEW w \in {0, Consumer}, curr_proc = w, w < curr_pid,
         ~Asleep(w), ~Waiting(w), head[0] # w, head[1] # w, NEW s \in {0, 1}, do_sem_v(s), NEW l,
         \/ s = 0 /\ w = 0 /\ pc[w] = "p_signal" /\ l = "offer"
         \/ s = 0 /\ w = Consumer /\ pc[w] = "c_signal" /\ l = "take"
         \/ s = 1 /\ w = 0 /\ pc[w] = "offer" /\ l = "p_wait",
         pc' = [pc EXCEPT ![w] = l], UNCHANGED tot
  PROVE  ProInv'
<1> USE ProConstants
<1> DEFINE h == head[s]
<1>1. pc[w] \in ConsumerPlaces \cup {"p_wait", "add", "p_signal", "offer"}
      /\ pc[w] \notin {"mutex", "n", "fork"} /\ (InMutex(w) <=> s = 0)
      /\ l \in ConsumerPlaces \cup {"p_wait", "add", "p_signal", "offer"}
      /\ l \notin {"add", "p_signal", "subtract", "c_signal"}
  BY DEF InMutex, ConsumerPlaces
<1>2. /\ Solo' /\ UNCHANGED curr_pid /\ val[s] \in Int /\ val[s] >= -1
      /\ val[s] = -1 <=> h # NULL
      /\ val'[s] = val[s] + 1 /\ val'[1 - s] = val[1 - s]
      /\ head'[s] = NULL /\ head'[1 - s] = head[1 - s]
      /\ h # NULL => h \in Slot /\ Asleep(h)
      /\ \A i \in Slot : /\ Waiting(i)' <=> Waiting(i) /\ i # h
                         /\ Dead(i)' <=> Dead(i)
                         /\ Asleep(i)' <=> Asleep(i) /\ i # h
  <2> HIDE DEF h
  <2>1. h = head[s]
    BY DEF h
  <2> QED BY <1>1, <2>1, ProV
<1>3. /\ Base(ProLabels)' /\ ProPlaces' /\ pc'[0] \notin {"mutex", "n"}
      /\ pc'[w] = l /\ \A i \in Slot : i # w => pc'[i] = pc[i]
      /\ InMutex(w)' <=> l \in {"add", "p_signal", "subtract", "c_signal"}
      /\ InMutex(PeerOf(w))' <=> InMutex(PeerOf(w))
  BY <1>1, <1>2, ProFrame DEF ConsumerPlaces
<1>4. /\ val[0] \in Int /\ val[0] = 1 - Bit(InMutex(w)) - Bit(InMutex(PeerOf(w)))
      /\ pc[0] \notin {"mutex", "n"}
  BY <1>1, ProPeer
<1>5. h # NULL => (s = 0 => pc[h] \in {"add", "subtract"}) /\ (s = 1 => pc[h] = "c_wait" /\ h = Consumer)
  <2>1. h # NULL => h \in Slot
    BY <1>2
  <2> QED BY <2>1 DEF ProInv, ProSleepers, ProPlaces, ConsumerPlaces
<1>6. h # w /\ ~Dead(w) /\ ~Waiting(w)
  BY <1>1 DEF ProInv, ProSleepers
<1>7. head[0] # head[1] \/ head[0] = NULL
  BY DEF ProInv, ProSleepers, Solo, LinksTyped
<1>8. ProSleepers'
  <2>1. \A i \in Slot : Waiting(i)' => \/ head'[0] = i /\ pc'[i] \in {"add", "subtract"}
                                       \/ head'[1] = i /\ pc'[i] = "c_wait"
    <3>1. SUFFICES ASSUME NEW i \in Slot, Waiting(i)'
                   PROVE  \/ head'[0] = i /\ pc'[i] \in {"add", "subtract"}
                          \/ head'[1] = i /\ pc'[i] = "c_wait"
      OBVIOUS
    <3>2. Waiting(i) /\ i # h /\ i # w /\ pc'[i] = pc[i]
      BY <1>2, <1>3, <1>6, <3>1
    <3>3. \/ head[0] = i /\ pc[i] \in {"add", "subtract"}
          \/ head[1] = i /\ pc[i] = "c_wait"
      BY <3>2 DEF ProInv, ProSleepers
    <3>4. CASE s = 0
      BY <1>2, <3>2, <3>3, <3>4
    <3>5. CASE s = 1
      BY <1>2, <3>2, <3>3, <3>5
    <3> QED BY <3>4, <3>5
  <2>2. \A i \in Slot : /\ head'[0] = i => Asleep(i)' /\ pc'[i] \in {"add", "subtract"}
                        /\ head'[1] = i => Asleep(i)' /\ pc'[i] = "c_wait"
                        /\ Dead(i)' => pc'[i] = "gone"
    <3>1. SUFFICES ASSUME NEW i \in Slot
                   PROVE  /\ head'[0] = i => Asleep(i)' /\ pc'[i] \in {"add", "subtract"}
                          /\ head'[1] = i => Asleep(i)' /\ pc'[i] = "c_wait"
                          /\ Dead(i)' => pc'[i] = "gone"
      OBVIOUS
    <3>2. /\ head[0] = i => Asleep(i) /\ pc[i] \in {"add", "subtract"}
          /\ head[1] = i => Asleep(i) /\ pc[i] = "c_wait"
          /\ Dead(i) => pc[i] = "gone"
      BY DEF ProInv, ProSleepers
    <3>3. i # w => pc'[i] = pc[i]
      BY <1>3
    <3>4. Dead(i)' => pc'[i] = "gone"
      BY <1>2, <1>6, <3>2, <3>3
    <3>5. CASE s = 0
      BY <1>2, <1>7, <3>2, <3>3, <3>4, <3>5
    <3>6. CASE s = 1
      BY <1>2, <1>7, <3>2, <3>3, <3>4, <3>6
    <3> QED BY <3>5, <3>6
  <2> QED BY <2>1, <2>2 DEF ProSleepers
<1>9. val'[0] = 1 - Bit(InMutex(0)') - Bit(InMutex(Consumer)')
  <2>1. val'[0] = 1 - Bit(InMutex(w)') - Bit(InMutex(PeerOf(w))')
    <3>1. CASE s = 0
      BY <1>1, <1>2, <1>3, <1>4, <3>1 DEF Bit
    <3>2. CASE s = 1
      BY <1>1, <1>2, <1>3, <1>4, <3>2 DEF Bit
    <3> QED BY <3>1, <3>2
  <2>2. CASE w = 0
    BY <2>1, <2>2 DEF PeerOf
  <2>3. CASE w = Consumer
    BY <2>1, <2>3 DEF PeerOf, Bit
  <2> QED BY <2>2, <2>3
<1>10. tot' = (IF val'[1] > 0 THEN val'[1] ELSE 0) + Offered' + Taken'
  <2>0. tot = (IF val[1] > 0 THEN val[1] ELSE 0) + Offered + Taken /\ val[1] \in Int
    BY DEF ProInv, Base
  <2>1. CASE s = 0 /\ w = 0
    <3>1. val'[1] = val[1] /\ pc'[Consumer] = pc[Consumer] /\ pc'[0] = "offer" /\ pc[0] = "p_signal"
          /\ (pc[Consumer] = "c_wait" => (Asleep(Consumer)' <=> Asleep(Consumer)))
      BY <1>2, <1>3, <1>5, <2>1
    <3>2. Offered' = Offered /\ Taken' = Taken
      BY <3>1 DEF Offered, Taken, Bit
    <3> QED BY <2>0, <3>1, <3>2
  <2>2. CASE s = 0 /\ w = Consumer
    <3>1. val'[1] = val[1] /\ pc'[0] = pc[0] /\ pc'[Consumer] = "take" /\ pc[Consumer] = "c_signal"
      BY <1>2, <1>3, <2>2
    <3>2. Offered' = Offered /\ Taken' = Taken
      BY <3>1 DEF Offered, Taken, Bit
    <3> QED BY <2>0, <3>1, <3>2
  <2>3. CASE s = 1 /\ w = 0
    <3>1. val'[1] = val[1] + 1 /\ pc'[0] = "p_wait" /\ pc[0] = "offer" /\ pc'[Consumer] = pc[Consumer]
          /\ (Asleep(Consumer)' <=> Asleep(Consumer) /\ val[1] # -1) /\ val[1] >= -1
      BY <1>2, <1>3, <1>5, <2>3
    <3>2. val[1] = -1 => pc[Consumer] = "c_wait" /\ Asleep(Consumer)
      BY <1>2, <1>5, <2>3
    <3>3. val[1] # -1 => Offered' = 0 /\ Offered = 1 /\ Taken' = Taken /\ Taken \in {0, 1}
      BY <3>1 DEF Offered, Taken, Bit
    <3>4. val[1] = -1 => Offered' = 0 /\ Offered = 1 /\ Taken' = 1 /\ Taken = 0
      BY <3>1, <3>2 DEF Offered, Taken, Bit
    <3> QED BY <2>0, <3>1, <3>3, <3>4
  <2> QED BY <1>1, <2>1, <2>2, <2>3
<1> QED BY <1>2, <1>3, <1>8, <1>9, <1>10 DEF ProInv, Bit

\* Inside, the producer adds and the consumer subtracts.
LEMMA ProCounts ==
  ASSUME ProInv, NEW w \in {0, Consumer}, curr_proc = w, w < curr_pid,
         ~Asleep(w), ~Waiting(w), head[0] # w, head[1] # w, NEW l,
         UNCHANGED <<taskVars, val, head, next>>, pc' = [pc EXCEPT ![w] = l],
         \/ w = 0 /\ pc[w] = "add" /\ l = "p_signal" /\ tot' = tot + 1
         \/ w = Consumer /\ pc[w] = "subtract" /\ l = "c_signal" /\ tot' = tot - 1
  PROVE  ProInv'
<1> USE ProConstants
<1>1. /\ UNCHANGED curr_pid /\ Kernel'
      /\ \A i \in Slot : /\ Waiting(i)' <=> Waiting(i)
                         /\ Asleep(i)' <=> Asleep(i)
                         /\ Dead(i)' <=> Dead(i)
  BY Unmoved DEF ProInv, Base
<1>2. Solo' /\ val'[0] = val[0] /\ val'[1] = val[1] /\ head'[0] = head[0] /\ head'[1] = head[1]
  BY <1>1, SoloKeeps DEF ProInv
<1>3. pc[w] \notin {"mutex", "n", "fork"} /\ InMutex(w)
      /\ pc[w] \in ConsumerPlaces \cup {"p_wait", "add", "p_signal", "offer"}
  BY DEF InMutex, ConsumerPlaces
<1>4. /\ Base(ProLabels)' /\ ProPlaces' /\ pc'[0] \notin {"mutex", "n"}
      /\ pc'[w] = l /\ \A i \in Slot : i # w => pc'[i] = pc[i]
      /\ InMutex(w)' <=> l \in {"add", "p_signal", "subtract", "c_signal"}
      /\ InMutex(PeerOf(w))' <=> InMutex(PeerOf(w))
  BY <1>1, <1>2, <1>3, ProFrame DEF ConsumerPlaces
<1>5. pc[0] \notin {"mutex", "n"} /\ InMutex(w)'
  BY <1>3, <1>4, ProPeer
<1>6. ProSleepers'
  BY <1>1, <1>2, <1>4 DEF ProInv, ProSleepers
<1>7. (InMutex(0)' <=> InMutex(0)) /\ (InMutex(Consumer)' <=> InMutex(Consumer))
  BY <1>3, <1>4, <1>5 DEF PeerOf
<1>8. tot' = (IF val'[1] > 0 THEN val'[1] ELSE 0) + Offered' + Taken' /\ tot' \in Int
  <2>0. tot = (IF val[1] > 0 THEN val[1] ELSE 0) + Offered + Taken /\ val[1] \in Int /\ tot \in Int
    BY DEF ProInv, Base
  <2>1. CASE w = 0
    <3>1. pc'[0] = "p_signal" /\ pc[0] = "add" /\ pc'[Consumer] = pc[Consumer] /\ tot' = tot + 1
          /\ (Asleep(Consumer)' <=> Asleep(Consumer))
      BY <1>1, <1>4, <2>1
    <3>2. Offered' = 1 /\ Offered = 0 /\ Taken' = Taken /\ Taken \in {0, 1}
      BY <3>1 DEF Offered, Taken, Bit
    <3> QED BY <1>2, <2>0, <3>1, <3>2
  <2>2. CASE w = Consumer
    <3>1. pc'[0] = pc[0] /\ pc'[Consumer] = "c_signal" /\ pc[Consumer] = "subtract" /\ tot' = tot - 1
      BY <1>4, <2>2
    <3>2. Offered' = Offered /\ Taken' = 0 /\ Taken = 1 /\ Offered \in {0, 1}
      BY <3>1 DEF Offered, Taken, Bit
    <3> QED BY <1>2, <2>0, <3>1, <3>2
  <2> QED BY <2>1, <2>2
<1>9. val[0] = 1 - Bit(InMutex(0)) - Bit(InMutex(Consumer))
  BY <1>5 DEF ProInv
<1>10. val'[0] = 1 - Bit(InMutex(0)') - Bit(InMutex(Consumer)')
  BY <1>2, <1>7, <1>9 DEF Bit
<1> QED BY <1>2, <1>4, <1>5, <1>6, <1>8, <1>10 DEF ProInv, Bit

\* main gets the mutex and n, and forks the consumer.
LEMMA ProMain ==
  ASSUME ProInv, procon!main \/ procon!fork
  PROVE  ProInv'
<1> USE ProConstants
<1>0. {"mutex", "n", "fork"} \subseteq ProducerPlaces
  BY DEF ProducerPlaces
<1>1. CASE procon!main
  <2>1. PICK w \in {0} : /\ w = curr_proc /\ w < curr_pid /\ ~Asleep(w) /\ ~Waiting(w)
                         /\ \/ pc[w] = "mutex" /\ do_getsem(0, 1) /\ pc' = [pc EXCEPT ![w] = "n"]
                            \/ pc[w] = "n" /\ do_getsem(1, 0) /\ pc' = [pc EXCEPT ![w] = "fork"]
    <3>1. CASE procon!at("mutex") /\ procon!do_getsem(0, 1) /\ procon!goto("n")
      <4>1. PICK w \in {0, Consumer} : w = curr_proc /\ pc[w] = "mutex" /\ w < curr_pid /\ w = 0 /\ ~Asleep(w) /\ ~Waiting(w)
        BY <1>0, <3>1, ProCaller
      <4> QED BY <3>1, <4>1, ProConHandlers DEF procon!goto
    <3>2. CASE procon!at("n") /\ procon!do_getsem(1, 0) /\ procon!goto("fork")
      <4>1. PICK w \in {0, Consumer} : w = curr_proc /\ pc[w] = "n" /\ w < curr_pid /\ w = 0 /\ ~Asleep(w) /\ ~Waiting(w)
        BY <1>0, <3>2, ProCaller
      <4> QED BY <3>2, <4>1, ProConHandlers DEF procon!goto
    <3> QED BY <1>1, <3>1, <3>2 DEF procon!main, procon!mutex, procon!n
  <2>2. UNCHANGED tot /\ w = 0
    BY <1>1, <2>1 DEF procon!main
  <2>3. val[0] \in Nat /\ val[1] \in Nat /\ val[1] = 0 /\ pc[Consumer] = "none"
        /\ (pc[0] = "n" => val[0] = 1) /\ Taken = 0 /\ Offered = 0
    <3>1. curr_pid = Consumer /\ pc[0] \in {"mutex", "n"}
      BY <2>1 DEF ProInv, ProPlaces
    <3>2. pc[Consumer] = "none"
      BY <3>1 DEF ProInv, Base, Consumer
    <3> QED BY <3>1, <3>2 DEF ProInv, Bit, InMutex, Taken, Offered
  <2>4. /\ Solo' /\ val'[1] = 0 /\ val'[0] = 1
        /\ UNCHANGED <<taskVars, head, next>>
    <3>1. CASE do_getsem(0, 1) /\ pc[0] = "mutex"
      <4>1. Solo' /\ val' = [val EXCEPT ![0] = 1] /\ UNCHANGED <<taskVars, head, next>>
        BY <2>3, <3>1, SoloGet DEF ProInv
      <4> QED BY <2>3, <4>1 DEF ProInv, Base
    <3>2. CASE do_getsem(1, 0) /\ pc[0] = "n"
      <4>1. Solo' /\ val' = [val EXCEPT ![1] = 0] /\ UNCHANGED <<taskVars, head, next>>
        BY <2>3, <3>2, SoloGet DEF ProInv
      <4> QED BY <2>3, <3>2, <4>1 DEF ProInv, Base
    <3> QED BY <2>1, <3>1, <3>2
  <2>5. /\ UNCHANGED curr_pid
        /\ \A i \in Slot : /\ Waiting(i)' <=> Waiting(i)
                           /\ Asleep(i)' <=> Asleep(i)
                           /\ Dead(i)' <=> Dead(i)
    BY <2>4, Unmoved
  <2>6. PICK l \in {"n", "fork"} : pc' = [pc EXCEPT ![0] = l]
    BY <2>1
  <2>7. pc'[0] = l /\ \A i \in Slot : i # 0 => pc'[i] = pc[i]
    BY <2>6 DEF ProInv, Base
  <2>8. Base(ProLabels)'
    <3>1. Kernel' /\ LinksTyped' /\ val' \in [Sem -> Int]
      BY <2>4 DEF Solo
    <3>2. l \in ProLabels /\ l # "none" /\ 0 < curr_pid
      BY <2>1 DEF ProLabels, ProducerPlaces
    <3> QED BY <2>5, <2>6, <3>1, <3>2, BaseKeeps DEF ProInv
  <2>9. ProPlaces' /\ ProSleepers'
    <3>1. pc[0] \in {"mutex", "n"}
      BY <2>1
    <3>2. ProPlaces'
      BY <2>5, <2>7, <3>1 DEF ProInv, ProPlaces, ProducerPlaces, ConsumerPlaces
    <3>3. ProSleepers'
      BY <2>4, <2>5, <2>7, <3>1 DEF ProInv, ProSleepers
    <3> QED BY <3>2, <3>3
  <2>10. ~InMutex(0)' /\ ~InMutex(Consumer)' /\ Offered' = 0 /\ Taken' = 0
    BY <2>3, <2>7 DEF InMutex, Offered, Taken, Bit
  <2>11. tot = 0
    BY <2>3 DEF ProInv
  <2> QED BY <2>2, <2>4, <2>7, <2>8, <2>9, <2>10, <2>11 DEF ProInv, Bit
<1>2. CASE procon!fork
  <2>1. PICK w \in {0, Consumer} : w = curr_proc /\ pc[w] = "fork" /\ w < curr_pid /\ w = 0 /\ ~Asleep(w) /\ ~Waiting(w)
    BY <1>0, <1>2, ProCaller DEF procon!fork
  <2>2. PICK c \in Slot : do_fork(c) /\ pc' = [pc EXCEPT ![c] = "take", ![0] = "p_wait"]
    BY <1>2, <2>1, ProConHandlers DEF procon!fork, procon!Slot, Slot
  <2>3. UNCHANGED <<val, head, next, tot>>
    BY <1>2 DEF procon!fork, procon!semVars
  <2>4. /\ Kernel' /\ c = curr_pid /\ curr_pid' = c + 1
        /\ \A i \in Slot : /\ Asleep(i)' <=> Asleep(i)
                           /\ Waiting(i)' <=> Waiting(i)
                           /\ Dead(i)' <=> Dead(i)
    BY <2>1, <2>2, ForkEffect DEF ProInv, Base, Waiting
  <2>5. c = Consumer /\ pc[Consumer] = "none" /\ curr_pid = Consumer
    <3>1. curr_pid = Consumer
      BY <2>1 DEF ProInv, ProPlaces
    <3> QED BY <2>4, <3>1 DEF ProInv, Base, Consumer
  <2>6. pc'[0] = "p_wait" /\ pc'[Consumer] = "take" /\ \A i \in Slot \ {0, Consumer} : pc'[i] = pc[i]
    BY <2>2, <2>5 DEF ProInv, Base
  <2>7. Solo'
    BY <2>3, <2>4, SoloKeeps DEF ProInv
  <2>8. Base(ProLabels)'
    <3>1. Kernel' /\ LinksTyped' /\ val' \in [Sem -> Int]
      BY <2>7 DEF Solo
    <3>2. pc' \in [Slot -> ProLabels]
      BY <2>2 DEF ProInv, Base, ProLabels, ProducerPlaces, ConsumerPlaces
    <3>3. \A i \in Slot : pc'[i] = "none" <=> i >= curr_pid'
      <4>1. \A i \in Slot : pc[i] = "none" <=> i >= Consumer
        BY <2>5 DEF ProInv, Base
      <4>2. Consumer \in Int /\ Consumer > 0 /\ \A i \in Slot : i \in Int
        BY DEF Slot, Consumer
      <4> QED BY <2>4, <2>5, <2>6, <4>1, <4>2
    <3> QED BY <3>1, <3>2, <3>3 DEF Base
  <2>9. ProPlaces'
    BY <2>1, <2>4, <2>5, <2>6 DEF ProInv, ProPlaces, ProducerPlaces, ConsumerPlaces
  <2>10. ProSleepers'
    <3>1. \A i \in {0, Consumer} : ~Waiting(i) /\ ~Dead(i) /\ head[0] # i /\ head[1] # i
      BY <2>1, <2>5 DEF ProInv, ProSleepers
    <3> QED BY <2>3, <2>4, <2>6, <3>1 DEF ProInv, ProSleepers
  <2>11. ~InMutex(0)' /\ ~InMutex(Consumer)' /\ Offered' = 0 /\ Taken' = 0
         /\ ~InMutex(0) /\ ~InMutex(Consumer) /\ Offered = 0 /\ Taken = 0
    BY <2>1, <2>5, <2>6 DEF InMutex, Offered, Taken, Bit
  <2> QED BY <2>1, <2>3, <2>6, <2>7, <2>8, <2>9, <2>10, <2>11 DEF ProInv, Bit
<1> QED BY <1>1, <1>2

LEMMA ProStep ==
  ASSUME ProInv, procon!Step PROVE ProInv'
<1> USE ProConstants
<1>0. /\ {"p_wait", "add", "p_signal", "offer"} \subseteq ProducerPlaces
      /\ {"take", "c_wait", "subtract", "c_signal"} \subseteq ConsumerPlaces
  BY DEF ProducerPlaces, ConsumerPlaces
<1>1. ASSUME NEW l \in {"p_wait", "add", "p_signal", "offer", "take", "c_wait", "subtract", "c_signal"},
             procon!at(l)
      PROVE  \E w \in {0, Consumer} :
               /\ w = curr_proc /\ pc[w] = l /\ w < curr_pid /\ w \in Slot
               /\ w = (IF l \in {"p_wait", "add", "p_signal", "offer"} THEN 0 ELSE Consumer)
               /\ ~Asleep(w) /\ ~Waiting(w) /\ head[0] # w /\ head[1] # w
  <2>1. l \in ProducerPlaces \cup ConsumerPlaces /\ (l \in ProducerPlaces <=> l \in {"p_wait", "add", "p_signal", "offer"})
    BY DEF ProducerPlaces, ConsumerPlaces
  <2> QED BY <1>1, <2>1, ProCaller
<1>2. CASE procon!produce
  <2>1. CASE /\ procon!at("p_wait") /\ procon!do_sem_p(0) /\ procon!goto("add") /\ UNCHANGED tot
    <3>1. PICK w \in {0, Consumer} : /\ w = curr_proc /\ pc[w] = "p_wait" /\ w < curr_pid /\ w = 0
                                     /\ ~Asleep(w) /\ ~Waiting(w) /\ head[0] # w /\ head[1] # w
      BY <1>1, <2>1
    <3> QED BY <2>1, <3>1, ProAsks, ProConHandlers DEF procon!goto
  <2>2. CASE /\ procon!at("add") /\ tot' = tot + 1 /\ procon!goto("p_signal")
             /\ UNCHANGED <<procon!taskVars, procon!semVars>>
    <3>1. PICK w \in {0, Consumer} : /\ w = curr_proc /\ pc[w] = "add" /\ w < curr_pid /\ w = 0
                                     /\ ~Asleep(w) /\ ~Waiting(w) /\ head[0] # w /\ head[1] # w
      BY <1>1, <2>2
    <3>2. UNCHANGED <<taskVars, val, head, next>> /\ pc' = [pc EXCEPT ![w] = "p_signal"]
      BY <2>2, <3>1 DEF procon!taskVars, taskVars, procon!semVars, procon!goto
    <3> QED BY <2>2, <3>1, <3>2, ProCounts
  <2>3. CASE /\ procon!at("p_signal") /\ procon!do_sem_v(0) /\ procon!goto("offer") /\ UNCHANGED tot
    <3>1. PICK w \in {0, Consumer} : /\ w = curr_proc /\ pc[w] = "p_signal" /\ w < curr_pid /\ w = 0
                                     /\ ~Asleep(w) /\ ~Waiting(w) /\ head[0] # w /\ head[1] # w
      BY <1>1, <2>3
    <3> QED BY <2>3, <3>1, ProGives, ProConHandlers DEF procon!goto
  <2>4. CASE /\ procon!at("offer") /\ procon!do_sem_v(1) /\ procon!goto("p_wait") /\ UNCHANGED tot
    <3>1. PICK w \in {0, Consumer} : /\ w = curr_proc /\ pc[w] = "offer" /\ w < curr_pid /\ w = 0
                                     /\ ~Asleep(w) /\ ~Waiting(w) /\ head[0] # w /\ head[1] # w
      BY <1>1, <2>4
    <3> QED BY <2>4, <3>1, ProGives, ProConHandlers DEF procon!goto
  <2> QED BY <1>2, <2>1, <2>2, <2>3, <2>4 DEF procon!produce, procon!mutex, procon!n
<1>3. CASE procon!consume
  <2>1. CASE /\ procon!at("take") /\ procon!do_sem_p(1) /\ procon!goto("c_wait") /\ UNCHANGED tot
    <3>1. PICK w \in {0, Consumer} : /\ w = curr_proc /\ pc[w] = "take" /\ w < curr_pid /\ w = Consumer
                                     /\ ~Asleep(w) /\ ~Waiting(w) /\ head[0] # w /\ head[1] # w
      BY <1>1, <2>1
    <3> QED BY <2>1, <3>1, ProAsks, ProConHandlers DEF procon!goto
  <2>2. CASE /\ procon!at("c_wait") /\ procon!do_sem_p(0) /\ procon!goto("subtract") /\ UNCHANGED tot
    <3>1. PICK w \in {0, Consumer} : /\ w = curr_proc /\ pc[w] = "c_wait" /\ w < curr_pid /\ w = Consumer
                                     /\ ~Asleep(w) /\ ~Waiting(w) /\ head[0] # w /\ head[1] # w
      BY <1>1, <2>2
    <3> QED BY <2>2, <3>1, ProAsks, ProConHandlers DEF procon!goto
  <2>3. CASE /\ procon!at("subtract") /\ tot' = tot - 1 /\ procon!goto("c_signal")
             /\ UNCHANGED <<procon!taskVars, procon!semVars>>
    <3>1. PICK w \in {0, Consumer} : /\ w = curr_proc /\ pc[w] = "subtract" /\ w < curr_pid /\ w = Consumer
                                     /\ ~Asleep(w) /\ ~Waiting(w) /\ head[0] # w /\ head[1] # w
      BY <1>1, <2>3
    <3>2. UNCHANGED <<taskVars, val, head, next>> /\ pc' = [pc EXCEPT ![w] = "c_signal"]
      BY <2>3, <3>1 DEF procon!taskVars, taskVars, procon!semVars, procon!goto
    <3> QED BY <2>3, <3>1, <3>2, ProCounts
  <2>4. CASE /\ procon!at("c_signal") /\ procon!do_sem_v(0) /\ procon!goto("take") /\ UNCHANGED tot
    <3>1. PICK w \in {0, Consumer} : /\ w = curr_proc /\ pc[w] = "c_signal" /\ w < curr_pid /\ w = Consumer
                                     /\ ~Asleep(w) /\ ~Waiting(w) /\ head[0] # w /\ head[1] # w
      BY <1>1, <2>4
    <3> QED BY <2>4, <3>1, ProGives, ProConHandlers DEF procon!goto
  <2> QED BY <1>3, <2>1, <2>2, <2>3, <2>4 DEF procon!consume, procon!mutex, procon!n
<1> QED BY <1>2, <1>3, ProMain DEF procon!Step

LEMMA ProBeside ==
  ASSUME ProInv, tick_step \/ other_return, UNCHANGED tot
  PROVE  ProInv'
<1> USE ProConstants
<1>0. Base(ProLabels) /\ Solo
  BY DEF ProInv
<1>1. CASE tick_step
  <2>1. /\ Base(ProLabels)' /\ UNCHANGED <<pc, val, head, next, curr_pid>>
        /\ \A i \in Slot : /\ Waiting(i)' <=> Waiting(i)
                           /\ Asleep(i)' <=> Asleep(i)
                           /\ Dead(i)' <=> Dead(i)
    BY <1>0, <1>1, TickEffect
  <2>2. Solo'
    BY <1>0, <2>1, SoloKeeps DEF Base
  <2>3. ProPlaces' /\ ProSleepers'
    BY <2>1 DEF ProInv, ProPlaces, ProSleepers
  <2>4. InMutex(0)' = InMutex(0) /\ InMutex(Consumer)' = InMutex(Consumer)
        /\ Offered' = Offered /\ Taken' = Taken
    BY <2>1 DEF InMutex, Offered, Taken, Bit
  <2> QED BY <2>1, <2>2, <2>3, <2>4 DEF ProInv, Bit
<1>2. CASE other_return
  <2>1. /\ Base(ProLabels)' /\ UNCHANGED <<val, head, next, curr_pid>>
        /\ \E me \in Slot :
              /\ pc[me] = "other" /\ pc' = [pc EXCEPT ![me] = "gone"] /\ ~Asleep(me)
              /\ \A i \in Slot : /\ Waiting(i)' <=> Waiting(i) /\ i # me
                                 /\ Asleep(i)' <=> Asleep(i)
                                 /\ Dead(i)' <=> Dead(i) \/ i = me
    BY <1>0, <1>2, OtherEffect DEF ProLabels
  <2>2. PICK me \in Slot :
          /\ pc[me] = "other" /\ pc' = [pc EXCEPT ![me] = "gone"] /\ ~Asleep(me)
          /\ \A i \in Slot : /\ Waiting(i)' <=> Waiting(i) /\ i # me
                             /\ Asleep(i)' <=> Asleep(i)
                             /\ Dead(i)' <=> Dead(i) \/ i = me
    BY <2>1
  <2>3. Solo'
    BY <1>0, <2>1, SoloKeeps DEF Base
  <2>4. pc'[me] = "gone" /\ \A i \in Slot : i # me => pc'[i] = pc[i]
    BY <1>0, <2>2 DEF Base
  <2>5. me \notin {0, Consumer} /\ pc'[0] = pc[0] /\ pc'[Consumer] = pc[Consumer]
    <3>1. me \in 1 .. Background
      BY <2>2 DEF ProInv, ProPlaces
    <3>2. me \notin {0, Consumer}
      BY <3>1 DEF Consumer
    <3> QED BY <2>4, <3>2
  <2>6. ProSleepers'
    BY <2>1, <2>2, <2>4 DEF ProInv, ProSleepers
  <2>7. ProPlaces'
    BY <2>1, <2>2, <2>4, <2>5 DEF ProInv, ProPlaces, ProducerPlaces, ConsumerPlaces
  <2>8. InMutex(0)' = InMutex(0) /\ InMutex(Consumer)' = InMutex(Consumer)
        /\ Offered' = Offered /\ Taken' = Taken
    BY <2>2, <2>5 DEF InMutex, Offered, Taken, Bit
  <2> QED BY <2>1, <2>3, <2>5, <2>6, <2>7, <2>8 DEF ProInv, Bit
<1> QED BY <1>1, <1>2

LEMMA ProExcludes ==
  ASSUME ProInv PROVE procon!MutualExclusion
<1> USE ProConstants
<1>1. ASSUME InMutex(0), InMutex(Consumer) PROVE Asleep(0) \/ Asleep(Consumer)
  <2>1. val[0] = -1
    BY <1>1 DEF ProInv, Bit, InMutex
  <2>2. head[0] \in Slot /\ Asleep(head[0]) /\ pc[head[0]] \in {"add", "subtract"}
    BY <2>1 DEF ProInv, Solo, QueueExact, LinksTyped, ProSleepers
  <2> QED BY <2>2 DEF ProInv, ProPlaces, ProducerPlaces, ConsumerPlaces
<1>2. \A i \in Slot : InMutex(i) => i \in {0, Consumer}
  BY DEF ProInv, ProPlaces, ProducerPlaces, ConsumerPlaces, InMutex
<1> QED BY <1>1, <1>2
        DEF procon!MutualExclusion, procon!InMutex, procon!Blocked, procon!Slot, Slot, InMutex, Asleep, Waiting

\* At most the one slot that may be in a set of slots makes up its size.
LEMMA SizeOfOne ==
  ASSUME NEW S, NEW i, S \subseteq {i}
  PROVE  Cardinality(S) = Bit(i \in S)
<1>1. CASE i \in S
  <2>1. S = {i}
    BY <1>1
  <2> QED BY <1>1, <2>1, FS_Singleton DEF Bit
<1>2. CASE i \notin S
  <2>1. S = {}
    BY <1>2
  <2> QED BY <1>2, <2>1, FS_EmptySet DEF Bit
<1> QED BY <1>1, <1>2

LEMMA ProStock ==
  ASSUME ProInv PROVE procon!StockExact
<1> USE ProConstants
<1> DEFINE O == {i \in procon!Slot : pc[i] \in {"p_signal", "offer"}}
           T == {i \in procon!Slot : \/ pc[i] = "c_wait" /\ ~procon!Blocked(i)
                                     \/ pc[i] = "subtract"}
<1>0. procon!Slot = Slot
  BY DEF procon!Slot, Slot
<1>1. O \subseteq {0} /\ (0 \in O <=> pc[0] \in {"p_signal", "offer"})
  BY <1>0 DEF ProInv, ProPlaces, ProducerPlaces
<1>2. T \subseteq {Consumer} /\ (Consumer \in T <=> pc[Consumer] = "subtract" \/ (pc[Consumer] = "c_wait" /\ ~Asleep(Consumer)))
  BY <1>0 DEF ProInv, ProPlaces, ConsumerPlaces, procon!Blocked, Asleep, Waiting
<1>3. Cardinality(O) = Offered
  BY <1>1, SizeOfOne DEF Offered, Bit
<1>4. Cardinality(T) = Taken
  BY <1>2, SizeOfOne DEF Taken, Bit
<1>5. tot = (IF val[1] > 0 THEN val[1] ELSE 0) + Offered + Taken
  BY DEF ProInv
<1>6. procon!StockExact <=> tot = (IF val[1] > 0 THEN val[1] ELSE 0) + Cardinality(O) + Cardinality(T)
  BY DEF procon!StockExact, procon!n, procon!Cardinality, Cardinality
<1> HIDE DEF O, T
<1> QED BY <1>3, <1>4, <1>5, <1>6

-----------------------------------------------------------------------------
(* fruit.c: the father in slot 0, the two children behind the others.      *)

LEMMA FruitHandlers ==
  /\ \A s \in Sem : /\ fruit!do_sem_p(s) <=> do_sem_p(s)
                    /\ fruit!do_sem_v(s) <=> do_sem_v(s)
                    /\ \A v : fruit!do_getsem(s, v) <=> do_getsem(s, v)
  /\ \A c \in Slot : fruit!do_fork(c) <=> do_fork(c)
<1> USE DEF fruit!Slot, Slot, fruit!Sem, Sem, fruit!taskVars, taskVars
<1>w. fruit!do_wait <=> do_wait
  BY DEF fruit!do_wait, do_wait, fruit!schedule_proc, schedule_proc, fruit!proc_pick, proc_pick, fruit!proc_switch, proc_switch, fruit!curr_index, curr_index, fruit!scan_pos, scan_pos
<1>1. ASSUME NEW s \in Sem PROVE fruit!do_sem_p(s) <=> do_sem_p(s)
  BY <1>w DEF fruit!do_sem_p, do_sem_p
<1>2. ASSUME NEW s \in Sem PROVE fruit!do_sem_v(s) <=> do_sem_v(s)
  BY DEF fruit!do_sem_v, do_sem_v, fruit!head_pid, head_pid, fruit!wake, wake, fruit!wakeup, wakeup, fruit!schedule_proc, schedule_proc, fruit!proc_pick, proc_pick, fruit!proc_switch, proc_switch, fruit!curr_index, curr_index, fruit!scan_pos, scan_pos
<1>3. ASSUME NEW s \in Sem, NEW v PROVE fruit!do_getsem(s, v) <=> do_getsem(s, v)
  BY DEF fruit!do_getsem, do_getsem
<1>4. ASSUME NEW c \in Slot PROVE fruit!do_fork(c) <=> do_fork(c)
  BY DEF fruit!do_fork, do_fork, fruit!proc_alloc, proc_alloc, fruit!reset_time, reset_time
<1> QED BY <1>1, <1>2, <1>3, <1>4

Writer == Background + 1
Server == Background + 2
Family == {0, Writer, Server}
FatherLabels == {"get", "fork", "p_word", "p_fruit", "print", "v_word", "clear", "v_fruit"}
WriterLabels == {"fork2", "put_words", "written", "v_words", "p_full"}
ServerLabels == {"put_fruit", "v_plate", "p_plate"}
FruitLabels == FatherLabels \cup WriterLabels \cup ServerLabels \cup {"other", "gone", "none"}

FruitPlaces ==
  /\ curr_pid \in {Writer, Server, Server + 1}
  /\ \A i \in Slot : /\ pc[i] \in FatherLabels <=> i = 0
                     /\ pc[i] \in WriterLabels => i = Writer
                     /\ pc[i] \in ServerLabels => i = Server
                     /\ pc[i] \in {"other", "gone"} => i \in 1 .. Background
  /\ pc[0] \in {"get", "fork"} <=> curr_pid = Writer
  /\ pc[Writer] = "fork2" <=> curr_pid = Server

\* Every semaphore has one process that does P on it, from one place.
Taker(s) == IF s \in {0, 1} THEN 0 ELSE IF s = 2 THEN Writer ELSE Server
Before(s) == IF s = 0 THEN "p_word" ELSE IF s = 1 THEN "p_fruit"
             ELSE IF s = 2 THEN "p_full" ELSE "p_plate"
Behind(s) == IF s = 0 THEN "p_fruit" ELSE IF s = 1 THEN "print"
             ELSE IF s = 2 THEN "put_words" ELSE "put_fruit"

FruitSleepers ==
  /\ \A i \in Slot : /\ Waiting(i) => \E s \in 0 .. 3 : head[s] = i
                     /\ Dead(i) => pc[i] = "gone"
  /\ \A s \in 0 .. 3 :
       head[s] # NULL => head[s] = Taker(s) /\ Asleep(Taker(s)) /\ pc[Taker(s)] = Behind(s)

\* One token goes round for the words: offered to the father, at the father
\* until he has printed them, offered to the child, at the child.
WordTokens ==
  val[0] + val[2] + Bit(pc[0] \in {"p_fruit", "print", "v_word"})
  + Bit(pc[Writer] \in {"none", "fork2", "put_words", "written", "v_words"})

\* And one for the plate, which is filled on its way from the child's strcpy
\* to the father's clearing it.
Filled ==
  val[1] + Bit(pc[0] \in {"print", "v_word", "clear"}) + Bit(pc[Server] = "v_plate")
PlateTokens ==
  Filled + val[3] + Bit(pc[0] = "v_fruit") + Bit(pc[Server] \in {"none", "put_fruit"})

FruitTokens ==
  /\ WordTokens = 1 /\ PlateTokens = 1
  /\ \/ pc[Writer] \in {"v_words", "p_full"}
     \/ pc[Writer] = "put_words" /\ Asleep(Writer)
     => words
  /\ Filled = 0 => fruit_plate = 0
  /\ Filled = 1 => fruit_plate \in 1 .. 3
  /\ fruit_index \in 0 .. 3

FruitInv ==
  /\ Base(FruitLabels) /\ Solo
  /\ FruitPlaces /\ FruitSleepers /\ FruitTokens
  /\ pc[0] = "get" => \A s \in Sem : val[s] = 0

LEMMA FruitConstants ==
  /\ 0 \in Slot /\ Writer \in Slot /\ Server \in Slot /\ NULL \notin Slot
  /\ Writer # 0 /\ Server # 0 /\ Writer # Server /\ Writer > 0
  /\ Writer \in Int /\ Server = Writer + 1
  /\ 0 .. 3 \subseteq Sem /\ Background \in 0 .. MAX_PROCESS - 1
BY ProgramsAssumption, ProgramAssumption, TableAssumption, SemaphoreAssumption
   DEF fruit!Constants, Slot, Sem, Writer, Server

LEMMA FruitStart ==
  ASSUME fruit!Init PROVE FruitInv
<1> USE FruitConstants
<1>1. Loaded(Background, "get")
  BY DEF fruit!Init, fruit!exec_user_prg, Loaded, fruit!Slot, Slot, fruit!sem_init, sem_init, fruit!Sem, Sem
<1>2. /\ Kernel /\ LinksTyped /\ val = [s \in Sem |-> 0] /\ QueueExact
      /\ curr_proc = 0 /\ curr_pid = Writer
      /\ pc \in [Slot -> {"get", "other", "none"}]
      /\ \A i \in Slot : /\ ~Waiting(i) /\ ~Dead(i)
                         /\ pc[i] = "none" <=> i >= curr_pid
                         /\ pc[i] = "get" <=> i = 0
                         /\ pc[i] = "other" <=> i \in 1 .. Background
  BY <1>1, ExecTable DEF Writer
<1>3. \A s \in 0 .. 3 : head[s] = NULL /\ val[s] = 0
  BY <1>2 DEF QueueExact
<1>4. words = FALSE /\ fruit_plate = 0 /\ fruit_index = 0
  BY DEF fruit!Init, fruit!userInit
<1>5. pc[Writer] = "none" /\ pc[Server] = "none" /\ pc[0] = "get"
  BY <1>2
<1>6. Base(FruitLabels) /\ Solo
  BY <1>2, <1>3 DEF Base, Solo, FruitLabels, FatherLabels
<1>7. FruitPlaces /\ FruitSleepers
  BY <1>2, <1>3, <1>5 DEF FruitPlaces, FruitSleepers, FatherLabels, WriterLabels, ServerLabels
<1>8. FruitTokens
  <2>1. val[0] = 0 /\ val[1] = 0 /\ val[2] = 0 /\ val[3] = 0
    BY <1>3
  <2> QED BY <1>4, <1>5, <2>1 DEF FruitTokens, WordTokens, PlateTokens, Filled, Bit
<1> QED BY <1>2, <1>6, <1>7, <1>8 DEF FruitInv

\* A semaphore is below 0 exactly if its process sleeps on it.
LEMMA FruitQueues ==
  ASSUME FruitInv
  PROVE  /\ \A s \in 0 .. 3 : /\ val[s] \in Int /\ val[s] >= -1
                              /\ val[s] = -1 <=> head[s] # NULL
                              /\ val[s] = -1 => Asleep(Taker(s)) /\ pc[Taker(s)] = Behind(s)
         /\ Asleep(0) => (val[0] = -1 /\ pc[0] = "p_fruit") \/ (val[1] = -1 /\ pc[0] = "print")
         /\ Asleep(Writer) => val[2] = -1 /\ pc[Writer] = "put_words"
         /\ Asleep(Server) => val[3] = -1 /\ pc[Server] = "put_fruit"
<1> USE FruitConstants
<1>1. \A s \in 0 .. 3 : val[s] \in Int /\ val[s] >= -1 /\ (val[s] = -1 <=> head[s] # NULL)
  BY DEF FruitInv, Solo, QueueExact
<1>2. \A s \in 0 .. 3 : val[s] = -1 => Asleep(Taker(s)) /\ pc[Taker(s)] = Behind(s)
  BY <1>1 DEF FruitInv, FruitSleepers
<1>3. ASSUME NEW i \in Family, Asleep(i)
      PROVE  \E s \in 0 .. 3 : val[s] = -1 /\ i = Taker(s) /\ pc[i] = Behind(s)
  <2>1. i \in Slot /\ i # NULL
    BY DEF Family
  <2>2. PICK s \in 0 .. 3 : head[s] = i
    BY <1>3, <2>1 DEF FruitInv, FruitSleepers, Asleep
  <2> QED BY <1>1, <2>1, <2>2 DEF FruitInv, FruitSleepers
<1> QED BY <1>1, <1>2, <1>3 DEF Family, Taker, Behind

\* Who calls is one of the three, and awake.
LEMMA FruitCaller ==
  ASSUME FruitInv, NEW l \in FatherLabels \cup WriterLabels \cup ServerLabels, fruit!at(l)
  PROVE  \E w \in Family :
           /\ w = curr_proc /\ pc[w] = l /\ w \in Slot /\ w < curr_pid
           /\ l \in FatherLabels => w = 0
           /\ l \in WriterLabels => w = Writer
           /\ l \in ServerLabels => w = Server
           /\ ~Asleep(w) /\ ~Waiting(w) /\ ~Dead(w) /\ \A s \in 0 .. 3 : head[s] # w
<1> USE FruitConstants
<1>1. PICK w \in Slot : /\ w = curr_proc /\ w < curr_pid /\ pc[w] = l /\ ~Asleep(w)
  BY CallerPlace DEF fruit!at, at, FruitInv
<1>2. /\ l \in FatherLabels => w = 0
      /\ l \in WriterLabels => w = Writer
      /\ l \in ServerLabels => w = Server
      /\ w \in Family
  BY <1>1 DEF FruitInv, FruitPlaces, Family
<1>3. \A s \in 0 .. 3 : head[s] # w
  BY <1>1 DEF FruitInv, FruitSleepers
<1>4. ~Waiting(w) /\ ~Dead(w)
  BY <1>1, <1>3 DEF FruitInv, FruitSleepers, FatherLabels, WriterLabels, ServerLabels
<1> QED BY <1>1, <1>2, <1>3, <1>4

\* The one that finds no token does not stop the three: another one has it.
LEMMA FruitReady ==
  ASSUME FruitInv, NEW s \in 0 .. 3, curr_proc = Taker(s), pc[Taker(s)] = Before(s),
         ~Asleep(Taker(s)), val[s] = 0
  PROVE  \E i \in Slot : status[i] = "READY"
<1> USE FruitConstants
<1>1. /\ \A t \in 0 .. 3 : val[t] \in Int /\ val[t] >= -1
                           /\ (val[t] = -1 => Asleep(Taker(t)) /\ pc[Taker(t)] = Behind(t))
      /\ Asleep(0) => (val[0] = -1 /\ pc[0] = "p_fruit") \/ (val[1] = -1 /\ pc[0] = "print")
      /\ Asleep(Writer) => val[2] = -1 /\ pc[Writer] = "put_words"
      /\ Asleep(Server) => val[3] = -1 /\ pc[Server] = "put_fruit"
  BY FruitQueues
<1>2. ASSUME NEW i \in Family, i # Taker(s), pc[i] # "none", ~Asleep(i)
      PROVE  status[i] = "READY"
  <2>1. i \in Slot /\ i < curr_pid
    BY <1>2 DEF Family, FruitInv, Base, FruitPlaces, Slot
  <2>2. pc[i] # "gone"
    BY <1>2 DEF FruitInv, FruitPlaces, Family, Writer, Server, FatherLabels
  <2>3. ~Dead(i)
    BY <2>1, <2>2 DEF FruitInv, FruitSleepers
  <2> QED BY <1>2, <2>1, <2>3, AwakeReady DEF FruitInv, Base
<1>3. /\ pc[0] \notin {"get", "fork"} => pc[Writer] # "none"
      /\ pc[0] \notin {"get", "fork"} /\ pc[Writer] # "fork2" => pc[Server] # "none"
      /\ pc[0] # "none" /\ pc[Writer] \in WriterLabels \cup {"none"}
      /\ pc[Server] \in ServerLabels \cup {"none"}
      /\ pc[0] \in {"get", "fork"} => pc[Writer] = "none" /\ pc[Server] = "none"
  <2>1. \A i \in Family : pc[i] \in FruitLabels /\ (pc[i] = "none" <=> i >= curr_pid)
    BY DEF FruitInv, Base, Family
  <2> QED BY <2>1 DEF FruitInv, FruitPlaces, Family, FruitLabels, Writer, Server, FatherLabels
<1>4. WordTokens = 1 /\ PlateTokens = 1
  BY DEF FruitInv, FruitTokens
<1>5. val[0] \in Int /\ val[1] \in Int /\ val[2] \in Int /\ val[3] \in Int
      /\ val[0] >= -1 /\ val[1] >= -1 /\ val[2] >= -1 /\ val[3] >= -1
      /\ (val[0] = -1 => pc[0] = "p_fruit") /\ (val[1] = -1 => pc[0] = "print")
      /\ (val[2] = -1 => pc[Writer] = "put_words") /\ (val[3] = -1 => pc[Server] = "put_fruit")
  BY <1>1 DEF Taker, Behind
<1>6. CASE s = 0
  <2>1. pc[0] = "p_word"
    BY <1>6 DEF Taker, Before
  <2>2. pc[Writer] # "none"
    BY <1>3, <2>1
  <2>3. ~Asleep(Writer)
    BY <1>1, <1>4, <1>5, <1>6, <2>1 DEF WordTokens, Bit
  <2> QED BY <1>2, <1>6, <2>2, <2>3 DEF Taker, Family
<1>7. CASE s = 1
  <2>1. pc[0] = "p_fruit" /\ ~Asleep(0)
    BY <1>7 DEF Taker, Before
  <2>2. pc[Writer] # "fork2" /\ pc[Writer] # "none"
    BY <1>1, <1>3, <1>4, <1>5, <2>1 DEF WordTokens, Bit, Taker
  <2>3. ~Asleep(Server)
    BY <1>1, <1>4, <1>5, <1>7, <2>1 DEF PlateTokens, Filled, Bit
  <2> QED BY <1>2, <1>3, <1>7, <2>1, <2>2, <2>3 DEF Taker, Family
<1>8. CASE s = 2
  <2>1. pc[Writer] = "p_full"
    BY <1>8 DEF Taker, Before
  <2>2. pc[0] \notin {"get", "fork"} /\ pc[Server] # "none"
    BY <1>3, <2>1
  <2>3. Asleep(0) => pc[0] = "print" /\ val[1] = -1
    BY <1>1, <1>4, <1>5, <1>8, <2>1 DEF WordTokens, Bit
  <2>4. Asleep(0) => ~Asleep(Server)
    BY <1>1, <1>4, <1>5, <2>3 DEF PlateTokens, Filled, Bit
  <2> QED BY <1>2, <1>3, <1>8, <2>2, <2>4 DEF Taker, Family
<1>9. CASE s = 3
  <2>1. pc[Server] = "p_plate"
    BY <1>9 DEF Taker, Before
  <2>2. pc[0] \notin {"get", "fork"} /\ pc[Writer] # "none"
    BY <1>3, <2>1
  <2>3. Asleep(0) => pc[0] = "p_fruit" /\ val[0] = -1
    BY <1>1, <1>4, <1>5, <1>9, <2>1 DEF PlateTokens, Filled, Bit
  <2>4. Asleep(0) => ~Asleep(Writer)
    BY <1>1, <1>4, <1>5, <2>3 DEF WordTokens, Bit
  <2> QED BY <1>2, <1>3, <1>9, <2>2, <2>4 DEF Taker, Family
<1> QED BY <1>6, <1>7, <1>8, <1>9

FruitStable == (FatherLabels \ {"get", "fork"}) \cup (WriterLabels \ {"fork2"}) \cup ServerLabels

\* The parts of the invariant that every step of the three keeps alike.
LEMMA FruitFrame ==
  ASSUME FruitInv, NEW w \in Family, w < curr_pid, pc[w] \notin {"get", "fork", "fork2"}, NEW m,
         \/ w = 0 /\ m \in FatherLabels \ {"get", "fork"}
         \/ w = Writer /\ m \in WriterLabels \ {"fork2"}
         \/ w = Server /\ m \in ServerLabels,
         pc' = [pc EXCEPT ![w] = m], Solo', UNCHANGED curr_pid
  PROVE  /\ Base(FruitLabels)' /\ FruitPlaces' /\ pc'[0] # "get"
         /\ pc'[w] = m /\ \A i \in Slot : i # w => pc'[i] = pc[i]
<1> USE FruitConstants
<1>1. m \in FruitLabels /\ m \notin {"none", "get", "fork", "fork2", "other", "gone"}
      /\ (m \in FatherLabels <=> w = 0) /\ (m \in WriterLabels <=> w = Writer)
      /\ (m \in ServerLabels <=> w = Server) /\ w \in Slot
  BY DEF FruitLabels, FatherLabels, WriterLabels, ServerLabels, Family
<1>2. pc'[w] = m /\ \A i \in Slot : i # w => pc'[i] = pc[i]
  BY <1>1 DEF FruitInv, Base
<1>3. Base(FruitLabels)'
  <2>1. LinksTyped' /\ val' \in [Sem -> Int] /\ Kernel'
    BY DEF Solo
  <2> QED BY <1>1, <2>1, BaseKeeps DEF FruitInv
<1>4. pc[0] \notin {"get", "fork"}
  <2>1. curr_pid # Writer \/ w = 0
    BY DEF Family
  <2> QED BY <2>1 DEF FruitInv, FruitPlaces
<1>5. pc'[0] \notin {"get", "fork"} /\ (pc'[Writer] = "fork2" <=> pc[Writer] = "fork2")
  BY <1>1, <1>2, <1>4
<1>6. FruitPlaces'
  <2>1. \A i \in Slot : /\ pc'[i] \in FatherLabels <=> i = 0
                        /\ pc'[i] \in WriterLabels => i = Writer
                        /\ pc'[i] \in ServerLabels => i = Server
                        /\ pc'[i] \in {"other", "gone"} => i \in 1 .. Background
    BY <1>1, <1>2 DEF FruitInv, FruitPlaces
  <2> QED BY <1>4, <1>5, <2>1 DEF FruitInv, FruitPlaces
<1> QED BY <1>2, <1>3, <1>5, <1>6

\* P: whoever finds no token is the sleeper of the semaphore.
LEMMA FruitAsks ==
  ASSUME FruitInv, NEW s \in 0 .. 3, NEW w, w = Taker(s), curr_proc = w, w < curr_pid,
         ~Asleep(w), ~Waiting(w), pc[w] = Before(s),
         do_sem_p(s), pc' = [pc EXCEPT ![w] = Behind(s)], UNCHANGED fruit!userVars
  PROVE  FruitInv'
<1> USE FruitConstants
<1>0. w \in Family /\ w \in Slot /\ s \in Sem /\ \A t \in 0 .. 3 : t \in Sem
  BY DEF Taker, Family
<1>1. val[s] \in Int /\ val[s] >= -1 /\ (val[s] = -1 <=> head[s] # NULL) /\ val[s] # -1
  BY FruitQueues
<1>2. val[s] = 0 => \E i \in Slot : status[i] = "READY"
  BY FruitReady
<1>3. Solo
  BY DEF FruitInv
<1>4. /\ Solo' /\ UNCHANGED curr_pid
      /\ val' = [val EXCEPT ![s] = @ - 1]
      /\ head' = [head EXCEPT ![s] = IF val[s] = 0 THEN w ELSE NULL]
      /\ \A i \in Slot : /\ Waiting(i)' <=> Waiting(i) \/ (i = w /\ val[s] = 0)
                         /\ Dead(i)' <=> Dead(i) /\ ~(i = w /\ val[s] = 0)
      /\ \A i \in Slot : Asleep(i)' <=> Asleep(i) \/ (i = w /\ val[s] = 0)
  <2>1. val[s] >= 0
    BY <1>1
  <2> QED BY <1>0, <1>2, <1>3, <2>1, SoloP
<1>5. /\ val'[s] = val[s] - 1 /\ \A t \in 0 .. 3 : t # s => val'[t] = val[t]
      /\ head'[s] = (IF val[s] = 0 THEN w ELSE NULL) /\ \A t \in 0 .. 3 : t # s => head'[t] = head[t]
  BY <1>0, <1>3, <1>4 DEF Solo, LinksTyped
<1>6. /\ Base(FruitLabels)' /\ FruitPlaces' /\ pc'[0] # "get"
      /\ pc'[w] = Behind(s) /\ \A i \in Slot : i # w => pc'[i] = pc[i]
  <2>1. pc[w] \notin {"get", "fork", "fork2"}
    BY DEF Before
  <2>2. \/ w = 0 /\ Behind(s) \in FatherLabels \ {"get", "fork"}
        \/ w = Writer /\ Behind(s) \in WriterLabels \ {"fork2"}
        \/ w = Server /\ Behind(s) \in ServerLabels
    BY DEF Taker, Behind, FatherLabels, WriterLabels, ServerLabels
  <2> QED BY <1>0, <1>4, <2>1, <2>2, FruitFrame
<1>7. FruitSleepers'
  <2>1. ASSUME NEW i \in Slot PROVE (Waiting(i)' => \E t \in 0 .. 3 : head'[t] = i) /\ (Dead(i)' => pc'[i] = "gone")
    <3>1. Waiting(i) => \E t \in 0 .. 3 : head[t] = i
      BY DEF FruitInv, FruitSleepers
    <3>2. Waiting(i) => i # w
      OBVIOUS
    <3>3. head[s] # NULL => FALSE
      BY <1>1
    <3>4. Waiting(i)' => \E t \in 0 .. 3 : head'[t] = i
      BY <1>4, <1>5, <3>1, <3>3
    <3>5. ~Dead(w)
      BY <1>0 DEF FruitInv, FruitSleepers, Before
    <3> QED BY <1>4, <1>6, <3>4, <3>5 DEF FruitInv, FruitSleepers
  <2>2. ASSUME NEW t \in 0 .. 3, head'[t] # NULL
        PROVE  head'[t] = Taker(t) /\ Asleep(Taker(t))' /\ pc'[Taker(t)] = Behind(t)
    <3>1. CASE t = s
      BY <1>0, <1>4, <1>5, <1>6, <2>2, <3>1
    <3>2. CASE t # s
      <4>1. head'[t] = Taker(t) /\ Asleep(Taker(t)) /\ pc[Taker(t)] = Behind(t)
        BY <1>5, <2>2, <3>2 DEF FruitInv, FruitSleepers
      <4>2. Taker(t) # w /\ Taker(t) \in Slot
        BY <4>1 DEF Taker
      <4> QED BY <1>4, <1>6, <4>1, <4>2
    <3> QED BY <3>1, <3>2
  <2> QED BY <2>1, <2>2 DEF FruitSleepers, Taker
<1>8. FruitTokens'
  <2>0. FruitTokens /\ \A t \in 0 .. 3 : val[t] \in Int
    BY FruitQueues DEF FruitInv
  <2>1. words' = words /\ fruit_plate' = fruit_plate /\ fruit_index' = fruit_index
    BY DEF fruit!userVars
  <2>2. WordTokens' = WordTokens
    <3>1. CASE s = 0
      <4>1. val'[0] = val[0] - 1 /\ val'[2] = val[2] /\ pc'[0] = "p_fruit" /\ pc[0] = "p_word"
            /\ pc'[Writer] = pc[Writer]
        BY <1>5, <1>6, <3>1 DEF Taker, Before, Behind
      <4> QED BY <2>0, <4>1 DEF WordTokens, Bit
    <3>2. CASE s = 1
      <4>1. val'[0] = val[0] /\ val'[2] = val[2] /\ pc'[0] = "print" /\ pc[0] = "p_fruit"
            /\ pc'[Writer] = pc[Writer]
        BY <1>5, <1>6, <3>2 DEF Taker, Before, Behind
      <4> QED BY <2>0, <4>1 DEF WordTokens, Bit
    <3>3. CASE s = 2
      <4>1. val'[0] = val[0] /\ val'[2] = val[2] - 1 /\ pc'[0] = pc[0]
            /\ pc'[Writer] = "put_words" /\ pc[Writer] = "p_full"
        BY <1>5, <1>6, <3>3 DEF Taker, Before, Behind
      <4> QED BY <2>0, <4>1 DEF WordTokens, Bit
    <3>4. CASE s = 3
      <4>1. val'[0] = val[0] /\ val'[2] = val[2] /\ pc'[0] = pc[0] /\ pc'[Writer] = pc[Writer]
        BY <1>5, <1>6, <3>4 DEF Taker
      <4> QED BY <4>1 DEF WordTokens, Bit
    <3> QED BY <3>1, <3>2, <3>3, <3>4
  <2>3. Filled' = Filled /\ PlateTokens' = PlateTokens
    <3>1. CASE s = 0
      <4>1. val'[1] = val[1] /\ val'[3] = val[3] /\ pc'[0] = "p_fruit" /\ pc[0] = "p_word"
            /\ pc'[Server] = pc[Server]
        BY <1>5, <1>6, <3>1 DEF Taker, Before, Behind
      <4> QED BY <2>0, <4>1 DEF PlateTokens, Filled, Bit
    <3>2. CASE s = 1
      <4>1. val'[1] = val[1] - 1 /\ val'[3] = val[3] /\ pc'[0] = "print" /\ pc[0] = "p_fruit"
            /\ pc'[Server] = pc[Server]
        BY <1>5, <1>6, <3>2 DEF Taker, Before, Behind
      <4> QED BY <2>0, <4>1 DEF PlateTokens, Filled, Bit
    <3>3. CASE s = 2
      <4>1. val'[1] = val[1] /\ val'[3] = val[3] /\ pc'[0] = pc[0] /\ pc'[Server] = pc[Server]
        BY <1>5, <1>6, <3>3 DEF Taker
      <4> QED BY <4>1 DEF PlateTokens, Filled, Bit
    <3>4. CASE s = 3
      <4>1. val'[1] = val[1] /\ val'[3] = val[3] - 1 /\ pc'[0] = pc[0]
            /\ pc'[Server] = "put_fruit" /\ pc[Server] = "p_plate"
        BY <1>5, <1>6, <3>4 DEF Taker, Before, Behind
      <4> QED BY <2>0, <4>1 DEF PlateTokens, Filled, Bit
    <3> QED BY <3>1, <3>2, <3>3, <3>4
  <2>4. (\/ pc'[Writer] \in {"v_words", "p_full"}
         \/ pc'[Writer] = "put_words" /\ Asleep(Writer)'
         => words')
    <3>1. CASE s = 2
      BY <2>0, <2>1, <3>1 DEF FruitTokens, Taker, Before
    <3>2. CASE s # 2
      <4>1. pc'[Writer] = pc[Writer] /\ (Asleep(Writer)' <=> Asleep(Writer))
        BY <1>4, <1>6, <3>2 DEF Taker
      <4> QED BY <2>0, <2>1, <4>1 DEF FruitTokens
    <3> QED BY <3>1, <3>2
  <2> QED BY <2>0, <2>1, <2>2, <2>3, <2>4 DEF FruitTokens
<1> QED BY <1>4, <1>6, <1>7, <1>8 DEF FruitInv

Giver(s) == IF s = 0 THEN Writer ELSE IF s = 1 THEN Server ELSE 0
Offering(s) == IF s = 0 THEN "v_words" ELSE IF s = 1 THEN "v_plate"
               ELSE IF s = 2 THEN "v_word" ELSE "v_fruit"
Given(s) == IF s = 0 THEN "p_full" ELSE IF s = 1 THEN "p_plate"
            ELSE IF s = 2 THEN "clear" ELSE "p_word"

\* V: the sleeper of the semaphore, if there is one, is awake again.
LEMMA FruitGives ==
  ASSUME FruitInv, NEW s \in 0 .. 3, NEW w, w = Giver(s), curr_proc = w, w < curr_pid,
         ~Asleep(w), ~Waiting(w), pc[w] = Offering(s),
         do_sem_v(s), pc' = [pc EXCEPT ![w] = Given(s)], UNCHANGED fruit!userVars
  PROVE  FruitInv'
<1> USE FruitConstants
<1>0. w \in Family /\ w \in Slot /\ s \in Sem /\ w # Taker(s) /\ \A t \in 0 .. 3 : t \in Sem
  BY DEF Taker, Giver, Family
<1>h. PICK h : h = head[s]
  OBVIOUS
<1>1. /\ val[s] \in Int /\ val[s] >= -1 /\ (val[s] = -1 <=> h # NULL)
      /\ h # NULL => h = Taker(s) /\ Waiting(h) /\ Asleep(h)
  BY <1>h, FruitQueues DEF FruitInv, FruitSleepers, Asleep
<1>3. Solo
  BY DEF FruitInv
<1>4. /\ Solo' /\ UNCHANGED curr_pid
      /\ val' = [val EXCEPT ![s] = @ + 1]
      /\ head' = [head EXCEPT ![s] = NULL]
      /\ \A i \in Slot : /\ Waiting(i)' <=> Waiting(i) /\ i # h
                         /\ Dead(i)' <=> Dead(i)
                         /\ Asleep(i)' <=> Asleep(i) /\ i # h
  BY <1>0, <1>1, <1>3, <1>h, SoloV
<1>5. /\ val'[s] = val[s] + 1 /\ \A t \in 0 .. 3 : t # s => val'[t] = val[t]
      /\ head'[s] = NULL /\ \A t \in 0 .. 3 : t # s => head'[t] = head[t]
  BY <1>0, <1>3, <1>4 DEF Solo, LinksTyped
<1>6. /\ Base(FruitLabels)' /\ FruitPlaces' /\ pc'[0] # "get"
      /\ pc'[w] = Given(s) /\ \A i \in Slot : i # w => pc'[i] = pc[i]
  <2>1. pc[w] \notin {"get", "fork", "fork2"}
    BY DEF Offering
  <2>2. \/ w = 0 /\ Given(s) \in FatherLabels \ {"get", "fork"}
        \/ w = Writer /\ Given(s) \in WriterLabels \ {"fork2"}
        \/ w = Server /\ Given(s) \in ServerLabels
    BY DEF Giver, Given, FatherLabels, WriterLabels, ServerLabels
  <2> QED BY <1>0, <1>4, <2>1, <2>2, FruitFrame
<1>7. FruitSleepers'
  <2>1. ASSUME NEW i \in Slot PROVE (Waiting(i)' => \E t \in 0 .. 3 : head'[t] = i) /\ (Dead(i)' => pc'[i] = "gone")
    <3>1. Waiting(i) => \E t \in 0 .. 3 : head[t] = i
      BY DEF FruitInv, FruitSleepers
    <3>2. Waiting(i)' => \E t \in 0 .. 3 : head'[t] = i
      BY <1>4, <1>5, <1>h, <3>1
    <3>3. ~Dead(w)
      BY <1>0 DEF FruitInv, FruitSleepers, Offering
    <3> QED BY <1>4, <1>6, <3>2, <3>3 DEF FruitInv, FruitSleepers
  <2>2. ASSUME NEW t \in 0 .. 3, head'[t] # NULL
        PROVE  head'[t] = Taker(t) /\ Asleep(Taker(t))' /\ pc'[Taker(t)] = Behind(t)
    <3>1. t # s /\ head'[t] = head[t]
      BY <1>5, <2>2
    <3>2. head'[t] = Taker(t) /\ Asleep(Taker(t)) /\ pc[Taker(t)] = Behind(t) /\ Taker(t) \in Slot
      BY <2>2, <3>1 DEF FruitInv, FruitSleepers, Taker
    <3>3. Taker(t) # w
      BY <3>2
    <3>4. Taker(t) # h
      <4>1. CASE h = NULL
        BY <3>2, <4>1
      <4>2. CASE h # NULL
        <5>1. pc[h] = Behind(s) /\ h = Taker(s)
          BY <1>1, <1>h, <4>2 DEF FruitInv, FruitSleepers
        <5> QED BY <3>1, <3>2, <5>1 DEF Taker, Behind
      <4> QED BY <4>1, <4>2
    <3> QED BY <1>4, <1>6, <3>2, <3>3, <3>4
  <2> QED BY <2>1, <2>2 DEF FruitSleepers, Taker
<1>8. FruitTokens'
  <2>0. FruitTokens /\ \A t \in 0 .. 3 : val[t] \in Int
    BY FruitQueues DEF FruitInv
  <2>1. words' = words /\ fruit_plate' = fruit_plate /\ fruit_index' = fruit_index
    BY DEF fruit!userVars
  <2>2. WordTokens' = WordTokens
    <3>1. CASE s = 0
      <4>1. val'[0] = val[0] + 1 /\ val'[2] = val[2] /\ pc'[0] = pc[0]
            /\ pc'[Writer] = "p_full" /\ pc[Writer] = "v_words"
        BY <1>5, <1>6, <3>1 DEF Giver, Offering, Given
      <4> QED BY <2>0, <4>1 DEF WordTokens, Bit
    <3>2. CASE s = 1
      <4>1. val'[0] = val[0] /\ val'[2] = val[2] /\ pc'[0] = pc[0] /\ pc'[Writer] = pc[Writer]
        BY <1>5, <1>6, <3>2 DEF Giver
      <4> QED BY <4>1 DEF WordTokens, Bit
    <3>3. CASE s = 2
      <4>1. val'[0] = val[0] /\ val'[2] = val[2] + 1 /\ pc'[0] = "clear" /\ pc[0] = "v_word"
            /\ pc'[Writer] = pc[Writer]
        BY <1>5, <1>6, <3>3 DEF Giver, Offering, Given
      <4> QED BY <2>0, <4>1 DEF WordTokens, Bit
    <3>4. CASE s = 3
      <4>1. val'[0] = val[0] /\ val'[2] = val[2] /\ pc'[0] = "p_word" /\ pc[0] = "v_fruit"
            /\ pc'[Writer] = pc[Writer]
        BY <1>5, <1>6, <3>4 DEF Giver, Offering, Given
      <4> QED BY <4>1 DEF WordTokens, Bit
    <3> QED BY <3>1, <3>2, <3>3, <3>4
  <2>3. Filled' = Filled /\ PlateTokens' = PlateTokens
    <3>1. CASE s = 0
      <4>1. val'[1] = val[1] /\ val'[3] = val[3] /\ pc'[0] = pc[0] /\ pc'[Server] = pc[Server]
        BY <1>5, <1>6, <3>1 DEF Giver
      <4> QED BY <4>1 DEF PlateTokens, Filled, Bit
    <3>2. CASE s = 1
      <4>1. val'[1] = val[1] + 1 /\ val'[3] = val[3] /\ pc'[0] = pc[0]
            /\ pc'[Server] = "p_plate" /\ pc[Server] = "v_plate"
        BY <1>5, <1>6, <3>2 DEF Giver, Offering, Given
      <4> QED BY <2>0, <4>1 DEF PlateTokens, Filled, Bit
    <3>3. CASE s = 2
      <4>1. val'[1] = val[1] /\ val'[3] = val[3] /\ pc'[0] = "clear" /\ pc[0] = "v_word"
            /\ pc'[Server] = pc[Server]
        BY <1>5, <1>6, <3>3 DEF Giver, Offering, Given
      <4> QED BY <4>1 DEF PlateTokens, Filled, Bit
    <3>4. CASE s = 3
      <4>1. val'[1] = val[1] /\ val'[3] = val[3] + 1 /\ pc'[0] = "p_word" /\ pc[0] = "v_fruit"
            /\ pc'[Server] = pc[Server]
        BY <1>5, <1>6, <3>4 DEF Giver, Offering, Given
      <4> QED BY <2>0, <4>1 DEF PlateTokens, Filled, Bit
    <3> QED BY <3>1, <3>2, <3>3, <3>4
  <2>4. (\/ pc'[Writer] \in {"v_words", "p_full"}
         \/ pc'[Writer] = "put_words" /\ Asleep(Writer)'
         => words')
    <3>1. CASE s = 0
      BY <2>0, <2>1, <3>1 DEF FruitTokens, Giver, Offering
    <3>2. CASE s # 0
      <4>1. pc'[Writer] = pc[Writer] /\ (Asleep(Writer)' => Asleep(Writer))
        BY <1>4, <1>6, <3>2 DEF Giver
      <4> QED BY <2>0, <2>1, <4>1 DEF FruitTokens
    <3> QED BY <3>1, <3>2
  <2> QED BY <2>0, <2>1, <2>2, <2>3, <2>4 DEF FruitTokens
<1> QED BY <1>4, <1>6, <1>7, <1>8 DEF FruitInv

\* What the three do between their calls.
LEMMA FruitWorks ==
  ASSUME FruitInv, NEW w \in Family, curr_proc = w, w < curr_pid, ~Asleep(w), ~Waiting(w), NEW m,
         UNCHANGED <<taskVars, val, head, next>>, pc' = [pc EXCEPT ![w] = m],
         \/ /\ w = 0 /\ pc[w] = "print" /\ m = "v_word"
            /\ UNCHANGED <<words, fruit_plate, fruit_index>>
         \/ /\ w = 0 /\ pc[w] = "clear" /\ m = "v_fruit"
            /\ fruit_plate' = 0 /\ UNCHANGED <<words, fruit_index>>
         \/ /\ w = Writer /\ pc[w] = "put_words" /\ m = "written"
            /\ words' = FALSE /\ UNCHANGED <<fruit_plate, fruit_index>>
         \/ /\ w = Writer /\ pc[w] = "written" /\ m = "v_words"
            /\ words' = TRUE /\ UNCHANGED <<fruit_plate, fruit_index>>
         \/ /\ w = Server /\ pc[w] = "put_fruit" /\ m = "v_plate"
            /\ fruit_index' \in 1 .. 3 /\ fruit_plate' = fruit_index' /\ UNCHANGED words
  PROVE  FruitInv'
<1> USE FruitConstants
<1>1. /\ UNCHANGED curr_pid /\ Kernel'
      /\ \A i \in Slot : /\ Waiting(i)' <=> Waiting(i)
                         /\ Asleep(i)' <=> Asleep(i)
                         /\ Dead(i)' <=> Dead(i)
  BY Unmoved DEF FruitInv, Base
<1>2. Solo' /\ val' = val /\ head' = head
  BY <1>1, SoloKeeps DEF FruitInv
<1>3. /\ Base(FruitLabels)' /\ FruitPlaces' /\ pc'[0] # "get"
      /\ pc'[w] = m /\ \A i \in Slot : i # w => pc'[i] = pc[i]
  <2>1. pc[w] \notin {"get", "fork", "fork2"}
    OBVIOUS
  <2>2. \/ w = 0 /\ m \in FatherLabels \ {"get", "fork"}
        \/ w = Writer /\ m \in WriterLabels \ {"fork2"}
        \/ w = Server /\ m \in ServerLabels
    BY DEF FatherLabels, WriterLabels, ServerLabels
  <2> QED BY <1>1, <1>2, <2>1, <2>2, FruitFrame
<1>4. FruitSleepers'
  <2>1. \A s \in 0 .. 3 : head[s] # w
    BY DEF FruitInv, FruitSleepers
  <2>2. w \in Slot /\ ~Dead(w)
    BY DEF FruitInv, FruitSleepers, Family
  <2>3. \A s \in 0 .. 3 : Taker(s) \in Slot
    BY DEF Taker
  <2>4. \A i \in Slot : (Waiting(i)' => \E s \in 0 .. 3 : head'[s] = i) /\ (Dead(i)' => pc'[i] = "gone")
    BY <1>1, <1>2, <1>3, <2>2 DEF FruitInv, FruitSleepers
  <2>5. ASSUME NEW s \in 0 .. 3, head'[s] # NULL
        PROVE  head'[s] = Taker(s) /\ Asleep(Taker(s))' /\ pc'[Taker(s)] = Behind(s)
    <3>1. head[s] = Taker(s) /\ Asleep(Taker(s)) /\ pc[Taker(s)] = Behind(s)
      BY <1>2, <2>5 DEF FruitInv, FruitSleepers
    <3> QED BY <1>1, <1>2, <1>3, <2>1, <2>3, <3>1
  <2> QED BY <2>4, <2>5 DEF FruitSleepers, Taker
<1>5. FruitTokens'
  <2>0. FruitTokens
    BY DEF FruitInv
  <2>1. /\ val[0] \in Int /\ val[1] \in Int /\ val[2] \in Int /\ val[3] \in Int
        /\ val[1] >= -1 /\ val[3] >= -1
        /\ val[1] = -1 => pc[0] = "print"
        /\ val[3] = -1 => pc[Server] = "put_fruit" /\ Asleep(Server)
    BY FruitQueues DEF Taker, Behind
  <2>2. val'[0] = val[0] /\ val'[1] = val[1] /\ val'[2] = val[2] /\ val'[3] = val[3]
        /\ (Asleep(Writer)' <=> Asleep(Writer))
    BY <1>1, <1>2
  <2>3. CASE w = 0 /\ pc[w] = "print"
    <3>1. pc'[0] = "v_word" /\ pc[0] = "print" /\ pc'[Writer] = pc[Writer] /\ pc'[Server] = pc[Server]
          /\ UNCHANGED <<words, fruit_plate, fruit_index>>
      BY <1>3, <2>3
    <3> QED BY <2>0, <2>1, <2>2, <3>1 DEF FruitTokens, WordTokens, PlateTokens, Filled, Bit
  <2>4. CASE w = 0 /\ pc[w] = "clear"
    <3>1. pc'[0] = "v_fruit" /\ pc[0] = "clear" /\ pc'[Writer] = pc[Writer] /\ pc'[Server] = pc[Server]
          /\ fruit_plate' = 0 /\ UNCHANGED <<words, fruit_index>>
      BY <1>3, <2>4
    <3>2. Filled' = 0 /\ PlateTokens' = 1
      BY <2>0, <2>1, <2>2, <3>1 DEF FruitTokens, PlateTokens, Filled, Bit
    <3>3. WordTokens' = WordTokens
      BY <2>2, <3>1 DEF WordTokens, Bit
    <3> QED BY <2>0, <2>2, <3>1, <3>2, <3>3 DEF FruitTokens
  <2>5. CASE w = Writer
    <3>1. pc'[0] = pc[0] /\ pc'[Server] = pc[Server] /\ pc'[Writer] = m
          /\ UNCHANGED <<fruit_plate, fruit_index>>
          /\ \/ pc[Writer] = "put_words" /\ m = "written" /\ words' = FALSE
             \/ pc[Writer] = "written" /\ m = "v_words" /\ words' = TRUE
      BY <1>3, <2>5
    <3>2. Filled' = Filled /\ PlateTokens' = PlateTokens
      BY <2>2, <3>1 DEF PlateTokens, Filled, Bit
    <3>3. WordTokens' = WordTokens
      BY <2>2, <3>1 DEF WordTokens, Bit
    <3> QED BY <2>0, <2>2, <3>1, <3>2, <3>3 DEF FruitTokens
  <2>6. CASE w = Server
    <3>1. pc'[0] = pc[0] /\ pc'[Writer] = pc[Writer] /\ pc'[Server] = "v_plate" /\ pc[Server] = "put_fruit"
          /\ ~Asleep(Server)
          /\ fruit_index' \in 1 .. 3 /\ fruit_plate' = fruit_index' /\ UNCHANGED words
      BY <1>3, <2>6
    <3>2. Filled' = 1 /\ PlateTokens' = 1
      <4>1. val[3] >= 0 /\ Bit(pc[Server] \in {"none", "put_fruit"}) = 1 /\ Bit(pc[Server] = "v_plate") = 0
            /\ Bit(pc'[Server] \in {"none", "put_fruit"}) = 0 /\ Bit(pc'[Server] = "v_plate") = 1
        BY <2>1, <3>1 DEF Bit
      <4>2. Bit(pc[0] \in {"print", "v_word", "clear"}) \in {0, 1} /\ Bit(pc[0] = "v_fruit") \in {0, 1}
            /\ (val[1] = -1 => Bit(pc[0] \in {"print", "v_word", "clear"}) = 1)
        BY <2>1 DEF Bit
      <4>3. PlateTokens = 1
        BY <2>0 DEF FruitTokens
      <4> QED BY <2>1, <2>2, <3>1, <4>1, <4>2, <4>3 DEF PlateTokens, Filled
    <3>3. WordTokens' = WordTokens
      BY <2>2, <3>1 DEF WordTokens, Bit
    <3> QED BY <2>0, <2>2, <3>1, <3>2, <3>3 DEF FruitTokens
  <2> QED BY <2>3, <2>4, <2>5, <2>6
<1> QED BY <1>2, <1>3, <1>4, <1>5 DEF FruitInv

\* main gets the four semaphores one after the other.
LEMMA FruitGets ==
  ASSUME FruitInv, fruit!get_sems PROVE FruitInv'
<1> USE FruitConstants
<1>1. PICK w \in Family : w = curr_proc /\ pc[w] = "get" /\ w < curr_pid /\ w = 0 /\ ~Asleep(w) /\ ~Waiting(w)
  BY FruitCaller DEF fruit!get_sems, FatherLabels
<1>2. PICK s \in Sem : /\ do_getsem(s, 0)
                       /\ pc' = [pc EXCEPT ![0] = IF s = 3 THEN "fork" ELSE "get"]
  BY <1>1, FruitHandlers DEF fruit!get_sems, fruit!goto, fruit!sem_fruit_full, fruit!Sem, Sem
<1>3. UNCHANGED <<words, fruit_plate, fruit_index>>
  BY DEF fruit!get_sems, fruit!userVars
<1>4. \A t \in Sem : val[t] = 0
  BY <1>1 DEF FruitInv
<1>5. /\ Solo' /\ val' = [val EXCEPT ![s] = 0] /\ UNCHANGED <<taskVars, head, next>>
  BY <1>2, <1>4, SoloGet DEF FruitInv
<1>6. val' = val
  BY <1>4, <1>5 DEF FruitInv, Base
<1>7. /\ UNCHANGED curr_pid
      /\ \A i \in Slot : /\ Waiting(i)' <=> Waiting(i)
                         /\ Asleep(i)' <=> Asleep(i)
                         /\ Dead(i)' <=> Dead(i)
  BY <1>5, Unmoved
<1>8. PICK m \in {"get", "fork"} : pc' = [pc EXCEPT ![0] = m]
  BY <1>2
<1>9. pc'[0] = m /\ \A i \in Slot : i # 0 => pc'[i] = pc[i]
  BY <1>8 DEF FruitInv, Base
<1>10. Base(FruitLabels)'
  <2>1. Kernel' /\ LinksTyped' /\ val' \in [Sem -> Int]
    BY <1>5 DEF Solo
  <2>2. m \in FruitLabels /\ m # "none" /\ 0 < curr_pid
    BY <1>1 DEF FruitLabels, FatherLabels
  <2> QED BY <1>7, <1>8, <2>1, <2>2, BaseKeeps DEF FruitInv
<1>11. FruitPlaces'
  BY <1>1, <1>7, <1>9 DEF FruitInv, FruitPlaces, FatherLabels, WriterLabels, ServerLabels
<1>12. FruitSleepers'
  <2>1. \A s1 \in 0 .. 3 : head[s1] = NULL
    BY <1>4, FruitQueues
  <2>2. \A s1 \in 0 .. 3 : head'[s1] = NULL
    BY <1>5, <2>1
  <2>3. \A i \in Slot : ~Waiting(i) /\ (Dead(i)' => pc'[i] = "gone")
    BY <1>1, <1>7, <1>9, <2>1 DEF FruitInv, FruitSleepers
  <2> QED BY <1>7, <2>2, <2>3 DEF FruitSleepers
<1>13. FruitTokens'
  <2>1. pc'[Writer] = pc[Writer] /\ pc'[Server] = pc[Server] /\ pc'[0] \in {"get", "fork"} /\ pc[0] = "get"
        /\ (Asleep(Writer)' <=> Asleep(Writer))
    BY <1>1, <1>7, <1>9
  <2>2. WordTokens' = WordTokens /\ Filled' = Filled /\ PlateTokens' = PlateTokens
    BY <1>6, <2>1 DEF WordTokens, PlateTokens, Filled, Bit
  <2> QED BY <1>3, <2>1, <2>2 DEF FruitInv, FruitTokens
<1> QED BY <1>4, <1>5, <1>6, <1>10, <1>11, <1>12, <1>13 DEF FruitInv

\* The father forks the child that puts words, and that one the other child.
LEMMA FruitForks ==
  ASSUME FruitInv, fruit!fork PROVE FruitInv'
<1> USE FruitConstants
<1>1. PICK w \in Family, k \in {"fork", "fork2"} :
        /\ w = curr_proc /\ pc[w] = k /\ w < curr_pid /\ w \in Slot
        /\ w = (IF k = "fork" THEN 0 ELSE Writer)
        /\ ~Asleep(w) /\ ~Waiting(w) /\ ~Dead(w) /\ \A s \in 0 .. 3 : head[s] # w
  <2>1. PICK k \in {"fork", "fork2"} : fruit!at(k)
    BY DEF fruit!fork
  <2>2. k \in FatherLabels \cup WriterLabels \cup ServerLabels /\ (k = "fork" => k \in FatherLabels)
        /\ (k = "fork2" => k \in WriterLabels)
    BY DEF FatherLabels, WriterLabels
  <2> QED BY <2>1, <2>2, FruitCaller
<1> DEFINE own == IF k = "fork" THEN "p_word" ELSE "put_words"
           new == IF k = "fork" THEN "fork2" ELSE "put_fruit"
<1>2. PICK c \in Slot : do_fork(c) /\ pc' = [pc EXCEPT ![w] = own, ![c] = new]
  <2>1. PICK c \in Slot : /\ do_fork(c)
                          /\ \/ fruit!at("fork") /\ pc' = [pc EXCEPT ![w] = "p_word", ![c] = "fork2"]
                             \/ fruit!at("fork2") /\ pc' = [pc EXCEPT ![w] = "put_words", ![c] = "put_fruit"]
    BY <1>1, FruitHandlers DEF fruit!fork, fruit!Slot, Slot
  <2> QED BY <1>1, <2>1 DEF fruit!at
<1>3. UNCHANGED <<val, head, next, words, fruit_plate, fruit_index>>
  BY DEF fruit!fork, fruit!semVars, fruit!userVars
<1>4. /\ Kernel' /\ c = curr_pid /\ curr_pid' = c + 1
      /\ \A i \in Slot : /\ Asleep(i)' <=> Asleep(i)
                         /\ Waiting(i)' <=> Waiting(i)
                         /\ Dead(i)' <=> Dead(i)
  BY <1>1, <1>2, ForkEffect DEF FruitInv, Base, Waiting
<1>5. curr_pid = (IF k = "fork" THEN Writer ELSE Server) /\ c \in Slot /\ c # w /\ pc[c] = "none"
  <2>1. curr_pid = (IF k = "fork" THEN Writer ELSE Server)
    BY <1>1 DEF FruitInv, FruitPlaces
  <2> QED BY <1>1, <1>4, <2>1 DEF FruitInv, Base
<1>6. pc'[w] = own /\ pc'[c] = new /\ \A i \in Slot \ {w, c} : pc'[i] = pc[i]
  BY <1>1, <1>2, <1>5 DEF FruitInv, Base
<1>7. Solo'
  BY <1>3, <1>4, SoloKeeps DEF FruitInv
<1>8. Base(FruitLabels)'
  <2>1. Kernel' /\ LinksTyped' /\ val' \in [Sem -> Int]
    BY <1>7 DEF Solo
  <2>2. pc' \in [Slot -> FruitLabels]
    <3>1. own \in FruitLabels /\ new \in FruitLabels
      BY DEF FruitLabels, FatherLabels, WriterLabels, ServerLabels
    <3> QED BY <1>1, <1>2, <3>1 DEF FruitInv, Base
  <2>3. \A i \in Slot : pc'[i] = "none" <=> i >= curr_pid'
    <3>1. \A i \in Slot : pc[i] = "none" <=> i >= c
      BY <1>4 DEF FruitInv, Base
    <3>2. c \in Int /\ w \in Int /\ \A i \in Slot : i \in Int
      BY <1>1 DEF Slot
    <3> QED BY <1>1, <1>4, <1>6, <3>1, <3>2
  <2> QED BY <2>1, <2>2, <2>3 DEF Base
<1>9. FruitPlaces'
  <2>1. pc'[0] \notin {"get", "fork"} /\ pc[0] # "get"
    BY <1>1, <1>5, <1>6 DEF FruitInv, FruitPlaces
  <2>2. curr_pid' = (IF k = "fork" THEN Server ELSE Server + 1)
    BY <1>1, <1>4, <1>5
  <2>3. pc'[Writer] = "fork2" <=> k = "fork"
    BY <1>1, <1>4, <1>5, <1>6
  <2>4. \A i \in Slot : /\ pc'[i] \in FatherLabels <=> i = 0
                        /\ pc'[i] \in WriterLabels => i = Writer
                        /\ pc'[i] \in ServerLabels => i = Server
                        /\ pc'[i] \in {"other", "gone"} => i \in 1 .. Background
    <3>1. CASE k = "fork"
      <4>1. pc'[0] = "p_word" /\ pc'[Writer] = "fork2" /\ \A i \in Slot \ {0, Writer} : pc'[i] = pc[i]
        BY <1>1, <1>4, <1>5, <1>6, <3>1
      <4> QED BY <4>1 DEF FruitInv, FruitPlaces, FatherLabels, WriterLabels, ServerLabels
    <3>2. CASE k = "fork2"
      <4>1. pc'[Server] = "put_fruit" /\ pc'[Writer] = "put_words" /\ \A i \in Slot \ {Writer, Server} : pc'[i] = pc[i]
        BY <1>1, <1>4, <1>5, <1>6, <3>2
      <4> QED BY <4>1 DEF FruitInv, FruitPlaces, FatherLabels, WriterLabels, ServerLabels
    <3> QED BY <3>1, <3>2
  <2>5. Server # Writer /\ Server + 1 # Writer /\ Server + 1 # Server
    OBVIOUS
  <2> QED BY <2>1, <2>2, <2>3, <2>4, <2>5 DEF FruitPlaces
<1>10. FruitSleepers'
  <2>1. ~Waiting(c) /\ ~Dead(c) /\ ~Asleep(c)
    <3>1. ~Waiting(c) /\ ~Dead(c)
      BY <1>4, <1>5 DEF FruitInv, Base, Kernel, TaskInv, PidOfSlot, Waiting, Dead
    <3> QED BY <3>1 DEF Asleep
  <2>2. \A i \in Slot : (Waiting(i)' => \E s \in 0 .. 3 : head'[s] = i) /\ (Dead(i)' => pc'[i] = "gone")
    BY <1>1, <1>3, <1>4, <1>6, <2>1 DEF FruitInv, FruitSleepers
  <2>3. ASSUME NEW s \in 0 .. 3, head'[s] # NULL
        PROVE  head'[s] = Taker(s) /\ Asleep(Taker(s))' /\ pc'[Taker(s)] = Behind(s)
    <3>1. head[s] = Taker(s) /\ Asleep(Taker(s)) /\ pc[Taker(s)] = Behind(s) /\ Taker(s) \in Slot
      BY <1>3, <2>3 DEF FruitInv, FruitSleepers, Taker
    <3> QED BY <1>1, <1>3, <1>4, <1>6, <2>1, <3>1
  <2> QED BY <2>2, <2>3 DEF FruitSleepers, Taker
<1>11. FruitTokens'
  <2>0. FruitTokens
    BY DEF FruitInv
  <2>1. CASE k = "fork"
    <3>1. pc'[0] = "p_word" /\ pc[0] = "fork" /\ pc'[Writer] = "fork2" /\ pc[Writer] = "none"
          /\ pc'[Server] = pc[Server]
      BY <1>1, <1>4, <1>5, <1>6, <2>1
    <3>2. WordTokens' = WordTokens /\ Filled' = Filled /\ PlateTokens' = PlateTokens
      BY <1>3, <3>1 DEF WordTokens, PlateTokens, Filled, Bit
    <3> QED BY <1>3, <2>0, <3>1, <3>2 DEF FruitTokens
  <2>2. CASE k = "fork2"
    <3>1. pc'[0] = pc[0] /\ pc'[Writer] = "put_words" /\ pc[Writer] = "fork2"
          /\ pc'[Server] = "put_fruit" /\ pc[Server] = "none" /\ ~Asleep(Writer)'
      BY <1>1, <1>4, <1>5, <1>6, <2>2
    <3>2. WordTokens' = WordTokens /\ Filled' = Filled /\ PlateTokens' = PlateTokens
      BY <1>3, <3>1 DEF WordTokens, PlateTokens, Filled, Bit
    <3> QED BY <1>3, <2>0, <3>1, <3>2 DEF FruitTokens
  <2> QED BY <2>1, <2>2
<1>12. pc'[0] # "get"
  BY <1>1, <1>5, <1>6 DEF FruitInv, FruitPlaces
<1> QED BY <1>7, <1>8, <1>9, <1>10, <1>11, <1>12 DEF FruitInv

LEMMA FruitStep ==
  ASSUME FruitInv, fruit!Step PROVE FruitInv'
<1> USE FruitConstants
<1>0. ASSUME NEW l \in FatherLabels \cup WriterLabels \cup ServerLabels, l # "get", fruit!at(l)
      PROVE  \E w \in Family :
               /\ w = curr_proc /\ pc[w] = l /\ w < curr_pid
               /\ l \in FatherLabels => w = 0
               /\ l \in WriterLabels => w = Writer
               /\ l \in ServerLabels => w = Server
               /\ ~Asleep(w) /\ ~Waiting(w)
  BY <1>0, FruitCaller
<1>1. ASSUME NEW s \in 0 .. 3, fruit!call(Before(s), fruit!do_sem_p(s), Behind(s)) PROVE FruitInv'
  <2>1. /\ Before(s) \in FatherLabels \cup WriterLabels \cup ServerLabels /\ Before(s) # "get"
        /\ \A w : (Before(s) \in FatherLabels => w = 0) /\ (Before(s) \in WriterLabels => w = Writer)
                  /\ (Before(s) \in ServerLabels => w = Server) => w = Taker(s)
    BY DEF Before, Taker, FatherLabels, WriterLabels, ServerLabels
  <2>2. PICK w \in Family : w = curr_proc /\ w = Taker(s) /\ pc[w] = Before(s) /\ w < curr_pid
                            /\ ~Asleep(w) /\ ~Waiting(w)
    BY <1>0, <1>1, <2>1 DEF fruit!call
  <2>3. do_sem_p(s) /\ pc' = [pc EXCEPT ![w] = Behind(s)] /\ UNCHANGED fruit!userVars
    BY <1>1, <2>2, FruitHandlers DEF fruit!call, fruit!goto
  <2> QED BY <2>2, <2>3, FruitAsks
<1>2. ASSUME NEW s \in 0 .. 3, fruit!call(Offering(s), fruit!do_sem_v(s), Given(s)) PROVE FruitInv'
  <2>1. /\ Offering(s) \in FatherLabels \cup WriterLabels \cup ServerLabels /\ Offering(s) # "get"
        /\ \A w : (Offering(s) \in FatherLabels => w = 0) /\ (Offering(s) \in WriterLabels => w = Writer)
                  /\ (Offering(s) \in ServerLabels => w = Server) => w = Giver(s)
    BY DEF Offering, Giver, FatherLabels, WriterLabels, ServerLabels
  <2>2. PICK w \in Family : w = curr_proc /\ w = Giver(s) /\ pc[w] = Offering(s) /\ w < curr_pid
                            /\ ~Asleep(w) /\ ~Waiting(w)
    BY <1>0, <1>2, <2>1 DEF fruit!call
  <2>3. do_sem_v(s) /\ pc' = [pc EXCEPT ![w] = Given(s)] /\ UNCHANGED fruit!userVars
    BY <1>2, <2>2, FruitHandlers DEF fruit!call, fruit!goto
  <2> QED BY <2>2, <2>3, FruitGives
<1>3. ASSUME NEW l \in {"print", "clear", "put_words", "written", "put_fruit"}, NEW m, fruit!at(l), fruit!goto(m),
             UNCHANGED <<fruit!taskVars, fruit!semVars>>,
             \/ l = "print" /\ m = "v_word" /\ UNCHANGED <<words, fruit_plate, fruit_index>>
             \/ l = "clear" /\ m = "v_fruit" /\ fruit_plate' = 0 /\ UNCHANGED <<words, fruit_index>>
             \/ l = "put_words" /\ m = "written" /\ words' = FALSE /\ UNCHANGED <<fruit_plate, fruit_index>>
             \/ l = "written" /\ m = "v_words" /\ words' = TRUE /\ UNCHANGED <<fruit_plate, fruit_index>>
             \/ /\ l = "put_fruit" /\ m = "v_plate"
                /\ fruit_index' \in 1 .. 3 /\ fruit_plate' = fruit_index' /\ UNCHANGED words
      PROVE  FruitInv'
  <2>1. l \in FatherLabels \cup WriterLabels \cup ServerLabels /\ l # "get"
        /\ (l \in {"print", "clear"} => l \in FatherLabels)
        /\ (l \in {"put_words", "written"} => l \in WriterLabels)
        /\ (l = "put_fruit" => l \in ServerLabels)
    BY DEF FatherLabels, WriterLabels, ServerLabels
  <2>2. PICK w \in Family : /\ w = curr_proc /\ pc[w] = l /\ w < curr_pid /\ ~Asleep(w) /\ ~Waiting(w)
                            /\ l \in {"print", "clear"} => w = 0
                            /\ l \in {"put_words", "written"} => w = Writer
                            /\ l = "put_fruit" => w = Server
    BY <1>0, <1>3, <2>1
  <2>3. UNCHANGED <<taskVars, val, head, next>> /\ pc' = [pc EXCEPT ![w] = m]
    BY <1>3, <2>2 DEF fruit!taskVars, taskVars, fruit!semVars, fruit!goto
  <2> QED BY <1>3, <2>2, <2>3, FruitWorks
<1>4. CASE fruit!father
  <2>1. CASE fruit!call("p_word", fruit!do_sem_p(0), "p_fruit")
    BY <1>1, <2>1 DEF Before, Behind
  <2>2. CASE fruit!call("p_fruit", fruit!do_sem_p(1), "print")
    BY <1>1, <2>2 DEF Before, Behind
  <2>3. CASE fruit!call("print", UNCHANGED <<fruit!taskVars, fruit!semVars>>, "v_word")
    BY <1>3, <2>3 DEF fruit!call, fruit!userVars
  <2>4. CASE fruit!call("v_word", fruit!do_sem_v(2), "clear")
    BY <1>2, <2>4 DEF Offering, Given
  <2>5. CASE /\ fruit!at("clear") /\ fruit_plate' = 0 /\ fruit!goto("v_fruit")
             /\ UNCHANGED <<fruit!taskVars, fruit!semVars, words, fruit_index>>
    BY <1>3, <2>5
  <2>6. CASE fruit!call("v_fruit", fruit!do_sem_v(3), "p_word")
    BY <1>2, <2>6 DEF Offering, Given
  <2> QED BY <1>4, <2>1, <2>2, <2>3, <2>4, <2>5, <2>6
          DEF fruit!father, fruit!sem_word, fruit!sem_fruit, fruit!sem_word_full, fruit!sem_fruit_full
<1>5. CASE fruit!put_words
  <2>1. CASE /\ fruit!at("put_words") /\ words' = FALSE /\ fruit!goto("written")
             /\ UNCHANGED <<fruit!taskVars, fruit!semVars, fruit_plate, fruit_index>>
    BY <1>3, <2>1
  <2>2. CASE /\ fruit!at("written") /\ words' = TRUE /\ fruit!goto("v_words")
             /\ UNCHANGED <<fruit!taskVars, fruit!semVars, fruit_plate, fruit_index>>
    BY <1>3, <2>2
  <2>3. CASE fruit!call("v_words", fruit!do_sem_v(0), "p_full")
    BY <1>2, <2>3 DEF Offering, Given
  <2>4. CASE fruit!call("p_full", fruit!do_sem_p(2), "put_words")
    BY <1>1, <2>4 DEF Before, Behind
  <2> QED BY <1>5, <2>1, <2>2, <2>3, <2>4 DEF fruit!put_words, fruit!sem_word, fruit!sem_word_full
<1>6. CASE fruit!put_fruit
  <2>1. CASE /\ fruit!at("put_fruit")
             /\ fruit_index' = IF (fruit_index + 1) % 4 = 0 THEN 1 ELSE (fruit_index + 1) % 4
             /\ fruit_plate' = fruit_index'
             /\ fruit!goto("v_plate")
             /\ UNCHANGED <<fruit!taskVars, fruit!semVars, words>>
    <3>1. fruit_index \in 0 .. 3
      BY DEF FruitInv, FruitTokens
    <3>2. fruit_index' \in 1 .. 3
      BY <2>1, <3>1
    <3> QED BY <1>3, <2>1, <3>2
  <2>2. CASE fruit!call("v_plate", fruit!do_sem_v(1), "p_plate")
    BY <1>2, <2>2 DEF Offering, Given
  <2>3. CASE fruit!call("p_plate", fruit!do_sem_p(3), "put_fruit")
    BY <1>1, <2>3 DEF Before, Behind
  <2> QED BY <1>6, <2>1, <2>2, <2>3 DEF fruit!put_fruit, fruit!sem_fruit, fruit!sem_fruit_full
<1> QED BY <1>4, <1>5, <1>6, FruitGets, FruitForks DEF fruit!Step

LEMMA FruitBeside ==
  ASSUME FruitInv, tick_step \/ other_return, UNCHANGED <<words, fruit_plate, fruit_index>>
  PROVE  FruitInv'
<1> USE FruitConstants
<1>0. Base(FruitLabels) /\ Solo /\ FruitTokens
  BY DEF FruitInv
<1>1. /\ Base(FruitLabels)' /\ UNCHANGED <<val, head, next, curr_pid>>
      /\ \E S \in SUBSET Slot :
           /\ \A i \in S : pc[i] = "other" /\ pc'[i] = "gone"
           /\ \A i \in Slot \ S : pc'[i] = pc[i]
           /\ \A i \in Slot : /\ Waiting(i)' => Waiting(i)
                              /\ Asleep(i)' <=> Asleep(i)
                              /\ Dead(i)' => Dead(i) \/ i \in S
  <2>1. CASE tick_step
    <3>1. /\ Base(FruitLabels)' /\ UNCHANGED <<pc, val, head, next, curr_pid>>
          /\ \A i \in Slot : /\ Waiting(i)' <=> Waiting(i)
                             /\ Asleep(i)' <=> Asleep(i)
                             /\ Dead(i)' <=> Dead(i)
      BY <1>0, <2>1, TickEffect
    <3>2. {} \in SUBSET Slot
      OBVIOUS
    <3> QED BY <3>1, <3>2
  <2>2. CASE other_return
    <3>1. /\ Base(FruitLabels)' /\ UNCHANGED <<val, head, next, curr_pid>>
          /\ \E me \in Slot :
                /\ pc[me] = "other" /\ pc' = [pc EXCEPT ![me] = "gone"] /\ ~Asleep(me)
                /\ \A i \in Slot : /\ Waiting(i)' <=> Waiting(i) /\ i # me
                                   /\ Asleep(i)' <=> Asleep(i)
                                   /\ Dead(i)' <=> Dead(i) \/ i = me
      BY <1>0, <2>2, OtherEffect DEF FruitLabels
    <3>2. PICK me \in Slot :
            /\ pc[me] = "other" /\ pc' = [pc EXCEPT ![me] = "gone"] /\ ~Asleep(me)
            /\ \A i \in Slot : /\ Waiting(i)' <=> Waiting(i) /\ i # me
                               /\ Asleep(i)' <=> Asleep(i)
                               /\ Dead(i)' <=> Dead(i) \/ i = me
      BY <3>1
    <3>3. pc'[me] = "gone" /\ \A i \in Slot : i # me => pc'[i] = pc[i]
      BY <1>0, <3>2 DEF Base
    <3>4. {me} \in SUBSET Slot
      OBVIOUS
    <3> QED BY <3>1, <3>2, <3>3, <3>4
  <2> QED BY <2>1, <2>2
<1>2. PICK S \in SUBSET Slot :
        /\ \A i \in S : pc[i] = "other" /\ pc'[i] = "gone"
        /\ \A i \in Slot \ S : pc'[i] = pc[i]
        /\ \A i \in Slot : /\ Waiting(i)' => Waiting(i)
                           /\ Asleep(i)' <=> Asleep(i)
                           /\ Dead(i)' => Dead(i) \/ i \in S
  BY <1>1
<1>3. Solo'
  BY <1>0, <1>1, SoloKeeps DEF Base
<1>4. Family \cap S = {} /\ pc'[0] = pc[0] /\ pc'[Writer] = pc[Writer] /\ pc'[Server] = pc[Server]
  <2>1. \A i \in S : i \in 1 .. Background
    BY <1>2 DEF FruitInv, FruitPlaces
  <2>2. \A i \in Family : i \in Slot /\ i \notin 1 .. Background
    BY DEF Family, Writer, Server
  <2>3. \A i \in Family : i \notin S /\ i \in Slot
    BY <2>1, <2>2
  <2> QED BY <1>2, <2>3 DEF Family
<1>5. FruitPlaces'
  BY <1>1, <1>2, <1>4 DEF FruitInv, FruitPlaces, FatherLabels, WriterLabels, ServerLabels
<1>6. FruitSleepers'
  <2>1. \A i \in Slot : (Waiting(i)' => \E s \in 0 .. 3 : head'[s] = i) /\ (Dead(i)' => pc'[i] = "gone")
    BY <1>1, <1>2 DEF FruitInv, FruitSleepers
  <2>2. ASSUME NEW s \in 0 .. 3, head'[s] # NULL
        PROVE  head'[s] = Taker(s) /\ Asleep(Taker(s))' /\ pc'[Taker(s)] = Behind(s)
    <3>1. head[s] = Taker(s) /\ Asleep(Taker(s)) /\ pc[Taker(s)] = Behind(s) /\ Taker(s) \in Slot
      BY <1>1, <2>2 DEF FruitInv, FruitSleepers, Taker
    <3>2. pc'[Taker(s)] = pc[Taker(s)]
      BY <1>4 DEF Taker
    <3> QED BY <1>1, <1>2, <3>1, <3>2
  <2> QED BY <2>1, <2>2 DEF FruitSleepers, Taker
<1>7. FruitTokens'
  <2>1. WordTokens' = WordTokens /\ Filled' = Filled /\ PlateTokens' = PlateTokens
    BY <1>1, <1>4 DEF WordTokens, PlateTokens, Filled, Bit
  <2> QED BY <1>0, <1>2, <1>4, <2>1 DEF FruitTokens
<1> QED BY <1>1, <1>3, <1>4, <1>5, <1>6, <1>7 DEF FruitInv

\* Who has the token for the words has them whole, and a fruit that is on the
\* plate keeps the child from putting another one.
LEMMA FruitHas ==
  ASSUME FruitInv
  PROVE  /\ fruit!FatherIsServed
         /\ fruit!HasWords => words /\ ~(pc[Writer] = "put_words" /\ ~Asleep(Writer))
         /\ pc[Server] = "put_fruit" /\ ~Asleep(Server) => fruit_plate = 0
<1> USE FruitConstants
<1>0. FruitTokens
  BY DEF FruitInv
<1>1. /\ val[0] \in Int /\ val[1] \in Int /\ val[2] \in Int /\ val[3] \in Int
      /\ val[0] >= -1 /\ val[1] >= -1 /\ val[2] >= -1 /\ val[3] >= -1
      /\ val[0] = -1 => pc[0] = "p_fruit" /\ Asleep(0)
      /\ val[1] = -1 => pc[0] = "print" /\ Asleep(0)
      /\ val[2] = -1 => pc[Writer] = "put_words" /\ Asleep(Writer)
      /\ val[3] = -1 => pc[Server] = "put_fruit" /\ Asleep(Server)
  BY FruitQueues DEF Taker, Behind
<1>2. fruit!Blocked(0) <=> Asleep(0)
  BY DEF fruit!Blocked, Asleep, Waiting
<1>3. pc[Writer] \in WriterLabels \cup {"none"}
  <2>1. pc[Writer] \in FruitLabels
    BY DEF FruitInv, Base
  <2> QED BY <2>1 DEF FruitInv, FruitPlaces, FruitLabels, Writer
<1>4. ASSUME \/ pc[0] = "p_fruit" /\ ~Asleep(0)
             \/ pc[0] = "print"
      PROVE  words /\ ~(pc[Writer] = "put_words" /\ ~Asleep(Writer))
  <2>1. val[0] >= 0 /\ Bit(pc[0] \in {"p_fruit", "print", "v_word"}) = 1
    BY <1>1, <1>4 DEF Bit
  <2>2. Bit(pc[Writer] \in {"none", "fork2", "put_words", "written", "v_words"}) = 0 \/ val[2] = -1
    BY <1>0, <1>1, <2>1 DEF FruitTokens, WordTokens, Bit
  <2>3. pc[Writer] = "p_full" \/ (pc[Writer] = "put_words" /\ Asleep(Writer))
    BY <1>1, <1>3, <2>2 DEF WriterLabels, Bit
  <2> QED BY <1>0, <2>3 DEF FruitTokens
<1>5. ASSUME pc[0] = "print", ~Asleep(0) PROVE fruit_plate \in 1 .. 3
  <2>1. val[1] >= 0 /\ Bit(pc[0] \in {"print", "v_word", "clear"}) = 1
    BY <1>1, <1>5 DEF Bit
  <2>2. val[3] + Bit(pc[Server] \in {"none", "put_fruit"}) >= 0
    BY <1>1 DEF Bit
  <2>3. Filled = 1
    BY <1>0, <1>1, <2>1, <2>2 DEF FruitTokens, PlateTokens, Filled, Bit
  <2> QED BY <1>0, <2>3 DEF FruitTokens
<1>6. ASSUME pc[Server] = "put_fruit", ~Asleep(Server) PROVE fruit_plate = 0
  <2>1. val[3] >= 0 /\ Bit(pc[Server] \in {"none", "put_fruit"}) = 1
    BY <1>1, <1>6 DEF Bit
  <2>2. val[1] + Bit(pc[0] \in {"print", "v_word", "clear"}) >= 0
    BY <1>1 DEF Bit
  <2>3. Filled = 0
    BY <1>0, <1>1, <2>1, <2>2 DEF FruitTokens, PlateTokens, Filled, Bit
  <2> QED BY <1>0, <2>3 DEF FruitTokens
<1> QED BY <1>2, <1>4, <1>5, <1>6 DEF fruit!FatherIsServed, fruit!HasWords, fruit!Father

LEMMA FruitOverwrites ==
  ASSUME FruitInv, fruit!Step \/ UNCHANGED <<words, fruit_plate>>
  PROVE  /\ fruit_plate # 0 => fruit_plate' \in {0, fruit_plate}
         /\ fruit!HasWords => words'
<1> USE FruitConstants
<1>1. CASE UNCHANGED <<words, fruit_plate>>
  BY <1>1, FruitHas
<1>2. CASE fruit!at("put_words") /\ UNCHANGED fruit_plate
  <2>1. "put_words" \in WriterLabels
    BY DEF WriterLabels
  <2>2. pc[Writer] = "put_words" /\ ~Asleep(Writer)
    BY <1>2, <2>1, FruitCaller
  <2> QED BY <1>2, <2>2, FruitHas
<1>3. CASE words' = TRUE /\ UNCHANGED fruit_plate
  BY <1>3
<1>4. CASE fruit_plate' = 0 /\ UNCHANGED words
  BY <1>4, FruitHas
<1>5. CASE fruit!at("put_fruit") /\ UNCHANGED words
  <2>1. "put_fruit" \in ServerLabels
    BY DEF ServerLabels
  <2>2. pc[Server] = "put_fruit" /\ ~Asleep(Server)
    BY <1>5, <2>1, FruitCaller
  <2> QED BY <1>5, <2>2, FruitHas
<1>6. CASE fruit!Step
  <2>1. CASE fruit!father
    BY <1>1, <1>4, <2>1 DEF fruit!father, fruit!call, fruit!userVars
  <2>2. CASE fruit!put_words
    BY <1>1, <1>2, <1>3, <2>2 DEF fruit!put_words, fruit!call, fruit!userVars
  <2>3. CASE fruit!put_fruit
    BY <1>1, <1>5, <2>3 DEF fruit!put_fruit, fruit!call, fruit!userVars
  <2>4. CASE fruit!get_sems \/ fruit!fork
    BY <1>1, <2>4 DEF fruit!get_sems, fruit!fork, fruit!userVars
  <2> QED BY <1>6, <2>1, <2>2, <2>3, <2>4 DEF fruit!Step
<1> QED BY <1>1, <1>6

-----------------------------------------------------------------------------
(* matmal.c: main in slot 0, its threads behind the other programs.        *)

LEMMA MatHandlers ==
  /\ matmul!do_thread_join <=> do_wait
  /\ matmul!do_thread_exit <=> do_exit
  /\ matmul!user_process_return <=> user_process_return
  /\ \A c \in Slot : matmul!do_thread_create(c) <=> do_fork(c)
<1> USE DEF matmul!Slot, Slot
<1>1. matmul!do_thread_join <=> do_wait
  BY DEF matmul!do_thread_join, matmul!do_wait, do_wait, matmul!schedule_proc, schedule_proc, matmul!proc_pick, proc_pick, matmul!proc_switch, proc_switch, matmul!curr_index, curr_index, matmul!scan_pos, scan_pos
<1>2. matmul!do_thread_exit <=> do_exit
  BY DEF matmul!do_thread_exit, matmul!do_exit, do_exit, matmul!wakeup, wakeup, matmul!schedule_proc, schedule_proc, matmul!proc_pick, proc_pick, matmul!proc_switch, proc_switch, matmul!curr_index, curr_index, matmul!scan_pos, scan_pos
<1>3. matmul!user_process_return <=> user_process_return
  BY DEF matmul!user_process_return, user_process_return
<1>4. ASSUME NEW c \in Slot PROVE matmul!do_thread_create(c) <=> do_fork(c)
  BY DEF matmul!do_thread_create, matmul!do_fork, do_fork, matmul!proc_alloc, proc_alloc, matmul!reset_time, reset_time
<1> QED BY <1>1, <1>2, <1>3, <1>4

Threads == Background + 1 .. Background + MAX_THREAD
MainLabels == {"create", "join", "display", "return", "gone"}
ThreadLabels == {"none", "multiply", "exit", "return", "gone"}
MatLabels == MainLabels \cup ThreadLabels \cup {"other"}

\* The thread that computes row r.
Owner(r) == ((r + 1) * MAX_THREAD - 1) \div MAX
ThreadOf(r) == Background + 1 + Owner(r)

Exited == {i \in Threads : pc[i] \in {"return", "gone"}}

MatPlaces ==
  /\ pc[0] \in MainLabels
  /\ \A i \in Threads : pc[i] \in ThreadLabels
  /\ \A i \in Slot : /\ pc[i] \in {"create", "join", "display"} => i = 0
                     /\ pc[i] \in {"multiply", "exit"} => i \in Threads
                     /\ pc[i] = "return" => i = 0 \/ i \in Threads
                     /\ pc[i] = "other" => i \in 1 .. Background
  /\ curr_pid \in Background + 1 .. Background + 1 + MAX_THREAD
  /\ pc[0] = "create" <=> curr_pid <= Background + MAX_THREAD

\* Only main ever sleeps.
MatSleepers ==
  \A i \in Slot : /\ Waiting(i) => i = 0 /\ pc[0] # "create"
                  /\ Dead(i) => pc[i] \in {"return", "gone"}

\* No more joins have come back than threads have ended.
MatJoins ==
  /\ joined \in Nat
  /\ pc[0] = "create" => joined = 0
  /\ pc[0] = "join" => joined < MAX_THREAD
  /\ pc[0] \in {"display", "return", "gone"} => joined = MAX_THREAD
  /\ joined - Bit(Asleep(0)) <= Cardinality(Exited)
  /\ pc[0] \in {"return", "gone"} => Exited = Threads

\* A row is computed once its thread is behind multiply.
MatRows ==
  /\ computed \in [0 .. MAX - 1 -> Nat]
  /\ \A r \in 0 .. MAX - 1 :
       computed[r] = Bit(pc[ThreadOf(r)] \in {"exit", "return", "gone"})

MatInv == Base(MatLabels) /\ MatPlaces /\ MatSleepers /\ MatJoins /\ MatRows

LEMMA MatConstants ==
  /\ 0 \in Slot /\ Threads \subseteq Slot /\ 0 \notin Threads /\ NULL \notin Slot
  /\ MAX \in Nat /\ MAX_THREAD \in Nat \ {0} /\ Background \in 0 .. MAX_PROCESS - 1
  /\ Background \in Nat
BY ProgramsAssumption, ProgramAssumption, TableAssumption DEF matmul!Constants, Slot, Threads

LEMMA BelowQuotient ==
  ASSUME NEW a \in Nat, NEW r \in Nat, NEW t \in Nat \ {0}
  PROVE  a \div t <= r <=> a < (r + 1) * t
<1> DEFINE q == a \div t
           m == a % t
<1>1. a = t * q + m /\ m \in 0 .. t - 1 /\ q \in Nat
  OBVIOUS
<1> HIDE DEF q, m
<1>2. CASE q <= r
  <2>1. PICK d \in Nat : r = q + d
    BY <1>1, <1>2
  <2>2. (r + 1) * t = t * q + d * t + t
    BY <1>1, <2>1
  <2>3. d * t >= 0
    OBVIOUS
  <2>4. d * t \in Int /\ t * q \in Int
    BY <1>1
  <2> QED BY <1>1, <1>2, <2>2, <2>3, <2>4 DEF q
<1>3. CASE q > r
  <2>1. PICK d \in Nat : q = r + 1 + d
    <3>1. q - r - 1 \in Nat
      BY <1>1, <1>3
    <3> QED BY <1>1, <3>1
  <2>2. t * q = (r + 1) * t + d * t
    BY <1>1, <2>1
  <2>3. d * t >= 0
    OBVIOUS
  <2>4. d * t \in Int /\ (r + 1) * t \in Int
    OBVIOUS
  <2> QED BY <1>1, <1>3, <2>2, <2>3, <2>4 DEF q
<1> QED BY <1>1, <1>2, <1>3

\* Every row belongs to exactly one thread, however many rows and threads.
LEMMA RowsDivided ==
  ASSUME NEW r \in 0 .. MAX - 1
  PROVE  /\ Owner(r) \in 0 .. MAX_THREAD - 1 /\ ThreadOf(r) \in Threads
         /\ \A k \in 0 .. MAX_THREAD - 1 : r \in matmul!rows(k) <=> k = Owner(r)
<1> USE MatConstants
<1> DEFINE x == (r + 1) * MAX_THREAD - 1
           q == x \div MAX
<1>1. r \in Nat /\ MAX \in Nat \ {0} /\ r + 1 <= MAX
  OBVIOUS
<1>2. (r + 1) * MAX_THREAD \in Nat /\ (r + 1) * MAX_THREAD >= MAX_THREAD
      /\ (r + 1) * MAX_THREAD <= MAX * MAX_THREAD
  <2>1. PICK d \in Nat : MAX = r + 1 + d
    <3>1. MAX - r - 1 \in Nat
      BY <1>1
    <3> QED BY <1>1, <3>1
  <2>2. MAX * MAX_THREAD = (r + 1) * MAX_THREAD + d * MAX_THREAD
    BY <1>1, <2>1
  <2>3. d * MAX_THREAD \in Nat /\ r * MAX_THREAD \in Nat /\ (r + 1) * MAX_THREAD = r * MAX_THREAD + MAX_THREAD
    BY <1>1
  <2> QED BY <1>1, <2>2, <2>3
<1>3. x \in Nat
  BY <1>2
<1>4. q \in Nat
  BY <1>1, <1>3
<1>5. \A k \in Nat : q <= k <=> x < (k + 1) * MAX
  <2> HIDE DEF x
  <2> QED BY <1>1, <1>3, BelowQuotient
<1>6. q <= MAX_THREAD - 1
  <2>1. x < MAX_THREAD * MAX
    BY <1>1, <1>2
  <2>2. MAX_THREAD - 1 \in Nat /\ (MAX_THREAD - 1) + 1 = MAX_THREAD
    OBVIOUS
  <2> HIDE DEF q, x
  <2> QED BY <1>5, <2>1, <2>2
<1>7. ASSUME NEW k \in 0 .. MAX_THREAD - 1 PROVE r \in matmul!rows(k) <=> k = q
  <2>1. k \in Nat /\ k * MAX \in Nat /\ (k + 1) * MAX \in Nat
    BY <1>1
  <2>2. (k * MAX) \div MAX_THREAD \in Int /\ ((k + 1) * MAX) \div MAX_THREAD \in Int
    BY <2>1
  <2>3. (k * MAX) \div MAX_THREAD <= r <=> k * MAX < (r + 1) * MAX_THREAD
    BY <1>1, <2>1, BelowQuotient
  <2>4. ((k + 1) * MAX) \div MAX_THREAD <= r <=> (k + 1) * MAX < (r + 1) * MAX_THREAD
    BY <1>1, <2>1, BelowQuotient
  <2>5. r \in matmul!rows(k) <=> k * MAX <= x /\ x < (k + 1) * MAX
    <3>1. r \in matmul!rows(k) <=> /\ (k * MAX) \div MAX_THREAD <= r
                                  /\ ~(((k + 1) * MAX) \div MAX_THREAD <= r)
      BY <1>1, <2>2 DEF matmul!rows
    <3> QED BY <1>2, <2>1, <2>3, <2>4, <3>1
  <2>6. x < (k + 1) * MAX <=> q <= k
    BY <1>5, <2>1
  <2>7. k * MAX <= x <=> k <= q
    <3>1. CASE k = 0
      BY <1>3, <1>4, <3>1
    <3>2. CASE k > 0
      <4>1. k - 1 \in Nat /\ (k - 1) + 1 = k
        BY <2>1, <3>2
      <4>2. q <= k - 1 <=> x < k * MAX
        BY <1>5, <4>1
      <4> HIDE DEF q, x
      <4> QED BY <1>3, <1>4, <2>1, <4>2
    <3> QED BY <2>1, <3>1, <3>2
  <2> HIDE DEF q, x
  <2> QED BY <1>4, <2>1, <2>5, <2>6, <2>7
<1>8. Owner(r) = q
  BY DEF Owner
<1> HIDE DEF q, x
<1> QED BY <1>4, <1>6, <1>7, <1>8 DEF ThreadOf, Threads

LEMMA ExitedFinite ==
  /\ Cardinality(Exited) \in Nat /\ Cardinality(Exited) <= MAX_THREAD
  /\ Cardinality(Exited) = MAX_THREAD <=> Exited = Threads
<1> USE MatConstants
<1>1. IsFiniteSet(Threads) /\ Cardinality(Threads) = MAX_THREAD
  <2>1. Background + 1 \in Int /\ Background + MAX_THREAD \in Int
    OBVIOUS
  <2> QED BY <2>1, FS_Interval DEF Threads
<1>2. Exited \subseteq Threads
  BY DEF Exited
<1> QED BY <1>1, <1>2, FS_Subset, FS_CardinalityType

LEMMA MatStart ==
  ASSUME matmul!Init PROVE MatInv
<1> USE MatConstants
<1>1. Loaded(Background, "create")
  BY DEF matmul!Init, matmul!exec_user_prg, Loaded, matmul!Slot, Slot, matmul!sem_init, sem_init, matmul!Sem, Sem
<1>2. /\ Kernel /\ LinksTyped /\ val = [s \in Sem |-> 0]
      /\ curr_proc = 0 /\ curr_pid = Background + 1
      /\ pc \in [Slot -> {"create", "other", "none"}]
      /\ \A i \in Slot : /\ ~Waiting(i) /\ ~Dead(i)
                         /\ pc[i] = "none" <=> i >= curr_pid
                         /\ pc[i] = "create" <=> i = 0
                         /\ pc[i] = "other" <=> i \in 1 .. Background
  BY <1>1, ExecTable
<1>3. joined = 0 /\ computed = [r \in 0 .. MAX - 1 |-> 0]
  BY DEF matmul!Init, matmul!userInit
<1>4. Base(MatLabels)
  BY <1>2 DEF Base, MatLabels, MainLabels, ThreadLabels
<1>5. pc[0] = "create" /\ \A i \in Threads : pc[i] = "none"
  BY <1>2 DEF Threads
<1>6. MatPlaces
  <2>1. \A i \in Slot : pc[i] \notin {"join", "display", "multiply", "exit", "return"}
    BY <1>2
  <2> QED BY <1>2, <1>5, <2>1 DEF MatPlaces, MainLabels, ThreadLabels
<1>7. MatSleepers
  BY <1>2 DEF MatSleepers
<1>8. MatJoins
  <2>1. ~Asleep(0)
    BY <1>2 DEF Asleep
  <2> QED BY <1>3, <1>5, <2>1, ExitedFinite DEF MatJoins, Bit
<1>9. MatRows
  BY <1>3, <1>5, RowsDivided DEF MatRows, Bit
<1> QED BY <1>4, <1>6, <1>7, <1>8, <1>9 DEF MatInv

\* Who calls, and what a step of it leaves alone.
LEMMA MatCaller ==
  ASSUME MatInv, NEW l, matmul!at(l)
  PROVE  \E w \in Slot :
           /\ w = curr_proc /\ w < curr_pid /\ pc[w] = l /\ ~Asleep(w)
           /\ l \in {"create", "join", "display"} => w = 0
           /\ l \in {"multiply", "exit"} => w \in Threads
           /\ l = "return" => w = 0 \/ w \in Threads
BY CallerPlace DEF matmul!at, at, MatInv, MatPlaces

\* The parts of the invariant after a step that takes no slot.
LEMMA MatFrame ==
  ASSUME MatInv, NEW w \in Slot, w < curr_pid, NEW m, pc[w] # "create",
         \/ w = 0 /\ m \in MainLabels \ {"create"}
         \/ w \in Threads /\ m \in ThreadLabels \ {"none"},
         pc' = [pc EXCEPT ![w] = m], Kernel', UNCHANGED <<val, head, next, curr_pid>>
  PROVE  /\ Base(MatLabels)' /\ MatPlaces'
         /\ pc'[w] = m /\ \A i \in Slot : i # w => pc'[i] = pc[i]
         /\ pc'[0] = "create" <=> pc[0] = "create"
         /\ w = 0 => Exited' = Exited
         /\ w # 0 => Exited' = IF m \in {"return", "gone"} THEN Exited \cup {w} ELSE Exited \ {w}
<1> USE MatConstants
<1>1. m \in MatLabels /\ m # "none" /\ m # "create" /\ m # "other"
  BY DEF MatLabels, MainLabels, ThreadLabels
<1>2. pc'[w] = m /\ \A i \in Slot : i # w => pc'[i] = pc[i]
  BY DEF MatInv, Base
<1>3. Base(MatLabels)'
  <2>1. LinksTyped' /\ val' \in [Sem -> Int]
    BY DEF MatInv, Base, LinksTyped
  <2> QED BY <1>1, <2>1, BaseKeeps DEF MatInv
<1>4. pc'[0] = "create" <=> pc[0] = "create"
  BY <1>1, <1>2
<1>5. MatPlaces'
  <2>1. pc'[0] \in MainLabels
    BY <1>2 DEF MatInv, MatPlaces
  <2>2. \A i \in Threads : pc'[i] \in ThreadLabels
    BY <1>2 DEF MatInv, MatPlaces
  <2>3. ASSUME NEW i \in Slot
        PROVE  /\ pc'[i] \in {"create", "join", "display"} => i = 0
               /\ pc'[i] \in {"multiply", "exit"} => i \in Threads
               /\ pc'[i] = "return" => i = 0 \/ i \in Threads
               /\ pc'[i] = "other" => i \in 1 .. Background
    <3>1. CASE i # w
      BY <1>2, <3>1 DEF MatInv, MatPlaces
    <3>2. CASE i = w
      BY <1>1, <1>2, <3>2 DEF MainLabels, ThreadLabels
    <3> QED BY <3>1, <3>2
  <2> QED BY <1>4, <2>1, <2>2, <2>3 DEF MatInv, MatPlaces
<1>6. w = 0 => Exited' = Exited
  BY <1>2 DEF Exited
<1>7. w # 0 => Exited' = IF m \in {"return", "gone"} THEN Exited \cup {w} ELSE Exited \ {w}
  BY <1>2 DEF Exited
<1> QED BY <1>2, <1>3, <1>4, <1>5, <1>6, <1>7

\* A step that computes nothing and takes no thread over multiply.
LEMMA MatRowsKeep ==
  ASSUME MatInv, UNCHANGED computed,
         \A i \in Threads : pc'[i] \in {"exit", "return", "gone"} <=> pc[i] \in {"exit", "return", "gone"}
  PROVE  MatRows'
<1>1. \A r \in 0 .. MAX - 1 : ThreadOf(r) \in Threads
  BY RowsDivided
<1> QED BY <1>1 DEF MatInv, MatRows, Bit

LEMMA MatCreates ==
  ASSUME MatInv, matmul!pthread_create PROVE MatInv'
<1> USE MatConstants
<1>1. PICK w \in Slot : w = curr_proc /\ w < curr_pid /\ pc[w] = "create" /\ ~Asleep(w) /\ w = 0
  BY MatCaller DEF matmul!pthread_create
<1>2. PICK c \in Slot, m \in {"create", "join"} :
        /\ do_fork(c)
        /\ m = (IF c = Background + MAX_THREAD THEN "join" ELSE "create")
        /\ pc' = [pc EXCEPT ![c] = "multiply", ![0] = m]
  <2>1. PICK c \in Slot :
          /\ do_fork(c)
          /\ pc' = [pc EXCEPT ![c] = "multiply",
                              ![0] = IF c = Background + 1 + (MAX_THREAD - 1) THEN "join" ELSE @]
    BY MatHandlers DEF matmul!pthread_create, matmul!Main, matmul!Thread, matmul!Slot, Slot
  <2>2. Background + 1 + (MAX_THREAD - 1) = Background + MAX_THREAD
    OBVIOUS
  <2>3. c # 0
    BY <1>1, <2>1 DEF do_fork, proc_alloc, MatInv, Base, Kernel, TaskInv, PidOfSlot
  <2>4. pc' = [pc EXCEPT ![c] = "multiply", ![0] = IF c = Background + MAX_THREAD THEN "join" ELSE "create"]
    BY <1>1, <2>1, <2>2, <2>3 DEF MatInv, Base
  <2> QED BY <2>1, <2>4
<1>3. UNCHANGED <<val, head, next, joined, computed>>
  BY DEF matmul!pthread_create, matmul!semVars, matmul!userVars
<1>4. /\ Kernel' /\ c = curr_pid /\ curr_pid' = c + 1
      /\ \A i \in Slot : /\ Asleep(i)' <=> Asleep(i)
                         /\ Waiting(i)' <=> Waiting(i)
                         /\ Dead(i)' <=> Dead(i)
  <2>1. ~Waiting(0)
    BY <1>1 DEF MatInv, MatSleepers
  <2> QED BY <1>1, <1>2, <2>1, ForkEffect DEF MatInv, Base, Waiting
<1>5. c \in Threads /\ c # 0 /\ pc[c] = "none" /\ c \in Int
  <2>1. c \in Background + 1 .. Background + MAX_THREAD
    BY <1>1, <1>4 DEF MatInv, MatPlaces
  <2> QED BY <1>4, <2>1 DEF MatInv, Base, Threads
<1>6. pc'[0] = m /\ pc'[c] = "multiply" /\ \A i \in Slot \ {0, c} : pc'[i] = pc[i]
  BY <1>2, <1>5 DEF MatInv, Base
<1>7. Base(MatLabels)'
  <2>1. LinksTyped' /\ val' \in [Sem -> Int]
    BY <1>3 DEF MatInv, Base, LinksTyped
  <2>2. pc' \in [Slot -> MatLabels]
    <3>1. "multiply" \in MatLabels /\ m \in MatLabels
      BY DEF MatLabels, MainLabels, ThreadLabels
    <3> QED BY <1>2, <3>1 DEF MatInv, Base
  <2>3. \A i \in Slot : pc'[i] = "none" <=> i >= curr_pid'
    <3>1. \A i \in Slot : pc[i] = "none" <=> i >= c
      BY <1>4 DEF MatInv, Base
    <3>2. \A i \in Slot : i \in Int
      BY DEF Slot
    <3>3. 0 < c
      BY <1>1, <1>4
    <3> QED BY <1>4, <1>5, <1>6, <3>1, <3>2, <3>3
  <2> QED BY <1>4, <2>1, <2>2, <2>3 DEF Base
<1>8. MatPlaces'
  <2>1. pc'[0] \in MainLabels /\ \A i \in Threads : pc'[i] \in ThreadLabels
    BY <1>6 DEF MatInv, MatPlaces, MainLabels, ThreadLabels
  <2>2. ASSUME NEW i \in Slot
        PROVE  /\ pc'[i] \in {"create", "join", "display"} => i = 0
               /\ pc'[i] \in {"multiply", "exit"} => i \in Threads
               /\ pc'[i] = "return" => i = 0 \/ i \in Threads
               /\ pc'[i] = "other" => i \in 1 .. Background
    BY <1>5, <1>6 DEF MatInv, MatPlaces
  <2>3. /\ curr_pid' \in Background + 1 .. Background + 1 + MAX_THREAD
        /\ pc'[0] = "create" <=> curr_pid' <= Background + MAX_THREAD
    <3>1. c >= Background + 1 /\ c <= Background + MAX_THREAD
      BY <1>5 DEF Threads
    <3>2. pc'[0] = "create" <=> c # Background + MAX_THREAD
      BY <1>2, <1>6
    <3> QED BY <1>4, <1>5, <3>1, <3>2
  <2> QED BY <2>1, <2>2, <2>3 DEF MatPlaces
<1>9. MatSleepers'
  <2>1. ~Waiting(0) /\ ~Waiting(c) /\ ~Dead(0) /\ ~Dead(c)
    BY <1>1, <1>5 DEF MatInv, MatSleepers
  <2> QED BY <1>4, <1>6, <2>1 DEF MatInv, MatSleepers
<1>10. Exited' = Exited
  BY <1>5, <1>6 DEF Exited
<1>11. MatJoins'
  <2>1. joined = 0 /\ ~Asleep(0)' /\ Cardinality(Exited)' >= 0 /\ joined' = 0
    BY <1>1, <1>3, <1>4, <1>10, ExitedFinite DEF MatInv, MatJoins
  <2> QED BY <1>6, <2>1 DEF MatJoins, Bit
<1>12. MatRows'
  BY <1>3, <1>5, <1>6, MatRowsKeep
<1> QED BY <1>7, <1>8, <1>9, <1>11, <1>12 DEF MatInv

\* A join that finds nobody READY comes back at once: then all threads ended.
LEMMA MatJoin ==
  ASSUME MatInv, matmul!pthread_join PROVE MatInv'
<1> USE MatConstants
<1>1. PICK w \in Slot : w = curr_proc /\ w < curr_pid /\ pc[w] = "join" /\ ~Asleep(w) /\ w = 0
  BY MatCaller DEF matmul!pthread_join
<1>2. /\ do_wait /\ joined' = joined + 1 /\ UNCHANGED <<val, head, next, computed>>
      /\ pc' = [pc EXCEPT ![0] = IF joined + 1 = MAX_THREAD THEN "display" ELSE "join"]
  BY <1>1, MatHandlers DEF matmul!pthread_join, matmul!semVars, matmul!goto
<1>3. /\ Kernel' /\ UNCHANGED curr_pid
      /\ \A i \in Slot : /\ Waiting(i)' <=> Waiting(i) \/ i = 0
                         /\ Dead(i)' <=> Dead(i) /\ i # 0
      /\ Asleep(0)' <=> \E i \in Slot : status[i] = "READY"
  BY <1>1, <1>2, WaitEffect DEF MatInv, Base
<1>4. joined \in Nat /\ joined < MAX_THREAD /\ joined <= Cardinality(Exited)
  BY <1>1, ExitedFinite DEF MatInv, MatJoins, Bit
<1>5. PICK m \in {"display", "join"} :
        pc' = [pc EXCEPT ![0] = m] /\ m = IF joined + 1 = MAX_THREAD THEN "display" ELSE "join"
  BY <1>2
<1>6. /\ Base(MatLabels)' /\ MatPlaces'
      /\ pc'[0] = m /\ \A i \in Slot : i # 0 => pc'[i] = pc[i]
      /\ Exited' = Exited
  <2>1. m \in MainLabels \ {"create"}
    BY DEF MainLabels
  <2>2. 0 < curr_pid /\ pc[0] # "create"
    BY <1>1
  <2> QED BY <1>2, <1>3, <1>5, <2>1, <2>2, MatFrame
<1>7. MatSleepers'
  <2>1. ~Dead(0)'
    BY <1>3
  <2> QED BY <1>3, <1>6, <2>1 DEF MatInv, MatSleepers
<1>8. Asleep(0)' \/ Exited = Threads
  <2>1. SUFFICES ASSUME ~Asleep(0)', NEW i \in Threads PROVE pc[i] \in {"return", "gone"}
    BY DEF Exited
  <2>2. i \in Slot /\ i # 0 /\ i <= Background + MAX_THREAD /\ i \in Int
    BY DEF Threads
  <2>3. i < curr_pid
    BY <1>1, <2>2 DEF MatInv, MatPlaces
  <2>4. ~Asleep(i)
    BY <2>2 DEF MatInv, MatSleepers, Asleep
  <2>5. Dead(i)
    BY <1>1, <1>3, <2>1, <2>2, <2>3, <2>4, AwakeReady DEF MatInv, Base
  <2> QED BY <2>2, <2>5 DEF MatInv, MatSleepers
<1>9. joined' - Bit(Asleep(0)') <= Cardinality(Exited)
  <2>1. CASE Asleep(0)'
    BY <1>2, <1>4, <2>1, ExitedFinite DEF Bit
  <2>2. CASE Exited = Threads
    BY <1>2, <1>4, <2>2, ExitedFinite DEF Bit
  <2> QED BY <1>8, <2>1, <2>2
<1>10. MatJoins'
  <2>1. Cardinality(Exited)' = Cardinality(Exited)
    BY <1>6
  <2> QED BY <1>2, <1>4, <1>5, <1>6, <1>9, <2>1 DEF MatJoins, Bit
<1>11. MatRows'
  BY <1>2, <1>6, MatRowsKeep
<1> QED BY <1>6, <1>7, <1>10, <1>11 DEF MatInv

LEMMA MatDisplays ==
  ASSUME MatInv, matmul!display PROVE MatInv'
<1> USE MatConstants
<1>1. PICK w \in Slot : w = curr_proc /\ w < curr_pid /\ pc[w] = "display" /\ ~Asleep(w) /\ w = 0
  BY MatCaller DEF matmul!display
<1>2. /\ UNCHANGED <<taskVars, val, head, next, joined, computed>>
      /\ pc' = [pc EXCEPT ![0] = "return"]
  BY <1>1 DEF matmul!display, matmul!taskVars, taskVars, matmul!semVars, matmul!userVars, matmul!goto
<1>3. /\ Kernel' /\ UNCHANGED curr_pid
      /\ \A i \in Slot : /\ Waiting(i)' <=> Waiting(i)
                         /\ Asleep(i)' <=> Asleep(i)
                         /\ Dead(i)' <=> Dead(i)
  BY <1>2, Unmoved DEF MatInv, Base
<1>4. /\ Base(MatLabels)' /\ MatPlaces'
      /\ pc'[0] = "return" /\ \A i \in Slot : i # 0 => pc'[i] = pc[i]
      /\ Exited' = Exited
  <2>1. "return" \in MainLabels \ {"create"}
    BY DEF MainLabels
  <2>2. 0 < curr_pid /\ pc[0] # "create"
    BY <1>1
  <2> QED BY <1>2, <1>3, <2>1, <2>2, MatFrame
<1>5. MatSleepers'
  BY <1>3, <1>4 DEF MatInv, MatSleepers
<1>6. joined = MAX_THREAD /\ Exited = Threads
  BY <1>1, ExitedFinite DEF MatInv, MatJoins, Bit
<1>7. MatJoins'
  BY <1>2, <1>4, <1>6, ExitedFinite DEF MatJoins, Bit
<1>8. MatRows'
  BY <1>2, <1>4, MatRowsKeep
<1> QED BY <1>4, <1>5, <1>7, <1>8 DEF MatInv

\* A thread computes the rows of its number, each for the first time.
LEMMA MatMultiplies ==
  ASSUME MatInv, matmul!multiply PROVE MatInv'
<1> USE MatConstants
<1>1. PICK w \in Slot : w = curr_proc /\ w < curr_pid /\ pc[w] = "multiply" /\ ~Asleep(w) /\ w \in Threads
  BY MatCaller DEF matmul!multiply
<1> DEFINE k == w - (Background + 1)
<1>2. k \in 0 .. MAX_THREAD - 1 /\ w = Background + 1 + k
  BY <1>1 DEF Threads
<1>3. /\ UNCHANGED <<taskVars, val, head, next, joined>>
      /\ pc' = [pc EXCEPT ![w] = "exit"]
      /\ computed' = [r \in DOMAIN computed |->
                        IF r \in matmul!rows(k) THEN computed[r] + 1 ELSE computed[r]]
  <2>1. matmul!Thread(0) = Background + 1
    BY DEF matmul!Thread
  <2> QED BY <1>1, <2>1 DEF matmul!multiply, matmul!taskVars, taskVars, matmul!semVars, matmul!goto
<1>4. /\ Kernel' /\ UNCHANGED curr_pid
      /\ \A i \in Slot : /\ Waiting(i)' <=> Waiting(i)
                         /\ Asleep(i)' <=> Asleep(i)
                         /\ Dead(i)' <=> Dead(i)
  BY <1>3, Unmoved DEF MatInv, Base
<1>5. /\ Base(MatLabels)' /\ MatPlaces'
      /\ pc'[w] = "exit" /\ \A i \in Slot : i # w => pc'[i] = pc[i]
      /\ Exited' = Exited
  <2>1. "exit" \in ThreadLabels \ {"none"} /\ w # 0 /\ pc[w] # "create"
    BY <1>1 DEF ThreadLabels
  <2>2. w \notin Exited
    BY <1>1 DEF Exited
  <2>3. Exited \ {w} = Exited
    BY <2>2
  <2> QED BY <1>1, <1>3, <1>4, <2>1, <2>3, MatFrame
<1>6. MatSleepers'
  <2>1. ~Dead(w) /\ w # 0
    BY <1>1 DEF MatInv, MatSleepers
  <2> QED BY <1>1, <1>4, <1>5, <2>1 DEF MatInv, MatSleepers
<1>7. MatJoins'
  <2>1. pc'[0] = pc[0] /\ joined' = joined /\ (Asleep(0)' <=> Asleep(0))
    BY <1>1, <1>3, <1>4, <1>5
  <2>2. Cardinality(Exited)' = Cardinality(Exited)
    BY <1>5
  <2> QED BY <1>5, <2>1, <2>2 DEF MatInv, MatJoins, Bit
<1>8. MatRows'
  <2>1. computed \in [0 .. MAX - 1 -> Nat] /\ DOMAIN computed = 0 .. MAX - 1
    BY DEF MatInv, MatRows
  <2>2. ASSUME NEW r \in 0 .. MAX - 1
        PROVE  /\ computed'[r] \in Nat
               /\ computed'[r] = Bit(pc'[ThreadOf(r)] \in {"exit", "return", "gone"})
    <3>1. /\ Owner(r) \in 0 .. MAX_THREAD - 1 /\ ThreadOf(r) \in Threads
          /\ r \in matmul!rows(k) <=> k = Owner(r)
      BY <1>2, RowsDivided
    <3>2. computed'[r] = IF k = Owner(r) THEN computed[r] + 1 ELSE computed[r]
      BY <1>3, <2>1, <3>1
    <3>3. computed[r] = Bit(pc[ThreadOf(r)] \in {"exit", "return", "gone"}) /\ computed[r] \in Nat
      BY <2>1 DEF MatInv, MatRows
    <3>4. k = Owner(r) <=> w = ThreadOf(r)
      BY <1>1, <1>2, <3>1 DEF ThreadOf
    <3>5. CASE w = ThreadOf(r)
      BY <1>1, <1>5, <3>2, <3>3, <3>4, <3>5 DEF Bit
    <3>6. CASE w # ThreadOf(r)
      BY <1>5, <3>1, <3>2, <3>3, <3>4, <3>6 DEF Bit
    <3> QED BY <3>5, <3>6
  <2>3. computed' \in [0 .. MAX - 1 -> Nat]
    <3>1. computed' = [r \in 0 .. MAX - 1 |-> computed'[r]]
      BY <1>3, <2>1
    <3> QED BY <2>2, <3>1
  <2> QED BY <2>2, <2>3 DEF MatRows
<1> QED BY <1>5, <1>6, <1>7, <1>8 DEF MatInv

\* A thread that ends is one more, whoever it wakes.
LEMMA MatExits ==
  ASSUME MatInv, matmul!pthread_exit PROVE MatInv'
<1> USE MatConstants
<1>1. PICK w \in Slot : w = curr_proc /\ w < curr_pid /\ pc[w] = "exit" /\ ~Asleep(w) /\ w \in Threads
  BY MatCaller DEF matmul!pthread_exit
<1>2. /\ do_exit /\ UNCHANGED <<val, head, next, joined, computed>>
      /\ pc' = [pc EXCEPT ![w] = "return"]
  BY <1>1, MatHandlers DEF matmul!pthread_exit, matmul!semVars, matmul!userVars, matmul!goto
<1>3. /\ Kernel' /\ UNCHANGED curr_pid
      /\ \A i \in Slot : /\ Dead(i)' <=> Dead(i) \/ i = w
                         /\ Waiting(i)' => Waiting(i)
                         /\ Asleep(i)' => Asleep(i)
  <2>1. PICK par : par = parent[w]
    OBVIOUS
  <2> QED BY <1>1, <1>2, <2>1, ExitEffect DEF MatInv, Base
<1>4. /\ Base(MatLabels)' /\ MatPlaces'
      /\ pc'[w] = "return" /\ \A i \in Slot : i # w => pc'[i] = pc[i]
      /\ Exited' = Exited \cup {w} /\ w # 0 /\ w \notin Exited
  <2>1. "return" \in ThreadLabels \ {"none"} /\ w # 0 /\ pc[w] # "create"
    BY <1>1 DEF ThreadLabels
  <2>2. w \notin Exited
    BY <1>1 DEF Exited
  <2> QED BY <1>1, <1>2, <1>3, <2>1, <2>2, MatFrame
<1>5. MatSleepers'
  BY <1>1, <1>3, <1>4 DEF MatInv, MatSleepers
<1>6. MatJoins'
  <2>1. pc'[0] = pc[0] /\ joined' = joined /\ (Asleep(0)' => Asleep(0))
    BY <1>2, <1>3, <1>4
  <2>2. Cardinality(Exited)' = Cardinality(Exited) + 1
    <3>1. IsFiniteSet(Exited)
      <4>1. IsFiniteSet(Threads)
        <5>1. Background + 1 \in Int /\ Background + MAX_THREAD \in Int
          OBVIOUS
        <5> QED BY <5>1, FS_Interval DEF Threads
      <4>2. Exited \subseteq Threads
        BY DEF Exited
      <4> QED BY <4>1, <4>2, FS_Subset
    <3> QED BY <1>4, <3>1, FS_AddElement
  <2>3. pc[0] \notin {"return", "gone"}
    BY <1>1, <1>4 DEF MatInv, MatJoins
  <2>4. joined' - Bit(Asleep(0)') <= Cardinality(Exited)'
    BY <2>1, <2>2, ExitedFinite DEF MatInv, MatJoins, Bit
  <2> QED BY <2>1, <2>3, <2>4 DEF MatInv, MatJoins
<1>7. MatRows'
  BY <1>1, <1>2, <1>4, MatRowsKeep
<1> QED BY <1>4, <1>5, <1>6, <1>7 DEF MatInv

LEMMA MatReturns ==
  ASSUME MatInv, matmul!return PROVE MatInv'
<1> USE MatConstants
<1>1. PICK w \in Slot : /\ w = curr_proc /\ w < curr_pid /\ pc[w] = "return" /\ ~Asleep(w)
                        /\ w = 0 \/ w \in Threads
  BY MatCaller DEF matmul!return
<1>2. /\ user_process_return /\ UNCHANGED <<val, head, next, joined, computed>>
      /\ pc' = [pc EXCEPT ![w] = "gone"]
  BY <1>1, MatHandlers DEF matmul!return, matmul!semVars, matmul!userVars, matmul!goto
<1>3. /\ Kernel' /\ UNCHANGED curr_pid
      /\ \A i \in Slot : /\ Asleep(i)' <=> Asleep(i)
                         /\ Waiting(i)' <=> Waiting(i) /\ i # w
                         /\ Dead(i)' <=> Dead(i) \/ i = w
  BY <1>1, <1>2, ReturnEffect DEF MatInv, Base
<1>4. /\ Base(MatLabels)' /\ MatPlaces'
      /\ pc'[w] = "gone" /\ \A i \in Slot : i # w => pc'[i] = pc[i]
      /\ pc'[0] = "create" <=> pc[0] = "create"
      /\ Exited' = Exited
  <2>1. "gone" \in ThreadLabels \ {"none"} /\ "gone" \in MainLabels \ {"create"} /\ pc[w] # "create"
    BY <1>1 DEF ThreadLabels, MainLabels
  <2>2. w # 0 => w \in Exited
    BY <1>1 DEF Exited
  <2>3. w # 0 => Exited \cup {w} = Exited
    BY <2>2
  <2> QED BY <1>1, <1>2, <1>3, <2>1, <2>3, MatFrame
<1>5. MatSleepers'
  BY <1>3, <1>4 DEF MatInv, MatSleepers
<1>6. MatJoins'
  <2>1. joined' = joined /\ (Asleep(0)' <=> Asleep(0))
    BY <1>2, <1>3
  <2>2. \/ pc'[0] = pc[0]
        \/ pc[0] = "return" /\ pc'[0] = "gone"
    BY <1>1, <1>4
  <2>3. Cardinality(Exited)' = Cardinality(Exited)
    BY <1>4
  <2> QED BY <1>4, <2>1, <2>2, <2>3 DEF MatInv, MatJoins, Bit
<1>7. MatRows'
  BY <1>1, <1>2, <1>4, MatRowsKeep
<1> QED BY <1>4, <1>5, <1>6, <1>7 DEF MatInv

LEMMA MatStep ==
  ASSUME MatInv, matmul!Step PROVE MatInv'
BY MatCreates, MatJoin, MatDisplays, MatMultiplies, MatExits, MatReturns DEF matmul!Step

LEMMA MatBeside ==
  ASSUME MatInv, tick_step \/ other_return, UNCHANGED <<joined, computed>>
  PROVE  MatInv'
<1> USE MatConstants
<1>0. Base(MatLabels)
  BY DEF MatInv
<1>1. CASE tick_step
  <2>1. /\ Base(MatLabels)' /\ UNCHANGED <<pc, curr_pid>>
        /\ \A i \in Slot : /\ Waiting(i)' <=> Waiting(i)
                           /\ Asleep(i)' <=> Asleep(i)
                           /\ Dead(i)' <=> Dead(i)
    BY <1>0, <1>1, TickEffect
  <2>2. MatPlaces' /\ MatSleepers' /\ Exited' = Exited
    BY <2>1 DEF MatInv, MatPlaces, MatSleepers, Exited
  <2>3. MatJoins'
    BY <2>1, <2>2 DEF MatInv, MatJoins, Bit
  <2>4. MatRows'
    BY <2>1, MatRowsKeep
  <2> QED BY <2>1, <2>2, <2>3, <2>4 DEF MatInv
<1>2. CASE other_return
  <2>1. /\ Base(MatLabels)' /\ UNCHANGED curr_pid
        /\ \E me \in Slot :
              /\ pc[me] = "other" /\ pc' = [pc EXCEPT ![me] = "gone"] /\ ~Asleep(me)
              /\ \A i \in Slot : /\ Waiting(i)' <=> Waiting(i) /\ i # me
                                 /\ Asleep(i)' <=> Asleep(i)
                                 /\ Dead(i)' <=> Dead(i) \/ i = me
    BY <1>0, <1>2, OtherEffect DEF MatLabels, MainLabels
  <2>2. PICK me \in Slot :
          /\ pc[me] = "other" /\ pc' = [pc EXCEPT ![me] = "gone"] /\ ~Asleep(me)
          /\ \A i \in Slot : /\ Waiting(i)' <=> Waiting(i) /\ i # me
                             /\ Asleep(i)' <=> Asleep(i)
                             /\ Dead(i)' <=> Dead(i) \/ i = me
    BY <2>1
  <2>3. pc'[me] = "gone" /\ \A i \in Slot : i # me => pc'[i] = pc[i]
    BY <1>0, <2>2 DEF Base
  <2>4. me # 0 /\ me \notin Threads /\ pc'[0] = pc[0] /\ \A i \in Threads : pc'[i] = pc[i]
    <3>1. me \in 1 .. Background
      BY <2>2 DEF MatInv, MatPlaces
    <3>2. me # 0 /\ me \notin Threads
      BY <3>1 DEF Threads
    <3> QED BY <2>3, <3>2
  <2>5. MatPlaces' /\ MatSleepers'
    BY <2>1, <2>2, <2>3, <2>4 DEF MatInv, MatPlaces, MatSleepers
  <2>6. Exited' = Exited /\ (Asleep(0)' <=> Asleep(0))
    BY <2>2, <2>4 DEF Exited
  <2>7. MatJoins'
    BY <2>4, <2>6 DEF MatInv, MatJoins, Bit
  <2>8. MatRows'
    BY <2>4, MatRowsKeep
  <2> QED BY <2>1, <2>5, <2>7, <2>8 DEF MatInv
<1> QED BY <1>1, <1>2

LEMMA MatComplete ==
  ASSUME MatInv PROVE matmul!ProductComplete
<1> USE MatConstants
<1>1. SUFFICES ASSUME pc[0] \in {"return", "gone"}, NEW r \in DOMAIN computed PROVE computed[r] = 1
  BY DEF matmul!ProductComplete, matmul!Main
<1>2. r \in 0 .. MAX - 1
  BY DEF MatInv, MatRows
<1>3. ThreadOf(r) \in Exited
  BY <1>1, <1>2, RowsDivided DEF MatInv, MatJoins
<1> QED BY <1>2, <1>3 DEF MatInv, MatRows, Exited, Bit

-----------------------------------------------------------------------------
(* All programs together.                                                  *)

Programs == {"mutex", "bank", "matmul", "procon", "fruit"}

\* The invariant of the program that exec has loaded.
ProgramInv ==
  /\ program \in Programs
  /\ program = "mutex" => MutexInv /\ (N <= 2 => DuoInv)
  /\ program = "bank" => BankInv
  /\ program = "matmul" => MatInv
  /\ program = "procon" => ProInv
  /\ program = "fruit" => FruitInv

LEMMA ProgramStart == Init => ProgramInv
BY MutexStart, DuoStart, BankStart, MatStart, ProStart, FruitStart DEF Init, ProgramInv, Programs

LEMMA ProgramSteps ==
  ASSUME ProgramInv, Step PROVE ProgramInv'
<1> USE DEF ProgramInv
<1>1. N \in Nat
  BY ProgramsAssumption DEF mutex!Constants
<1>2. CASE program = "mutex" /\ mutex!Step /\ UNCHANGED program
  BY <1>1, <1>2, MutexStep, DuoStep
<1>3. CASE program = "bank" /\ bank!Step /\ UNCHANGED program
  BY <1>3, BankStep
<1>4. CASE program = "matmul" /\ matmul!Step /\ UNCHANGED program
  BY <1>4, MatStep
<1>5. CASE program = "procon" /\ procon!Step /\ UNCHANGED program
  BY <1>5, ProStep
<1>6. CASE program = "fruit" /\ fruit!Step /\ UNCHANGED program
  BY <1>6, FruitStep
<1> QED BY <1>2, <1>3, <1>4, <1>5, <1>6 DEF Step

LEMMA ProgramBeside ==
  ASSUME ProgramInv, Other \/ Tick PROVE ProgramInv'
<1> USE DEF ProgramInv
<1>1. tick_step \/ other_return
  BY DEF Other, Tick
<1>2. UNCHANGED <<program, bank_account, reg, left, joined, computed, tot, words, fruit_plate, fruit_index>>
  BY DEF Other, Tick, bankVars, matmulVars, fruitVars
<1>3. CASE program = "mutex"
  BY <1>1, <1>2, <1>3, MutexBeside
<1>4. CASE program = "bank"
  BY <1>1, <1>2, <1>4, BankBeside
<1>5. CASE program = "matmul"
  BY <1>1, <1>2, <1>5, MatBeside
<1>6. CASE program = "procon"
  BY <1>1, <1>2, <1>6, ProBeside
<1>7. CASE program = "fruit"
  BY <1>1, <1>2, <1>7, FruitBeside
<1> QED BY <1>2, <1>3, <1>4, <1>5, <1>6, <1>7 DEF Programs

LEMMA ProgramStill ==
  ASSUME ProgramInv, UNCHANGED vars PROVE ProgramInv'
<1> USE DEF ProgramInv
<1>1. UNCHANGED <<taskVars, status, pid, parent, tick, curr_proc, curr_pid, val, head, next, pc>>
  BY DEF vars, progVars, semVars, taskVars
<1>2. UNCHANGED <<program, bank_account, reg, left, joined, computed, tot, words, fruit_plate, fruit_index>>
  BY DEF vars, bankVars, matmulVars, fruitVars
<1>3. \A i \in Slot : /\ Waiting(i)' <=> Waiting(i)
                      /\ Asleep(i)' <=> Asleep(i)
                      /\ Dead(i)' <=> Dead(i)
  BY <1>1, Unmoved
<1>4. Kernel => Kernel'
  BY <1>1, Unmoved
<1>5. ASSUME NEW labels, Base(labels) PROVE Base(labels)'
  BY <1>1, <1>4, <1>5 DEF Base, LinksTyped
<1>6. Solo => Solo'
  BY <1>1, <1>4, SoloKeeps DEF Solo
<1>7. ASSUME MutexInv PROVE MutexInv'
  <2>1. Lockers' = Lockers
    BY <1>1 DEF Lockers
  <2>2. 0 \in Slot
    BY TableAssumption DEF Slot
  <2>3. \A i \in Lockers : i \in Slot
    BY DEF Lockers
  <2> QED BY <1>1, <1>3, <1>5, <1>7, <2>1, <2>2, <2>3 DEF MutexInv
<1>8. ASSUME DuoInv PROVE DuoInv'
  BY <1>1, <1>3, <1>6, <1>8 DEF DuoInv
<1>9. ASSUME BankInv PROVE BankInv'
  <2>1. BankSleepers' /\ BankPlaces' /\ BankRounds' /\ In(0)' = In(0) /\ In(3)' = In(3)
    BY <1>1, <1>2, <1>3, <1>9, BankConstants DEF BankInv, BankSleepers, BankPlaces, BankRounds, In
  <2> QED BY <1>1, <1>2, <1>3, <1>5, <1>6, <1>9, <2>1, BankConstants DEF BankInv, Bit
<1>10. ASSUME MatInv PROVE MatInv'
  <2>1. MatPlaces' /\ MatSleepers' /\ Exited' = Exited /\ (Asleep(0)' <=> Asleep(0))
    BY <1>1, <1>3, <1>10, MatConstants DEF MatInv, MatPlaces, MatSleepers, Exited
  <2>2. MatJoins'
    BY <1>1, <1>2, <1>10, <2>1 DEF MatInv, MatJoins, Bit
  <2>3. MatRows'
    BY <1>1, <1>2, <1>10, MatRowsKeep
  <2> QED BY <1>5, <1>10, <2>1, <2>2, <2>3 DEF MatInv
<1>11. ASSUME ProInv PROVE ProInv'
  <2>1. ProPlaces' /\ ProSleepers' /\ InMutex(0)' = InMutex(0) /\ InMutex(Consumer)' = InMutex(Consumer)
        /\ Offered' = Offered /\ Taken' = Taken
    BY <1>1, <1>3, <1>11, ProConstants DEF ProInv, ProPlaces, ProSleepers, InMutex, Offered, Taken, Bit
  <2> QED BY <1>1, <1>2, <1>5, <1>6, <1>11, <2>1 DEF ProInv, Bit
<1>12. ASSUME FruitInv PROVE FruitInv'
  <2>1. FruitPlaces' /\ WordTokens' = WordTokens /\ Filled' = Filled /\ PlateTokens' = PlateTokens
    BY <1>1, <1>12 DEF FruitInv, FruitPlaces, WordTokens, PlateTokens, Filled, Bit
  <2>2. FruitTokens'
    BY <1>1, <1>2, <1>3, <1>12, <2>1, FruitConstants DEF FruitInv, FruitTokens
  <2>3. FruitSleepers'
    <3>1. \A s \in 0 .. 3 : Taker(s) \in Slot
      BY FruitConstants DEF Taker
    <3> QED BY <1>1, <1>3, <1>12, <3>1 DEF FruitInv, FruitSleepers
  <2> QED BY <1>1, <1>5, <1>6, <1>12, <2>1, <2>2, <2>3 DEF FruitInv
<1> HIDE DEF ProgramInv
<1>13. program' = program
  BY <1>2
<1> QED BY <1>7, <1>8, <1>9, <1>10, <1>11, <1>12, <1>13 DEF ProgramInv

LEMMA ProgramInvariant == Spec => []ProgramInv
<1>1. ProgramInv /\ [Next]_vars => ProgramInv'
  BY ProgramSteps, ProgramBeside, ProgramStill DEF Next
<1> QED BY <1>1, ProgramStart, PTL DEF Spec

\* At most one process of bank.c, of pro-con.c or of a program around mutex_lock
\* and mutex_unlock is between its P and its V, for any number of contenders,
\* wherever the timer interrupts the code between do_sem_p and do_sem_v.
THEOREM ProgramsExclude == Spec => []MutualExclusion
<1>1. ProgramInv => MutualExclusion
  <2> SUFFICES ASSUME ProgramInv PROVE MutualExclusion
    OBVIOUS
  <2>1. program = "mutex" => mutex!MutualExclusion
    BY MutexExcludes DEF ProgramInv
  <2>2. program = "bank" => bank!MutualExclusion
    BY BankExcludes DEF ProgramInv
  <2>3. program = "procon" => procon!MutualExclusion
    BY ProExcludes DEF ProgramInv
  <2> QED BY <2>1, <2>2, <2>3 DEF MutualExclusion
<1> QED BY <1>1, ProgramInvariant, PTL

\* With at most two contenders nobody sleeps on a mutex that is free: do_sem_v wakes
\* the right one as long as no queue of semaphore.h grows past one entry.
THEOREM NobodyIsLost == ASSUME N <= 2 PROVE Spec => []NobodyLost
<1>1. ProgramInv => NobodyLost
  BY MutexLosesNobody DEF ProgramInv, NobodyLost
<1> QED BY <1>1, ProgramInvariant, PTL

\* main of bank.c comes back from wait only when the child has done all its
\* withdrawals, for any number of deposits and withdrawals.
THEOREM ParentWaits == Spec => []WaitedForChild
<1>1. ProgramInv => WaitedForChild
  BY BankExcludes DEF ProgramInv, WaitedForChild
<1> QED BY <1>1, ProgramInvariant, PTL

\* In pro-con.c the counter tot agrees with the value of the semaphore n, but for
\* the item a process holds between its P and its update or its update and its V.
THEOREM StockIsExact == Spec => []StockExact
<1>1. ProgramInv => StockExact
  BY ProStock DEF ProgramInv, StockExact
<1> QED BY <1>1, ProgramInvariant, PTL

\* display of matmal.c prints a product whose rows the threads computed each once,
\* however the rows divide, and the father of fruit.c prints a whole wish and a
\* fruit.
THEOREM PrintedWhole == Spec => []PrintsWhole
<1>1. ProgramInv => PrintsWhole
  BY MatComplete, FruitHas DEF ProgramInv, PrintsWhole
<1> QED BY <1>1, ProgramInvariant, PTL

\* Where the processes of the programs but one can be.
LEMMA OtherPlaces ==
  ASSUME ProgramInv, NEW i \in Slot
  PROVE  /\ program # "bank" => pc[i] # "signal"
         /\ program # "fruit" => pc[i] \notin {"p_fruit", "print"}
<1>1. program = "mutex" => pc[i] \in MutexLabels
  BY DEF ProgramInv, MutexInv, Base
<1>2. program = "bank" => pc[i] \in BankLabels
  BY DEF ProgramInv, BankInv, Base
<1>3. program = "matmul" => pc[i] \in MatLabels
  BY DEF ProgramInv, MatInv, Base
<1>4. program = "procon" => pc[i] \in ProLabels
  BY DEF ProgramInv, ProInv, Base
<1>5. program = "fruit" => pc[i] \in FruitLabels
  BY DEF ProgramInv, FruitInv, Base
<1>6. program \in Programs
  BY DEF ProgramInv
<1>7. /\ \A l \in MutexLabels : l \notin {"signal", "p_fruit", "print"}
      /\ \A l \in BankLabels : l \notin {"p_fruit", "print"}
  BY DEF MutexLabels, BankLabels
<1>8. \A l \in MatLabels : l \notin {"signal", "p_fruit", "print"}
  BY DEF MatLabels, MainLabels, ThreadLabels
<1>9. \A l \in ProLabels : l \notin {"signal", "p_fruit", "print"}
  BY DEF ProLabels, ProducerPlaces, ConsumerPlaces
<1>10. \A l \in FruitLabels : l # "signal"
  BY DEF FruitLabels, FatherLabels, WriterLabels, ServerLabels
<1> QED BY <1>1, <1>2, <1>3, <1>4, <1>5, <1>6, <1>7, <1>8, <1>9, <1>10 DEF Programs

\* The end of a program beside the modelled one moves nobody else.
LEMMA BesidePlaces ==
  ASSUME ProgramInv, Other \/ Tick, NEW i \in Slot
  PROVE  pc'[i] = pc[i] \/ (pc[i] = "other" /\ pc'[i] = "gone")
<1>1. \E labels : pc \in [Slot -> labels]
  BY DEF ProgramInv, Programs, MutexInv, BankInv, MatInv, ProInv, FruitInv, Base
<1>2. CASE Tick
  BY <1>2 DEF Tick, tick_step
<1>3. CASE Other
  BY <1>1, <1>3 DEF Other, other_return, goto, at
<1> QED BY <1>2, <1>3

LEMMA BankNames ==
  /\ bank!Parent = 0 /\ bank!Child = 3
  /\ \A i \in {0, 3}, n \in Int : bank!done(i, n) = BankDone(i, n)
BY DEF bank!Parent, bank!Child, bank!done, BankDone

LEMMA AtomicStart ==
  Init => bank_account = 1000 /\ BankDone(0, Deposits) = 0 /\ BankDone(3, Withdrawals) = 0
<1> USE BankConstants
<1> SUFFICES ASSUME Init PROVE bank_account = 1000 /\ BankDone(0, Deposits) = 0 /\ BankDone(3, Withdrawals) = 0
  OBVIOUS
<1>1. bank_account = 1000 /\ left[0] = Deposits /\ left[3] = Withdrawals
  BY DEF Init, bank!userInit, bank!Slot, Slot, bank!Parent, bank!Child
<1>2. program = "bank" => pc[0] = "main" /\ pc[3] = "none"
  BY DEF Init, bank!Init, bank!exec_user_prg, bank!Slot, Slot
<1>3. pc[0] # "signal" /\ pc[3] # "signal"
  BY <1>2, ProgramStart, OtherPlaces
<1> QED BY <1>1, <1>3 DEF BankDone

NobodyStored == pc[0] # "signal" /\ pc[3] # "signal"

LEMMA OthersStored == ProgramInv => program = "bank" \/ NobodyStored
BY OtherPlaces, BankConstants DEF NobodyStored

LEMMA AtomicSteps ==
  ASSUME ProgramInv, ProgramInv', [Next]_vars
  PROVE  \/ bank!Atomic!Deposit \/ bank!Atomic!Withdraw
         \/ UNCHANGED <<bank_account, BankDone(0, Deposits), BankDone(3, Withdrawals)>>
<1> USE BankConstants
<1>1. CASE program = "bank" /\ bank!Step
  BY <1>1, BankAtomic DEF ProgramInv
<1>2. CASE program # "bank" /\ Step
  <2>1. UNCHANGED <<program, bank_account, left>>
    BY <1>2 DEF Step, bankVars
  <2>2. NobodyStored
    BY <1>2, OthersStored
  <2>3. (program = "bank")' \/ NobodyStored'
    BY OthersStored, PTL
  <2>4. pc[0] # "signal" /\ pc[3] # "signal" /\ pc'[0] # "signal" /\ pc'[3] # "signal"
    BY <1>2, <2>1, <2>2, <2>3 DEF NobodyStored
  <2> QED BY <2>1, <2>4, NoAccount
<1>3. CASE Other \/ Tick
  <2>1. UNCHANGED <<bank_account, left>>
    BY <1>3 DEF Other, Tick, bankVars
  <2>2. \A i \in {0, 3} : (pc'[i] = "signal") <=> (pc[i] = "signal")
    BY <1>3, BesidePlaces
  <2> QED BY <2>1, <2>2 DEF BankDone
<1>4. CASE UNCHANGED vars
  BY <1>4 DEF vars, progVars, bankVars, BankDone
<1>5. Step => (program = "bank" /\ bank!Step) \/ program # "bank"
  BY DEF Step
<1> QED BY <1>1, <1>2, <1>3, <1>4, <1>5 DEF Next

\* bank.c implements the atomic bank: its load and store between sem_wait and
\* sem_signal lose no deposit and no withdrawal, however often the timer cuts in.
THEOREM AccountIsAtomic == Spec => NoLostUpdate
<1>1. Init => bank!Atomic!Init
  BY AtomicStart, BankNames, BankConstants DEF bank!Atomic!Init
<1>2. ProgramInv /\ ProgramInv' /\ [Next]_vars
      => [bank!Atomic!Deposit \/ bank!Atomic!Withdraw]_<<bank_account, bank!done(bank!Parent, Deposits), bank!done(bank!Child, Withdrawals)>>
  BY AtomicSteps, BankNames, BankConstants DEF BankDone, bank!done
<1> QED BY <1>1, <1>2, ProgramInvariant, PTL DEF Spec, NoLostUpdate, bank!NoLostUpdate, bank!Atomic!Spec

LEMMA OverwriteSteps ==
  ASSUME ProgramInv, [Next]_vars
  PROVE  /\ fruit_plate # 0 => fruit_plate' \in {0, fruit_plate}
         /\ fruit!HasWords => words'
<1>1. CASE program = "fruit" /\ fruit!Step
  BY <1>1, FruitOverwrites DEF ProgramInv
<1>2. CASE UNCHANGED <<words, fruit_plate>>
  <2>1. CASE program = "fruit"
    BY <1>2, <2>1, FruitOverwrites DEF ProgramInv
  <2>2. CASE program # "fruit"
    <3>1. ~fruit!HasWords
      BY <2>2, OtherPlaces, FruitConstants DEF fruit!HasWords, fruit!Father
    <3> QED BY <1>2, <3>1
  <2> QED BY <2>1, <2>2
<1> QED BY <1>1, <1>2 DEF Next, Step, Other, Tick, vars, fruitVars

\* put_fruit and put_words of fruit.c replace no fruit on the plate and no words
\* before the father has taken them.
THEOREM NothingIsOverwritten == Spec => NothingOverwritten
<1>1. ProgramInv /\ [Next]_vars
      => [/\ fruit_plate # 0 => fruit_plate' \in {0, fruit_plate}
          /\ fruit!HasWords => words']_(fruit!vars)
  BY OverwriteSteps
<1> QED BY <1>1, ProgramInvariant, PTL DEF Spec, NothingOverwritten, fruit!NothingOverwritten
=============================================================================
