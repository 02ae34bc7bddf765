--------------------------- MODULE SemaphoreProofs ---------------------------
(***************************************************************************)
(* The semaphores move the process table only by its own handlers, so all  *)
(* of TaskProofs holds under them; and with one waiter at a time their     *)
(* queues are exact, however many processes and semaphores there are.      *)
(***************************************************************************)
EXTENDS Semaphore, TaskProofs, FiniteSetTheorems

semTaskVars == <<taskVars, semVars>>

\* The links are slots: what do_sem_v reads through head is a pid.
LinksTyped ==
  /\ next \in [Slot -> Slot \cup {NULL}]
  /\ head \in [Sem -> Slot \cup {NULL}]

LEMMA NotACaller == TaskInv => curr_proc \in Slot \cup {NULL}
BY DEF TaskInv, TaskTypeOK

LEMMA ProcessMoves == ASSUME ProcessNext PROVE TaskNext
BY DEF ProcessNext, TaskNext

\* do_sem_p blocks by do_wait, do_sem_v wakes by wakeup with a pid that fits.
LEMMA SemMoves ==
  ASSUME TaskInv, LinksTyped, [SemNext]_semTaskVars
  PROVE  [TaskNext]_taskVars
<1>1. CASE ProcessNext
  BY <1>1, ProcessMoves
<1>2. ASSUME NEW s \in Sem, do_sem_p(s) PROVE TaskNext \/ UNCHANGED taskVars
  BY <1>2 DEF do_sem_p, TaskNext
<1>3. ASSUME NEW s \in Sem, do_sem_v(s) PROVE TaskNext \/ UNCHANGED taskVars
  <2>1. head_pid(s) \subseteq 0 .. MAX_PROCESS
    BY DEF head_pid, LinksTyped, TaskInv, TaskTypeOK
  <2>2. CASE \E p \in head_pid(s) : wake(p)
    BY <2>1, <2>2 DEF TaskNext
  <2> QED BY <1>3, <2>2 DEF do_sem_v
<1>4. ASSUME NEW s \in Sem,
             do_freesem(s) \/ \E v \in InitVals : do_getsem(s, v)
      PROVE  UNCHANGED taskVars
  BY <1>4 DEF do_freesem, do_getsem
<1> QED BY <1>1, <1>2, <1>3, <1>4 DEF SemNext, semTaskVars

LEMMA LinksStep ==
  ASSUME TaskInv, LinksTyped, [SemNext]_semTaskVars
  PROVE  LinksTyped'
<1>1. CASE UNCHANGED semVars
  BY <1>1 DEF semVars, LinksTyped
<1>2. ASSUME NEW s \in Sem, do_sem_p(s) PROVE LinksTyped'
  BY <1>2, NotACaller DEF do_sem_p, LinksTyped
<1>3. ASSUME NEW s \in Sem, do_sem_v(s) PROVE LinksTyped'
  BY <1>3, NotACaller DEF do_sem_v, LinksTyped
<1>4. ASSUME NEW s \in Sem,
             do_freesem(s) \/ \E v \in InitVals : do_getsem(s, v)
      PROVE  LinksTyped'
  BY <1>4 DEF do_freesem, do_getsem, LinksTyped
<1> QED BY <1>1, <1>2, <1>3, <1>4 DEF SemNext, semTaskVars

LEMMA SemInvariant == SemSpec => [](TaskInv /\ LinksTyped)
<1>1. proc_init /\ sem_init => TaskInv /\ LinksTyped
  BY TaskInit DEF sem_init, LinksTyped
<1>2. TaskInv /\ LinksTyped /\ [SemNext]_semTaskVars => (TaskInv /\ LinksTyped)'
  BY SemMoves, TaskStep, LinksStep
<1> QED BY <1>1, <1>2, PTL DEF SemSpec, semTaskVars

\* Processes that also use semaphores implement the process table: every step
\* of theirs is one of its handlers or leaves it alone.
THEOREM SemImplementsTask == SemSpec => TaskSpec
<1>1. TaskInv /\ LinksTyped /\ [SemNext]_semTaskVars => [TaskNext]_taskVars
  BY SemMoves
<1>2. SemSpec => [][SemNext]_semTaskVars
  BY PTL DEF SemSpec, semTaskVars
<1> QED BY <1>1, <1>2, SemInvariant, PTL DEF SemSpec, TaskSpec

-----------------------------------------------------------------------------
(* One waiter at a time.                                                   *)

\* An unused semaphore has no waiter that get_sem could drop.
QueueInv ==
  /\ LinksTyped
  /\ val \in [Sem -> Int]
  /\ used \in [Sem -> BOOLEAN]
  /\ QueueExact
  /\ \A s \in Sem : ~used[s] => val[s] >= 0

LEMMA QueueStep ==
  ASSUME TaskInv, QueueInv, [SemNext /\ OneWaiter]_semTaskVars
  PROVE  QueueInv'
<1> USE DEF QueueInv, QueueExact, LinksTyped
<1>1. CASE UNCHANGED semVars
  BY <1>1 DEF semVars
<1>2. ASSUME NEW s \in Sem, used[s], do_sem_p(s), OneWaiter PROVE QueueInv'
  <2>1. /\ val' = [val EXCEPT ![s] = @ - 1]
        /\ curr_proc \in Slot
        /\ used' = used
    BY <1>2, NotACaller DEF do_sem_p
  <2>2. val[s] >= 0
    BY <1>2, <2>1 DEF OneWaiter
  <2>3. CASE val[s] > 0
    BY <1>2, <2>1, <2>3 DEF do_sem_p
  <2>4. CASE val[s] = 0
    <3>1. next' = next /\ head' = [head EXCEPT ![s] = curr_proc]
      BY <1>2, <2>1, <2>4 DEF do_sem_p
    <3> QED BY <1>2, <2>1, <2>4, <3>1, TableAssumption
  <2> QED BY <2>2, <2>3, <2>4
<1>3. ASSUME NEW s \in Sem, used[s], do_sem_v(s) PROVE QueueInv'
  <2>1. /\ val' = [val EXCEPT ![s] = @ + 1]
        /\ curr_proc \in Slot
        /\ UNCHANGED <<next, used>>
    BY <1>3, NotACaller DEF do_sem_v
  <2>2. CASE val[s] >= 0
    BY <1>3, <2>1, <2>2 DEF do_sem_v
  <2>3. CASE val[s] = -1
    <3>1. head' = [head EXCEPT ![s] = NULL]
      BY <1>3, <2>1, <2>3 DEF do_sem_v
    <3> QED BY <2>1, <2>3, <3>1
  <2> QED BY <2>2, <2>3
<1>4. ASSUME NEW s \in Sem, val[s] >= 0, do_freesem(s) PROVE QueueInv'
  BY <1>4 DEF do_freesem
<1>5. ASSUME NEW s \in Sem, NEW v \in InitVals, do_getsem(s, v) PROVE QueueInv'
  BY <1>5, SemaphoreAssumption DEF do_getsem
<1> QED BY <1>1, <1>2, <1>3, <1>4, <1>5 DEF SemNext, semTaskVars

\* While no two processes wait on one semaphore, its head and value agree and
\* do_sem_v, which takes curr_proc->next for head->next, empties the queue.
THEOREM OneWaiterQueueExact == SoloSpec => []QueueExact
<1>1. proc_init /\ sem_init => TaskInv /\ QueueInv
  BY TaskInit DEF sem_init, QueueInv, QueueExact, LinksTyped
<1>2. TaskInv /\ QueueInv /\ [SemNext /\ OneWaiter]_semTaskVars
        => (TaskInv /\ QueueInv)'
  <2>1. [SemNext /\ OneWaiter]_semTaskVars => [SemNext]_semTaskVars
    OBVIOUS
  <2> QED BY <2>1, SemMoves, TaskStep, QueueStep DEF QueueInv
<1>3. TaskInv /\ QueueInv => QueueExact
  BY DEF QueueInv
<1> QED BY <1>1, <1>2, <1>3, PTL DEF SoloSpec, semTaskVars

-----------------------------------------------------------------------------
(* What P and V do to a program whose semaphores have one waiter at most.  *)

Solo == Kernel /\ LinksTyped /\ val \in [Sem -> Int] /\ QueueExact

\* P puts the caller to sleep exactly if it finds no token, provided somebody
\* is READY then, and the caller is the head of the queue.
LEMMA SoloP ==
  ASSUME Solo, NEW me \in Slot, curr_proc = me, NEW s \in Sem, do_sem_p(s),
         val[s] >= 0, val[s] = 0 => \E i \in Slot : status[i] = "READY"
  PROVE  /\ Solo' /\ UNCHANGED curr_pid
         /\ val' = [val EXCEPT ![s] = @ - 1]
         /\ head' = [head EXCEPT ![s] = IF val[s] = 0 THEN me ELSE NULL]
         /\ \A i \in Slot : /\ Waiting(i)' <=> Waiting(i) \/ (i = me /\ val[s] = 0)
                            /\ Dead(i)' <=> Dead(i) /\ ~(i = me /\ val[s] = 0)
         /\ \A i \in Slot : Asleep(i)' <=> Asleep(i) \/ (i = me /\ val[s] = 0)
<1> USE DEF Solo, QueueExact, LinksTyped
<1>1. val' = [val EXCEPT ![s] = @ - 1] /\ ~Asleep(me) /\ val[s] \in Int
  BY DEF do_sem_p, Asleep
<1>2. CASE val[s] > 0
  <2>1. UNCHANGED <<next, head, taskVars>> /\ head[s] = NULL
    BY <1>1, <1>2 DEF do_sem_p
  <2>2. head = [head EXCEPT ![s] = NULL]
    BY <2>1
  <2>3. Kernel'
    BY <2>1 DEF taskVars, Kernel, TaskInv, TaskTypeOK, OneRunning, CurrNotReady, PidOfSlot, ParentOlder, IdleWait
  <2> QED BY <1>1, <1>2, <2>1, <2>2, <2>3 DEF taskVars, Asleep, Waiting, Dead
<1>3. CASE val[s] = 0
  <2>1. head[s] = NULL
    BY <1>1, <1>3
  <2>2. do_wait /\ next' = [next EXCEPT ![me] = NULL] /\ head' = [head EXCEPT ![s] = me]
    BY <1>1, <1>3, <2>1 DEF do_sem_p
  <2>3. next' = next
    BY <2>2
  <2>4. QueueExact' /\ LinksTyped' /\ val' \in [Sem -> Int]
    BY <1>1, <1>3, <2>2, <2>3, TableAssumption
  <2> HIDE DEF QueueExact, LinksTyped
  <2> QED BY <1>1, <1>3, <2>2, <2>4, WaitEffect
<1> QED BY <1>1, <1>2, <1>3

\* A process that is WAITING is the only one wakeup can mean by its pid.
LEMMA WaiterOfPid ==
  ASSUME TaskInv, NEW w \in Slot, Waiting(w)
  PROVE  \A i \in Slot : Waiting(i) /\ pid[i] = pid[w] % 256 <=> i = w
<1>1. \A i \in Slot : Waiting(i) => pid[i] = i + 1 /\ pid[i] \in 0 .. 255
  BY TableAssumption DEF TaskInv, TaskTypeOK, PidOfSlot, Waiting
<1>2. pid[w] % 256 = pid[w]
  BY <1>1
<1> QED BY <1>1, <1>2, TableAssumption DEF Slot

\* V wakes the head of the queue, and leaves the queue empty.
LEMMA SoloV ==
  ASSUME Solo, NEW me \in Slot, curr_proc = me, ~Waiting(me), NEW s \in Sem, do_sem_v(s),
         NEW w, w = head[s], w # NULL => Waiting(w)
  PROVE  /\ Solo' /\ UNCHANGED curr_pid
         /\ val' = [val EXCEPT ![s] = @ + 1]
         /\ head' = [head EXCEPT ![s] = NULL]
         /\ \A i \in Slot : /\ Waiting(i)' <=> Waiting(i) /\ i # w
                            /\ Dead(i)' <=> Dead(i)
                            /\ Asleep(i)' <=> Asleep(i) /\ i # w
<1> USE DEF Solo, QueueExact, LinksTyped
<1>1. /\ val' = [val EXCEPT ![s] = @ + 1] /\ UNCHANGED next
      /\ val[s] \in Int /\ val[s] >= -1 /\ w \in Slot \cup {NULL}
  BY DEF do_sem_v
<1>2. CASE val[s] >= 0
  <2>1. UNCHANGED <<head, taskVars>> /\ w = NULL
    BY <1>1, <1>2 DEF do_sem_v
  <2>2. head = [head EXCEPT ![s] = NULL]
    BY <2>1
  <2>3. Kernel'
    BY <2>1 DEF taskVars, Kernel, TaskInv, TaskTypeOK, OneRunning, CurrNotReady, PidOfSlot, ParentOlder, IdleWait
  <2> QED BY <1>1, <1>2, <2>1, <2>2, <2>3, TableAssumption DEF taskVars, Asleep, Waiting, Dead
<1>3. CASE val[s] = -1
  <2>1. w \in Slot /\ Waiting(w)
    BY <1>1, <1>3
  <2>2. head' = [head EXCEPT ![s] = NULL] /\ wake(pid[w])
    BY <1>1, <1>3, <2>1, TableAssumption DEF do_sem_v, head_pid
  <2>3. QueueExact' /\ LinksTyped' /\ val' \in [Sem -> Int]
    BY <1>1, <1>3, <2>2, TableAssumption
  <2>4. \A i \in Slot : Waiting(i) /\ pid[i] = pid[w] % 256 <=> i = w
    BY <2>1, WaiterOfPid DEF Kernel
  <2> HIDE DEF QueueExact, LinksTyped
  <2>5. /\ Kernel' /\ UNCHANGED curr_pid
        /\ \A i \in Slot : Dead(i)' <=> Dead(i)
        /\ \A i \in Slot : Waiting(i)' <=> Waiting(i) /\ i # w
        /\ \A i \in Slot \ {me} : Asleep(i)' <=> Asleep(i) /\ i # w
    BY <2>1, <2>2, <2>4, WakeEffect
  <2> QED BY <1>1, <2>2, <2>3, <2>5 DEF Asleep
<1> QED BY <1>1, <1>2, <1>3

-----------------------------------------------------------------------------
(* The action property and the refinement.                                 *)

\* A semaphore that nobody got has nobody queued: get_sem cannot look like a V.
UnusedFree ==
  /\ val \in [Sem -> Int] /\ used \in [Sem -> BOOLEAN]
  /\ \A s \in Sem : ~used[s] => val[s] >= 0

Released ==
  \A s \in Sem :
    /\ val[s] < 0 /\ head[s] # NULL
    /\ val'[s] = val[s] + 1
    => status'[head[s]] # "WAITING"

LEMMA UnusedStep ==
  ASSUME UnusedFree, [SemNext]_semTaskVars
  PROVE  UnusedFree'
<1> USE DEF UnusedFree
<1>1. ASSUME NEW s \in Sem, used[s], do_sem_p(s) \/ do_sem_v(s) PROVE UnusedFree'
  BY <1>1 DEF do_sem_p, do_sem_v
<1>2. ASSUME NEW s \in Sem, val[s] >= 0, do_freesem(s) PROVE UnusedFree'
  BY <1>2 DEF do_freesem
<1>3. ASSUME NEW s \in Sem, NEW v \in InitVals, do_getsem(s, v) PROVE UnusedFree'
  BY <1>3, SemaphoreAssumption DEF do_getsem
<1>4. CASE UNCHANGED semVars
  BY <1>4 DEF semVars
<1> QED BY <1>1, <1>2, <1>3, <1>4 DEF SemNext, semTaskVars

LEMMA SignalStep ==
  ASSUME TaskInv, LinksTyped, UnusedFree, [SemNext]_semTaskVars
  PROVE  Released
<1> SUFFICES ASSUME NEW s \in Sem, val[s] < 0, head[s] # NULL, val'[s] = val[s] + 1
             PROVE  status'[head[s]] # "WAITING"
  BY DEF Released
<1>1. val[s] \in Int /\ val'[s] # val[s] /\ used[s]
  BY DEF UnusedFree
<1>2. PICK t \in Sem : \/ do_sem_p(t) \/ do_sem_v(t) \/ do_freesem(t)
                       \/ \E v \in InitVals : do_getsem(t, v)
  BY <1>1 DEF SemNext, semTaskVars, semVars
<1>3. do_sem_v(s)
  BY <1>1, <1>2 DEF do_sem_p, do_sem_v, do_freesem, do_getsem, UnusedFree
<1>4. PICK w \in Slot : w = head[s]
  BY DEF LinksTyped
<1>5. wakeup(status, pid[w]) /\ Fit(status) /\ TaskTypeOK
  BY <1>1, <1>3, <1>4, TableFits DEF do_sem_v, head_pid, wake, TaskInv
<1>6. Waiting(w) => \A i \in Slot : pid[i] = pid[w] % 256 /\ status[i] = "WAITING" <=> i = w
  BY WaiterOfPid DEF Waiting
<1> QED BY <1>4, <1>5, <1>6, WokenOne DEF Waiting

\* sem_signal releases the process that the head of the queue is, whoever else
\* waits and however the links are broken.
THEOREM SignalsRelease == SemSpec => SignalReleases
<1>1. proc_init /\ sem_init => UnusedFree
  BY DEF sem_init, UnusedFree
<1>2. UnusedFree /\ [SemNext]_semTaskVars => UnusedFree'
  BY UnusedStep
<1>3. TaskInv /\ LinksTyped /\ UnusedFree /\ [SemNext]_semTaskVars => [Released]_semTaskVars
  BY SignalStep
<1> QED BY <1>1, <1>2, <1>3, SemInvariant, PTL DEF SemSpec, semTaskVars, SignalReleases, Released

\* No link is set: a chain ends at its first process.
LEMMA ChainOfOne ==
  ASSUME QueueInv, NEW i \in Slot \cup {NULL}
  PROVE  chain[MAX_PROCESS][i] = IF i = NULL THEN {} ELSE {i}
<1> DEFINE one == [n \in 0 .. MAX_PROCESS |-> [p \in Slot \cup {NULL} |->
                     IF p = NULL \/ n = 0 THEN {} ELSE {p}]]
           F(f) == [n \in 0 .. MAX_PROCESS |-> [p \in Slot \cup {NULL} |->
                     IF p = NULL \/ n = 0 THEN {} ELSE {p} \cup f[n - 1][next[p]]]]
<1>1. MAX_PROCESS \in Nat /\ MAX_PROCESS > 0 /\ NULL \notin Slot
  BY TableAssumption
<1>2. one = F(one)
  <2>1. ASSUME NEW n \in 0 .. MAX_PROCESS, NEW p \in Slot, n # 0
        PROVE  one[n - 1][next[p]] = {}
    <3>1. next[p] = NULL
      BY <2>1 DEF QueueInv, QueueExact
    <3>2. n - 1 \in 0 .. MAX_PROCESS
      BY <1>1, <2>1
    <3>3. one[n - 1] = [q \in Slot \cup {NULL} |->
                     IF q = NULL \/ n - 1 = 0 THEN {} ELSE {q}]
      BY <3>2
    <3> HIDE DEF one
    <3> QED BY <3>1, <3>3
  <2>2. ASSUME NEW n \in 0 .. MAX_PROCESS PROVE one[n] = F(one)[n]
    <3>1. F(one)[n] = [p \in Slot \cup {NULL} |->
                     IF p = NULL \/ n = 0 THEN {} ELSE {p} \cup one[n - 1][next[p]]]
      <4> HIDE DEF one
      <4> QED OBVIOUS
    <3>2. one[n] = [p \in Slot \cup {NULL} |->
                     IF p = NULL \/ n = 0 THEN {} ELSE {p}]
      OBVIOUS
    <3>3. \A p \in Slot \cup {NULL} : 
             (IF p = NULL \/ n = 0 THEN {} ELSE {p} \cup one[n - 1][next[p]])
             = (IF p = NULL \/ n = 0 THEN {} ELSE {p})
      <4> HIDE DEF one
      <4> QED BY <2>1
    <3> HIDE DEF one, F
    <3> QED BY <3>1, <3>2, <3>3
  <2>3. F(one) = [n \in 0 .. MAX_PROCESS |-> F(one)[n]]
    OBVIOUS
  <2>4. one = [n \in 0 .. MAX_PROCESS |-> one[n]]
    OBVIOUS
  <2> HIDE DEF one, F
  <2> QED BY <2>2, <2>3, <2>4
<1>3. chain = CHOOSE f : f = F(f)
  BY DEF chain
<1>4. chain = F(chain)
  <2> HIDE DEF one, F
  <2> QED BY <1>2, <1>3
<1>5. ASSUME NEW n \in 0 .. MAX_PROCESS
      PROVE  chain[n] = [p \in Slot \cup {NULL} |->
                     IF p = NULL \/ n = 0 THEN {} ELSE {p} \cup chain[n - 1][next[p]]]
  <2>1. F(chain)[n] = [p \in Slot \cup {NULL} |->
                     IF p = NULL \/ n = 0 THEN {} ELSE {p} \cup chain[n - 1][next[p]]]
    OBVIOUS
  <2> HIDE DEF F
  <2> QED BY <1>4, <2>1
<1> HIDE DEF one, F
<1>6. chain[MAX_PROCESS][NULL] = {} /\ chain[MAX_PROCESS - 1][NULL] = {}
  <2>1. MAX_PROCESS - 1 \in 0 .. MAX_PROCESS /\ MAX_PROCESS \in 0 .. MAX_PROCESS
    BY <1>1
  <2>2. ASSUME NEW n \in 0 .. MAX_PROCESS PROVE chain[n][NULL] = {}
    BY <1>5
  <2> QED BY <2>1, <2>2
<1>7. ASSUME i \in Slot PROVE chain[MAX_PROCESS][i] = {i} \cup chain[MAX_PROCESS - 1][next[i]]
  <2>1. MAX_PROCESS \in 0 .. MAX_PROCESS /\ MAX_PROCESS # 0
    BY <1>1
  <2>2. chain[MAX_PROCESS] = [p \in Slot \cup {NULL} |->
             IF p = NULL \/ MAX_PROCESS = 0 THEN {} ELSE {p} \cup chain[MAX_PROCESS - 1][next[p]]]
    BY <1>5, <2>1
  <2> QED BY <1>1, <1>7, <2>1, <2>2
<1>8. ASSUME i \in Slot PROVE next[i] = NULL
  BY <1>8 DEF QueueInv, QueueExact
<1>9. chain[MAX_PROCESS][NULL] = {} /\ (i \in Slot => chain[MAX_PROCESS][i] = {i})
  BY <1>6, <1>7, <1>8
<1> QED BY <1>1, <1>9

-----------------------------------------------------------------------------
(* Who sleeps.  Only TaskInv is assumed: a caller may be WAITING itself.   *)

Sleepers == {i \in Slot : status[i] = "WAITING"}

LEMMA SwitchSleepers ==
  ASSUME TaskInv, NEW st, Fit(st), schedule_proc(st)
  PROVE  Sleepers' = {i \in Slot : st[i] = "WAITING"}
BY Switched DEF Sleepers, TaskInv

LEMMA WakeSleepers ==
  ASSUME TaskInv, NEW st, Fit(st), NEW p, wakeup(st, p)
  PROVE  \/ /\ Sleepers' = {i \in Slot : st[i] = "WAITING"}
            /\ \A i \in Slot : ~(pid[i] = p % 256 /\ st[i] = "WAITING")
         \/ \E w \in Slot : /\ pid[w] = p % 256 /\ st[w] = "WAITING"
                            /\ Sleepers' = {i \in Slot : st[i] = "WAITING"} \ {w}
<1>1. CASE status' = st /\ \A i \in Slot : ~(pid[i] = p % 256 /\ st[i] = "WAITING")
  BY <1>1 DEF Sleepers
<1>2. ASSUME NEW w \in Slot,
             /\ pid[w] = p % 256 /\ st[w] = "WAITING"
             /\ status'[w] \in {"READY", "RUNNING"}
             /\ \A i \in Slot \ {w} :
                  \/ status'[i] = st[i]
                  \/ st[i] = "READY" /\ status'[i] = "RUNNING"
                  \/ st[i] = "RUNNING" /\ status'[i] = "READY"
      PROVE  Sleepers' = {i \in Slot : st[i] = "WAITING"} \ {w}
  BY <1>2 DEF Sleepers
<1> QED BY <1>1, <1>2, WokenOne DEF TaskInv

\* do_wait adds its caller, and nobody leaves.
LEMMA WaitSleepers ==
  ASSUME TaskInv, do_wait
  PROVE  Sleepers' = Sleepers \cup {curr_proc}
<1> DEFINE st == [status EXCEPT ![curr_proc] = "WAITING"]
<1>1. curr_proc \in Slot /\ schedule_proc(st) /\ status \in [Slot -> Status]
  BY DEF do_wait, TaskInv, TaskTypeOK
<1>2. Fit(st)
  BY CallerSet DEF do_wait
<1>3. Sleepers' = {i \in Slot : st[i] = "WAITING"}
  <2> HIDE DEF st
  <2> QED BY <1>1, <1>2, SwitchSleepers
<1> QED BY <1>1, <1>3 DEF Sleepers

\* No other handler puts anybody to sleep, and what it wakes is its caller, as it
\* ends, and one process at most.
LEMMA ProcessSleepers ==
  ASSUME TaskInv, [ProcessNext]_taskVars
  PROVE  \/ Sleepers' = Sleepers
         \/ \E p, q \in Slot :
              Sleepers' \in {Sleepers \cup {p}, Sleepers \ {p}, Sleepers \ {p, q}}
<1>1. ASSUME NEW c \in Slot \cup {NULL}, proc_create(c) \/ do_fork(c)
      PROVE  Sleepers' = Sleepers
  BY <1>1, CreatedStatus DEF proc_create, do_fork, Sleepers
<1>2. CASE do_wait
  <2>1. curr_proc \in Slot
    BY <1>2, NotACaller DEF do_wait
  <2> QED BY <1>2, <2>1, WaitSleepers
<1>3. CASE do_exit
  <2> DEFINE st == [status EXCEPT ![curr_proc] = "TERMINATED"]
             asleep == {i \in Slot : st[i] = "WAITING"}
  <2>1. curr_proc \in Slot /\ status \in [Slot -> Status]
    BY <1>3 DEF do_exit, TaskInv, TaskTypeOK
  <2>2. asleep = Sleepers \ {curr_proc}
    BY <2>1 DEF Sleepers
  <2>3. Fit(st)
    BY <1>3, CallerSet DEF do_exit
  <2>4. status' = st \/ \E p : wakeup(st, p)
    BY <1>3 DEF do_exit
  <2>5. CASE status' = st
    BY <2>1, <2>2, <2>5 DEF Sleepers
  <2>6. ASSUME NEW p, wakeup(st, p)
        PROVE  Sleepers' = asleep \/ \E w \in Slot : Sleepers' = asleep \ {w}
    <3> HIDE DEF st
    <3> QED BY <2>3, <2>6, WakeSleepers
  <2> HIDE DEF st, asleep
  <2>7. ASSUME NEW w \in Slot, Sleepers' = asleep \ {w}
        PROVE  Sleepers' = Sleepers \ {curr_proc, w}
    BY <2>2, <2>7
  <2> QED BY <2>1, <2>2, <2>4, <2>5, <2>6, <2>7
<1>4. CASE user_process_return
  <2>1. curr_proc \in Slot /\ status' = [status EXCEPT ![curr_proc] = "TERMINATED"]
        /\ status \in [Slot -> Status]
    BY <1>4 DEF user_process_return, TaskInv, TaskTypeOK
  <2>2. Sleepers' = Sleepers \ {curr_proc}
    BY <2>1 DEF Sleepers
  <2> QED BY <2>1, <2>2
<1>5. CASE pit_handler_main
  <2>1. schedule_proc(status) \/ UNCHANGED status
    BY <1>5 DEF pit_handler_main
  <2> QED BY <2>1, SwitchSleepers, TableFits DEF Sleepers
<1>6. CASE UNCHANGED taskVars
  BY <1>6 DEF taskVars, Sleepers
<1> QED BY <1>1, <1>2, <1>3, <1>4, <1>5, <1>6 DEF ProcessNext

\* A wake-up meant for slot w reaches w if it is WAITING, and nobody else.
LEMMA WakeOfSlot ==
  ASSUME TaskInv, NEW w \in Slot, wake(pid[w])
  PROVE  Sleepers' = Sleepers \ {w}
<1>1. /\ pid[w] % 256 = pid[w]
      /\ \A i \in Slot : status[i] = "WAITING" /\ pid[i] = pid[w] => i = w
  <2>1. pid[w] \in 0 .. 255
    BY TableAssumption DEF TaskInv, TaskTypeOK
  <2>2. \A i \in Slot : status[i] = "WAITING" => pid[i] = i + 1
    BY DEF TaskInv, PidOfSlot
  <2>3. pid[w] = w + 1 \/ pid[w] = 0
    BY DEF TaskInv, PidOfSlot
  <2> QED BY <2>1, <2>2, <2>3, TableAssumption DEF Slot
<1>2. wakeup(status, pid[w])
  BY DEF wake
<1>3. \/ /\ Sleepers' = Sleepers
         /\ \A i \in Slot : ~(pid[i] = pid[w] % 256 /\ status[i] = "WAITING")
      \/ \E v \in Slot : /\ pid[v] = pid[w] % 256 /\ status[v] = "WAITING"
                         /\ Sleepers' = Sleepers \ {v}
  BY <1>2, TableFits, WakeSleepers DEF Sleepers
<1> QED BY <1>1, <1>3 DEF Sleepers

-----------------------------------------------------------------------------
(* The refinement.                                                         *)

\* What the abstract semaphores read from this state, chains left out.
SoloTokens == [s \in Sem |-> IF val[s] >= 0 THEN val[s] ELSE 0]
SoloQueued == [s \in Sem |-> IF head[s] = NULL THEN {} ELSE {head[s]}]

ReadFromHeads ==
  /\ [s \in Sem |-> waiters(s)] = SoloQueued
  /\ [s \in Sem |-> val[s] + Cardinality(waiters(s))] = SoloTokens

LEMMA HeadsAreRead == QueueInv => ReadFromHeads
<1> SUFFICES ASSUME QueueInv, NEW s \in Sem
             PROVE  /\ waiters(s) = IF head[s] = NULL THEN {} ELSE {head[s]}
                    /\ val[s] + Cardinality(waiters(s)) = IF val[s] >= 0 THEN val[s] ELSE 0
  BY DEF ReadFromHeads, SoloQueued, SoloTokens
<1>1. /\ head[s] \in Slot \cup {NULL} /\ val[s] \in Int
      /\ val[s] >= -1 /\ (val[s] = -1 <=> head[s] # NULL)
  BY DEF QueueInv, LinksTyped, QueueExact
<1>2. waiters(s) = IF head[s] = NULL THEN {} ELSE {head[s]}
  BY <1>1, ChainOfOne DEF waiters
<1>3. Cardinality(waiters(s)) = IF head[s] = NULL THEN 0 ELSE 1
  BY <1>2, FS_EmptySet, FS_Singleton
<1> QED BY <1>1, <1>2, <1>3

LEMMA CountingInit ==
  ASSUME proc_init, sem_init, ReadFromHeads
  PROVE  Counting!Init
<1>1. SoloTokens = [s \in Sem |-> 0] /\ SoloQueued = [s \in Sem |-> {}]
  BY DEF sem_init, SoloTokens, SoloQueued
<1>2. {i \in Slot : status[i] = "WAITING"} = {}
  BY DEF proc_init
<1> QED BY <1>1, <1>2 DEF Counting!Init, ReadFromHeads, sem_init

\* The steps of the abstract semaphores in the terms of this state.
LEMMA CountingP ==
  ASSUME ReadFromHeads, ReadFromHeads', NEW s \in Sem, NEW p \in Slot,
         used[s], UNCHANGED used,
         \/ /\ SoloTokens[s] > 0
            /\ SoloTokens' = [SoloTokens EXCEPT ![s] = @ - 1]
            /\ UNCHANGED <<SoloQueued, Sleepers>>
         \/ /\ SoloTokens[s] = 0 /\ p \notin SoloQueued[s]
            /\ SoloQueued' = [SoloQueued EXCEPT ![s] = @ \cup {p}]
            /\ Sleepers' = Sleepers \cup {p}
            /\ UNCHANGED SoloTokens
  PROVE  Counting!P(s, p)
BY DEF Counting!P, ReadFromHeads, Sleepers

LEMMA CountingV ==
  ASSUME ReadFromHeads, ReadFromHeads', NEW s \in Sem, used[s], UNCHANGED used,
         \/ /\ SoloQueued[s] = {}
            /\ SoloTokens' = [SoloTokens EXCEPT ![s] = @ + 1]
            /\ UNCHANGED <<SoloQueued, Sleepers>>
         \/ /\ \E p \in SoloQueued[s] :
                 /\ SoloQueued' = [SoloQueued EXCEPT ![s] = @ \ {p}]
                 /\ Sleepers' = Sleepers \ {p}
            /\ UNCHANGED SoloTokens
  PROVE  Counting!V(s)
BY DEF Counting!V, ReadFromHeads, Sleepers

LEMMA CountingGet ==
  ASSUME ReadFromHeads, ReadFromHeads', NEW s \in Sem, NEW v,
         ~used[s], SoloQueued[s] = {}, used' = [used EXCEPT ![s] = TRUE],
         SoloTokens' = [SoloTokens EXCEPT ![s] = v], UNCHANGED <<SoloQueued, Sleepers>>
  PROVE  Counting!Get(s, v)
BY DEF Counting!Get, ReadFromHeads, Sleepers

LEMMA CountingFree ==
  ASSUME ReadFromHeads, ReadFromHeads', NEW s \in Sem,
         used[s], SoloQueued[s] = {}, used' = [used EXCEPT ![s] = FALSE],
         UNCHANGED <<SoloTokens, SoloQueued, Sleepers>>
  PROVE  Counting!Free(s)
BY DEF Counting!Free, ReadFromHeads, Sleepers

LEMMA CountingElsewhere ==
  ASSUME ReadFromHeads, ReadFromHeads', NEW p \in Slot, NEW q \in Slot,
         Sleepers' \in {Sleepers \cup {p}, Sleepers \ {p}, Sleepers \ {p, q}},
         UNCHANGED <<used, SoloTokens, SoloQueued>>
  PROVE  Counting!Elsewhere(p, q)
BY DEF Counting!Elsewhere, ReadFromHeads, Sleepers

\* The tokens follow the value of the semaphore that changes.
LEMMA TokensMove ==
  ASSUME NEW s \in Sem, \A t \in Sem \ {s} : val'[t] = val[t]
  PROVE  /\ SoloTokens[s] = IF val[s] >= 0 THEN val[s] ELSE 0
         /\ SoloTokens' = [SoloTokens EXCEPT ![s] = IF val'[s] >= 0 THEN val'[s] ELSE 0]
<1>1. \A t \in Sem : /\ SoloTokens[t] = IF val[t] >= 0 THEN val[t] ELSE 0
                     /\ SoloTokens'[t] = IF val'[t] >= 0 THEN val'[t] ELSE 0
  BY DEF SoloTokens
<1>2. SoloTokens = [t \in Sem |-> SoloTokens[t]] /\ SoloTokens' = [t \in Sem |-> SoloTokens'[t]]
  BY DEF SoloTokens
<1>3. \A t \in Sem \ {s} : SoloTokens'[t] = SoloTokens[t]
  BY <1>1
<1> QED BY <1>1, <1>2, <1>3

\* Each call is the abstract step of its name.
LEMMA PCounts ==
  ASSUME TaskInv, QueueInv, ReadFromHeads, ReadFromHeads',
         NEW s \in Sem, used[s], do_sem_p(s), OneWaiter,
         NEW me \in Slot, curr_proc = me
  PROVE  Counting!P(s, me)
<1> USE DEF QueueInv, QueueExact, LinksTyped
<1>1. /\ val' = [val EXCEPT ![s] = val[s] - 1] /\ val[s] \in Int /\ val[s] >= 0
      /\ UNCHANGED used
  BY DEF do_sem_p, OneWaiter
<1>3. CASE val[s] > 0
  <2>1. UNCHANGED <<head, status>>
    BY <1>3, <1>1 DEF do_sem_p, taskVars
  <2>2. UNCHANGED <<SoloQueued, Sleepers>>
    BY <2>1 DEF SoloQueued, Sleepers
  <2>3. SoloTokens[s] > 0 /\ SoloTokens' = [SoloTokens EXCEPT ![s] = @ - 1]
    <3>1. val'[s] = val[s] - 1 /\ \A t \in Sem \ {s} : val'[t] = val[t]
      BY <1>1
    <3> QED BY <1>1, <1>3, <3>1, TokensMove
  <2> QED BY <1>1, <2>2, <2>3, CountingP
<1>4. CASE val[s] = 0
  <2>1. head' = [head EXCEPT ![s] = me] /\ do_wait /\ head[s] = NULL
    BY <1>1, <1>4 DEF do_sem_p
  <2>2. SoloTokens[s] = 0 /\ UNCHANGED SoloTokens
    BY <1>1, <1>4 DEF SoloTokens
  <2>3. /\ me \notin SoloQueued[s]
        /\ SoloQueued' = [SoloQueued EXCEPT ![s] = @ \cup {me}]
    BY <1>1, <2>1, TableAssumption DEF SoloQueued
  <2>4. Sleepers' = Sleepers \cup {me}
    BY <2>1, WaitSleepers
  <2> QED BY <1>1, <2>2, <2>3, <2>4, CountingP
<1> QED BY <1>1, <1>3, <1>4

LEMMA VCounts ==
  ASSUME TaskInv, QueueInv, ReadFromHeads, ReadFromHeads',
         NEW s \in Sem, used[s], do_sem_v(s)
  PROVE  Counting!V(s)
<1> USE DEF QueueInv, QueueExact, LinksTyped
<1>1. /\ val' = [val EXCEPT ![s] = val[s] + 1] /\ val[s] \in Int /\ val[s] >= -1
      /\ UNCHANGED used
  BY DEF do_sem_v
<1>3. CASE val[s] >= 0
  <2>1. UNCHANGED <<head, status>> /\ head[s] = NULL
    BY <1>1, <1>3 DEF do_sem_v, taskVars
  <2>2. SoloQueued[s] = {} /\ UNCHANGED <<SoloQueued, Sleepers>>
    BY <2>1 DEF SoloQueued, Sleepers
  <2>3. SoloTokens' = [SoloTokens EXCEPT ![s] = @ + 1]
    <3>1. val'[s] = val[s] + 1 /\ \A t \in Sem \ {s} : val'[t] = val[t]
      BY <1>1
    <3> QED BY <1>1, <1>3, <3>1, TokensMove
  <2> QED BY <1>1, <2>2, <2>3, CountingV
<1>4. CASE val[s] = -1
  <2>1. PICK w \in Slot : w = head[s]
    BY <1>4
  <2>2. head' = [head EXCEPT ![s] = NULL] /\ wake(pid[w])
    BY <1>1, <1>4, <2>1, TableAssumption, NotACaller DEF do_sem_v, head_pid
  <2>3. UNCHANGED SoloTokens
    BY <1>1, <1>4 DEF SoloTokens
  <2>4. w \in SoloQueued[s] /\ SoloQueued' = [SoloQueued EXCEPT ![s] = @ \ {w}]
    BY <2>1, <2>2, TableAssumption DEF SoloQueued
  <2>5. Sleepers' = Sleepers \ {w}
    BY <2>2, WakeOfSlot
  <2> QED BY <1>1, <2>3, <2>4, <2>5, CountingV
<1> QED BY <1>1, <1>3, <1>4

LEMMA GetCounts ==
  ASSUME QueueInv, ReadFromHeads, ReadFromHeads',
         NEW s \in Sem, NEW v \in InitVals, do_getsem(s, v)
  PROVE  Counting!Get(s, v)
<1> USE DEF QueueInv, QueueExact, LinksTyped
<1>1. /\ ~used[s] /\ val[s] >= 0 /\ head[s] = NULL /\ v \in Nat
      /\ val' = [val EXCEPT ![s] = v] /\ used' = [used EXCEPT ![s] = TRUE]
      /\ UNCHANGED <<head, status>>
  BY SemaphoreAssumption DEF do_getsem, taskVars
<1>2. SoloQueued[s] = {} /\ UNCHANGED <<SoloQueued, Sleepers>>
  BY <1>1 DEF SoloQueued, Sleepers
<1>3. SoloTokens' = [SoloTokens EXCEPT ![s] = v]
  <2>1. val'[s] = v /\ \A t \in Sem \ {s} : val'[t] = val[t]
    BY <1>1
  <2> QED BY <1>1, <2>1, TokensMove
<1> QED BY <1>1, <1>2, <1>3, CountingGet

LEMMA FreeCounts ==
  ASSUME QueueInv, ReadFromHeads, ReadFromHeads',
         NEW s \in Sem, used[s], val[s] >= 0, do_freesem(s)
  PROVE  Counting!Free(s)
<1> USE DEF QueueInv, QueueExact, LinksTyped
<1>1. /\ head[s] = NULL /\ used' = [used EXCEPT ![s] = FALSE]
      /\ UNCHANGED <<val, head, status>>
  BY DEF do_freesem, taskVars
<1>2. SoloQueued[s] = {} /\ UNCHANGED <<SoloTokens, SoloQueued, Sleepers>>
  BY <1>1 DEF SoloQueued, SoloTokens, Sleepers
<1> QED BY <1>1, <1>2, CountingFree

\* The tokens, queues and sleepers after each step are those of an abstract one.
LEMMA CountingStep ==
  ASSUME TaskInv, QueueInv, ReadFromHeads, ReadFromHeads',
         [SemNext /\ OneWaiter]_semTaskVars
  PROVE  Counting!Next \/ UNCHANGED <<used, SoloTokens, SoloQueued, Sleepers>>
<1>1. CASE [ProcessNext]_taskVars /\ UNCHANGED semVars
  <2>1. UNCHANGED <<used, SoloTokens, SoloQueued>>
    BY <1>1 DEF semVars, SoloTokens, SoloQueued
  <2>2. ASSUME NEW p \in Slot, NEW q \in Slot,
               Sleepers' \in {Sleepers \cup {p}, Sleepers \ {p}, Sleepers \ {p, q}}
        PROVE  Counting!Next
    <3>1. Counting!Elsewhere(p, q)
      BY <2>1, <2>2, CountingElsewhere
    <3> QED BY <3>1 DEF Counting!Next
  <2> QED BY <1>1, <2>1, <2>2, ProcessSleepers
<1>2. ASSUME NEW s \in Sem, used[s], do_sem_p(s), OneWaiter PROVE Counting!Next
  <2>1. PICK me \in Slot : curr_proc = me
    BY <1>2, NotACaller DEF do_sem_p
  <2>2. Counting!P(s, me)
    BY <1>2, <2>1, PCounts
  <2> QED BY <2>2 DEF Counting!Next
<1>3. ASSUME NEW s \in Sem, used[s], do_sem_v(s) PROVE Counting!Next
  BY <1>3, VCounts DEF Counting!Next
<1>4. ASSUME NEW s \in Sem, used[s], val[s] >= 0, do_freesem(s) PROVE Counting!Next
  BY <1>4, FreeCounts DEF Counting!Next
<1>5. ASSUME NEW s \in Sem, NEW v \in InitVals, do_getsem(s, v) PROVE Counting!Next
  BY <1>5, GetCounts DEF Counting!Next
<1> QED BY <1>1, <1>2, <1>3, <1>4, <1>5 DEF SemNext, semTaskVars

\* A step that does what do_sem_p or do_sem_v does to s is that call, made by a
\* process that uses s.
LEMMA CallsUsed ==
  ASSUME QueueInv, [SemNext]_semTaskVars,
         NEW s \in Sem, do_sem_p(s) \/ do_sem_v(s)
  PROVE  used[s]
<1>1. val'[s] # val[s] /\ UNCHANGED used
  BY DEF do_sem_p, do_sem_v, QueueInv
<1>2. ASSUME NEW t \in Sem, do_sem_p(t) \/ do_sem_v(t) \/ do_freesem(t), used[t]
      PROVE  used[s]
  <2>1. CASE t = s
    BY <1>2, <2>1
  <2>2. CASE t # s
    BY <1>1, <1>2, <2>2 DEF do_sem_p, do_sem_v, do_freesem, QueueInv
  <2> QED BY <2>1, <2>2
<1>3. ASSUME NEW t \in Sem, NEW v \in InitVals, do_getsem(t, v) PROVE FALSE
  BY <1>1, <1>3 DEF do_getsem, QueueInv
<1> QED BY <1>1, <1>2, <1>3 DEF SemNext, semTaskVars, semVars

LEMMA CallStep ==
  ASSUME TaskInv, QueueInv, ReadFromHeads, ReadFromHeads',
         [SemNext /\ OneWaiter]_semTaskVars
  PROVE  [CallsCount]_semTaskVars
<1> SUFFICES ASSUME OneWaiter, NEW s \in Sem
             PROVE  /\ \A p \in Slot : curr_proc = p /\ do_sem_p(s) => Counting!P(s, p)
                    /\ do_sem_v(s) => Counting!V(s)
  BY DEF CallsCount
<1> QED BY CallsUsed, PCounts, VCounts

\* The semaphores of the kernel are the counting semaphores of the textbook for
\* programs that keep to one waiter at a time: P takes a token or puts its caller
\* to sleep, V keeps the token or wakes one of the queued, in the process table
\* too, and tokens come from nowhere else but from get_sem on an unused semaphore.
THEOREM SoloIsCounting == SoloSpec => CountingSemaphores
<1>1. proc_init /\ sem_init => TaskInv /\ QueueInv
  BY TaskInit DEF sem_init, QueueInv, QueueExact, LinksTyped
<1>2. TaskInv /\ QueueInv /\ [SemNext /\ OneWaiter]_semTaskVars
        => (TaskInv /\ QueueInv)'
  <2>1. [SemNext /\ OneWaiter]_semTaskVars => [SemNext]_semTaskVars
    OBVIOUS
  <2> QED BY <2>1, SemMoves, TaskStep, QueueStep DEF QueueInv
<1>3. proc_init /\ sem_init => Counting!Init
  BY <1>1, HeadsAreRead, CountingInit
<1>4. TaskInv /\ QueueInv => ReadFromHeads
  BY HeadsAreRead
<1>5. TaskInv /\ QueueInv /\ ReadFromHeads /\ ReadFromHeads'
        /\ [SemNext /\ OneWaiter]_semTaskVars
        => [Counting!Next]_<<used, [s \in Sem |-> val[s] + Cardinality(waiters(s))],
                             [s \in Sem |-> waiters(s)],
                             {i \in Slot : status[i] = "WAITING"}>>
  BY CountingStep DEF ReadFromHeads, Sleepers
<1>6. TaskInv /\ QueueInv /\ ReadFromHeads /\ ReadFromHeads'
        /\ [SemNext /\ OneWaiter]_semTaskVars
        => [CallsCount]_semTaskVars
  BY CallStep
<1> QED BY <1>1, <1>2, <1>3, <1>4, <1>5, <1>6, PTL
        DEF SoloSpec, semTaskVars, CountingSemaphores, Counting!Spec, Counting!vars

=============================================================================
