----------------------------- MODULE TaskProofs -----------------------------
(***************************************************************************)
(* The process table keeps its invariants whatever calls processes make,   *)
(* for every size of the table and every length of the time slice.         *)
(*                                                                         *)
(* TaskInv is inductive: proc_pick and proc_switch keep one RUNNING entry  *)
(* only because the running process is curr_proc and is not READY, and     *)
(* fork makes the parent older only because the slots were taken in order. *)
(***************************************************************************)
EXTENDS Task, TLAPS

-----------------------------------------------------------------------------
(* What the scheduler does to statuses st that a handler hands to it.      *)

\* st differs from the table in no slot's being free and has no process
\* RUNNING but the current one.
Fit(st) ==
  /\ st \in [Slot -> Status]
  /\ \A i \in Slot : st[i] = "RUNNING" => i = curr_proc
  /\ \A i \in Slot : st[i] = "NEW" <=> status[i] = "NEW"

\* proc_pick returns NULL only when nothing is READY or RUNNING, and otherwise
\* a process that is one or the other.
LEMMA PickedProcess ==
  ASSUME NEW st, NEW pp, proc_pick(st, pp)
  PROVE  \/ pp \in Slot /\ st[pp] \in {"READY", "RUNNING"}
         \/ pp = NULL /\ \A j \in Slot : st[j] \notin {"READY", "RUNNING"}
<1>1. PICK ci \in Slot \cup {-1} :
        /\ curr_index(st, ci)
        /\ \/ pp \in Slot /\ st[pp] = "READY"
           \/ /\ \A j \in Slot : st[j] # "READY"
              /\ pp = IF ci = -1 THEN NULL ELSE ci
  BY DEF proc_pick
<1>2. CASE pp \in Slot /\ st[pp] = "READY"
  BY <1>2
<1>3. CASE /\ \A j \in Slot : st[j] # "READY"
           /\ pp = IF ci = -1 THEN NULL ELSE ci
  <2>1. CASE ci = -1
    <3>1. -1 \notin Slot
      BY TableAssumption DEF Slot
    <3>2. \A j \in Slot : st[j] # "RUNNING"
      BY <1>1, <2>1, <3>1 DEF curr_index
    <3> QED BY <1>3, <2>1, <3>2
  <2>2. CASE ci # -1
    <3>1. ci \in Slot /\ st[ci] = "RUNNING"
      BY <1>1, <2>2 DEF curr_index
    <3> QED BY <1>3, <2>2, <3>1
  <2> QED BY <2>1, <2>2
<1> QED BY <1>1, <1>2, <1>3

\* schedule_proc leaves a table that fits: one RUNNING process, which is the
\* current one.  Of the others it touches only the one it starts.
LEMMA Scheduled ==
  ASSUME TaskTypeOK, NEW st, Fit(st),
         curr_proc # NULL => st[curr_proc] # "NEW",
         schedule_proc(st)
  PROVE  /\ status' \in [Slot -> Status]
         /\ tick' \in [Slot -> 0 .. MAX_TICK]
         /\ curr_proc' \in Slot \cup {NULL}
         /\ OneRunning'
         /\ CurrNotReady'
         /\ \A i \in Slot : status'[i] = "NEW" <=> status[i] = "NEW"
         /\ \A i \in Slot \ {curr_proc} :
              status'[i] = st[i] \/ (st[i] = "READY" /\ status'[i] = "RUNNING")
         /\ (curr_proc # NULL /\ curr_proc' = curr_proc /\ status'[curr_proc] = "WAITING")
              => \A i \in Slot : status'[i] # "READY"
<1>1. CASE /\ proc_pick(st, NULL)
           /\ status' = st
           /\ UNCHANGED <<tick, curr_proc>>
  <2>1. \A j \in Slot : st[j] \notin {"READY", "RUNNING"}
    BY <1>1, PickedProcess, TableAssumption
  <2> QED BY <1>1, <2>1 DEF TaskTypeOK, Fit, OneRunning, CurrNotReady
<1>2. CASE \E pp \in Slot : proc_pick(st, pp) /\ proc_switch(st, pp)
  <2>1. PICK pp \in Slot : proc_pick(st, pp) /\ proc_switch(st, pp)
    BY <1>2
  <2>2. st[pp] \in {"READY", "RUNNING"}
    BY <2>1, PickedProcess, TableAssumption
  <2>3. /\ status' \in [Slot -> Status]
        /\ tick' \in [Slot -> 0 .. MAX_TICK]
        /\ curr_proc' = pp
    BY <2>1, TableAssumption DEF proc_switch, TaskTypeOK, Fit, Status
  <2>4. status'[pp] = "RUNNING"
    BY <2>1 DEF proc_switch
  <2>5. ASSUME NEW i \in Slot, i # pp
        PROVE  status'[i] = IF i = curr_proc /\ st[i] = "RUNNING"
                            THEN "READY" ELSE st[i]
    BY <2>1, <2>5 DEF proc_switch
  <2>6. OneRunning'
    BY <2>3, <2>5 DEF OneRunning, Fit
  <2>7. CurrNotReady'
    BY <2>3, <2>4 DEF CurrNotReady
  <2>8. \A i \in Slot : status'[i] = "NEW" <=> status[i] = "NEW"
    BY <2>2, <2>4, <2>5 DEF Fit
  <2>9. \A i \in Slot \ {curr_proc} :
          status'[i] = st[i] \/ (st[i] = "READY" /\ status'[i] = "RUNNING")
    BY <2>2, <2>4, <2>5 DEF Fit
  <2> QED BY <2>3, <2>4, <2>6, <2>7, <2>8, <2>9
<1> QED BY <1>1, <1>2 DEF schedule_proc

\* The same for wakeup, which may also make a WAITING process READY first.
LEMMA Woken ==
  ASSUME TaskTypeOK, NEW st, NEW p, Fit(st),
         curr_proc # NULL => st[curr_proc] \notin {"NEW", "READY"},
         wakeup(st, p)
  PROVE  /\ status' \in [Slot -> Status]
         /\ tick' \in [Slot -> 0 .. MAX_TICK]
         /\ curr_proc' \in Slot \cup {NULL}
         /\ OneRunning'
         /\ CurrNotReady'
         /\ \A i \in Slot : status'[i] = "NEW" <=> status[i] = "NEW"
         /\ \A i \in Slot \ {curr_proc} :
              \/ status'[i] = st[i]
              \/ st[i] \in {"READY", "WAITING"} /\ status'[i] = "RUNNING"
              \/ st[i] = "WAITING" /\ status'[i] = "READY"
         /\ (curr_proc # NULL /\ curr_proc' = curr_proc /\ status'[curr_proc] = "WAITING")
              => (st[curr_proc] = "WAITING" \/ \A i \in Slot : status'[i] # "READY")
<1>1. CASE /\ status' = st
           /\ UNCHANGED <<tick, curr_proc>>
  BY <1>1 DEF TaskTypeOK, Fit, OneRunning, CurrNotReady
<1>2. ASSUME NEW w \in Slot, st[w] = "WAITING",
             schedule_proc([st EXCEPT ![w] = "READY"])
      PROVE  /\ status' \in [Slot -> Status]
             /\ tick' \in [Slot -> 0 .. MAX_TICK]
             /\ curr_proc' \in Slot \cup {NULL}
             /\ OneRunning'
             /\ CurrNotReady'
             /\ \A i \in Slot : status'[i] = "NEW" <=> status[i] = "NEW"
             /\ \A i \in Slot \ {curr_proc} :
                  \/ status'[i] = st[i]
                  \/ st[i] \in {"READY", "WAITING"} /\ status'[i] = "RUNNING"
                  \/ st[i] = "WAITING" /\ status'[i] = "READY"
             /\ (curr_proc # NULL /\ curr_proc' = curr_proc /\ status'[curr_proc] = "WAITING")
                  => (st[curr_proc] = "WAITING" \/ \A i \in Slot : status'[i] # "READY")
  <2> DEFINE ready == [st EXCEPT ![w] = "READY"]
  <2>1. /\ ready[w] = "READY"
        /\ \A i \in Slot : i # w => ready[i] = st[i]
    BY <1>2 DEF Fit
  <2>2. Fit(ready)
    BY <1>2, <2>1 DEF Fit, Status
  <2>3. curr_proc # NULL => ready[curr_proc] # "NEW"
    BY <2>1 DEF TaskTypeOK
  <2> HIDE DEF ready
  <2>4. schedule_proc(ready)
    BY <1>2 DEF ready
  <2>5. \A i \in Slot \ {curr_proc} :
          status'[i] = ready[i] \/ (ready[i] = "READY" /\ status'[i] = "RUNNING")
    BY <2>2, <2>3, <2>4, Scheduled
  <2>6. \A i \in Slot \ {curr_proc} :
          \/ status'[i] = st[i]
          \/ st[i] \in {"READY", "WAITING"} /\ status'[i] = "RUNNING"
          \/ st[i] = "WAITING" /\ status'[i] = "READY"
    BY <1>2, <2>1, <2>5
  <2> QED BY <2>2, <2>3, <2>4, <2>6, Scheduled
<1> QED BY <1>1, <1>2 DEF wakeup

-----------------------------------------------------------------------------
(* Handlers that change statuses only.                                     *)

\* A handler may set the status of the caller to anything but NEW and READY.
LEMMA CallerSet ==
  ASSUME TaskInv, curr_proc # NULL,
         NEW x \in {"RUNNING", "WAITING", "TERMINATED"}
  PROVE  LET st == [status EXCEPT ![curr_proc] = x]
         IN /\ Fit(st)
            /\ st[curr_proc] = x
            /\ \A i \in Slot \ {curr_proc} : st[i] = status[i]
BY DEF TaskInv, TaskTypeOK, OneRunning, CurrNotReady, Fit, Status

\* The table itself fits.
LEMMA TableFits == ASSUME TaskInv PROVE Fit(status)
BY DEF TaskInv, TaskTypeOK, OneRunning, Fit

\* What such a handler owes: the rest of TaskInv speaks of fields it leaves.
LEMMA StatusStep ==
  ASSUME TaskInv, UNCHANGED <<pid, parent, curr_pid>>,
         status' \in [Slot -> Status],
         tick' \in [Slot -> 0 .. MAX_TICK],
         curr_proc' \in Slot \cup {NULL},
         OneRunning', CurrNotReady',
         \A i \in Slot : status'[i] = "NEW" <=> status[i] = "NEW"
  PROVE  TaskInv'
BY DEF TaskInv, TaskTypeOK, PidOfSlot, ParentOlder

-----------------------------------------------------------------------------
(* One lemma per handler.                                                  *)

\* proc_alloc takes the slot numbered curr_pid, if the table has one.
LEMMA Allocated ==
  ASSUME TaskInv, NEW c, c \in Slot, proc_alloc(c)
  PROVE  /\ c = curr_pid
         /\ status' = [status EXCEPT ![c] = "READY"]
         /\ curr_pid' = c + 1
         /\ pid' = [pid EXCEPT ![c] = c + 1]
         /\ status' \in [Slot -> Status]
         /\ curr_pid' \in 0 .. MAX_PROCESS
         /\ pid' \in [Slot -> 0 .. MAX_PROCESS]
<1>1. /\ status[c] = "NEW"
      /\ \A j \in Slot : j < c => status[j] # "NEW"
      /\ status' = [status EXCEPT ![c] = "READY"]
      /\ curr_pid' = curr_pid + 1
      /\ pid' = [pid EXCEPT ![c] = curr_pid + 1]
  BY TableAssumption DEF proc_alloc
<1>2. curr_pid <= c
  BY <1>1 DEF TaskInv, PidOfSlot, TaskTypeOK, Slot
<1>3. ~(curr_pid < c)
  <2> SUFFICES ASSUME curr_pid < c PROVE FALSE
    OBVIOUS
  <2>1. curr_pid \in Slot
    BY TableAssumption DEF TaskInv, TaskTypeOK, Slot
  <2>2. status[curr_pid] = "NEW"
    BY <2>1, TableAssumption DEF TaskInv, TaskTypeOK, PidOfSlot, Slot
  <2> QED BY <1>1, <2>1, <2>2
<1>4. c = curr_pid
  BY <1>2, <1>3, TableAssumption DEF TaskInv, TaskTypeOK, Slot
<1>5. c + 1 \in 0 .. MAX_PROCESS
  BY TableAssumption DEF Slot
<1>6. status' \in [Slot -> Status]
  BY <1>1 DEF TaskInv, TaskTypeOK, Status
<1>7. pid' \in [Slot -> 0 .. MAX_PROCESS]
  BY <1>1, <1>4, <1>5 DEF TaskInv, TaskTypeOK
<1> QED BY <1>1, <1>4, <1>5, <1>6, <1>7

\* With a full table, creation changes at most time slices and parents of
\* slots that do not exist.
LEMMA TableFull ==
  ASSUME TaskInv, proc_alloc(NULL)
  PROVE  UNCHANGED <<status, curr_pid, pid>>
BY TableAssumption DEF proc_alloc

LEMMA CreateStep ==
  ASSUME TaskInv, NEW c \in Slot \cup {NULL}, proc_create(c)
  PROVE  TaskInv'
<1>1. CASE c = NULL
  <2>1. UNCHANGED <<status, curr_pid, pid, parent, curr_proc>>
    BY <1>1, TableFull DEF proc_create
  <2>2. tick' \in [Slot -> 0 .. MAX_TICK]
    BY TableAssumption DEF proc_create, reset_time, TaskInv, TaskTypeOK
  <2> QED BY <2>1, <2>2
          DEF TaskInv, TaskTypeOK, OneRunning, CurrNotReady, PidOfSlot, ParentOlder
<1>2. CASE c \in Slot
  <2>1. /\ c = curr_pid
        /\ status' = [status EXCEPT ![c] = "READY"]
        /\ curr_pid' = c + 1
        /\ pid' = [pid EXCEPT ![c] = c + 1]
        /\ status' \in [Slot -> Status]
        /\ curr_pid' \in 0 .. MAX_PROCESS
        /\ pid' \in [Slot -> 0 .. MAX_PROCESS]
        /\ UNCHANGED <<parent, curr_proc>>
        /\ curr_proc = NULL
    BY <1>2, Allocated DEF proc_create
  <2>2. tick' \in [Slot -> 0 .. MAX_TICK]
    BY TableAssumption DEF proc_create, reset_time, TaskInv, TaskTypeOK
  <2>3. TaskTypeOK'
    BY <2>1, <2>2 DEF TaskInv, TaskTypeOK
  <2>4. OneRunning' /\ CurrNotReady'
    BY <2>1 DEF TaskInv, TaskTypeOK, OneRunning, CurrNotReady
  <2>5. PidOfSlot'
    BY <1>2, <2>1, TableAssumption DEF TaskInv, TaskTypeOK, PidOfSlot, Slot
  <2>6. ParentOlder'
    BY <2>1 DEF TaskInv, ParentOlder
  <2> QED BY <2>3, <2>4, <2>5, <2>6 DEF TaskInv
<1> QED BY <1>1, <1>2

\* The new process is younger than its parent, which exists.
LEMMA ForkStep ==
  ASSUME TaskInv, NEW c \in Slot \cup {NULL}, do_fork(c)
  PROVE  TaskInv'
<1>1. /\ tick' \in [Slot -> 0 .. MAX_TICK]
      /\ parent' \in [Slot -> Slot \cup {NULL}]
      /\ curr_proc \in Slot
      /\ curr_proc' = curr_proc
      /\ \A i \in Slot : parent'[i] = IF i = c THEN curr_proc ELSE parent[i]
  BY TableAssumption DEF do_fork, reset_time, TaskInv, TaskTypeOK
<1>2. CASE c = NULL
  <2>1. UNCHANGED <<status, curr_pid, pid>>
    BY <1>2, TableFull DEF do_fork
  <2>2. \A i \in Slot : parent'[i] = parent[i]
    BY <1>1, <1>2, TableAssumption
  <2> QED BY <1>1, <2>1, <2>2
          DEF TaskInv, TaskTypeOK, OneRunning, CurrNotReady, PidOfSlot, ParentOlder
<1>3. CASE c \in Slot
  <2>1. /\ c = curr_pid
        /\ status' = [status EXCEPT ![c] = "READY"]
        /\ curr_pid' = c + 1
        /\ pid' = [pid EXCEPT ![c] = c + 1]
        /\ status' \in [Slot -> Status]
        /\ curr_pid' \in 0 .. MAX_PROCESS
        /\ pid' \in [Slot -> 0 .. MAX_PROCESS]
    BY <1>3, Allocated DEF do_fork
  <2>2. curr_proc < c
    BY <1>1, <2>1, TableAssumption
       DEF TaskInv, TaskTypeOK, CurrNotReady, PidOfSlot, Slot
  <2>3. TaskTypeOK'
    BY <1>1, <2>1 DEF TaskInv, TaskTypeOK
  <2>4. OneRunning' /\ CurrNotReady'
    BY <1>1, <2>1, <2>2 DEF TaskInv, TaskTypeOK, OneRunning, CurrNotReady, Slot
  <2>5. PidOfSlot'
    BY <1>3, <2>1, TableAssumption DEF TaskInv, TaskTypeOK, PidOfSlot, Slot
  <2>6. ParentOlder'
    BY <1>1, <2>2 DEF TaskInv, ParentOlder
  <2> QED BY <2>3, <2>4, <2>5, <2>6 DEF TaskInv
<1> QED BY <1>2, <1>3

LEMMA WaitStep == ASSUME TaskInv, do_wait PROVE TaskInv'
<1> DEFINE st == [status EXCEPT ![curr_proc] = "WAITING"]
<1>1. curr_proc # NULL /\ schedule_proc(st) /\ UNCHANGED <<pid, parent, curr_pid>>
  BY DEF do_wait
<1>2. Fit(st) /\ st[curr_proc] = "WAITING"
  BY <1>1, CallerSet
<1> HIDE DEF st
<1> QED BY <1>1, <1>2, Scheduled, StatusStep DEF TaskInv

LEMMA ExitStep == ASSUME TaskInv, do_exit PROVE TaskInv'
<1> DEFINE st == [status EXCEPT ![curr_proc] = "TERMINATED"]
<1>1. /\ curr_proc # NULL
      /\ UNCHANGED <<pid, parent, curr_pid>>
      /\ \/ wakeup(st, pid[parent[curr_proc]])
         \/ status' = st /\ UNCHANGED <<tick, curr_proc>>
  BY DEF do_exit
<1>2. Fit(st) /\ st[curr_proc] = "TERMINATED"
  BY <1>1, CallerSet
<1> HIDE DEF st
<1>3. CASE wakeup(st, pid[parent[curr_proc]])
  BY <1>1, <1>2, <1>3, Woken, StatusStep DEF TaskInv
<1>4. CASE status' = st /\ UNCHANGED <<tick, curr_proc>>
  BY <1>1, <1>2, <1>4 DEF Fit, TaskInv, TaskTypeOK, OneRunning, CurrNotReady,
                          PidOfSlot, ParentOlder
<1> QED BY <1>1, <1>3, <1>4

LEMMA ReturnStep == ASSUME TaskInv, user_process_return PROVE TaskInv'
BY TableAssumption DEF user_process_return, TaskInv, TaskTypeOK, OneRunning, CurrNotReady,
                       PidOfSlot, ParentOlder, Status

LEMMA WakeStep == ASSUME TaskInv, NEW p, wake(p) PROVE TaskInv'
BY TableFits, Woken, StatusStep DEF wake, TaskInv, CurrNotReady

LEMMA TimerStep == ASSUME TaskInv, pit_handler_main PROVE TaskInv'
<1>1. CASE schedule_proc(status)
  <2>1. curr_proc # NULL => status[curr_proc] # "NEW"
    BY DEF TaskInv, CurrNotReady
  <2> QED BY <1>1, <2>1, TableFits, Scheduled, StatusStep DEF pit_handler_main, TaskInv
<1>2. CASE UNCHANGED <<status, tick, curr_proc>>
  BY <1>2 DEF pit_handler_main, TaskInv, TaskTypeOK, OneRunning, CurrNotReady,
              PidOfSlot, ParentOlder
<1>3. CASE /\ curr_proc # NULL
           /\ tick[curr_proc] > 0
           /\ tick' = [tick EXCEPT ![curr_proc] = @ - 1]
           /\ UNCHANGED <<status, curr_proc>>
  <2>1. tick' \in [Slot -> 0 .. MAX_TICK]
    BY <1>3, TableAssumption DEF TaskInv, TaskTypeOK
  <2> QED BY <1>3, <2>1 DEF pit_handler_main, TaskInv, TaskTypeOK, OneRunning,
                            CurrNotReady, PidOfSlot, ParentOlder
<1> QED BY <1>1, <1>2, <1>3 DEF pit_handler_main

-----------------------------------------------------------------------------
(* The theorems.                                                           *)

LEMMA TaskInit == ASSUME proc_init PROVE TaskInv
BY TableAssumption DEF proc_init, TaskInv, TaskTypeOK, OneRunning, CurrNotReady,
                       PidOfSlot, ParentOlder, Slot, Status

LEMMA TaskStep == ASSUME TaskInv, [TaskNext]_taskVars PROVE TaskInv'
<1>1. CASE \E c \in Slot \cup {NULL} :
             proc_create(c) \/ do_fork(c) \/ do_thread_create(c)
  BY <1>1, CreateStep, ForkStep DEF do_thread_create
<1>2. CASE do_wait \/ do_thread_join
  BY <1>2, WaitStep DEF do_thread_join
<1>3. CASE do_exit \/ do_thread_exit
  BY <1>3, ExitStep DEF do_thread_exit
<1>4. CASE user_process_return
  BY <1>4, ReturnStep
<1>5. CASE \E p \in 0 .. MAX_PROCESS : wake(p)
  BY <1>5, WakeStep
<1>6. CASE pit_handler_main
  BY <1>6, TimerStep
<1>7. CASE UNCHANGED taskVars
  BY <1>7 DEF taskVars, TaskInv, TaskTypeOK, OneRunning, CurrNotReady,
              PidOfSlot, ParentOlder
<1> QED BY <1>1, <1>2, <1>3, <1>4, <1>5, <1>6, <1>7 DEF TaskNext

\* Whatever calls processes make and however the timer interrupts them, the
\* table satisfies all its invariants at once: the inductive strengthening.
THEOREM TaskInvariant == TaskSpec => []TaskInv
<1>1. proc_init => TaskInv
  BY TaskInit
<1>2. TaskInv /\ [TaskNext]_taskVars => TaskInv'
  BY TaskStep
<1> QED BY <1>1, <1>2, PTL DEF TaskSpec

\* Every field of the process table keeps its type.
THEOREM TaskTyped == TaskSpec => []TaskTypeOK
<1>1. TaskInv => TaskTypeOK
  BY DEF TaskInv
<1> QED BY <1>1, TaskInvariant, PTL

\* proc_pick's search for "the" running process has at most one answer, the
\* process on the CPU.
THEOREM OneRunningProcess == TaskSpec => []OneRunning
<1>1. TaskInv => OneRunning
  BY DEF TaskInv
<1> QED BY <1>1, TaskInvariant, PTL

\* The process on the CPU is never READY: the scheduler cannot start it twice.
THEOREM CurrentNotReady == TaskSpec => []CurrNotReady
<1>1. TaskInv => CurrNotReady
  BY DEF TaskInv
<1> QED BY <1>1, TaskInvariant, PTL

\* proc_alloc hands out slot and pid in step, so pids are unique and survive
\* the cut to the uint8_t that wakeup takes.
THEOREM PidsOfSlots == TaskSpec => []PidOfSlot
<1>1. TaskInv => PidOfSlot
  BY DEF TaskInv
<1> QED BY <1>1, TaskInvariant, PTL

\* fork never makes a cycle of parents.
THEOREM ParentsOlder == TaskSpec => []ParentOlder
<1>1. TaskInv => ParentOlder
  BY DEF TaskInv
<1> QED BY <1>1, TaskInvariant, PTL

-----------------------------------------------------------------------------
(* The action properties.                                                  *)

\* Creation makes one NEW slot READY and touches no other status.
LEMMA CreatedStatus ==
  ASSUME TaskInv, NEW c \in Slot \cup {NULL}, proc_alloc(c)
  PROVE  \A i \in Slot :
           status'[i] = status[i] \/ (status[i] = "NEW" /\ status'[i] = "READY")
BY TableAssumption DEF proc_alloc, TaskInv, TaskTypeOK

LEMMA HandlerMoves ==
  ASSUME TaskInv, [TaskNext]_taskVars
  PROVE  OffCpuMove /\ BlockYields
<1> USE DEF OffCpuMove, BlockYields
<1>1. ASSUME NEW c \in Slot \cup {NULL},
             proc_create(c) \/ do_fork(c) \/ do_thread_create(c)
      PROVE  OffCpuMove /\ BlockYields
  <2>1. proc_alloc(c) /\ curr_proc' = curr_proc
    BY <1>1 DEF proc_create, do_fork, do_thread_create
  <2>2. curr_proc # NULL => status'[curr_proc] = status[curr_proc]
    BY <2>1, CreatedStatus DEF TaskInv, TaskTypeOK, CurrNotReady
  <2> QED BY <2>1, <2>2, CreatedStatus
<1>2. CASE do_wait \/ do_thread_join
  <2> DEFINE st == [status EXCEPT ![curr_proc] = "WAITING"]
  <2>1. curr_proc # NULL /\ schedule_proc(st)
    BY <1>2 DEF do_wait, do_thread_join
  <2>2. /\ Fit(st)
        /\ st[curr_proc] = "WAITING"
        /\ \A i \in Slot \ {curr_proc} : st[i] = status[i]
    BY <2>1, CallerSet
  <2> HIDE DEF st
  <2> QED BY <2>1, <2>2, Scheduled DEF TaskInv
<1>3. CASE do_exit \/ do_thread_exit
  <2> DEFINE st == [status EXCEPT ![curr_proc] = "TERMINATED"]
  <2>1. /\ curr_proc # NULL
        /\ \/ wakeup(st, pid[parent[curr_proc]])
           \/ status' = st
    BY <1>3 DEF do_exit, do_thread_exit
  <2>2. /\ Fit(st)
        /\ st[curr_proc] = "TERMINATED"
        /\ \A i \in Slot \ {curr_proc} : st[i] = status[i]
    BY <2>1, CallerSet
  <2> HIDE DEF st
  <2>3. CASE wakeup(st, pid[parent[curr_proc]])
    BY <2>1, <2>2, <2>3, Woken DEF TaskInv
  <2>4. CASE status' = st
    BY <2>2, <2>4
  <2> QED BY <2>1, <2>3, <2>4
<1>4. CASE user_process_return
  BY <1>4 DEF user_process_return, TaskInv, TaskTypeOK
<1>5. ASSUME NEW p, wake(p) PROVE OffCpuMove /\ BlockYields
  BY <1>5, TableFits, Woken DEF wake, TaskInv, CurrNotReady
<1>6. CASE pit_handler_main
  <2>1. CASE schedule_proc(status)
    BY <2>1, TableFits, Scheduled DEF TaskInv, CurrNotReady
  <2>2. CASE UNCHANGED <<status, curr_proc>>
    BY <2>2
  <2> QED BY <1>6, <2>1, <2>2 DEF pit_handler_main
<1>7. CASE UNCHANGED taskVars
  BY <1>7 DEF taskVars
<1> QED BY <1>1, <1>2, <1>3, <1>4, <1>5, <1>6, <1>7 DEF TaskNext

\* Off the CPU a process follows the five-state diagram, whoever calls what.
THEOREM OffCpuSteps == TaskSpec => OffCpuStep
<1>1. TaskInv /\ [TaskNext]_taskVars => [OffCpuMove]_taskVars
  BY HandlerMoves
<1> QED BY <1>1, TaskInvariant, PTL DEF TaskSpec, OffCpuStep

\* wait, join and P return to a caller that is WAITING only when no process
\* is left that could run instead.
THEOREM BlockedYield == TaskSpec => BlockedYields
<1>1. TaskInv /\ [TaskNext]_taskVars => [BlockYields]_taskVars
  BY HandlerMoves
<1> QED BY <1>1, TaskInvariant, PTL DEF TaskSpec, BlockedYields

-----------------------------------------------------------------------------
(* What the programs' proofs ask of the handlers: who sleeps, who is gone. *)

Waiting(i) == status[i] = "WAITING"
Asleep(i) == Waiting(i) /\ curr_proc # i
Dead(i) == status[i] = "TERMINATED"

\* A process that is WAITING keeps the CPU only while nobody else can have it.
IdleWait ==
  curr_proc # NULL /\ status[curr_proc] = "WAITING" => \A i \in Slot : status[i] # "READY"

Kernel == TaskInv /\ IdleWait

\* schedule_proc starts a READY process, if there is one, and demotes whoever
\* was RUNNING; all the others keep their status.
LEMMA Switched ==
  ASSUME TaskTypeOK, NEW st, Fit(st), schedule_proc(st)
  PROVE  /\ \A i \in Slot :
              \/ status'[i] = st[i]
              \/ st[i] = "READY" /\ status'[i] = "RUNNING"
              \/ st[i] = "RUNNING" /\ status'[i] = "READY"
         /\ \/ /\ UNCHANGED curr_proc
               /\ status' = st
               /\ \A i \in Slot : st[i] # "READY"
            \/ /\ curr_proc' \in Slot
               /\ st[curr_proc'] = "READY" /\ status'[curr_proc'] = "RUNNING"
            \/ /\ curr_proc' \in Slot
               /\ st[curr_proc'] = "RUNNING" /\ status'[curr_proc'] = "RUNNING"
               /\ \A i \in Slot : st[i] # "READY"
<1>1. CASE proc_pick(st, NULL) /\ status' = st /\ UNCHANGED <<tick, curr_proc>>
  BY <1>1, PickedProcess, TableAssumption
<1>2. ASSUME NEW pp \in Slot, proc_pick(st, pp), proc_switch(st, pp)
      PROVE  /\ \A i \in Slot :
                  \/ status'[i] = st[i]
                  \/ st[i] = "READY" /\ status'[i] = "RUNNING"
                  \/ st[i] = "RUNNING" /\ status'[i] = "READY"
             /\ curr_proc' = pp /\ status'[pp] = "RUNNING"
             /\ \/ st[pp] = "READY"
                \/ st[pp] = "RUNNING" /\ \A i \in Slot : st[i] # "READY"
  <2>1. st[pp] = "READY" \/ (st[pp] = "RUNNING" /\ \A i \in Slot : st[i] # "READY")
    BY <1>2, PickedProcess, TableAssumption DEF proc_pick
  <2>2. \A i \in Slot : status'[i] = IF i = pp THEN "RUNNING"
                                     ELSE IF i = curr_proc /\ st[i] = "RUNNING" THEN "READY"
                                     ELSE st[i]
    BY <1>2 DEF proc_switch
  <2> QED BY <1>2, <2>1, <2>2 DEF proc_switch
<1> QED BY <1>1, <1>2 DEF schedule_proc

\* The timer puts nobody to sleep, wakes nobody and ends nobody.
LEMMA TimerEffect ==
  ASSUME Kernel, pit_handler_main
  PROVE  /\ Kernel' /\ UNCHANGED curr_pid
         /\ \A i \in Slot : /\ Asleep(i)' <=> Asleep(i)
                            /\ Waiting(i)' <=> Waiting(i)
                            /\ Dead(i)' <=> Dead(i)
<1> USE DEF Kernel, IdleWait, Asleep, Waiting, Dead
<1>1. TaskInv' /\ UNCHANGED curr_pid
  BY TimerStep DEF pit_handler_main
<1>2. CASE UNCHANGED <<status, curr_proc>>
  BY <1>1, <1>2
<1>3. CASE schedule_proc(status)
  <2>1. Fit(status) /\ TaskTypeOK
    BY TableFits DEF TaskInv
  <2>2. \A i \in Slot : status[i] \in Status
    BY <2>1 DEF TaskTypeOK
  <2> QED BY <1>1, <1>3, <2>1, <2>2, Switched, TableAssumption DEF TaskInv, OneRunning
<1> QED BY <1>2, <1>3 DEF pit_handler_main

LEMMA ReturnEffect ==
  ASSUME Kernel, NEW me \in Slot, curr_proc = me, user_process_return
  PROVE  /\ Kernel' /\ UNCHANGED curr_pid
         /\ \A i \in Slot : /\ Asleep(i)' <=> Asleep(i)
                            /\ Waiting(i)' <=> Waiting(i) /\ i # me
                            /\ Dead(i)' <=> Dead(i) \/ i = me
BY ReturnStep, TableAssumption
   DEF Kernel, IdleWait, Asleep, Waiting, Dead, user_process_return, TaskInv, TaskTypeOK

\* A caller that blocks sleeps if anybody is READY.
LEMMA WaitEffect ==
  ASSUME Kernel, NEW me \in Slot, curr_proc = me, do_wait
  PROVE  /\ Kernel' /\ UNCHANGED curr_pid
         /\ \A i \in Slot : /\ Waiting(i)' <=> Waiting(i) \/ i = me
                            /\ Dead(i)' <=> Dead(i) /\ i # me
         /\ \A i \in Slot \ {me} : Asleep(i)' <=> Asleep(i)
         /\ Asleep(me)' <=> \E i \in Slot : status[i] = "READY"
<1> DEFINE st == [status EXCEPT ![me] = "WAITING"]
<1>1. TaskInv' /\ UNCHANGED curr_pid /\ schedule_proc(st)
  BY WaitStep DEF Kernel, do_wait
<1>2. /\ Fit(st) /\ st[me] = "WAITING"
      /\ \A i \in Slot \ {me} : st[i] = status[i]
      /\ status[me] # "READY" /\ TaskTypeOK
      /\ \A i \in Slot : st[i] # "RUNNING"
  BY CallerSet, TableAssumption DEF Kernel, TaskInv, CurrNotReady, OneRunning, TaskTypeOK
<1> HIDE DEF st
<1> QED BY <1>1, <1>2, Switched, TableAssumption DEF Kernel, IdleWait, Asleep, Waiting, Dead

\* wakeup either finds nobody or gives one WAITING process its turn: with that
\* one READY, the process that runs next is RUNNING.
LEMMA WokenOne ==
  ASSUME TaskTypeOK, NEW st, Fit(st), NEW p, wakeup(st, p)
  PROVE  \/ /\ status' = st /\ UNCHANGED curr_proc
            /\ \A i \in Slot : ~(pid[i] = p % 256 /\ st[i] = "WAITING")
         \/ \E w \in Slot :
              /\ pid[w] = p % 256 /\ st[w] = "WAITING"
              /\ status'[w] \in {"READY", "RUNNING"}
              /\ \A i \in Slot \ {w} :
                   \/ status'[i] = st[i]
                   \/ st[i] = "READY" /\ status'[i] = "RUNNING"
                   \/ st[i] = "RUNNING" /\ status'[i] = "READY"
              /\ curr_proc' \in Slot /\ status'[curr_proc'] = "RUNNING"
<1>1. ASSUME NEW w \in Slot, pid[w] = p % 256, st[w] = "WAITING",
             schedule_proc([st EXCEPT ![w] = "READY"])
      PROVE  /\ status'[w] \in {"READY", "RUNNING"}
             /\ \A i \in Slot \ {w} :
                  \/ status'[i] = st[i]
                  \/ st[i] = "READY" /\ status'[i] = "RUNNING"
                  \/ st[i] = "RUNNING" /\ status'[i] = "READY"
             /\ curr_proc' \in Slot /\ status'[curr_proc'] = "RUNNING"
  <2> DEFINE ready == [st EXCEPT ![w] = "READY"]
  <2>1. /\ ready[w] = "READY"
        /\ \A i \in Slot \ {w} : ready[i] = st[i]
    BY <1>1 DEF Fit
  <2>2. Fit(ready)
    BY <1>1, <2>1 DEF Fit, Status
  <2>3. schedule_proc(ready)
    BY <1>1
  <2> HIDE DEF ready
  <2> QED BY <2>1, <2>2, <2>3, Switched
<1> QED BY <1>1 DEF wakeup

\* Whatever pid a process hands to wakeup, at most one process wakes, and none
\* but a caller that was WAITING already falls asleep.
LEMMA WakeEffect ==
  ASSUME Kernel, NEW me \in Slot, curr_proc = me, NEW p, wake(p)
  PROVE  /\ Kernel' /\ UNCHANGED curr_pid
         /\ \A i \in Slot : Dead(i)' <=> Dead(i)
         /\ \/ \A i \in Slot : /\ Asleep(i)' <=> Asleep(i)
                               /\ Waiting(i)' <=> Waiting(i)
                               /\ ~(Waiting(i) /\ pid[i] = p % 256)
            \/ \E w \in Slot :
                 /\ Waiting(w) /\ pid[w] = p % 256
                 /\ \A i \in Slot : Waiting(i)' <=> Waiting(i) /\ i # w
                 /\ \A i \in Slot \ {me} : Asleep(i)' <=> Asleep(i) /\ i # w
<1>1. TaskInv' /\ UNCHANGED curr_pid /\ wakeup(status, p) /\ Fit(status) /\ TaskTypeOK
  BY WakeStep, TableFits DEF Kernel, wake, TaskInv
<1>2. CASE /\ status' = status /\ UNCHANGED curr_proc
           /\ \A i \in Slot : ~(pid[i] = p % 256 /\ status[i] = "WAITING")
  BY <1>1, <1>2 DEF Kernel, IdleWait, Asleep, Waiting, Dead
<1>3. ASSUME NEW w \in Slot,
             /\ pid[w] = p % 256 /\ status[w] = "WAITING"
             /\ status'[w] \in {"READY", "RUNNING"}
             /\ \A i \in Slot \ {w} :
                  \/ status'[i] = status[i]
                  \/ status[i] = "READY" /\ status'[i] = "RUNNING"
                  \/ status[i] = "RUNNING" /\ status'[i] = "READY"
             /\ curr_proc' \in Slot /\ status'[curr_proc'] = "RUNNING"
      PROVE  /\ Kernel' /\ UNCHANGED curr_pid
             /\ \A i \in Slot : Dead(i)' <=> Dead(i)
             /\ \A i \in Slot : Waiting(i)' <=> Waiting(i) /\ i # w
             /\ \A i \in Slot \ {me} : Asleep(i)' <=> Asleep(i) /\ i # w
  BY <1>1, <1>3 DEF Kernel, IdleWait, Asleep, Waiting, Dead
<1> QED BY <1>1, <1>2, <1>3, WokenOne DEF Waiting

\* exit ends the caller; the one it may wake is its parent.
LEMMA ExitEffect ==
  ASSUME Kernel, NEW me \in Slot, curr_proc = me, NEW par, par = parent[me], do_exit
  PROVE  /\ Kernel' /\ UNCHANGED curr_pid
         /\ \A i \in Slot : Dead(i)' <=> Dead(i) \/ i = me
         /\ \A i \in Slot : Waiting(i)' <=> Waiting(i) /\ i \notin {me, par}
         /\ \A i \in Slot : Asleep(i)' <=> Asleep(i) /\ i # par
<1> DEFINE st == [status EXCEPT ![me] = "TERMINATED"]
<1>1. /\ TaskInv' /\ UNCHANGED curr_pid /\ TaskTypeOK
      /\ \/ par # NULL /\ wakeup(st, pid[par])
         \/ par = NULL /\ status' = st /\ UNCHANGED curr_proc
  BY ExitStep DEF Kernel, do_exit, TaskInv
<1>2. /\ Fit(st) /\ st[me] = "TERMINATED"
      /\ \A i \in Slot \ {me} : st[i] = status[i]
  BY CallerSet, TableAssumption DEF Kernel
<1>3. par \in Slot \cup {NULL}
  BY DEF Kernel, TaskInv, TaskTypeOK
<1>4. \A w \in Slot : par \in Slot /\ st[w] = "WAITING" /\ pid[w] = pid[par] % 256 => w = par
  <2> SUFFICES ASSUME NEW w \in Slot, par \in Slot, st[w] = "WAITING", pid[w] = pid[par] % 256
               PROVE  w = par
    OBVIOUS
  <2>1. status[w] # "NEW"
    BY <1>2
  <2>2. pid[w] = w + 1 /\ pid[par] \in {0, par + 1}
    BY <2>1 DEF Kernel, TaskInv, PidOfSlot
  <2>3. pid[par] \in 0 .. 255
    BY TableAssumption DEF Kernel, TaskInv, TaskTypeOK
  <2>4. pid[par] % 256 = pid[par]
    BY <2>3
  <2> QED BY <2>2, <2>4, TableAssumption DEF Slot
<1> HIDE DEF st
<1>7. CASE status' = st /\ UNCHANGED curr_proc /\ (par \in Slot => st[par] # "WAITING")
  BY <1>1, <1>2, <1>7 DEF Kernel, IdleWait, Asleep, Waiting, Dead
<1>8. ASSUME NEW w \in Slot,
             /\ w = par /\ st[w] = "WAITING"
             /\ status'[w] \in {"READY", "RUNNING"}
             /\ \A i \in Slot \ {w} :
                  \/ status'[i] = st[i]
                  \/ st[i] = "READY" /\ status'[i] = "RUNNING"
                  \/ st[i] = "RUNNING" /\ status'[i] = "READY"
             /\ curr_proc' \in Slot /\ status'[curr_proc'] = "RUNNING"
      PROVE  /\ Kernel' /\ UNCHANGED curr_pid
             /\ \A i \in Slot : Dead(i)' <=> Dead(i) \/ i = me
             /\ \A i \in Slot : Waiting(i)' <=> Waiting(i) /\ i \notin {me, par}
             /\ \A i \in Slot : Asleep(i)' <=> Asleep(i) /\ i # par
  BY <1>1, <1>2, <1>8 DEF Kernel, IdleWait, Asleep, Waiting, Dead
<1>6. CASE par = NULL
  BY <1>1, <1>6, <1>7, TableAssumption
<1>9. CASE par \in Slot
  <2>1. wakeup(st, pid[par])
    BY <1>1, <1>9, TableAssumption
  <2>2. pid[par] % 256 = pid[par]
    BY <1>9, TableAssumption DEF Kernel, TaskInv, TaskTypeOK
  <2> QED BY <1>1, <1>2, <1>4, <1>7, <1>8, <1>9, <2>1, <2>2, WokenOne
<1> QED BY <1>3, <1>6, <1>9

\* A child of a caller that is not WAITING is awake.
LEMMA ForkEffect ==
  ASSUME Kernel, NEW me \in Slot, curr_proc = me, status[me] # "WAITING",
         NEW c \in Slot, do_fork(c)
  PROVE  /\ Kernel' /\ UNCHANGED curr_proc
         /\ c = curr_pid /\ curr_pid' = c + 1
         /\ parent' = [parent EXCEPT ![c] = me]
         /\ \A i \in Slot : /\ Asleep(i)' <=> Asleep(i)
                            /\ Waiting(i)' <=> Waiting(i)
                            /\ Dead(i)' <=> Dead(i)
<1>1. TaskInv' /\ TaskInv
  BY ForkStep DEF Kernel
<1>2. /\ c = curr_pid /\ curr_pid' = c + 1
      /\ status' = [status EXCEPT ![c] = "READY"]
      /\ UNCHANGED curr_proc
  BY <1>1, Allocated DEF do_fork
<1>3. status[c] = "NEW" /\ status[me] # "NEW"
  BY <1>1, <1>2, TableAssumption DEF TaskInv, PidOfSlot, CurrNotReady, Slot
<1>4. parent' = [parent EXCEPT ![c] = me]
  BY <1>1 DEF do_fork, TaskInv, TaskTypeOK
<1> QED BY <1>1, <1>2, <1>3, <1>4 DEF Kernel, IdleWait, Asleep, Waiting, Dead, TaskInv, TaskTypeOK

\* Off the CPU, a process that exists and neither sleeps nor has ended is READY.
LEMMA AwakeReady ==
  ASSUME Kernel, NEW i \in Slot, i < curr_pid, curr_proc # i, ~Asleep(i), ~Dead(i)
  PROVE  status[i] = "READY"
BY DEF Kernel, TaskInv, TaskTypeOK, OneRunning, PidOfSlot, Asleep, Waiting, Dead, Status

\* Who is on the CPU exists.
LEMMA CallerExists ==
  ASSUME Kernel, NEW me \in Slot, curr_proc = me
  PROVE  me < curr_pid /\ ~Asleep(me)
BY TableAssumption DEF Kernel, TaskInv, PidOfSlot, CurrNotReady, Asleep

=============================================================================
