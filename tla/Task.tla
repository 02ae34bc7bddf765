-------------------------------- MODULE Task --------------------------------
(***************************************************************************)
(* The process table and the scheduler of CHZOS (include/task.h, and the   *)
(* process part of include/systhread.h).                                   *)
(*                                                                         *)
(* One CPU runs either the shell, which is kernel code and not a process   *)
(* (curr_proc = NULL), or the process curr_proc.  Every system call and    *)
(* the timer handler start with cli and leave with iretd, so each is one   *)
(* atomic step.  A handler that reaches proc_switch never comes back: the  *)
(* switch leaves through restart_proc, and the process that was switched   *)
(* out continues, when it is picked again, behind its `int` instruction.   *)
(*                                                                         *)
(* C functions that call one another change the table several times in a   *)
(* step.  The ones that are called with a table already modified take its  *)
(* current statuses as the argument st and fix the primed variables.       *)
(*                                                                         *)
(* Left to other modules: registers and stacks (data no property here      *)
(* tells apart), the `next` link (Semaphore), the terminal of a process.   *)
(***************************************************************************)
EXTENDS Integers

CONSTANTS
  MAX_PROCESS,  \* slots of proc_list; 20 in the source
  MAX_TICK,     \* timer ticks a process keeps the CPU; 1 in the source
  NULL          \* the null process pointer

Slot == 0 .. MAX_PROCESS - 1

\* wakeup receives a pid in a uint8_t, so the table must stay below 256.
ASSUME TableAssumption ==
  /\ MAX_PROCESS \in 1 .. 255
  /\ MAX_TICK \in Nat
  /\ NULL \notin Slot

Status == {"NEW", "READY", "RUNNING", "WAITING", "TERMINATED"}

VARIABLES
  status,     \* proc_list[i].status
  pid,        \* proc_list[i].pid, 0 while the slot is NEW
  parent,     \* proc_list[i].parent, a slot or NULL
  tick,       \* proc_list[i].tick, what is left of the time slice
  curr_proc,  \* slot of the process on the CPU, NULL while the shell runs
  curr_pid    \* the last pid handed out

taskVars == <<status, pid, parent, tick, curr_proc, curr_pid>>

proc_init ==
  /\ status = [i \in Slot |-> "NEW"]
  /\ pid = [i \in Slot |-> 0]
  /\ parent = [i \in Slot |-> NULL]
  /\ tick = [i \in Slot |-> 0]
  /\ curr_proc = NULL
  /\ curr_pid = 0

-----------------------------------------------------------------------------
(* The scheduler.                                                          *)

\* Faulty: every scan starts at slot 0, whoever runs.
curr_index_forgotten(st, ci) == ci = -1

\* ci is the slot of the first RUNNING process in st, -1 if there is none.
curr_index(st, ci) ==
  \/ /\ ci \in Slot
     /\ st[ci] = "RUNNING"
     /\ \A j \in Slot : st[j] = "RUNNING" => ci <= j
  \/ /\ ci = -1
     /\ \A j \in Slot : st[j] # "RUNNING"

\* The iteration of the scan, from the slot after ci, that meets slot i.
scan_pos(i, ci) == (i - 1 - ci) % MAX_PROCESS

\* Faulty: the scan ends one slot early.
proc_pick_short(st, pp) ==
  \E ci \in Slot \cup {-1} :
    LET seen == {i \in Slot : st[i] = "READY" /\ scan_pos(i, ci) < MAX_PROCESS - 1}
    IN  /\ curr_index(st, ci)
        /\ \/ /\ pp \in seen
              /\ \A j \in seen : scan_pos(pp, ci) <= scan_pos(j, ci)
           \/ seen = {} /\ pp = IF ci = -1 THEN NULL ELSE ci

\* pp is what proc_pick returns when the statuses are st.
proc_pick(st, pp) ==
  \E ci \in Slot \cup {-1} :
    /\ curr_index(st, ci)
    /\ \/ /\ pp \in Slot
          /\ st[pp] = "READY"
          /\ \A j \in Slot :
               st[j] = "READY" => scan_pos(pp, ci) <= scan_pos(j, ci)
       \/ /\ \A j \in Slot : st[j] # "READY"
          /\ pp = IF ci = -1 THEN NULL ELSE ci

\* Faulty: the process that is replaced stays RUNNING.
proc_switch_no_demotion(st, pp) ==
  /\ status' = [st EXCEPT ![pp] = "RUNNING"]
  /\ tick' = [tick EXCEPT ![pp] = MAX_TICK]
  /\ curr_proc' = pp

\* Faulty: demotes curr_proc after it has promoted pp, which may be the same.
proc_switch_demotes_last(st, pp) ==
  /\ status' = [i \in Slot |->
                  CASE i = curr_proc /\ (i = pp \/ st[i] = "RUNNING") -> "READY"
                    [] i # curr_proc /\ i = pp -> "RUNNING"
                    [] OTHER -> st[i]]
  /\ tick' = [tick EXCEPT ![pp] = MAX_TICK]
  /\ curr_proc' = pp

\* READY -> RUNNING for pp, RUNNING -> READY for the process it replaces.
proc_switch(st, pp) ==
  /\ status' = [i \in Slot |->
                  CASE i = pp -> "RUNNING"
                    [] i # pp /\ i = curr_proc /\ st[i] = "RUNNING" -> "READY"
                    [] OTHER -> st[i]]
  /\ tick' = [tick EXCEPT ![pp] = MAX_TICK]
  /\ curr_proc' = pp

schedule_proc(st) ==
  \/ /\ proc_pick(st, NULL)
     /\ status' = st
     /\ UNCHANGED <<tick, curr_proc>>
  \/ \E pp \in Slot : proc_pick(st, pp) /\ proc_switch(st, pp)

\* Faulty: wakes whoever has the pid, blocked or not.
wakeup_unchecked(st, p) ==
  \/ \E i \in Slot :
       /\ pid[i] = p % 256
       /\ \A j \in Slot : j < i => pid[j] # p % 256
       /\ schedule_proc([st EXCEPT ![i] = "READY"])
  \/ /\ \A i \in Slot : pid[i] # p % 256
     /\ status' = st
     /\ UNCHANGED <<tick, curr_proc>>

\* The first WAITING process whose pid is p, cut to a uint8_t, becomes READY
\* and the scheduler runs; without such a process nothing happens.
wakeup(st, p) ==
  \/ \E i \in Slot :
       /\ pid[i] = p % 256 /\ st[i] = "WAITING"
       /\ \A j \in Slot : j < i => ~(pid[j] = p % 256 /\ st[j] = "WAITING")
       /\ schedule_proc([st EXCEPT ![i] = "READY"])
  \/ /\ \A i \in Slot : ~(pid[i] = p % 256 /\ st[i] = "WAITING")
     /\ status' = st
     /\ UNCHANGED <<tick, curr_proc>>

-----------------------------------------------------------------------------
(* Creation: c is the slot taken, NULL when the table is full.             *)

\* Faulty: pid = curr_pid++ where the code increments first.
proc_alloc_old_pid(c) ==
  \/ /\ c \in Slot
     /\ status[c] = "NEW"
     /\ \A j \in Slot : j < c => status[j] # "NEW"
     /\ status' = [status EXCEPT ![c] = "READY"]
     /\ curr_pid' = curr_pid + 1
     /\ pid' = [pid EXCEPT ![c] = curr_pid]
  \/ /\ c = NULL
     /\ \A j \in Slot : status[j] # "NEW"
     /\ UNCHANGED <<status, curr_pid, pid>>

\* Faulty: takes the slots of TERMINATED processes again.
proc_alloc_reuse(c) ==
  LET free == {i \in Slot : status[i] \in {"NEW", "TERMINATED"}}
  IN \/ /\ c \in free
        /\ \A j \in free : c <= j
        /\ status' = [status EXCEPT ![c] = "READY"]
        /\ curr_pid' = curr_pid + 1
        /\ pid' = [pid EXCEPT ![c] = curr_pid + 1]
     \/ c = NULL /\ free = {} /\ UNCHANGED <<status, curr_pid, pid>>

proc_alloc(c) ==
  \/ /\ c \in Slot
     /\ status[c] = "NEW"
     /\ \A j \in Slot : j < c => status[j] # "NEW"
     /\ status' = [status EXCEPT ![c] = "READY"]
     /\ curr_pid' = curr_pid + 1
     /\ pid' = [pid EXCEPT ![c] = curr_pid + 1]
  \/ /\ c = NULL
     /\ \A j \in Slot : status[j] # "NEW"
     /\ UNCHANGED <<status, curr_pid, pid>>

reset_time(c) == tick' = [i \in Slot |-> IF i = c THEN MAX_TICK ELSE tick[i]]

\* The shell creates a process.  It does not look at proc_alloc's answer; on
\* a full table it fills in the null PCB, low memory that nothing reads.
proc_create(c) ==
  /\ curr_proc = NULL
  /\ proc_alloc(c)
  /\ reset_time(c)
  /\ UNCHANGED <<parent, curr_proc>>

\* fork, and pthread_create with its own entry point and stack: the same PCB.
do_fork(c) ==
  /\ curr_proc # NULL
  /\ proc_alloc(c)
  /\ parent' = [i \in Slot |-> IF i = c THEN curr_proc ELSE parent[i]]
  /\ reset_time(c)
  /\ UNCHANGED curr_proc

do_thread_create(c) == do_fork(c)

-----------------------------------------------------------------------------
(* Blocking, exit and the timer.                                           *)

\* Faulty: yields without blocking.
do_wait_yield ==
  /\ curr_proc # NULL
  /\ schedule_proc(status)
  /\ UNCHANGED <<pid, parent, curr_pid>>

\* Blocks the caller, unless nothing is READY: then schedule_proc returns and
\* so does the call, with the caller on the CPU and WAITING in the table.
do_wait ==
  /\ curr_proc # NULL
  /\ schedule_proc([status EXCEPT ![curr_proc] = "WAITING"])
  /\ UNCHANGED <<pid, parent, curr_pid>>

\* pthread_join looks at neither of its arguments.
do_thread_join == do_wait

\* Faulty: exit tells nobody.
do_exit_silent ==
  /\ curr_proc # NULL
  /\ status' = [status EXCEPT ![curr_proc] = "TERMINATED"]
  /\ UNCHANGED <<pid, parent, tick, curr_proc, curr_pid>>

\* exit wakes the parent if it is WAITING.  Otherwise the call returns, and
\* the TERMINATED process runs on until the timer takes the CPU from it.
do_exit ==
  /\ curr_proc # NULL
  /\ LET st == [status EXCEPT ![curr_proc] = "TERMINATED"]
         par == parent[curr_proc]
     IN \/ /\ par # NULL
           /\ wakeup(st, pid[par])
        \/ /\ par = NULL
           /\ status' = st
           /\ UNCHANGED <<tick, curr_proc>>
  /\ UNCHANGED <<pid, parent, curr_pid>>

\* Faulty: a thread ends as main does at its return, and wakes nobody.
do_thread_exit_silent == do_exit_silent

\* The same, and when the call comes back user_process_return follows it.
do_thread_exit == do_exit

\* Faulty: curr_proc still points to the process that is gone.
user_process_return_stale ==
  /\ curr_proc # NULL
  /\ status' = [status EXCEPT ![curr_proc] = "TERMINATED"]
  /\ UNCHANGED <<pid, parent, tick, curr_proc, curr_pid>>

\* int 0x80 with 100, where main returns to: back to a fresh shell loop.
user_process_return ==
  /\ curr_proc # NULL
  /\ status' = [status EXCEPT ![curr_proc] = "TERMINATED"]
  /\ curr_proc' = NULL
  /\ UNCHANGED <<pid, parent, tick, curr_pid>>

\* A kernel service, here the semaphores, wakes pid p for the caller.
wake(p) ==
  /\ curr_proc # NULL
  /\ wakeup(status, p)
  /\ UNCHANGED <<pid, parent, curr_pid>>

\* Faulty: a slice that is used up is counted down once more.
pit_handler_main_late ==
  /\ IF curr_proc # NULL /\ tick[curr_proc] >= 0
     THEN /\ tick' = [tick EXCEPT ![curr_proc] = @ - 1]
          /\ UNCHANGED <<status, curr_proc>>
     ELSE schedule_proc(status)
  /\ UNCHANGED <<pid, parent, curr_pid>>

pit_handler_main ==
  /\ \/ /\ curr_proc = NULL   \* the shell: a switch does not save it
        /\ IF curr_pid # 0
           THEN schedule_proc(status)
           ELSE UNCHANGED <<status, tick, curr_proc>>
     \/ /\ curr_proc # NULL
        /\ tick[curr_proc] > 0
        /\ tick' = [tick EXCEPT ![curr_proc] = @ - 1]
        /\ UNCHANGED <<status, curr_proc>>
     \/ /\ curr_proc # NULL
        /\ tick[curr_proc] = 0
        /\ schedule_proc(status)
  /\ UNCHANGED <<pid, parent, curr_pid>>

-----------------------------------------------------------------------------
(* The table under every sequence of calls that processes can make.        *)

TaskNext ==
  \/ \E c \in Slot \cup {NULL} :
       proc_create(c) \/ do_fork(c) \/ do_thread_create(c)
  \/ do_wait \/ do_thread_join
  \/ do_exit \/ do_thread_exit
  \/ user_process_return
  \/ \E p \in 0 .. MAX_PROCESS : wake(p)
  \/ pit_handler_main

TaskSpec == proc_init /\ [][TaskNext]_taskVars

-----------------------------------------------------------------------------
(* Properties.                                                             *)

\* Every field of the table keeps its type.
TaskTypeOK ==
  /\ status \in [Slot -> Status]
  /\ pid \in [Slot -> 0 .. MAX_PROCESS]
  /\ parent \in [Slot -> Slot \cup {NULL}]
  /\ tick \in [Slot -> 0 .. MAX_TICK]
  /\ curr_proc \in Slot \cup {NULL}
  /\ curr_pid \in 0 .. MAX_PROCESS

\* Whoever is RUNNING in the table is the process on the CPU.  proc_pick
\* starts its scan behind the first RUNNING entry and relies on it.
OneRunning == \A i \in Slot : status[i] = "RUNNING" => i = curr_proc

\* The process on the CPU is in no state from which proc_pick or proc_alloc
\* could hand it out a second time.
CurrNotReady == curr_proc # NULL => status[curr_proc] \notin {"NEW", "READY"}

\* Slots are taken in order and never again, so pids are the slot numbers
\* plus one: no two processes share one, and none outgrows wakeup's uint8_t.
PidOfSlot ==
  \A i \in Slot :
    IF i < curr_pid THEN status[i] # "NEW" /\ pid[i] = i + 1
                    ELSE status[i] = "NEW" /\ pid[i] = 0

\* A parent is an older process: following `parent` ends at a process of the
\* shell, and do_exit reads the pid of a process that exists.
ParentOlder == \A i \in Slot : parent[i] # NULL => parent[i] < i

TaskInv == TaskTypeOK /\ OneRunning /\ CurrNotReady /\ PidOfSlot /\ ParentOlder

\* The five-state diagram above PROC_STATUS, for the processes that are not on
\* the CPU: nobody else's call can block, stop, restart or free one of them.
OffCpuMove ==
  \A i \in Slot \ {curr_proc} :
    \/ status'[i] = status[i]
    \/ <<status[i], status'[i]>> \in
         {<<"NEW", "READY">>, <<"READY", "RUNNING">>,
          <<"WAITING", "READY">>, <<"WAITING", "RUNNING">>}
OffCpuStep == [][OffCpuMove]_taskVars

\* A process that blocks keeps the CPU only when nobody else could have it.
BlockYields ==
  (/\ curr_proc # NULL
   /\ curr_proc' = curr_proc
   /\ status[curr_proc] # "WAITING"
   /\ status'[curr_proc] = "WAITING")
  => \A i \in Slot : status'[i] # "READY"
BlockedYields == [][BlockYields]_taskVars

\* Time sharing: a READY process gets the CPU, whatever the others compute.
EveryoneRuns ==
  \A i \in Slot : status[i] = "READY" ~> status[i] = "RUNNING"

=============================================================================
