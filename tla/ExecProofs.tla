----------------------------- MODULE ExecProofs -----------------------------
(***************************************************************************)
(* The shell and the processes never have the CPU at the same time, exec   *)
(* loses programs only in the window its disk reads leave, every process   *)
(* has a program at its address, and all that the shell does to the        *)
(* process table is what TaskProofs covers.                                *)
(***************************************************************************)
EXTENDS Exec, TaskProofs, SequenceTheorems

\* The shell reads files, and is interrupted while it does, with programs left
\* to create; it waits for a command or is gone without any.
ShellInv ==
  /\ TaskInv
  /\ ShellOrProcess
  /\ shell \in {"prompt", "load", "read", "loaded", "gone"}
  /\ shell = "load" => ~intr
  /\ shell \in {"prompt", "gone"} => todo = << >>

\* A switch from the shell finds a READY process.
LEMMA ShellSwitch ==
  ASSUME TaskInv, curr_proc = NULL, schedule_proc(status)
  PROVE  \/ UNCHANGED <<status, tick, curr_proc>>
         \/ curr_proc' \in Slot /\ \E i \in Slot : status[i] = "READY"
<1>1. ASSUME NEW pp \in Slot, proc_pick(status, pp), proc_switch(status, pp)
      PROVE  curr_proc' \in Slot /\ \E i \in Slot : status[i] = "READY"
  <2>1. status[pp] \in {"READY", "RUNNING"}
    BY <1>1, PickedProcess, TableAssumption
  <2>2. status[pp] # "RUNNING"
    BY TableAssumption DEF TaskInv, OneRunning
  <2> QED BY <1>1, <2>1, <2>2 DEF proc_switch
<1> QED BY <1>1 DEF schedule_proc

\* No handler but int 0x80 with 100 takes the CPU back to the shell.
LEMMA NoWayBack ==
  ASSUME NEW st, schedule_proc(st), curr_proc # NULL
  PROVE  curr_proc' # NULL
BY TableAssumption DEF schedule_proc, proc_switch

LEMMA ProcessKeepsCpu ==
  ASSUME process_call
  PROVE  curr_proc # NULL /\ curr_proc' # NULL
<1>1. CASE \E c \in Slot \cup {NULL} : do_fork(c)
  BY <1>1 DEF do_fork
<1>2. CASE do_wait
  BY <1>2, NoWayBack DEF do_wait
<1>3. CASE do_exit
  BY <1>3, NoWayBack DEF do_exit, wakeup
<1> QED BY <1>1, <1>2, <1>3 DEF process_call

LEMMA TimerKeepsCpu ==
  ASSUME pit_handler_main, curr_proc # NULL
  PROVE  curr_proc' # NULL
BY NoWayBack DEF pit_handler_main

\* Before the first process schedule_proc has no effect; after it, what the
\* shell's call does is what the timer does to the shell.
LEMMA ExecMoves ==
  ASSUME ShellInv, [ExecNext]_vars
  PROVE  [TaskNext]_taskVars
<1>1. CASE start
  <2>1. curr_proc = NULL /\ schedule_proc(status) /\ UNCHANGED <<pid, parent, curr_pid>>
    BY <1>1 DEF start, ShellInv, ShellOrProcess
  <2>2. CASE curr_pid # 0
    BY <2>1, <2>2 DEF pit_handler_main, TaskNext
  <2>3. CASE curr_pid = 0
    <3>1. \A i \in Slot : status[i] = "NEW"
      BY <2>3, TableAssumption DEF ShellInv, TaskInv, PidOfSlot, Slot
    <3> QED BY <2>1, <3>1, ShellSwitch DEF ShellInv, taskVars
  <2> QED BY <2>2, <2>3
<1>2. CASE timer
  BY <1>2 DEF timer, TaskNext
<1>3. CASE main_returns
  BY <1>3 DEF main_returns, TaskNext
<1>4. CASE process_call
  BY <1>4 DEF process_call, TaskNext
<1>5. CASE \E c \in Slot \cup {NULL} : create(c)
  BY <1>5 DEF create, TaskNext
<1>6. CASE load \/ load_fails \/ parse_elf \/ (\E list \in Commands : exec(list)) \/ UNCHANGED vars
  BY <1>6 DEF load, load_fails, parse_elf, exec, vars
<1> QED BY <1>1, <1>2, <1>3, <1>4, <1>5, <1>6 DEF ExecNext

LEMMA ShellStep ==
  ASSUME ShellInv, [ExecNext]_vars
  PROVE  ShellInv'
<1>0. TaskInv'
  BY ExecMoves, TaskStep DEF ShellInv
<1> USE <1>0 DEF ShellInv, ShellOrProcess, taskVars, shellVars
<1>1. CASE start
  BY <1>1, ShellSwitch DEF start, shell_after_schedule
<1>2. CASE timer
  BY <1>2, TimerKeepsCpu DEF timer, shell_after_schedule
<1>3. CASE main_returns
  BY <1>3 DEF main_returns, user_process_return
<1>4. CASE process_call
  BY <1>4, ProcessKeepsCpu DEF process_call
<1>5. CASE \E c \in Slot \cup {NULL} : create(c)
  BY <1>5 DEF create, proc_create
<1>6. CASE load \/ load_fails \/ parse_elf \/ (\E list \in Commands : exec(list)) \/ UNCHANGED vars
  BY <1>6 DEF load, load_fails, parse_elf, exec, vars
<1> QED BY <1>1, <1>2, <1>3, <1>4, <1>5, <1>6 DEF ExecNext

LEMMA ShellInvariant == ExecSpec => []ShellInv
<1>1. ExecInit => ShellInv
  BY TaskInit DEF ExecInit, ShellInv, ShellOrProcess, proc_init
<1>2. ShellInv /\ [ExecNext]_vars => ShellInv'
  BY ShellStep
<1> QED BY <1>1, <1>2, PTL DEF ExecSpec

\* Shell and processes exclude each other, and no process ever runs with the
\* interrupts that exec_user_prg turned off.
THEOREM ShellXorProcess == ExecSpec => []ShellOrProcess
<1>1. ShellInv => ShellOrProcess
  BY DEF ShellInv
<1> QED BY <1>1, ShellInvariant, PTL

\* The shell changes the process table by its handlers only.
THEOREM ExecImplementsTask == ExecSpec => TaskSpec
<1>1. ShellInv /\ [ExecNext]_vars => [TaskNext]_taskVars
  BY ExecMoves
<1>2. ExecInit => proc_init
  BY DEF ExecInit
<1> QED BY <1>1, <1>2, ShellInvariant, PTL DEF ExecSpec, TaskSpec

\* exec_user_prg is cut short only after a file was read and before
\* proc_create, with a process already READY.
THEOREM CutWhileLoaded == ExecSpec => CutOnlyWhileLoaded
<1>1. ShellInv /\ [ExecNext]_vars
        => [(todo # << >> /\ shell' = "gone")
            => (shell \in {"read", "loaded"} /\ \E i \in Slot : status[i] = "READY")]_vars
  <2> SUFFICES ASSUME ShellInv, ExecNext, todo # << >>, shell' = "gone"
               PROVE  shell \in {"read", "loaded"} /\ \E i \in Slot : status[i] = "READY"
    OBVIOUS
  <2>1. shell \notin {"prompt", "gone"} /\ curr_proc = NULL
    BY DEF ShellInv, ShellOrProcess
  <2>2. CASE timer
    <3>1. curr_proc' # NULL /\ schedule_proc(status)
      BY <2>1, <2>2 DEF timer, shell_after_schedule, pit_handler_main
    <3>2. \E i \in Slot : status[i] = "READY"
      BY <2>1, <3>1, ShellSwitch DEF ShellInv
    <3> QED BY <2>1, <2>2, <3>2 DEF timer, ShellInv
  <2>3. CASE start
    BY <2>3 DEF start
  <2>4. CASE process_call
    BY <2>1, <2>4, ProcessKeepsCpu
  <2> QED BY <2>2, <2>3, <2>4
          DEF ExecNext, exec, load, load_fails, parse_elf, create, main_returns
<1> QED BY <1>1, ShellInvariant, PTL DEF ExecSpec, CutOnlyWhileLoaded

-----------------------------------------------------------------------------
(* Images.                                                                 *)

\* What a process that runs p may find at its address.
Fits(p) == IF p \in Out THEN Out ELSE {p}

\* The file is read before proc_create, so whatever will run, or did, has its
\* program in memory: a later exec replaces an .out by another .out only.
ImageInv ==
  /\ ShellInv
  /\ ExecTypeOK
  /\ shell \in {"read", "loaded"} => todo # << >>
  /\ shell = "loaded" => mem[addr_exec(Head(todo))] \in Fits(Head(todo))
  /\ \A i \in Slot : status[i] # "NEW" => mem[addr_exec(image[i])] \in Fits(image[i])

\* The rest of an exec command is one.
LEMMA CommandRest ==
  ASSUME NEW list \in Commands, list # << >>
  PROVE  Head(list) \in Prog /\ Tail(list) \in Commands
<1>1. PICK n \in 0 .. MaxPrograms : list \in [1 .. n -> Prog]
  BY DEF Commands
<1>2. list \in Seq(Prog) /\ Len(list) = n /\ n # 0
  BY <1>1, ExecAssumption
<1>3. Tail(list) \in Seq(Prog) /\ Len(Tail(list)) = n - 1 /\ n - 1 \in 0 .. MaxPrograms
  BY <1>2, ExecAssumption, HeadTailProperties
<1>4. Tail(list) \in [1 .. n - 1 -> Prog]
  BY <1>3, LenProperties
<1> QED BY <1>2, <1>3, <1>4 DEF Commands

LEMMA Addresses ==
  ASSUME NEW p \in Prog
  PROVE  /\ addr_exec(p) \in Addr
         /\ \A q \in Prog : addr_exec(p) = addr_exec(q) => p \in Fits(q)
BY ExecAssumption DEF Prog, Addr, addr_exec, Fits

\* Placing a program spoils no image.
LEMMA PlaceKeeps ==
  ASSUME mem \in [Addr -> Prog \cup {NULL}], NEW p \in Prog, place(p)
  PROVE  /\ mem' \in [Addr -> Prog \cup {NULL}]
         /\ mem'[addr_exec(p)] \in Fits(p)
         /\ \A q \in Prog : mem[addr_exec(q)] \in Fits(q) => mem'[addr_exec(q)] \in Fits(q)
<1>1. mem' = [mem EXCEPT ![addr_exec(p)] = p] /\ addr_exec(p) \in Addr
  BY Addresses DEF place
<1>2. mem' \in [Addr -> Prog \cup {NULL}] /\ mem'[addr_exec(p)] = p
  BY <1>1
<1>3. ASSUME NEW q \in Prog PROVE mem'[addr_exec(q)] = IF addr_exec(q) = addr_exec(p) THEN p ELSE mem[addr_exec(q)]
  BY <1>1, <1>3, Addresses
<1> QED BY <1>2, <1>3, Addresses

\* A process has the image it was given, or what its parent has.
LEMMA ImageNew ==
  ASSUME ImageInv, TaskInv', NEW c \in Slot \cup {NULL}, proc_alloc(c),
         NEW p, starts_as(c, p), UNCHANGED mem,
         p \in Prog, mem[addr_exec(p)] \in Fits(p)
  PROVE  /\ \A i \in Slot : IF status'[i] = "NEW" THEN image'[i] = NULL ELSE image'[i] \in Prog
         /\ \A i \in Slot : status'[i] # "NEW" => mem'[addr_exec(image'[i])] \in Fits(image'[i])
<1>1. \A i \in Slot : status'[i] = status[i] \/ i = c
  BY TableAssumption DEF proc_alloc, ImageInv, ShellInv, TaskInv, TaskTypeOK
<1>2. c \in Slot => status'[c] # "NEW"
  BY TableAssumption DEF proc_alloc, ImageInv, ShellInv, TaskInv, TaskTypeOK
<1>3. \A i \in Slot : image'[i] = IF i = c THEN p ELSE image[i]
  BY DEF starts_as
<1> QED BY <1>1, <1>2, <1>3 DEF ImageInv, ExecTypeOK

\* A handler that creates nobody leaves everything about images as it is.
LEMMA ImageKept ==
  ASSUME ImageInv, TaskInv', UNCHANGED <<curr_pid, image>>, mem' \in [Addr -> Prog \cup {NULL}],
         \A q \in Prog : mem[addr_exec(q)] \in Fits(q) => mem'[addr_exec(q)] \in Fits(q)
  PROVE  /\ \A i \in Slot : IF status'[i] = "NEW" THEN image'[i] = NULL ELSE image'[i] \in Prog
         /\ \A i \in Slot : status'[i] # "NEW" => mem'[addr_exec(image'[i])] \in Fits(image'[i])
<1>1. \A i \in Slot : status'[i] = "NEW" <=> status[i] = "NEW"
  BY DEF ImageInv, ShellInv, TaskInv, PidOfSlot
<1> QED BY <1>1 DEF ImageInv, ExecTypeOK

LEMMA ImageStep ==
  ASSUME ImageInv, [ExecNext]_vars PROVE ImageInv'
<1>0. ShellInv' /\ TaskInv' /\ ShellInv
  BY ShellStep DEF ImageInv, ShellInv
<1>t. /\ mem \in [Addr -> Prog \cup {NULL}] /\ todo \in Commands /\ intr \in BOOLEAN
      /\ shell \in {"prompt", "load", "read", "loaded", "gone"}
      /\ shell \in {"read", "loaded"} => todo # << >>
      /\ shell = "loaded" => mem[addr_exec(Head(todo))] \in Fits(Head(todo))
  BY DEF ImageInv, ExecTypeOK
<1>e. << >> \in Commands
  <2>1. << >> \in [1 .. 0 -> Prog] /\ 0 \in 0 .. MaxPrograms
    BY ExecAssumption
  <2> QED BY <2>1 DEF Commands
<1> DEFINE Images == /\ \A i \in Slot : IF status'[i] = "NEW" THEN image'[i] = NULL ELSE image'[i] \in Prog
                     /\ \A i \in Slot : status'[i] # "NEW" => mem'[addr_exec(image'[i])] \in Fits(image'[i])
           Shell == /\ mem' \in [Addr -> Prog \cup {NULL}] /\ todo' \in Commands /\ intr' \in BOOLEAN
                    /\ shell' \in {"prompt", "load", "read", "loaded", "gone"}
                    /\ shell' \in {"read", "loaded"} => todo' # << >>
                    /\ shell' = "loaded" => mem'[addr_exec(Head(todo'))] \in Fits(Head(todo'))
<1>q. Images /\ Shell => ImageInv'
  BY <1>0 DEF ImageInv, ExecTypeOK
<1>1. CASE (\E list \in Commands : exec(list)) \/ load_fails \/ UNCHANGED vars
  <2>1. UNCHANGED <<curr_pid, image, mem>>
    BY <1>1 DEF exec, load_fails, vars, taskVars, shellVars
  <2>2. Images
    BY <1>0, <1>t, <2>1, ImageKept
  <2>3. Shell
    BY <1>1, <1>t, <1>e DEF exec, load_fails, vars, shellVars
  <2> QED BY <1>q, <2>2, <2>3
<1>2. CASE load \/ parse_elf
  <2>1. Head(todo) \in Prog /\ todo # << >>
    BY <1>2, <1>t, CommandRest DEF load, parse_elf
  <2>2. UNCHANGED <<curr_pid, image, todo>> /\ intr' \in BOOLEAN
        /\ \/ place(Head(todo)) /\ shell' = "loaded"
           \/ UNCHANGED mem /\ shell' = "read"
    BY <1>2, <1>t DEF load, parse_elf, taskVars
  <2>3. /\ mem' \in [Addr -> Prog \cup {NULL}]
        /\ \A q \in Prog : mem[addr_exec(q)] \in Fits(q) => mem'[addr_exec(q)] \in Fits(q)
        /\ shell' = "loaded" => mem'[addr_exec(Head(todo))] \in Fits(Head(todo))
    BY <1>t, <2>1, <2>2, PlaceKeeps
  <2>4. Images
    BY <1>0, <2>2, <2>3, ImageKept
  <2>5. Shell
    BY <1>t, <2>1, <2>2, <2>3
  <2> QED BY <1>q, <2>4, <2>5
<1>3. CASE \E c \in Slot \cup {NULL} : create(c)
  <2>1. PICK c \in Slot \cup {NULL} : create(c)
    BY <1>3
  <2>2. Head(todo) \in Prog /\ Tail(todo) \in Commands
    BY <1>t, <2>1, CommandRest DEF create
  <2>3. Images
    BY <1>0, <1>t, <2>1, <2>2, ImageNew DEF create, proc_create
  <2>4. Shell
    BY <1>t, <2>1, <2>2 DEF create
  <2> QED BY <1>q, <2>3, <2>4
<1>4. CASE start \/ timer \/ main_returns
  <2>1. UNCHANGED <<curr_pid, image, mem>>
    BY <1>4 DEF start, timer, main_returns, shell_after_schedule, pit_handler_main, user_process_return
  <2>2. Images
    BY <1>0, <1>t, <2>1, ImageKept
  <2>3. Shell
    BY <1>4, <1>t, <1>e, <2>1 DEF start, timer, main_returns, shell_after_schedule
  <2> QED BY <1>q, <2>2, <2>3
<1>5. CASE process_call
  <2>1. UNCHANGED <<shell, intr, todo, mem>> /\ curr_proc # NULL
    BY <1>5, ProcessKeepsCpu DEF process_call
  <2>2. ASSUME UNCHANGED image, do_wait \/ do_exit
        PROVE  Images
    BY <1>0, <1>t, <2>1, <2>2, ImageKept DEF do_wait, do_exit
  <2>3. ASSUME NEW c \in Slot \cup {NULL}, do_fork(c), starts_as(c, image[curr_proc])
        PROVE  Images
    <3>1. curr_proc \in Slot /\ status[curr_proc] # "NEW"
      BY <1>0, <2>1 DEF TaskInv, TaskTypeOK, CurrNotReady, ShellInv
    <3>2. image[curr_proc] \in Prog /\ mem[addr_exec(image[curr_proc])] \in Fits(image[curr_proc])
      BY <3>1 DEF ImageInv, ExecTypeOK
    <3> QED BY <1>0, <2>1, <2>3, <3>2, ImageNew DEF do_fork
  <2>4. Images
    BY <1>5, <2>2, <2>3 DEF process_call
  <2> QED BY <1>q, <1>t, <2>1, <2>4
<1> QED BY <1>1, <1>2, <1>3, <1>4, <1>5 DEF ExecNext

LEMMA ImageInvariant == ExecSpec => []ImageInv
<1>1. ExecInit => ImageInv
  <2> SUFFICES ASSUME ExecInit PROVE ImageInv
    OBVIOUS
  <2>1. << >> \in [1 .. 0 -> Prog] /\ 0 \in 0 .. MaxPrograms
    BY ExecAssumption
  <2>2. ExecTypeOK
    BY <2>1 DEF ExecInit, ExecTypeOK, proc_init, Commands
  <2>3. ShellInv
    BY TaskInit DEF ExecInit, ShellInv, ShellOrProcess, proc_init
  <2> QED BY <2>2, <2>3 DEF ExecInit, ImageInv, proc_init
<1>2. ImageInv /\ [ExecNext]_vars => ImageInv'
  BY ImageStep
<1> QED BY <1>1, <1>2, PTL DEF ExecSpec

\* The shell's variables and the images keep their types.
THEOREM ExecTyped == ExecSpec => []ExecTypeOK
<1>1. ImageInv => ExecTypeOK
  BY DEF ImageInv
<1> QED BY <1>1, ImageInvariant, PTL

\* A process that runs, or will, has a whole program at its address, however
\* exec, the disk's interrupts, the timer and fork follow each other.
THEOREM ProcessesHaveImages == ExecSpec => []ImagesLoaded
<1>1. ImageInv => ImagesLoaded
  BY DEF ImageInv, ImagesLoaded, Fits
<1> QED BY <1>1, ImageInvariant, PTL

=============================================================================
