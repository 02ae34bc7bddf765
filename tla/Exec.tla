--------------------------------- MODULE Exec ---------------------------------
(***************************************************************************)
(* The shell's `exec` command (exec_user_prg of include/user.h, called by  *)
(* terminal_loop) and the change between shell and processes.              *)
(*                                                                         *)
(* The shell is not a process: nothing saves its registers.  A timer tick  *)
(* that finds a READY process while the shell runs ends what the shell was *)
(* doing for good, and int 0x80 with 100 starts a fresh terminal_loop.     *)
(* exec_user_prg tries to keep the timer out with the interrupt flag, but  *)
(* every disk read (include/fat12.h) turns it on again.                    *)
(*                                                                         *)
(* Programs are loaded at the address they were assembled or linked for:   *)
(* one for each of prg1.com to prg4.com, and one for all .out files.       *)
(***************************************************************************)
EXTENDS Task, Sequences

CONSTANTS
  Com,         \* the .com programs
  Out,         \* the .out programs
  MaxPrograms  \* the models' longest exec command

Prog == Com \cup Out

ASSUME ExecAssumption ==
  /\ MaxPrograms \in Nat
  /\ NULL \notin Prog
  /\ Com \cap Out = {} /\ "elf" \notin Com

VARIABLES
  shell,  \* where the shell is: at its "prompt", in exec_user_prg before
          \* ("load") or after it read a file ("read" to bin_img, "loaded"
          \* to where it will run), or "gone"
  intr,   \* the interrupt flag of the CPU
  todo,   \* the programs of the exec command that do not exist yet
  mem,    \* mem[a]: the program whose image, whole or in part, is at address a
  image   \* image[i]: the program that process i runs, NULL before it exists

shellVars == <<shell, intr, todo, mem, image>>
vars == <<taskVars, shellVars>>

\* Where p is loaded; every .out program at ADDR_USER_START + 6 * PROC_SIZE.
addr_exec(p) == IF p \in Out THEN "elf" ELSE p
Addr == Com \cup {"elf"}

Commands == UNION {[1 .. n -> Prog] : n \in 0 .. MaxPrograms}

\* Two ways out of schedule_proc: restart_proc loads a process, its eflags
\* with interrupts on, and the shell is no more; or there is nothing to run.
shell_after_schedule(there) ==
  /\ IF curr_proc' # NULL
     THEN shell' = "gone" /\ intr' = TRUE /\ todo' = << >>
     ELSE shell' = there /\ UNCHANGED <<intr, todo>>
  /\ UNCHANGED <<mem, image>>

\* Typing the command takes keyboard interrupts.
exec(list) ==
  /\ shell = "prompt" /\ intr
  /\ shell' = "load" /\ intr' = FALSE /\ todo' = list
  /\ UNCHANGED <<taskVars, mem, image>>

place(p) == mem' = [mem EXCEPT ![addr_exec(p)] = p]

\* The file exists.  A .com file is read to where it will run, an .out file to
\* bin_img; fat12_read_clusters enables interrupts behind each sector.
load ==
  /\ shell = "load" /\ todo # << >>
  /\ intr' = TRUE
  /\ \/ Head(todo) \in Com /\ place(Head(todo)) /\ shell' = "loaded"
     \/ Head(todo) \in Out /\ shell' = "read" /\ UNCHANGED mem
  /\ UNCHANGED <<taskVars, todo, image>>

\* Faulty: the file stays in bin_img.
parse_elf_skipped ==
  /\ shell = "read"
  /\ shell' = "loaded"
  /\ UNCHANGED <<taskVars, intr, todo, mem, image>>

parse_elf ==
  /\ shell = "read"
  /\ place(Head(todo))
  /\ shell' = "loaded"
  /\ UNCHANGED <<taskVars, intr, todo, image>>

\* "No this user program!": exec_user_prg returns as it is.
load_fails ==
  /\ shell = "load" /\ todo # << >>
  /\ shell' = "prompt" /\ todo' = << >>
  /\ UNCHANGED <<taskVars, intr, mem, image>>

\* The eip of the new PCB.
starts_as(c, p) == image' = [i \in Slot |-> IF i = c THEN p ELSE image[i]]

\* Faulty: the interrupts that reading the file enabled stay on.
create_interruptible(c) ==
  /\ shell = "loaded"
  /\ proc_create(c)
  /\ starts_as(c, Head(todo))
  /\ shell' = "load" /\ todo' = Tail(todo)
  /\ UNCHANGED <<intr, mem>>

\* proc_create disables interrupts and leaves them so.
create(c) ==
  /\ shell = "loaded"
  /\ proc_create(c)
  /\ starts_as(c, Head(todo))
  /\ shell' = "load" /\ intr' = FALSE /\ todo' = Tail(todo)
  /\ UNCHANGED mem

\* Faulty: switches to the first slot without asking proc_pick.
start_first ==
  /\ shell = "load" /\ todo = << >>
  /\ proc_switch(status, 0)
  /\ shell_after_schedule("prompt")
  /\ UNCHANGED <<pid, parent, curr_pid>>

\* The call of schedule_proc behind the loop.
start ==
  /\ shell = "load" /\ todo = << >>
  /\ schedule_proc(status)
  /\ shell_after_schedule("prompt")
  /\ UNCHANGED <<pid, parent, curr_pid>>

\* The timer interrupt, over the shell or over a process.
timer ==
  /\ intr
  /\ pit_handler_main
  /\ shell_after_schedule(shell)

\* main returned: int 0x80 with 100 ends the process and enters terminal_loop.
main_returns ==
  /\ user_process_return
  /\ shell' = "prompt" /\ intr' = TRUE
  /\ UNCHANGED <<todo, mem, image>>

\* The other calls of a process.  iretd gives it back its interrupt flag, and
\* fork copies the code address: the child runs the program of its parent.
process_call ==
  /\ \/ \E c \in Slot \cup {NULL} : do_fork(c) /\ starts_as(c, image[curr_proc])
     \/ (do_wait \/ do_exit) /\ UNCHANGED image
  /\ UNCHANGED <<shell, intr, todo, mem>>

ExecInit ==
  /\ proc_init
  /\ shell = "prompt"
  /\ intr = TRUE
  /\ todo = << >>
  /\ mem = [a \in Addr |-> NULL]
  /\ image = [i \in Slot |-> NULL]

ExecNext ==
  \/ \E list \in Commands : exec(list)
  \/ load \/ load_fails \/ parse_elf
  \/ \E c \in Slot \cup {NULL} : create(c)
  \/ start \/ timer \/ main_returns \/ process_call

ExecSpec == ExecInit /\ [][ExecNext]_vars

-----------------------------------------------------------------------------

\* The shell's variables keep their types, and a process has an image from
\* the moment it exists.
ExecTypeOK ==
  /\ shell \in {"prompt", "load", "read", "loaded", "gone"}
  /\ intr \in BOOLEAN
  /\ todo \in Commands
  /\ mem \in [Addr -> Prog \cup {NULL}]
  /\ \A i \in Slot : IF status[i] = "NEW" THEN image[i] = NULL ELSE image[i] \in Prog

\* The CPU runs the shell or a process, and only the shell with interrupts
\* off: no user program can be left running without a timer to preempt it.
ShellOrProcess ==
  /\ shell = "gone" <=> curr_proc # NULL
  /\ ~intr => shell # "gone"

\* exec_user_prg loses programs of its list only in the window its file read
\* leaves, and only to a process that existed before: the first exec after
\* boot never loses its first program.
CutOnlyWhileLoaded ==
  [][(todo # << >> /\ shell' = "gone")
       => (shell \in {"read", "loaded"} /\ \E i \in Slot : status[i] = "READY")]_vars

\* A process that is to run finds a whole program at its address: the one it
\* was created for, unless both are .out programs, which share one address.
ImagesLoaded ==
  \A i \in Slot :
    status[i] \in {"READY", "RUNNING", "WAITING"} =>
      LET p == image[i] IN mem[addr_exec(p)] \in (IF p \in Out THEN Out ELSE {p})

=============================================================================
