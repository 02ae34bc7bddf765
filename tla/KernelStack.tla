----------------------------- MODULE KernelStack -----------------------------
(***************************************************************************)
(* The kernel stack of include/tss.h under the shell and its processes.    *)
(*                                                                         *)
(* A gate that interrupts a process starts at tss.esp0; one that interrupts*)
(* the shell goes on below the shell's frames.  proc_switch takes its own  *)
(* esp, at the bottom of all that the gate has called, for the next esp0,  *)
(* and the frames above are never left, since restart_proc does not return.*)
(* Only exec moves esp0 up, and the switch at its end down again.          *)
(*                                                                         *)
(* Addresses are in bytes from where the stack of the kernel starts, and   *)
(* FRAME is the least a C call takes: its return address and the saved     *)
(* ebp.  A process is interrupted in user mode only.                       *)
(***************************************************************************)
EXTENDS Exec

CONSTANTS KERNEL_STACK_SIZE, FRAME

VARIABLES
  esp,   \* of terminal_loop, while the shell has the CPU
  esp0,  \* tss.esp0
  top    \* history: esp0 when the shell last gave the CPU away

stackVars == <<esp, esp0, top>>

\* What the CPU pushes at a gate, with ss and esp if it changes the stack, and
\* the registers that pit_handler_entry saves.
GATE == 12
GATE_USER == 20
REGISTERS == 48

\* The process that gets the CPU gets a new time slice.
switched ==
  /\ curr_proc' # NULL
  /\ curr_proc' # curr_proc \/ tick[curr_proc'] < tick'[curr_proc']

\* proc_switch, at the bottom of `calls` C functions below `from`.
set_stack(from, calls) ==
  /\ esp0' = IF switched THEN from - calls * FRAME ELSE esp0
  /\ top' = IF switched /\ curr_proc = NULL THEN esp0' ELSE top
  /\ UNCHANGED esp

\* exec_user_prg sets the stack for each program, before it looks for the file.
tss_set_stack ==
  /\ esp0' = esp - FRAME + KERNEL_STACK_SIZE
  /\ UNCHANGED <<esp, top>>

StackInit == ExecInit /\ esp = 0 /\ esp0 = 0 /\ top = 0

\* The deepest calls are those with a wakeup, from exit.
StackNext ==
  \/ \/ \E list \in Commands : exec(list)
     \/ parse_elf
     \/ \E c \in Slot \cup {NULL} : create(c)
     /\ UNCHANGED stackVars
  \/ (load \/ load_fails) /\ tss_set_stack
  \/ start /\ set_stack(esp, 3)
  \/ timer /\ set_stack(IF curr_proc = NULL THEN esp - GATE - REGISTERS
                        ELSE esp0 - GATE_USER - REGISTERS, 3)
  \/ process_call /\ set_stack(esp0 - GATE_USER - 4, IF status'[curr_proc] = "WAITING" THEN 4 ELSE 5)
  \/ /\ main_returns
     /\ esp' = esp0 - GATE_USER - 4 - 2 * FRAME
     /\ UNCHANGED <<esp0, top>>

StackSpec == StackInit /\ [][StackNext]_<<vars, stackVars>>

-----------------------------------------------------------------------------

\* "Use a 2kb kernel stack": from when the shell gives the CPU away until it
\* has it again, the gates of processes start within KERNEL_STACK_SIZE.
KernelStackFits == esp0 >= top - KERNEL_STACK_SIZE

=============================================================================
