------------------------------- MODULE Program -------------------------------
(***************************************************************************)
(* What the models of the user programs in usr/ share: a program counter   *)
(* per process, the state in which `exec` hands the CPU to the first       *)
(* program, and other programs that were started with it (prg1.com and so  *)
(* on: computations with an address of their own; all .out files share one)*)
(*                                                                         *)
(* A system call is one step and the program counter moves in that step:   *)
(* a caller that is switched out is behind its `int` when it comes back.   *)
(* The compiled code between two calls is split where memory shared with   *)
(* another process is read or written.                                     *)
(***************************************************************************)
EXTENDS Semaphore

CONSTANT Background  \* how many other programs the same exec started

\* Slots 0 and above were created by exec, the modelled program first.
ASSUME ProgramAssumption == Background \in 0 .. MAX_PROCESS - 1

VARIABLE pc  \* where each process is in its program

progVars == <<taskVars, semVars, pc>>

at(l) == curr_proc # NULL /\ pc[curr_proc] = l

goto(l) == pc' = [pc EXCEPT ![curr_proc] = l]

\* The scan of proc_pick found slot 0 when exec_user_prg called schedule_proc.
exec_user_prg(start) ==
  /\ status = [i \in Slot |-> IF i = 0 THEN "RUNNING"
                              ELSE IF i <= Background THEN "READY" ELSE "NEW"]
  /\ pid = [i \in Slot |-> IF i <= Background THEN i + 1 ELSE 0]
  /\ parent = [i \in Slot |-> NULL]
  /\ tick = [i \in Slot |-> IF i <= Background THEN MAX_TICK ELSE 0]
  /\ curr_proc = 0
  /\ curr_pid = Background + 1
  /\ sem_init
  /\ pc = [i \in Slot |-> CASE i = 0 -> start
                            [] i \in 1 .. Background -> "other"
                            [] OTHER -> "none"]

\* Another program computes, or ends.
other_return ==
  /\ at("other")
  /\ user_process_return
  /\ goto("gone")
  /\ UNCHANGED semVars

\* The other programs have ended: the modelled one is alone.
Alone == \A i \in 1 .. Background : pc[i] = "gone"

tick_step == pit_handler_main /\ UNCHANGED <<semVars, pc>>

=============================================================================
