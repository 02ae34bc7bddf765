--------------------------------- MODULE Bank ---------------------------------
(***************************************************************************)
(* usr/bank.c: a parent that pays in and a forked child that withdraws,    *)
(* on one global account guarded by a semaphore.                           *)
(*                                                                         *)
(* The change of the account is split into its load and its store, the     *)
(* most a compiler may do to `bank_account += 10`.                         *)
(***************************************************************************)
EXTENDS Program

CONSTANTS
  Deposits,    \* rounds of the parent; 100 in the source
  Withdrawals  \* rounds of the child; 50 in the source

\* fork finds a free slot.
Constants ==
  /\ Deposits \in Nat /\ Withdrawals \in Nat
  /\ Background + 1 < MAX_PROCESS

VARIABLES
  bank_account,
  reg,   \* the register each process computes the new balance in
  left   \* rounds each process still has to do

vars == <<progVars, bank_account, reg, left>>
userVars == <<bank_account, reg, left>>

sem == 0       \* what get_sem answers to the first caller
Parent == 0
Child == Background + 1

main ==
  /\ at("main")
  /\ do_getsem(sem, 1)
  /\ goto("fork")
  /\ UNCHANGED userVars

\* Constants has a free slot for the child: the answer -1 and its exit(-1) are
\* left out.
fork ==
  /\ at("fork")
  /\ \E c \in Slot : do_fork(c) /\ pc' = [pc EXCEPT ![c] = "loop", ![curr_proc] = "loop"]
  /\ UNCHANGED <<semVars, userVars>>

sem_wait ==
  /\ at("loop") /\ left[curr_proc] > 0
  /\ do_sem_p(sem)
  /\ goto("load")
  /\ UNCHANGED userVars

\* Faulty: the balance stays in a register from one round to the next.
load_cached ==
  /\ at("load")
  /\ goto("store")
  /\ UNCHANGED <<taskVars, semVars, userVars>>

load ==
  /\ at("load")
  /\ reg' = [reg EXCEPT ![curr_proc] = bank_account]
  /\ goto("store")
  /\ UNCHANGED <<taskVars, semVars, bank_account, left>>

store ==
  /\ at("store")
  /\ bank_account' = reg[curr_proc] + (IF curr_proc = Parent THEN 10 ELSE -20)
  /\ goto("signal")
  /\ UNCHANGED <<taskVars, semVars, reg, left>>

sem_signal ==
  /\ at("signal")
  /\ do_sem_v(sem)
  /\ left' = [left EXCEPT ![curr_proc] = @ - 1]
  /\ goto("loop")
  /\ UNCHANGED <<bank_account, reg>>

\* exit does not end the child: if it comes back, wait is what follows.
exit ==
  /\ at("loop") /\ left[curr_proc] = 0 /\ curr_proc = Child
  /\ do_exit
  /\ goto("wait")
  /\ UNCHANGED <<semVars, userVars>>

wait ==
  /\ \/ at("wait")
     \/ at("loop") /\ left[curr_proc] = 0 /\ curr_proc = Parent
  /\ do_wait
  /\ goto("return")
  /\ UNCHANGED <<semVars, userVars>>

return ==
  /\ at("return")
  /\ user_process_return
  /\ goto("gone")
  /\ UNCHANGED <<semVars, userVars>>

Step ==
  main \/ fork \/ sem_wait \/ load \/ store \/ sem_signal \/ exit \/ wait \/ return

userInit ==
  /\ bank_account = 1000
  /\ reg = [i \in Slot |-> 0]
  /\ left = [i \in Slot |-> CASE i = Parent -> Deposits
                              [] i = Child -> Withdrawals
                              [] OTHER -> 0]

Init == exec_user_prg("main") /\ userInit

Next ==
  \/ Step
  \/ other_return /\ UNCHANGED userVars
  \/ tick_step /\ UNCHANGED userVars

\* A process that gets the CPU over and over gets its code executed, and the
\* PIT keeps ticking.
Spec ==
  /\ Init /\ [][Next]_vars
  /\ \A i \in {Parent, Child} : SF_vars(curr_proc = i /\ Step)
  /\ WF_vars(tick_step /\ UNCHANGED userVars)

-----------------------------------------------------------------------------

\* Parent and child are never both between sem_wait and sem_signal.
Blocked(i) == status[i] = "WAITING" /\ curr_proc # i
Inside(i) == pc[i] \in {"load", "store", "signal"} /\ ~Blocked(i)
MutualExclusion == ~(Inside(Parent) /\ Inside(Child))

\* No update of the account is lost, whatever the timer cuts in two: counting
\* a round as done at its store, the account is the atomic bank's.
done(i, n) == n - left[i] + (IF pc[i] = "signal" THEN 1 ELSE 0)
Atomic == INSTANCE AtomicBank WITH
  balance <- bank_account,
  deposited <- done(Parent, Deposits),
  withdrawn <- done(Child, Withdrawals)
NoLostUpdate == Atomic!Spec

\* The parent's wait comes back only when the child is done with the account,
\* be it woken by the child's exit or left alone by everybody else.
WaitedForChild ==
  pc[Parent] \in {"return", "gone"} /\ ~Blocked(Parent) => left[Child] = 0

Working == pc[Child] \in {"loop", "load", "store", "signal"}

\* From any moment on at which the child still works and nothing else runs,
\* main comes to its end: exit and wait do not miss each other.
ReturnsIfAlone == Alone /\ Working ~> pc[Parent] = "gone"

\* wait comes back, whatever runs beside the program.
ParentReturns == <>(pc[Parent] = "gone")

=============================================================================
