-------------------------------- MODULE MatMul --------------------------------
(***************************************************************************)
(* usr/matmal.c: main creates one thread per block of rows, joins each of  *)
(* them and prints the product.  pthread_join passes a thread id that the  *)
(* kernel does not look at.                                                *)
(***************************************************************************)
EXTENDS Program

CONSTANTS
  MAX,        \* rows of the matrices; 6 in the source
  MAX_THREAD  \* threads; 3 in the source

Constants ==
  /\ MAX \in Nat
  /\ MAX_THREAD \in Nat \ {0}
  /\ MAX_THREAD + Background < MAX_PROCESS

VARIABLES
  joined,   \* pthread_join calls that main has made
  computed  \* how often each row of matC was computed

vars == <<progVars, joined, computed>>
userVars == <<joined, computed>>

Main == 0
Core == 0 .. MAX_THREAD - 1
Thread(core) == Background + 1 + core   \* the slot pthread_create takes

\* Faulty: rounds the block size before it multiplies.
rows_rounded(core) ==
  core * (MAX \div MAX_THREAD) .. (core + 1) * (MAX \div MAX_THREAD) - 1

\* The rows that multiply((void*) core) fills in.
rows(core) == (core * MAX) \div MAX_THREAD .. ((core + 1) * MAX) \div MAX_THREAD - 1

pthread_create ==
  /\ at("create")
  /\ \E c \in Slot :
       /\ do_thread_create(c)
       /\ pc' = [pc EXCEPT ![c] = "multiply",
                           ![Main] = IF c = Thread(MAX_THREAD - 1) THEN "join" ELSE @]
  /\ UNCHANGED <<semVars, userVars>>

pthread_join ==
  /\ at("join")
  /\ do_thread_join
  /\ joined' = joined + 1
  /\ goto(IF joined + 1 = MAX_THREAD THEN "display" ELSE "join")
  /\ UNCHANGED <<semVars, computed>>

display ==
  /\ at("display")
  /\ goto("return")
  /\ UNCHANGED <<taskVars, semVars, userVars>>

multiply ==
  /\ at("multiply")
  /\ computed' = [r \in DOMAIN computed |->
                    IF r \in rows(curr_proc - Thread(0)) THEN computed[r] + 1
                                                         ELSE computed[r]]
  /\ goto("exit")
  /\ UNCHANGED <<taskVars, semVars, joined>>

\* The thread's function returns to user_pthread_return.
pthread_exit ==
  /\ at("exit")
  /\ do_thread_exit
  /\ goto("return")
  /\ UNCHANGED <<semVars, userVars>>

return ==
  /\ at("return")
  /\ user_process_return
  /\ goto("gone")
  /\ UNCHANGED <<semVars, userVars>>

Step ==
  pthread_create \/ pthread_join \/ display \/ multiply \/ pthread_exit \/ return

userInit == joined = 0 /\ computed = [r \in 0 .. MAX - 1 |-> 0]

Init == exec_user_prg("create") /\ userInit

Next ==
  \/ Step
  \/ other_return /\ UNCHANGED userVars
  \/ tick_step /\ UNCHANGED userVars

\* A process that gets the CPU over and over gets its code executed, and the
\* PIT keeps ticking.
Spec ==
  /\ Init /\ [][Next]_vars
  /\ \A i \in {Main} \cup {Thread(core) : core \in Core} :
       SF_vars(curr_proc = i /\ Step)
  /\ WF_vars(tick_step /\ UNCHANGED userVars)

-----------------------------------------------------------------------------

\* main prints a complete product: every row was computed by exactly one
\* thread, and all of them before the last pthread_join came back.
ProductComplete ==
  pc[Main] \in {"return", "gone"} => \A r \in DOMAIN computed : computed[r] = 1

\* From any moment on at which nothing else runs and no thread has ended, main
\* comes to its end: whatever thread ends wakes whatever join.
ReturnsIfAlone ==
  Alone /\ (\A core \in Core : pc[Thread(core)] \notin {"return", "gone"})
    ~> pc[Main] = "gone"

=============================================================================
