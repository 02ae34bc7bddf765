----------------------------- MODULE MCPrograms -----------------------------
(* Every user program of usr/ in a run of its own, on one kernel: the      *)
(* constant `program` of a behaviour says which one exec has loaded.       *)
(* Two contenders never queue on a mutex; three depositors against two     *)
(* withdrawals overtake each other both ways, beside two other programs;   *)
(* seven rows are not divided evenly by three threads; the stock grows to  *)
(* MaxStock and falls back to nothing.                                     *)
EXTENDS Program

CONSTANTS N, Deposits, Withdrawals, MAX, MAX_THREAD, MaxStock

VARIABLES
  program,
  bank_account, reg, left,
  joined, computed,
  tot,
  words, fruit_plate, fruit_index

mutex == INSTANCE Mutex
bank == INSTANCE Bank WITH Background <- 2
matmul == INSTANCE MatMul
procon == INSTANCE ProCon
fruit == INSTANCE Fruit

ASSUME ProgramsAssumption ==
  /\ mutex!Constants
  /\ bank!Constants
  /\ matmul!Constants
  /\ procon!Constants
  /\ fruit!Constants

bankVars == <<bank_account, reg, left>>
matmulVars == <<joined, computed>>
fruitVars == <<words, fruit_plate, fruit_index>>
vars == <<progVars, program, bankVars, matmulVars, tot, fruitVars>>

Init ==
  /\ \/ program = "mutex" /\ mutex!Init
     \/ program = "bank" /\ bank!Init
     \/ program = "matmul" /\ matmul!Init
     \/ program = "procon" /\ procon!Init
     \/ program = "fruit" /\ fruit!Init
  /\ bank!userInit /\ matmul!userInit /\ fruit!userInit /\ tot = 0

Step ==
  /\ \/ program = "mutex" /\ mutex!Step /\ UNCHANGED <<bankVars, matmulVars, tot, fruitVars>>
     \/ program = "bank" /\ bank!Step /\ UNCHANGED <<matmulVars, tot, fruitVars>>
     \/ program = "matmul" /\ matmul!Step /\ UNCHANGED <<bankVars, tot, fruitVars>>
     \/ program = "procon" /\ procon!Step /\ UNCHANGED <<bankVars, matmulVars, fruitVars>>
     \/ program = "fruit" /\ fruit!Step /\ UNCHANGED <<bankVars, matmulVars, tot>>
  /\ UNCHANGED program

Other == other_return /\ UNCHANGED <<program, bankVars, matmulVars, tot, fruitVars>>
Tick == tick_step /\ UNCHANGED <<program, bankVars, matmulVars, tot, fruitVars>>

Next == Step \/ Other \/ Tick

\* The fairness of the modules: whoever gets the CPU over and over gets its
\* code executed, and the PIT keeps ticking.
Spec ==
  /\ Init /\ [][Next]_vars
  /\ \A i \in Slot : SF_vars(curr_proc = i /\ Step)
  /\ WF_vars(Tick)

-----------------------------------------------------------------------------

\* At most one process is between the P and the V of the program's mutex, and
\* likewise of the semaphore of bank.c and of the mutex of pro-con.c.
MutualExclusion ==
  CASE program = "mutex" -> mutex!MutualExclusion
    [] program = "bank" -> bank!MutualExclusion
    [] program = "procon" -> procon!MutualExclusion
    [] OTHER -> TRUE

\* A contender is blocked only while another one holds the mutex.
NobodyLost == program = "mutex" => mutex!NobodyLost

\* The parent's wait comes back only when the child is done with the account.
WaitedForChild == program = "bank" => bank!WaitedForChild

\* What a program prints is whole: main of matmal.c a product whose rows were
\* each computed exactly once, the father of fruit.c a whole wish and a fruit.
PrintsWhole ==
  /\ program = "matmul" => matmul!ProductComplete
  /\ program = "fruit" => fruit!FatherIsServed

\* tot is the stock that semaphore n and the two processes account for.
StockExact == program = "procon" => procon!StockExact

\* The account of bank.c is the atomic bank's.
NoLostUpdate == bank!NoLostUpdate

\* Left alone while a child or thread still works, main comes to its end.
ReturnsIfAlone ==
  /\ program = "bank" => bank!ReturnsIfAlone
  /\ program = "matmul" => matmul!ReturnsIfAlone

\* No fruit and no words are replaced before the father has taken them.
NothingOverwritten == fruit!NothingOverwritten

\* Every contender that asks for the mutex gets it, a READY process of bank.c
\* or of a program beside it gets the CPU, and the three processes of fruit.c
\* never wait for each other in a circle.
NobodyStarves ==
  /\ program = "mutex" => mutex!EveryoneEnters
  /\ program = "bank" => EveryoneRuns
  /\ program = "fruit" => fruit!FatherKeepsPrinting

=============================================================================
