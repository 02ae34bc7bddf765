-------------------------------- MODULE Fruit --------------------------------
(***************************************************************************)
(* usr/fruit.c: one child puts words on the table, another a fruit on the  *)
(* plate, and the father takes one of each, over and over, by semaphores   *)
(* that start at 0.                                                        *)
(***************************************************************************)
EXTENDS Program

VARIABLES
  words,        \* put_words has filled the string the father will read
  fruit_plate,  \* NONE = 0 or one of the three fruits
  fruit_index   \* the fruit put_fruit chose last

\* Both forks find a free slot, and every get_sem a semaphore.
Constants == Background + 2 < MAX_PROCESS /\ N_SEMAPHORE >= 4

vars == <<progVars, words, fruit_plate, fruit_index>>
userVars == <<words, fruit_plate, fruit_index>>

\* In the order of the get_sem calls.
sem_word == 0
sem_fruit == 1
sem_word_full == 2
sem_fruit_full == 3

Father == 0

get_sems ==
  /\ at("get")
  /\ \E s \in Sem :
       do_getsem(s, 0) /\ goto(IF s = sem_fruit_full THEN "fork" ELSE "get")
  /\ UNCHANGED userVars

\* The father forks the child that puts words, and that one the other child.
fork ==
  /\ \E c \in Slot :
       /\ do_fork(c)
       /\ \/ at("fork")
             /\ pc' = [pc EXCEPT ![curr_proc] = "p_word", ![c] = "fork2"]
          \/ at("fork2")
             /\ pc' = [pc EXCEPT ![curr_proc] = "put_words", ![c] = "put_fruit"]
  /\ UNCHANGED <<semVars, userVars>>

call(l, operation, m) == at(l) /\ operation /\ goto(m) /\ UNCHANGED userVars

father ==
  \/ call("p_word", do_sem_p(sem_word), "p_fruit")
  \/ call("p_fruit", do_sem_p(sem_fruit), "print")
  \/ call("print", UNCHANGED <<taskVars, semVars>>, "v_word")
  \/ call("v_word", do_sem_v(sem_word_full), "clear")
  \/ /\ at("clear")
     /\ fruit_plate' = 0
     /\ goto("v_fruit")
     /\ UNCHANGED <<taskVars, semVars, words, fruit_index>>
  \/ call("v_fruit", do_sem_v(sem_fruit_full), "p_word")

\* strcpy writes the words byte by byte: they are not readable in between.
put_words ==
  \/ /\ at("put_words")
     /\ words' = FALSE
     /\ goto("written")
     /\ UNCHANGED <<taskVars, semVars, fruit_plate, fruit_index>>
  \/ /\ at("written")
     /\ words' = TRUE
     /\ goto("v_words")
     /\ UNCHANGED <<taskVars, semVars, fruit_plate, fruit_index>>
  \/ call("v_words", do_sem_v(sem_word), "p_full")
  \/ call("p_full", do_sem_p(sem_word_full), "put_words")

\* Faulty: the next fruit does not wait for the empty plate.
put_fruit_at_once ==
  \/ /\ at("put_fruit")
     /\ fruit_index' = IF (fruit_index + 1) % 4 = 0 THEN 1 ELSE (fruit_index + 1) % 4
     /\ fruit_plate' = fruit_index'
     /\ goto("v_plate")
     /\ UNCHANGED <<taskVars, semVars, words>>
  \/ call("v_plate", do_sem_v(sem_fruit), "put_fruit")

put_fruit ==
  \/ /\ at("put_fruit")
     /\ fruit_index' = IF (fruit_index + 1) % 4 = 0 THEN 1 ELSE (fruit_index + 1) % 4
     /\ fruit_plate' = fruit_index'
     /\ goto("v_plate")
     /\ UNCHANGED <<taskVars, semVars, words>>
  \/ call("v_plate", do_sem_v(sem_fruit), "p_plate")
  \/ call("p_plate", do_sem_p(sem_fruit_full), "put_fruit")

Step == get_sems \/ fork \/ father \/ put_words \/ put_fruit

userInit == words = FALSE /\ fruit_plate = 0 /\ fruit_index = 0

Init == exec_user_prg("get") /\ userInit

Next ==
  \/ Step
  \/ other_return /\ UNCHANGED userVars
  \/ tick_step /\ UNCHANGED userVars

\* A process that gets the CPU over and over gets its code executed, and the
\* PIT keeps ticking.
Spec ==
  /\ Init /\ [][Next]_vars
  /\ \A i \in Slot : SF_vars(curr_proc = i /\ Step)
  /\ WF_vars(tick_step /\ UNCHANGED userVars)

-----------------------------------------------------------------------------

Blocked(i) == status[i] = "WAITING" /\ curr_proc # i

\* The father prints a whole wish and a fruit, never a plate that is empty or
\* words that are being rewritten.
FatherIsServed ==
  pc[Father] = "print" /\ ~Blocked(Father) => words /\ fruit_plate \in 1 .. 3

\* The father has the words and has not printed them.
HasWords ==
  \/ pc[Father] = "p_fruit" /\ ~Blocked(Father)
  \/ pc[Father] = "print"

\* Nobody puts a fruit on a plate that is not empty, or words over words the
\* father has taken and not printed.
NothingOverwritten ==
  [][/\ fruit_plate # 0 => fruit_plate' \in {0, fruit_plate}
     /\ HasWords => words']_vars

\* The three never wait for each other in a circle: the father keeps printing.
FatherKeepsPrinting == []<>(pc[Father] = "print" /\ ~Blocked(Father))

=============================================================================
