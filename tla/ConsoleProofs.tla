---------------------------- MODULE ConsoleProofs ----------------------------
(***************************************************************************)
(* The safety properties of Console, for every screen, any number of       *)
(* consoles, processes, keys and switches.                                 *)
(*                                                                         *)
(* KeyInv types the state and orders the keys: line, the call of getchar   *)
(* and the mailbox.  LineInv says for each step of putchar how much of the *)
(* line stands before which cell, what is still to be printed and where    *)
(* putchar will write it, for as long as no console is switched.           *)
(***************************************************************************)
EXTENDS Console, SequenceTheorems, TLAPS

-----------------------------------------------------------------------------
(* Types.                                                                  *)

Place == Terminal \cup {VIDEO}
Key == {"letter", "enter", "backspace"}
Printing == {"print", "cursor", "write", "scroll", "back"}
ShellPlace == Printing \cup {"getchar", "poll", "take", "command", "cd", "exec", "done", "gone"}

\* The consoles keep their types.
ScreenTypes ==
  /\ curr_terminal \in Terminal /\ tmp_terminal \in Terminal
  /\ buf \in [Place -> [Cell -> Int]] /\ cursor \in [Place -> Int]
  /\ curr_dir \in Dir \cup {Root} /\ dir \in [Terminal -> Dir \cup {Root}]

\* So do the variables of keyboard, shell and processes; the shell is gone
\* while a process runs, which prints on its own console.
ShellTypes ==
  /\ typed \in Seq(Key) /\ switches \in Nat
  /\ kb_char \in 0 .. Len(typed) /\ c \in 0 .. Len(typed) /\ since \in 0 .. Len(typed)
  /\ pc \in ShellPlace
  /\ line \in Seq(Nat \ {0})
  /\ out \in Seq(Int) /\ (pc \in Printing => out # <<>>)
  /\ vidmem \in Place /\ offset \in Int
  /\ found \in Dir \cup {Root}
  /\ strayed \in BOOLEAN
  /\ curr_proc \in Proc \cup {NULL}
  /\ status \in [Proc -> {"NEW", "READY", "RUNNING", "TERMINATED"}]
  /\ terminal \in [Proc -> Terminal]
  /\ pc = "gone" <=> curr_proc # NULL
  /\ curr_proc # NULL => status[curr_proc] = "RUNNING" /\ tmp_terminal = terminal[curr_proc]

ConsoleTypes == ScreenTypes /\ ShellTypes

LEMMA Places ==
  /\ VIDEO \notin Terminal /\ Terminal \subseteq Place /\ VIDEO \in Place
  /\ 0 \in Terminal /\ NULL \notin Proc
  /\ ScreenTypes => get_terminal_buf_addr \in Place
BY TerminalAssumption, ConsoleAssumption DEF Place, Terminal, ScreenTypes, get_terminal_buf_addr

LEMMA DrawnOnScreen == Drawn \subseteq Cell /\ Drawn \subseteq Int
BY ConsoleAssumption DEF Cell

LEMMA OffsetsKept ==
  ASSUME NEW ch \in Int, NEW o \in Int
  PROVE  behind(ch, o) \in Int /\ after_scrolling(o) \in Int
<1>1. MAX_COLS \in Int /\ MAX_COLS > 0
  BY TerminalAssumption
<1>2. (o \div MAX_COLS + 1) * MAX_COLS \in Int
  BY <1>1
<1> QED BY <1>1, <1>2 DEF behind, after_scrolling

\* What putchar makes of a console has the size of one.
LEMMA CellsKept ==
  ASSUME NEW cs \in [Cell -> Int], NEW ch \in Int, NEW o \in Int
  PROVE  /\ written(cs, ch, o) \in [Cell -> Int]
         /\ handle_scrolling(cs, o) \in [Cell -> Int]
<1>1. written(cs, ch, o) \in [Cell -> Int]
  BY DEF written
<1>2. scrolled(cs) \in [Cell -> Int]
  BY DEF scrolled, BLANK
<1> QED BY <1>1, <1>2 DEF handle_scrolling

LEMMA ChangeTypes ==
  ASSUME ScreenTypes, NEW t \in Terminal, NEW shell \in BOOLEAN, change_terminal(t, shell)
  PROVE  ScreenTypes'
<1> DEFINE tmp == IF shell THEN t ELSE tmp_terminal
           a == IF t = tmp THEN VIDEO ELSE tmp
<1>1. tmp \in Terminal /\ a \in Place /\ blank \in [Cell -> Int]
  BY Places DEF ScreenTypes, blank, BLANK
<1>2. get_cursor \in Int
  BY Places DEF ScreenTypes, get_cursor
<1> HIDE DEF tmp, a
<1>3. /\ curr_terminal' = t /\ tmp_terminal' = tmp
      /\ buf' = [[[buf EXCEPT ![curr_terminal] = buf[VIDEO]] EXCEPT ![a] = blank]
                 EXCEPT ![VIDEO] = [[buf EXCEPT ![curr_terminal] = buf[VIDEO]] EXCEPT ![a] = blank][t]]
      /\ cursor' = [[[cursor EXCEPT ![curr_terminal] = get_cursor] EXCEPT ![a] = 0]
                    EXCEPT ![a] = [[cursor EXCEPT ![curr_terminal] = get_cursor] EXCEPT ![a] = 0][t]]
      /\ dir' = [dir EXCEPT ![curr_terminal] = curr_dir]
      /\ curr_dir' = [dir EXCEPT ![curr_terminal] = curr_dir][t]
  BY DEF change_terminal, tmp, a
<1>4. buf' \in [Place -> [Cell -> Int]]
  BY <1>1, <1>3, Places DEF ScreenTypes
<1>5. cursor' \in [Place -> Int]
  BY <1>1, <1>2, <1>3, Places DEF ScreenTypes
<1> QED BY <1>1, <1>3, <1>4, <1>5 DEF ScreenTypes

LEMMA PrintedTypes ==
  ASSUME ShellTypes, pc \in Printing, printed
  PROVE  /\ out' \in Seq(Int) /\ (pc' \in Printing => out' # <<>>)
         /\ pc' \in ShellPlace /\ pc' # "gone"
<1>1. out' \in Seq(Int)
  BY HeadTailProperties DEF printed, ShellTypes
<1> QED BY <1>1 DEF printed, ShellPlace, Printing

LEMMA ScreenStep ==
  ASSUME ConsoleTypes, [Next]_vars PROVE ScreenTypes'
<1>0. ScreenTypes /\ ShellTypes
  BY DEF ConsoleTypes
<1>1. CASE UNCHANGED termVars
  BY <1>0, <1>1 DEF termVars, ScreenTypes
<1>2. CASE UNCHANGED vars
  BY <1>1, <1>2 DEF vars
<1>3. ASSUME NEW t \in Terminal, press_F(t) PROVE ScreenTypes'
  <2>1. (curr_proc = NULL) \in BOOLEAN
    OBVIOUS
  <2> QED BY <1>0, <1>3, <2>1, ChangeTypes DEF press_F
<1>4. CASE write
  <2>1. Head(out) \in Int
    BY <1>0, <1>4, HeadTailProperties DEF ShellTypes, write, Printing
  <2>2. \A cs \in [Cell -> Int] : written(cs, IF clearing THEN BLANK ELSE Head(out), offset) \in [Cell -> Int]
    <3>1. (IF clearing THEN BLANK ELSE Head(out)) \in Int /\ offset \in Int
      BY <1>0, <2>1 DEF ShellTypes, BLANK
    <3> QED BY <3>1, CellsKept
  <2>3. buf' \in [Place -> [Cell -> Int]]
    BY <1>0, <1>4, <2>2 DEF write, ScreenTypes, ShellTypes
  <2> QED BY <1>0, <1>4, <2>3 DEF write, ScreenTypes
<1>5. CASE step_back
  <2>1. cursor' \in [Place -> Int]
    <3>1. (IF Head(out) = HOME THEN 0 ELSE offset - 1) \in Int
      BY <1>0 DEF ShellTypes
    <3> QED BY <1>0, <1>5, <3>1 DEF step_back, set_cursor, ScreenTypes
  <2> QED BY <1>0, <1>5, <2>1 DEF step_back, ScreenTypes
<1>6. CASE scroll
  <2>1. /\ \A cs \in [Cell -> Int] : handle_scrolling(cs, offset) \in [Cell -> Int]
        /\ after_scrolling(offset) \in Int
    BY <1>0, CellsKept, OffsetsKept DEF ShellTypes
  <2>2. buf' \in [Place -> [Cell -> Int]] /\ cursor' \in [Place -> Int]
    BY <1>0, <1>6, <2>1 DEF scroll, set_cursor, ScreenTypes
  <2> QED BY <1>0, <1>6, <2>2 DEF scroll, ScreenTypes
<1>7. CASE fat12_set_dir
  BY <1>0, <1>7 DEF fat12_set_dir, ScreenTypes, ShellTypes
<1>8. CASE schedule_proc
  BY <1>0, <1>8 DEF schedule_proc, proc_switch, set_tmp_terminal, ready, ScreenTypes, ShellTypes
<1>9. CASE process_prints
  <2>1. cursor[get_terminal_buf_addr] \in Int /\ OUTPUT \in Int
    BY <1>0, Places DEF ScreenTypes, OUTPUT
  <2>2. behind(OUTPUT, cursor[get_terminal_buf_addr]) \in Int
    BY <2>1, OffsetsKept
  <2>3. \A cs \in [Cell -> Int] :
          /\ written(cs, OUTPUT, cursor[get_terminal_buf_addr]) \in [Cell -> Int]
          /\ handle_scrolling(cs, behind(OUTPUT, cursor[get_terminal_buf_addr])) \in [Cell -> Int]
          /\ after_scrolling(behind(OUTPUT, cursor[get_terminal_buf_addr])) \in Int
    BY <2>1, <2>2, CellsKept, OffsetsKept
  <2>4. buf' \in [Place -> [Cell -> Int]] /\ cursor' \in [Place -> Int]
    BY <1>0, <1>9, <2>3, Places DEF process_prints, putchar, set_cursor, ScreenTypes
  <2> QED BY <1>0, <1>9, <2>4 DEF process_prints, ScreenTypes
<1>11. CASE process_draws
  <2>1. PICK o \in Drawn :
          \/ buf' = [buf EXCEPT ![VIDEO][o] = OUTPUT] /\ UNCHANGED cursor
          \/ cursor' = [cursor EXCEPT ![VIDEO] = o] /\ UNCHANGED buf
    BY <1>11 DEF process_draws
  <2>2. o \in Cell /\ o \in Int /\ OUTPUT \in Int
    BY DrawnOnScreen DEF OUTPUT
  <2>3. buf' \in [Place -> [Cell -> Int]] /\ cursor' \in [Place -> Int]
    BY <1>0, <2>1, <2>2, Places DEF ScreenTypes
  <2> QED BY <1>0, <1>11, <2>3 DEF process_draws, ScreenTypes
<1>10. getchar \/ poll \/ take \/ latch_addr \/ latch_cursor \/ put_prompt \/ clear_screen
       \/ fat12_find_entry \/ exec \/ exec_nothing \/ (\E p \in Proc : proc_create(p))
       \/ process_returns \/ press_ctrl(TRUE) \/ press_ctrl(FALSE) \/ press_char
       => UNCHANGED termVars
  BY DEF getchar, poll, take, latch_addr, latch_cursor, put_prompt, clear_screen,
         fat12_find_entry, exec, exec_nothing, proc_create, process_returns, press_ctrl, press_char
<1> QED BY <1>1, <1>2, <1>3, <1>4, <1>5, <1>6, <1>7, <1>8, <1>9, <1>10, <1>11
        DEF Next, terminal_loop, keyboard_handler_main

\* The keys that getline has taken into the line, each at its place.
LEMMA LineTypes ==
  ASSUME ShellTypes, pc = "take", take, c # 0
  PROVE  /\ line' \in Seq(Nat \ {0}) /\ out' \in Seq(Int)
         /\ pc' \in {"getchar", "print"} /\ (pc' = "print" => out' # <<>>)
<1>1. line \in Seq(Nat \ {0}) /\ out \in Seq(Int) /\ c \in Nat \ {0}
  BY DEF ShellTypes
<1>2. CASE UNCHANGED <<line, out>> /\ pc' = "getchar"
  BY <1>1, <1>2
<1>3. CASE line # <<>> /\ line' = SubSeq(line, 1, Len(line) - 1) /\ out' = erase /\ pc' = "print"
  <2>1. line' \in Seq(Nat \ {0})
    BY <1>1, <1>3
  <2>2. erase \in Seq(Int) /\ erase # <<>>
    BY DEF erase, BACK, BLANK
  <2> QED BY <1>3, <2>1, <2>2
<1>4. CASE line' = Append(line, c) /\ out' = <<c>> /\ pc' = "print"
  BY <1>1, <1>4
<1>5. CASE out' = <<NEWLINE>> /\ pc' = "print" /\ UNCHANGED line
  BY <1>1, <1>5 DEF NEWLINE
<1> QED BY <1>2, <1>3, <1>4, <1>5 DEF take

LEMMA ShellStep ==
  ASSUME ConsoleTypes, pc = "take" => c # 0, [Next]_vars PROVE ShellTypes'
<1>0. ShellTypes /\ ScreenTypes
  BY DEF ConsoleTypes
<1>k. /\ typed \in Seq(Key) /\ Len(typed) \in Nat
      /\ kb_char \in 0 .. Len(typed) /\ c \in 0 .. Len(typed) /\ since \in 0 .. Len(typed)
  BY <1>0 DEF ShellTypes
<1>n. pc # "gone" => curr_proc = NULL
  BY <1>0 DEF ShellTypes
<1> USE <1>0
<1>1. CASE UNCHANGED vars \/ press_ctrl(TRUE) \/ press_ctrl(FALSE)
  BY <1>1 DEF vars, termVars, kbVars, shellVars, procVars, press_ctrl, ShellTypes
<1>2. ASSUME NEW t \in Terminal, press_F(t) PROVE ShellTypes'
  <2>1. curr_proc # NULL => UNCHANGED tmp_terminal
    BY <1>2 DEF press_F, change_terminal
  <2>2. UNCHANGED <<kb_char, typed, pc, line, c, since, out, vidmem, offset, found, procVars>>
        /\ switches' = switches + 1 /\ strayed' \in BOOLEAN
    BY <1>2 DEF press_F, ShellTypes
  <2> QED BY <2>1, <2>2 DEF procVars, ShellTypes
<1>3. CASE press_char
  <2>1. typed' \in Seq(Key) /\ Len(typed') >= Len(typed) /\ kb_char' \in 0 .. Len(typed') /\ Len(typed') \in Nat
    <3>1. CASE kb_char' = 0 /\ UNCHANGED typed
      BY <1>k, <3>1
    <3>2. CASE (\E k \in Key : typed' = Append(typed, k)) /\ kb_char' = Len(typed')
      BY <1>k, <3>2
    <3> QED BY <1>3, <3>1, <3>2 DEF press_char, Key
  <2>2. c \in 0 .. Len(typed') /\ since \in 0 .. Len(typed')
    BY <1>k, <2>1
  <2>3. UNCHANGED <<tmp_terminal, switches, pc, line, c, since, out, vidmem, offset, found, home, strayed, curr_proc, status, terminal>>
    BY <1>3 DEF press_char, termVars, shellVars, procVars
  <2> QED BY <2>1, <2>2, <2>3 DEF ShellTypes
<1>4. CASE getchar \/ poll \/ latch_addr
  BY <1>k, <1>4, Places DEF getchar, poll, latch_addr, termVars, kbVars, procVars, ShellTypes, ShellPlace, Printing
<1>5. CASE latch_cursor
  <2>1. Head(out) \in Int /\ get_cursor \in Int
    BY <1>5, HeadTailProperties, Places DEF latch_cursor, ShellTypes, Printing, ScreenTypes, get_cursor
  <2>2. offset' \in Int
    BY <1>5, <2>1 DEF latch_cursor, cell_cleared, HOME
  <2> QED BY <1>5, <2>2 DEF latch_cursor, termVars, kbVars, procVars, ShellTypes, ShellPlace, Printing
<1>6. CASE take
  <2>1. c # 0 /\ pc = "take"
    BY <1>6 DEF take
  <2>2. UNCHANGED <<tmp_terminal, typed, switches, c, since, vidmem, offset, found, home, strayed, curr_proc, status, terminal>>
        /\ kb_char' = 0
    BY <1>6 DEF take, termVars, procVars
  <2>3. /\ line' \in Seq(Nat \ {0}) /\ out' \in Seq(Int)
         /\ pc' \in {"getchar", "print"} /\ (pc' = "print" => out' # <<>>)
    BY <1>6, <2>1, LineTypes
  <2> QED BY <1>k, <2>1, <2>2, <2>3 DEF ShellTypes, ShellPlace, Printing
<1>7. CASE write
  <2>1. behind(Head(out), offset) \in Int
    <3>1. Head(out) \in Int /\ offset \in Int
      BY <1>7, HeadTailProperties DEF write, ShellTypes, Printing
    <3> QED BY <3>1, OffsetsKept
  <2> QED BY <1>7, <2>1 DEF write, kbVars, procVars, ShellTypes, ShellPlace, Printing
<1>8. CASE step_back \/ scroll
  <2>1. pc \in Printing /\ printed
    BY <1>8 DEF step_back, scroll, Printing
  <2>2. UNCHANGED <<tmp_terminal, kb_char, typed, switches, line, c, since, vidmem, offset, found, home, strayed, curr_proc, status, terminal>>
    BY <1>8 DEF step_back, scroll, kbVars, procVars
  <2>3. pc # "gone"
    BY <2>1 DEF Printing
  <2> QED BY <2>1, <2>2, <2>3, PrintedTypes DEF ShellTypes
<1>9. CASE put_prompt
  <2>1. <<PROMPT>> \in Seq(Int) /\ <<PROMPT>> # <<>> /\ <<>> \in Seq(Nat \ {0})
    BY DEF PROMPT
  <2>2. out' \in Seq(Int) /\ out' # <<>> /\ line' \in Seq(Nat \ {0})
    BY <1>9, <2>1, Zenon DEF put_prompt
  <2>3. /\ c' = 0 /\ found' = Root /\ strayed' \in BOOLEAN /\ pc' = "print" /\ pc # "gone"
        /\ UNCHANGED <<tmp_terminal, kb_char, typed, switches, since, vidmem, offset, curr_proc, status, terminal>>
    BY <1>9 DEF put_prompt, termVars, kbVars, procVars
  <2>4. pc' \in ShellPlace
    BY <2>3 DEF ShellPlace, Printing
  <2>5. /\ typed' \in Seq(Key) /\ switches' \in Nat
        /\ kb_char' \in 0 .. Len(typed') /\ c' \in 0 .. Len(typed') /\ since' \in 0 .. Len(typed')
    BY <1>k, <2>3 DEF ShellTypes
  <2> QED BY <2>2, <2>3, <2>4, <2>5 DEF ShellTypes
<1>10. CASE clear_screen
  <2>1. MAX_ROWS * MAX_COLS \in Nat
    BY TerminalAssumption
  <2>2. [k \in 1 .. MAX_ROWS * MAX_COLS |-> clear(k - 1)] \in Seq(Int) /\ HOME \in Int
    BY <2>1 DEF clear, HOME
  <2>3. Append([k \in 1 .. MAX_ROWS * MAX_COLS |-> clear(k - 1)], HOME) \in Seq(Int)
        /\ Append([k \in 1 .. MAX_ROWS * MAX_COLS |-> clear(k - 1)], HOME) # <<>>
    <3> DEFINE s == [k \in 1 .. MAX_ROWS * MAX_COLS |-> clear(k - 1)]
    <3>1. s \in Seq(Int)
      BY <2>2
    <3> HIDE DEF s
    <3>2. Append(s, HOME) \in Seq(Int) /\ Append(s, HOME) # <<>>
      BY <2>2, <3>1, AppendProperties
    <3> QED BY <3>2 DEF s
  <2>4. out' \in Seq(Int) /\ out' # <<>>
    BY <1>10, <2>3 DEF clear_screen
  <2> QED BY <1>10, <2>4 DEF clear_screen, termVars, kbVars, procVars, ShellTypes, ShellPlace, Printing
<1>11. CASE fat12_find_entry \/ fat12_set_dir \/ exec \/ exec_nothing
  BY <1>11 DEF fat12_find_entry, fat12_set_dir, exec, exec_nothing, termVars, kbVars, procVars, ShellTypes, ShellPlace, Printing
<1>12. ASSUME NEW p \in Proc, proc_create(p) PROVE ShellTypes'
  BY <1>12 DEF proc_create, termVars, kbVars, shellVars, ShellTypes, ScreenTypes
<1>13. CASE schedule_proc
  <2>1. PICK p \in ready : proc_switch(p)
    BY <1>13 DEF schedule_proc
  <2>2. p \in Proc /\ p # NULL
    BY Places DEF ready
  <2>3. /\ curr_proc' = p /\ status' \in [Proc -> {"NEW", "READY", "RUNNING", "TERMINATED"}]
        /\ status'[p] = "RUNNING" /\ tmp_terminal' = terminal[p]
    BY <2>1, <2>2 DEF proc_switch, set_tmp_terminal, ShellTypes
  <2>4. <<>> \in Seq(Nat \ {0}) /\ <<>> \in Seq(Int)
    OBVIOUS
  <2>5. shell_gone /\ UNCHANGED <<typed, switches, kb_char, terminal>>
    BY <1>13 DEF schedule_proc, kbVars
  <2>6. out' \in Seq(Int) /\ line' \in Seq(Nat \ {0})
    BY <2>4, <2>5, Zenon DEF shell_gone
  <2>7. /\ pc' = "gone" /\ c' = 0 /\ since' = 0 /\ vidmem' = VIDEO /\ offset' = 0 /\ found' = Root
        /\ strayed' \in BOOLEAN
    BY <2>5 DEF shell_gone
  <2>8. VIDEO \in Place /\ curr_proc' # NULL
    BY <2>2, <2>3, Places
  <2>9. pc' \in ShellPlace /\ pc' \notin Printing
    BY <2>7 DEF ShellPlace, Printing
  <2>10. /\ typed' \in Seq(Key) /\ switches' \in Nat /\ terminal' \in [Proc -> Terminal]
         /\ kb_char' \in 0 .. Len(typed') /\ c' \in 0 .. Len(typed') /\ since' \in 0 .. Len(typed')
    BY <1>k, <2>5, <2>7 DEF ShellTypes
  <2> QED BY <2>2, <2>3, <2>5, <2>6, <2>7, <2>8, <2>9, <2>10 DEF ShellTypes
<1>14. CASE process_prints \/ process_draws
  BY <1>14 DEF process_prints, process_draws, kbVars, shellVars, procVars, ShellTypes
<1>15. CASE process_returns
  BY <1>15 DEF process_returns, termVars, kbVars, ShellTypes, ShellPlace, Printing
<1> QED BY <1>1, <1>2, <1>3, <1>4, <1>5, <1>6, <1>7, <1>8, <1>9, <1>10, <1>11, <1>12, <1>13, <1>14, <1>15
        DEF Next, terminal_loop, keyboard_handler_main

-----------------------------------------------------------------------------
(* The keys.                                                               *)

Increasing(l) == \A i, j \in DOMAIN l : i < j => l[i] < l[j]

\* What getchar waits for is newer than its call, and that is newer than the
\* line.
KeyOrder ==
  /\ pc = "poll" => kb_char = 0 \/ kb_char > since
  /\ pc = "take" => c > since
  /\ Increasing(line)
  /\ \A i \in DOMAIN line : line[i] <= Len(typed)
  /\ pc \in {"poll", "take"} => \A i \in DOMAIN line : line[i] <= since

LEMMA LineLonger ==
  ASSUME NEW l \in Seq(Nat \ {0}), NEW n \in Nat, Increasing(l), \A i \in DOMAIN l : l[i] < n
  PROVE  /\ Increasing(Append(l, n))
         /\ \A i \in DOMAIN Append(l, n) : Append(l, n)[i] <= n
<1>1. Len(l) \in Nat /\ DOMAIN l = 1 .. Len(l) /\ \A i \in 1 .. Len(l) : l[i] \in Nat
  BY LenProperties
<1>2. /\ DOMAIN Append(l, n) = 1 .. Len(l) + 1
      /\ \A i \in 1 .. Len(l) : Append(l, n)[i] = l[i]
      /\ Append(l, n)[Len(l) + 1] = n
  BY <1>1
<1>3. \A i \in 1 .. Len(l) + 1 : i \in 1 .. Len(l) \/ i = Len(l) + 1
  BY <1>1
<1> QED BY <1>1, <1>2, <1>3 DEF Increasing

LEMMA LineShorter ==
  ASSUME NEW l \in Seq(Nat \ {0}), l # <<>>, Increasing(l), NEW n \in Nat, \A i \in DOMAIN l : l[i] <= n
  PROVE  LET s == SubSeq(l, 1, Len(l) - 1)
         IN  Increasing(s) /\ \A i \in DOMAIN s : s[i] <= n
<1>1. Len(l) \in Nat \ {0} /\ DOMAIN l = 1 .. Len(l) /\ \A i \in 1 .. Len(l) : l[i] \in Nat
  BY LenProperties
<1>2. /\ DOMAIN SubSeq(l, 1, Len(l) - 1) = 1 .. Len(l) - 1
      /\ \A i \in 1 .. Len(l) - 1 : SubSeq(l, 1, Len(l) - 1)[i] = l[i]
  BY <1>1
<1> QED BY <1>1, <1>2 DEF Increasing

LEMMA KeyStep ==
  ASSUME ShellTypes, KeyOrder, [Next]_vars PROVE KeyOrder'
<1>k. /\ typed \in Seq(Key) /\ Len(typed) \in Nat
      /\ kb_char \in 0 .. Len(typed) /\ c \in 0 .. Len(typed) /\ since \in 0 .. Len(typed)
      /\ line \in Seq(Nat \ {0}) /\ \A i \in DOMAIN line : line[i] \in Nat
  BY LenProperties DEF ShellTypes
<1>e. Increasing(<<>>) /\ \A i \in DOMAIN <<>> : FALSE
  BY DEF Increasing
<1>1. ASSUME UNCHANGED <<typed, line, since, c>>, pc' = pc, pc = "poll" => UNCHANGED kb_char
      PROVE  KeyOrder'
  BY <1>1 DEF KeyOrder
<1>2. ASSUME UNCHANGED <<typed, line>>, pc' \notin {"poll", "take"}
      PROVE  KeyOrder'
  BY <1>2 DEF KeyOrder
<1>3. CASE UNCHANGED vars \/ process_prints \/ process_draws \/ (\E p \in Proc : proc_create(p)) \/ press_ctrl(TRUE)
           \/ press_ctrl(FALSE) \/ (\E t \in Terminal : press_F(t))
  BY <1>1, <1>3 DEF vars, kbVars, shellVars, process_prints, process_draws, proc_create, press_ctrl, press_F
<1>4. CASE press_char
  <2>1. /\ Len(typed') \in Nat /\ Len(typed') >= Len(typed)
        /\ kb_char' = 0 \/ (kb_char' = Len(typed') /\ Len(typed') > Len(typed))
    BY <1>k, <1>4 DEF press_char
  <2>2. UNCHANGED <<pc, line, c, since>>
    BY <1>4 DEF press_char, shellVars
  <2> QED BY <1>k, <2>1, <2>2 DEF KeyOrder
<1>5. CASE getchar
  BY <1>k, <1>5 DEF getchar, KeyOrder
<1>6. CASE poll
  BY <1>k, <1>6 DEF poll, kbVars, KeyOrder
<1>7. CASE take
  <2>1. /\ pc = "take" /\ pc' \in {"getchar", "print"} /\ UNCHANGED typed
    BY <1>7 DEF take
  <2>2. CASE UNCHANGED line
    BY <1>2, <2>1, <2>2
  <2>3. CASE line # <<>> /\ line' = SubSeq(line, 1, Len(line) - 1)
    BY <1>k, <2>1, <2>3, LineShorter DEF KeyOrder
  <2>4. CASE line' = Append(line, c)
    <3>1. c \in Nat /\ \A i \in DOMAIN line : line[i] < c
      BY <1>k, <2>1 DEF KeyOrder
    <3>2. Increasing(line') /\ \A i \in DOMAIN line' : line'[i] <= c
      BY <1>k, <2>4, <3>1, LineLonger DEF KeyOrder
    <3>3. Len(typed') = Len(typed) /\ c <= Len(typed) /\ line' \in Seq(Nat \ {0})
      <4>1. c \in Nat \ {0}
        BY <1>k, <2>1 DEF KeyOrder
      <4> QED BY <1>k, <2>1, <2>4, <4>1
    <3>4. \A i \in DOMAIN line' : line'[i] \in Nat
      BY <3>3, LenProperties
    <3>5. \A i \in DOMAIN line' : line'[i] <= Len(typed')
      BY <1>k, <3>1, <3>2, <3>3, <3>4
    <3> QED BY <2>1, <3>2, <3>5 DEF KeyOrder
  <2> QED BY <1>7, <2>2, <2>3, <2>4 DEF take
<1>8. CASE put_prompt \/ schedule_proc
  <2>1. line' = <<>> /\ pc' \notin {"poll", "take"}
    BY <1>8 DEF put_prompt, schedule_proc, shell_gone
  <2> QED BY <1>e, <2>1 DEF KeyOrder
<1>9. CASE latch_addr \/ latch_cursor \/ write \/ clear_screen \/ fat12_find_entry \/ fat12_set_dir
           \/ exec \/ exec_nothing \/ process_returns
  BY <1>2, <1>9 DEF latch_addr, latch_cursor, write, clear_screen, fat12_find_entry,
     fat12_set_dir, exec, exec_nothing, process_returns, kbVars
<1>10. CASE step_back \/ scroll
  BY <1>2, <1>10 DEF step_back, scroll, printed, kbVars
<1> QED BY <1>3, <1>4, <1>5, <1>6, <1>7, <1>8, <1>9, <1>10 DEF Next, terminal_loop, keyboard_handler_main

\* A cd works on the console that it was given on, until a switch.
CdAtHome == pc = "cd" /\ ~strayed => home = curr_terminal

LEMMA CdStep ==
  ASSUME CdAtHome, [Next]_vars PROVE CdAtHome'
<1>1. ASSUME pc' # "cd" PROVE CdAtHome'
  BY <1>1 DEF CdAtHome
<1>2. ASSUME UNCHANGED <<pc, strayed, home, curr_terminal>> PROVE CdAtHome'
  BY <1>2 DEF CdAtHome
<1>3. ASSUME NEW t \in Terminal, press_F(t) PROVE CdAtHome'
  BY <1>3 DEF press_F, change_terminal, CdAtHome
<1>4. CASE fat12_find_entry
  BY <1>4 DEF fat12_find_entry, termVars, CdAtHome
<1>5. CASE UNCHANGED vars \/ press_ctrl(TRUE) \/ press_ctrl(FALSE) \/ press_char
           \/ (\E p \in Proc : proc_create(p)) \/ process_prints \/ process_draws
  BY <1>2, <1>5 DEF vars, termVars, shellVars, press_ctrl, press_char, proc_create,
     process_prints, process_draws
<1>6. CASE getchar \/ poll \/ take \/ latch_addr \/ latch_cursor \/ write \/ step_back \/ scroll
           \/ put_prompt \/ clear_screen \/ fat12_set_dir \/ exec \/ exec_nothing
           \/ schedule_proc \/ process_returns
  BY <1>1, <1>6 DEF getchar, poll, take, latch_addr, latch_cursor, write, step_back, scroll, printed,
     put_prompt, clear_screen, fat12_set_dir, exec, exec_nothing, schedule_proc, shell_gone, process_returns
<1> QED BY <1>3, <1>4, <1>5, <1>6 DEF Next, terminal_loop, keyboard_handler_main

KeyInv == ConsoleTypes /\ KeyOrder /\ CdAtHome

LEMMA ConsoleStart == Init => KeyInv
<1> SUFFICES ASSUME Init PROVE KeyInv
  OBVIOUS
<1>1. ScreenTypes
  <2>1. MAX_ROWS * MAX_COLS \in Nat /\ 0 \in Terminal
    BY TerminalAssumption, Places
  <2>2. [blank EXCEPT ![0] = PROMPT] \in [Cell -> Int]
    <3>1. blank \in [Cell -> Int] /\ PROMPT \in Int
      BY DEF blank, BLANK, PROMPT
    <3> QED BY <3>1
  <2> QED BY <2>1, <2>2 DEF Init, terminal_init, ScreenTypes, Place
<1>2. ShellTypes
  <2>1. <<>> \in Seq(Int) /\ <<>> \in Seq(Nat \ {0}) /\ <<>> \in Seq(Key) /\ Len(<<>>) = 0
    OBVIOUS
  <2>2. line \in Seq(Nat \ {0}) /\ out \in Seq(Int) /\ typed \in Seq(Key) /\ Len(typed) = 0
    BY <2>1, Zenon DEF Init
  <2>3. /\ kb_char = 0 /\ c = 0 /\ since = 0 /\ switches = 0 /\ offset = 0
        /\ pc = "getchar" /\ vidmem = VIDEO /\ found = Root /\ strayed \in BOOLEAN /\ curr_proc = NULL
    BY DEF Init
  <2>4. /\ status \in [Proc -> {"NEW", "READY", "RUNNING", "TERMINATED"}]
        /\ terminal \in [Proc -> Terminal]
    BY Places DEF Init
  <2>5. VIDEO \in Place /\ pc \in ShellPlace /\ pc \notin Printing
    BY <2>3, Places DEF ShellPlace, Printing
  <2> QED BY <2>2, <2>3, <2>4, <2>5 DEF ShellTypes
<1>3. KeyOrder
  <2>1. line = <<>> /\ pc = "getchar"
    BY DEF Init
  <2> QED BY <2>1 DEF KeyOrder, Increasing
<1>4. CdAtHome
  BY DEF Init, CdAtHome
<1> QED BY <1>1, <1>2, <1>3, <1>4 DEF KeyInv, ConsoleTypes

LEMMA ConsoleStep == ASSUME KeyInv, [Next]_vars PROVE KeyInv'
<1>1. pc = "take" => c # 0
  BY DEF KeyInv, KeyOrder, ConsoleTypes, ShellTypes
<1> QED BY <1>1, ScreenStep, ShellStep, KeyStep, CdStep DEF KeyInv, ConsoleTypes

LEMMA KeyInvariant == Spec => []KeyInv
<1>1. KeyInv /\ [Next]_vars => KeyInv'
  BY ConsoleStep
<1> QED BY <1>1, ConsoleStart, PTL DEF Spec

\* A line holds its keys as they were typed, none twice or out of order, and
\* getchar returns no key from before its call, whenever keyboard_handler_main
\* comes between the stores to the mailbox.
THEOREM KeysAreFresh == Spec => []FreshKeys
<1>1. KeyInv => FreshKeys
  BY DEF KeyInv, KeyOrder, Increasing, FreshKeys
<1> QED BY <1>1, KeyInvariant, PTL

-----------------------------------------------------------------------------
(* The consoles.                                                           *)

\* Where the cells and the cursor of console t are.
At(t) == IF t = curr_terminal THEN VIDEO ELSE t

LEMMA WhereConsoles ==
  ASSUME ScreenTypes, NEW t \in Terminal
  PROVE  /\ cells(t) = buf[At(t)] /\ cursor_of(t) = cursor[At(t)] /\ At(t) \in Place
         /\ At(t) = get_terminal_buf_addr => t = tmp_terminal
         /\ UNCHANGED curr_terminal => cells(t)' = buf'[At(t)] /\ cursor_of(t)' = cursor'[At(t)]
         /\ At(t) = VIDEO => t = curr_terminal
BY Places DEF cells, cursor_of, At, get_terminal_buf_addr, ScreenTypes

\* A switch saves and restores: every directory always, the cells and, if the
\* shell was on the screen, the cursors as well when the shell has the CPU.
LEMMA SwitchKeeps ==
  ASSUME ScreenTypes, NEW new \in Terminal, NEW shell \in BOOLEAN, change_terminal(new, shell),
         NEW t \in Terminal
  PROVE  /\ dir_of(t)' = dir_of(t)
         /\ shell => /\ cells(t)' = cells(t)
                     /\ curr_terminal = tmp_terminal => cursor_of(t)' = cursor_of(t)
<1>1. curr_terminal' = new /\ curr_terminal \in Terminal
  BY DEF change_terminal, ScreenTypes
<1>2. dir_of(t)' = dir_of(t)
  <2>1. dir' = [dir EXCEPT ![curr_terminal] = curr_dir] /\ curr_dir' = [dir EXCEPT ![curr_terminal] = curr_dir][new]
    BY DEF change_terminal
  <2> QED BY <1>1, <2>1 DEF dir_of, ScreenTypes
<1>3. ASSUME shell
      PROVE  /\ buf' = [[[buf EXCEPT ![curr_terminal] = buf[VIDEO]] EXCEPT ![VIDEO] = blank]
                        EXCEPT ![VIDEO] = [[buf EXCEPT ![curr_terminal] = buf[VIDEO]] EXCEPT ![VIDEO] = blank][new]]
             /\ cursor' = [[[cursor EXCEPT ![curr_terminal] = get_cursor] EXCEPT ![VIDEO] = 0]
                          EXCEPT ![VIDEO] = [[cursor EXCEPT ![curr_terminal] = get_cursor] EXCEPT ![VIDEO] = 0][new]]
  BY <1>3 DEF change_terminal
<1>4. ASSUME shell PROVE cells(t)' = cells(t)
  <2>1. /\ \A s \in Terminal : buf'[s] = IF s = curr_terminal THEN buf[VIDEO] ELSE buf[s]
        /\ buf'[VIDEO] = IF new = curr_terminal THEN buf[VIDEO] ELSE buf[new]
    BY <1>1, <1>3, <1>4, Places DEF ScreenTypes
  <2> QED BY <1>1, <2>1 DEF cells
<1>5. ASSUME shell, curr_terminal = tmp_terminal PROVE cursor_of(t)' = cursor_of(t)
  <2>1. get_cursor = cursor[VIDEO]
    BY <1>5 DEF get_cursor, get_terminal_buf_addr
  <2>2. /\ \A s \in Terminal : cursor'[s] = IF s = curr_terminal THEN cursor[VIDEO] ELSE cursor[s]
        /\ cursor'[VIDEO] = IF new = curr_terminal THEN cursor[VIDEO] ELSE cursor[new]
    BY <1>1, <1>3, <1>5, <2>1, Places DEF ScreenTypes
  <2> QED BY <1>1, <2>2 DEF cursor_of
<1> QED BY <1>2, <1>4, <1>5

LEMMA ApartStep ==
  ASSUME KeyInv, [Next]_vars, NEW t \in Terminal
  PROVE  Apart(t)
<1>0. ScreenTypes /\ ShellTypes
  BY DEF KeyInv, ConsoleTypes
<1>w. writer = tmp_terminal
  BY <1>0 DEF writer, ShellTypes
<1>a. get_terminal_buf_addr \in Place
  BY <1>0, Places
<1>d. UNCHANGED <<curr_terminal, curr_dir, dir>> => dir_of(t)' = dir_of(t)
  BY DEF dir_of
<1>1. ASSUME UNCHANGED <<curr_terminal, buf, cursor, curr_dir, dir>> PROVE Apart(t)
  BY <1>1 DEF Apart, dir_of, cells, cursor_of
<1>2. CASE UNCHANGED vars \/ schedule_proc \/ getchar \/ poll \/ take \/ latch_addr \/ latch_cursor
           \/ put_prompt \/ clear_screen \/ fat12_find_entry \/ exec \/ exec_nothing
           \/ (\E p \in Proc : proc_create(p)) \/ process_returns
           \/ press_ctrl(TRUE) \/ press_ctrl(FALSE) \/ press_char
  BY <1>1, <1>2 DEF vars, termVars, getchar, poll, take, latch_addr, latch_cursor, put_prompt, clear_screen,
     fat12_find_entry, exec, exec_nothing, proc_create, process_returns, press_ctrl, press_char, schedule_proc
<1>3. ASSUME NEW new \in Terminal, press_F(new) PROVE Apart(t)
  <2>1. switches' # switches
    BY <1>0, <1>3 DEF press_F, ShellTypes
  <2>2. change_terminal(new, curr_proc = NULL) /\ (curr_proc = NULL) \in BOOLEAN
    BY <1>3 DEF press_F
  <2> QED BY <1>0, <2>1, <2>2, SwitchKeeps DEF Apart
\* What changes at one place of cells and one cursor, both that of the writer,
\* torn, or drawn.
<1>4. ASSUME NEW a \in Place, NEW x \in Place,
             \A s \in Place \ {a} : buf'[s] = buf[s],
             \A s \in Place \ {x} : cursor'[s] = cursor[s],
             UNCHANGED <<curr_terminal, curr_dir, dir, switches>>,
             a = get_terminal_buf_addr \/ torn \/ (a = VIDEO /\ curr_proc # NULL),
             x = get_terminal_buf_addr \/ (x = VIDEO /\ curr_proc # NULL)
      PROVE  Apart(t)
  <2>1. At(t) # a => cells(t)' = cells(t)
    BY <1>0, <1>4, WhereConsoles
  <2>2. At(t) = a => t = writer \/ torn \/ drawn(t)
    BY <1>0, <1>w, <1>4, WhereConsoles DEF drawn
  <2>3. At(t) # x => cursor_of(t)' = cursor_of(t)
    BY <1>0, <1>4, WhereConsoles
  <2>4. At(t) = x => t = writer \/ drawn(t)
    BY <1>0, <1>w, <1>4, WhereConsoles DEF drawn
  <2> QED BY <1>d, <1>4, <2>1, <2>2, <2>3, <2>4 DEF Apart
<1>5. CASE write
  <2>1. vidmem \in Place /\ (vidmem = get_terminal_buf_addr \/ torn)
    BY <1>0, <1>5 DEF write, torn, ShellTypes
  <2>2. /\ \A s \in Place \ {vidmem} : buf'[s] = buf[s]
        /\ UNCHANGED <<cursor, curr_terminal, curr_dir, dir, switches>>
    BY <1>0, <1>5 DEF write, kbVars, ScreenTypes
  <2> QED BY <1>4, <1>a, <2>1, <2>2
<1>6. CASE step_back
  <2>1. /\ UNCHANGED <<curr_terminal, buf, curr_dir, dir, switches>>
        /\ \A s \in Place \ {get_terminal_buf_addr} : cursor'[s] = cursor[s]
    BY <1>0, <1>6 DEF step_back, set_cursor, kbVars, ScreenTypes
  <2> QED BY <1>4, <1>a, <2>1
<1>7. CASE scroll
  <2>1. /\ UNCHANGED <<curr_terminal, curr_dir, dir, switches>>
        /\ \A s \in Place \ {get_terminal_buf_addr} : buf'[s] = buf[s] /\ cursor'[s] = cursor[s]
    BY <1>0, <1>7 DEF scroll, set_cursor, kbVars, ScreenTypes
  <2> QED BY <1>4, <1>a, <2>1
<1>8. CASE fat12_set_dir
  <2>1. /\ UNCHANGED <<curr_terminal, buf, cursor, dir, switches>> /\ pc = "cd"
    BY <1>8 DEF fat12_set_dir, kbVars
  <2>2. dir_of(t)' # dir_of(t) => t = curr_terminal
    BY <2>1 DEF dir_of
  <2>3. strayed \/ home = curr_terminal
    BY <2>1 DEF KeyInv, CdAtHome
  <2> QED BY <2>1, <2>2, <2>3 DEF cells, cursor_of, Apart
<1>9. CASE process_prints
  <2>1. /\ UNCHANGED <<curr_terminal, curr_dir, dir, switches>>
        /\ \A s \in Place \ {get_terminal_buf_addr} : buf'[s] = buf[s] /\ cursor'[s] = cursor[s]
    BY <1>0, <1>9 DEF process_prints, putchar, set_cursor, kbVars, ScreenTypes
  <2> QED BY <1>4, <1>a, <2>1
<1>10. CASE process_draws
  <2>1. /\ UNCHANGED <<curr_terminal, curr_dir, dir, switches>> /\ curr_proc # NULL
        /\ \A s \in Place \ {VIDEO} : buf'[s] = buf[s] /\ cursor'[s] = cursor[s]
    BY <1>0, <1>10 DEF process_draws, kbVars, ScreenTypes
  <2> QED BY <1>4, <2>1, Places
<1> QED BY <1>2, <1>3, <1>5, <1>6, <1>7, <1>8, <1>9, <1>10 DEF Next, terminal_loop, keyboard_handler_main

\* The kernel writes for shell and processes to their own console only, but for
\* a character on its way when the consoles are switched; what processes draw
\* themselves stays on the console shown; a cd changes the directory of the
\* console it was given on, unless a switch came into it; and change_terminal
\* called over the shell loses nothing of any console.
THEOREM ConsolesStayApart == Spec => ConsolesApart
<1>1. KeyInv /\ [Next]_vars => [\A t \in Terminal : Apart(t)]_vars
  BY ApartStep
<1> QED BY <1>1, KeyInvariant, PTL DEF Spec, ConsolesApart

-----------------------------------------------------------------------------
(* The line on the screen.                                                 *)

Size == MAX_ROWS * MAX_COLS

\* All but the last n keys of line l stand before cell p, unless they have been
\* scrolled away.
Shown(cs, p, l, n) ==
  \A k \in n + 1 .. Len(l) : p - k \in Cell => cs[p - k] = l[Len(l) + 1 - k]

\* Nothing is written behind the screen.
InScreen ==
  /\ \A x \in Place : cursor[x] < Size
  /\ pc \in {"write", "back"} => offset < Size
  /\ pc = "scroll" => offset <= Size
  /\ \A i \in DOMAIN out : cell_cleared(out[i]) < Size

\* What getline is printing, with what line and screen have in common then: a
\* letter that is already in the line, or the steps that take one back.
Echoing ==
  LET a == get_terminal_buf_addr
      cs == buf[a]
      here == IF pc = "scroll" THEN offset ELSE cursor[a]
  IN  /\ pc \in {"cursor", "write"} => vidmem = a
      /\ pc \in {"write", "back"} => offset = cursor[a]
      /\ \/ /\ out = <<c>> /\ c > 0 /\ line[Len(line)] = c
            /\ pc # "back"
            /\ IF pc = "scroll" THEN Shown(cs, here, line, 0) ELSE Shown(cs, here + 1, line, 1)
         \/ /\ out \in {erase, <<BACK>>}
            /\ pc \notin {"write", "scroll"}
            /\ Shown(cs, here - 1, line, 0)
         \/ /\ out = <<BLANK, BACK>>
            /\ pc # "back"
            /\ IF pc = "scroll" THEN Shown(cs, here - 1, line, 0) ELSE Shown(cs, here, line, 0)

Entered == c # 0 /\ typed[c] = "enter"

LineInv ==
  /\ InScreen
  /\ pc = "gone" => line = <<>>
  /\ pc = "command" => Entered
  /\ ~strayed =>
       /\ pc \in {"getchar", "poll", "take"} =>
            Shown(buf[get_terminal_buf_addr], cursor[get_terminal_buf_addr], line, 0)
       /\ pc \in Printing => line = <<>> \/ Entered \/ Echoing

LEMMA NextRow ==
  ASSUME NEW o \in Int, NEW R \in Nat, NEW m \in Nat \ {0}, o < R * m
  PROVE  (o \div m + 1) * m <= R * m /\ (o \div m + 1) * m \in Int
<1> DEFINE q == o \div m
           d == o % m
<1>1. o = m * q + d /\ d \in 0 .. m - 1 /\ q \in Int
  OBVIOUS
<1> HIDE DEF q, d
<1>2. (q + 1) * m = m * q + m /\ m * q \in Int
  BY <1>1
<1>3. CASE q < R
  <2>1. PICK e \in Nat : R = q + 1 + e
    <3>1. R - q - 1 \in Nat
      BY <1>1, <1>3
    <3> QED BY <1>1, <3>1
  <2>2. R * m = m * q + m + e * m
    BY <1>1, <2>1
  <2>3. e * m \in Nat
    OBVIOUS
  <2>4. (q + 1) * m <= R * m
    BY <1>2, <2>2, <2>3
  <2> QED BY <1>2, <2>4 DEF q
<1>4. CASE q >= R
  <2>1. PICK e \in Nat : q = R + e
    <3>1. q - R \in Nat
      BY <1>1, <1>4
    <3> QED BY <1>1, <3>1
  <2>2. m * q = R * m + e * m
    BY <1>1, <2>1
  <2>3. e * m \in Nat /\ R * m \in Nat
    OBVIOUS
  <2> QED BY <1>1, <2>2, <2>3
<1> QED BY <1>1, <1>3, <1>4

\* Whatever is printed, the cursor is on the screen after scrolling.
LEMMA StaysInScreen ==
  ASSUME NEW o \in Int
  PROVE  /\ Size \in Nat /\ Size > 0 /\ Cell = 0 .. Size - 1
         /\ o < Size => \A ch : behind(ch, o) <= Size
         /\ o <= Size => after_scrolling(o) < Size
<1>1. Size \in Nat /\ Size > 0 /\ Cell = 0 .. Size - 1
  <2>1. MAX_ROWS * MAX_COLS \in Nat /\ MAX_ROWS * MAX_COLS > 0
    BY TerminalAssumption
  <2> QED BY <2>1 DEF Size, Cell
<1>2. o < Size => (o \div MAX_COLS + 1) * MAX_COLS <= Size
  BY NextRow, TerminalAssumption DEF Size
<1>3. ASSUME o < Size, NEW ch PROVE behind(ch, o) <= Size
  <2>1. CASE ch = NEWLINE
    BY <1>2, <1>3, <2>1 DEF behind
  <2>2. CASE ch # NEWLINE
    BY <1>1, <1>3, <2>2 DEF behind
  <2> QED BY <2>1, <2>2
<1>4. o <= Size => after_scrolling(o) < Size
  BY <1>1, TerminalAssumption DEF after_scrolling
<1> QED BY <1>1, <1>3, <1>4

LEMMA ScreenKept ==
  ASSUME KeyInv, InScreen, [Next]_vars PROVE InScreen'
<1>0. ScreenTypes /\ ShellTypes
  BY DEF KeyInv, ConsoleTypes
<1>s. Size \in Nat /\ Size > 0
  BY StaysInScreen
<1>a. get_terminal_buf_addr \in Place /\ get_cursor \in Int /\ get_cursor < Size
  BY <1>0, Places DEF ScreenTypes, get_cursor, InScreen
<1>p. DOMAIN cursor = Place /\ \A x \in Place : cursor[x] \in Int /\ cursor[x] < Size
  BY <1>0 DEF ScreenTypes, InScreen
<1>h. /\ pc \in Printing => Head(out) \in Int /\ cell_cleared(Head(out)) < Size
      /\ pc \in Printing => \A i \in DOMAIN Tail(out) : cell_cleared(Tail(out)[i]) < Size
  <2>1. ASSUME pc \in Printing
        PROVE  /\ out \in Seq(Int) /\ out # <<>> /\ Len(out) \in Nat /\ Len(out) >= 1
               /\ DOMAIN out = 1 .. Len(out) /\ Head(out) = out[1]
               /\ Tail(out) \in Seq(Int) /\ Len(Tail(out)) = Len(out) - 1
               /\ DOMAIN Tail(out) = 1 .. Len(out) - 1
               /\ \A i \in 1 .. Len(out) - 1 : Tail(out)[i] = out[i + 1]
    BY <1>0, <2>1, LenProperties, HeadTailProperties DEF ShellTypes
  <2>2. ASSUME pc \in Printing PROVE Head(out) \in Int
    BY <2>1, <2>2
  <2> QED BY <2>1, <2>2 DEF InScreen
<1>1. ASSUME UNCHANGED <<cursor, offset, out>>, pc' \in {"write", "back", "scroll"} => pc' = pc
      PROVE InScreen'
  BY <1>1 DEF InScreen
<1>2. CASE UNCHANGED vars \/ getchar \/ poll \/ latch_addr \/ fat12_find_entry \/ fat12_set_dir \/ exec
           \/ exec_nothing \/ (\E p \in Proc : proc_create(p)) \/ process_returns
           \/ press_ctrl(TRUE) \/ press_ctrl(FALSE) \/ press_char
  BY <1>1, <1>2 DEF vars, termVars, shellVars, getchar, poll, latch_addr, fat12_find_entry, fat12_set_dir,
     exec, exec_nothing, proc_create, process_returns, press_ctrl, press_char
<1>3. ASSUME NEW t \in Terminal, press_F(t) PROVE InScreen'
  <2> DEFINE tmp == IF curr_proc = NULL THEN t ELSE tmp_terminal
             a == IF t = tmp THEN VIDEO ELSE tmp
  <2>1. /\ cursor' = [[[cursor EXCEPT ![curr_terminal] = get_cursor] EXCEPT ![a] = 0]
                    EXCEPT ![a] = [[cursor EXCEPT ![curr_terminal] = get_cursor] EXCEPT ![a] = 0][t]]
        /\ UNCHANGED <<pc, offset, out>>
    BY <1>3 DEF press_F, change_terminal
  <2>2. a \in Place /\ t \in Place /\ curr_terminal \in Place
    BY <1>0, Places DEF ScreenTypes
  <2> HIDE DEF a
  <2>3. \A x \in Place : cursor'[x] < Size
    BY <1>s, <1>a, <1>p, <2>1, <2>2
  <2> QED BY <2>1, <2>3 DEF InScreen
<1>4. CASE take
  <2>1. UNCHANGED <<cursor, offset>> /\ pc' \in {"getchar", "print"}
    BY <1>4 DEF take, termVars
  <2>2. c \in Nat
    BY <1>0, LenProperties DEF ShellTypes
  <2>3. out' = out \/ out' = erase \/ out' = <<c>> \/ out' = <<NEWLINE>>
    BY <1>4 DEF take
  <2>4. \A i \in DOMAIN out' : cell_cleared(out'[i]) < Size
    BY <1>s, <2>2, <2>3 DEF InScreen, cell_cleared, HOME, erase, BACK, BLANK, NEWLINE
  <2> QED BY <2>1, <2>4 DEF InScreen
<1>5. CASE latch_cursor
  <2>1. /\ pc \in Printing /\ UNCHANGED <<cursor, out>> /\ pc' \in {"write", "back"}
        /\ offset' = cell_cleared(Head(out)) \/ offset' = get_cursor
    BY <1>5 DEF latch_cursor, termVars, Printing
  <2>2. offset' < Size
    BY <1>a, <1>h, <2>1
  <2> QED BY <2>1, <2>2 DEF InScreen
<1>6. CASE write
  <2>1. pc \in Printing /\ offset < Size /\ offset \in Int
    BY <1>0, <1>6 DEF write, Printing, InScreen, ShellTypes
  <2>2. UNCHANGED <<cursor, out>> /\ pc' = "scroll" /\ offset' = behind(Head(out), offset)
    BY <1>6 DEF write
  <2>3. offset' <= Size
    BY <2>1, <2>2, StaysInScreen
  <2> QED BY <2>2, <2>3 DEF InScreen
<1>7. ASSUME pc \in Printing, printed, UNCHANGED offset, NEW v \in Int, v < Size, set_cursor(v)
      PROVE  InScreen'
  <2>1. \A x \in Place : cursor'[x] < Size
    BY <1>a, <1>p, <1>7 DEF set_cursor
  <2>2. pc' \notin {"write", "back", "scroll"} /\ out' = Tail(out)
    BY <1>7 DEF printed
  <2> QED BY <1>h, <1>7, <2>1, <2>2 DEF InScreen
<1>8. CASE step_back
  <2>1. (IF Head(out) = HOME THEN 0 ELSE offset - 1) \in Int
        /\ (IF Head(out) = HOME THEN 0 ELSE offset - 1) < Size
    BY <1>0, <1>s, <1>8 DEF ShellTypes, step_back, InScreen
  <2> QED BY <1>7, <1>8, <2>1 DEF step_back, Printing
<1>9. CASE scroll
  <2>1. offset \in Int /\ offset <= Size
    BY <1>0, <1>9 DEF ShellTypes, scroll, InScreen
  <2>2. after_scrolling(offset) \in Int /\ after_scrolling(offset) < Size
    BY <2>1, OffsetsKept, StaysInScreen
  <2> QED BY <1>7, <1>9, <2>2 DEF scroll, Printing
<1>10. CASE put_prompt
  <2>1. out' = <<PROMPT>> /\ pc' = "print" /\ UNCHANGED <<cursor, offset>>
    BY <1>10 DEF put_prompt, termVars
  <2>2. \A i \in DOMAIN out' : cell_cleared(out'[i]) < Size
    BY <1>s, <2>1 DEF cell_cleared, HOME, PROMPT
  <2> QED BY <2>1, <2>2 DEF InScreen
<1>11. CASE clear_screen
  <2> DEFINE s == [k \in 1 .. MAX_ROWS * MAX_COLS |-> clear(k - 1)]
  <2>1. Size = MAX_ROWS * MAX_COLS
    BY DEF Size
  <2>2. s \in Seq(Int) /\ Len(s) = Size /\ \A i \in 1 .. Size : s[i] = clear(i - 1)
    BY <1>s, <2>1 DEF clear, HOME
  <2>3. out' = Append(s, HOME) /\ pc' = "print" /\ UNCHANGED <<cursor, offset>>
    BY <1>11 DEF clear_screen, termVars
  <2> HIDE DEF s
  <2>4. /\ DOMAIN out' = 1 .. Size + 1 /\ out'[Size + 1] = HOME
        /\ \A i \in 1 .. Size : out'[i] = clear(i - 1)
    <3>1. HOME \in Int
      BY DEF HOME
    <3> QED BY <1>s, <2>2, <2>3, <3>1, AppendProperties
  <2>5. \A i \in DOMAIN out' : cell_cleared(out'[i]) < Size
    <3>1. \A i \in 1 .. Size + 1 : i \in 1 .. Size \/ i = Size + 1
      BY <1>s
    <3>2. \A i \in 1 .. Size : cell_cleared(clear(i - 1)) < Size
      BY <1>s DEF cell_cleared, clear, HOME
    <3>3. cell_cleared(HOME) < Size
      BY <1>s DEF cell_cleared, HOME
    <3> QED BY <2>4, <3>1, <3>2, <3>3
  <2> QED BY <2>3, <2>5 DEF InScreen
<1>12. CASE schedule_proc
  <2>1. UNCHANGED cursor /\ out' = <<>> /\ pc' = "gone"
    BY <1>12 DEF schedule_proc, shell_gone
  <2> QED BY <2>1 DEF InScreen
<1>13. CASE process_prints
  <2>1. cursor[get_terminal_buf_addr] \in Int /\ cursor[get_terminal_buf_addr] < Size /\ OUTPUT \in Int
    BY <1>a DEF get_cursor, OUTPUT
  <2>2. behind(OUTPUT, cursor[get_terminal_buf_addr]) \in Int /\ behind(OUTPUT, cursor[get_terminal_buf_addr]) <= Size
    BY <2>1, OffsetsKept, StaysInScreen
  <2>3. PICK v \in Int : v < Size /\ cursor' = [cursor EXCEPT ![get_terminal_buf_addr] = v]
    BY <1>13, <2>2, OffsetsKept, StaysInScreen DEF process_prints, putchar, set_cursor
  <2>4. \A x \in Place : cursor'[x] < Size
    BY <1>a, <1>p, <2>3
  <2>5. UNCHANGED <<pc, offset, out>>
    BY <1>13 DEF process_prints, shellVars
  <2> QED BY <2>4, <2>5 DEF InScreen
<1>14. CASE process_draws
  <2>1. UNCHANGED <<pc, offset, out>>
    BY <1>14 DEF process_draws, shellVars
  <2>2. \A o \in Drawn : o \in Int /\ o < Size
    BY <1>s, DrawnOnScreen DEF Cell, Size
  <2>3. \A x \in Place : cursor'[x] < Size
    BY <1>p, <1>14, <2>2 DEF process_draws, InScreen
  <2> QED BY <2>1, <2>3 DEF InScreen
<1> QED BY <1>2, <1>3, <1>4, <1>5, <1>6, <1>8, <1>9, <1>10, <1>11, <1>12, <1>13, <1>14
        DEF Next, terminal_loop, keyboard_handler_main

\* Writing at p shows the key that is written, and keeps those before it.
LEMMA ShownWritten ==
  ASSUME NEW cs \in [Cell -> Int], NEW l \in Seq(Nat \ {0}), NEW p \in Int, NEW ch \in Int, ch # NEWLINE
  PROVE  /\ Shown(cs, p, l, 0) => Shown(written(cs, ch, p), p, l, 0)
         /\ l # <<>> /\ ch = l[Len(l)] /\ Shown(cs, p + 1, l, 1) => Shown(written(cs, ch, p), p + 1, l, 0)
<1>1. Len(l) \in Nat /\ (l # <<>> => Len(l) >= 1) /\ Cell \subseteq Int
  BY LenProperties DEF Cell
<1>2. \A x \in Cell : written(cs, ch, p)[x] = IF x = p THEN ch ELSE cs[x]
  BY DEF written
<1>3. Shown(cs, p, l, 0) => Shown(written(cs, ch, p), p, l, 0)
  BY <1>1, <1>2 DEF Shown
<1>4. ASSUME l # <<>>, ch = l[Len(l)], Shown(cs, p + 1, l, 1), NEW k \in 0 + 1 .. Len(l), p + 1 - k \in Cell
      PROVE  written(cs, ch, p)[p + 1 - k] = l[Len(l) + 1 - k]
  <2>1. CASE k = 1
    <3>1. p + 1 - k = p /\ Len(l) + 1 - k = Len(l)
      BY <1>1, <2>1
    <3> QED BY <1>2, <1>4, <3>1
  <2>2. CASE k # 1
    <3>1. k \in 1 + 1 .. Len(l) /\ p + 1 - k # p
      BY <1>1, <2>2
    <3>2. cs[p + 1 - k] = l[Len(l) + 1 - k]
      BY <1>4, <3>1 DEF Shown
    <3> QED BY <1>2, <1>4, <3>1, <3>2
  <2> QED BY <2>1, <2>2
<1> QED BY <1>3, <1>4 DEF Shown

\* Scrolling moves the line and the place behind it together.
LEMMA ShownScrolled ==
  ASSUME NEW cs \in [Cell -> Int], NEW l \in Seq(Nat \ {0}), NEW o \in Int, NEW p \in Int,
         o <= Size, p <= o, Shown(cs, p, l, 0)
  PROVE  Shown(handle_scrolling(cs, o), after_scrolling(o) - (o - p), l, 0)
<1>1. Len(l) \in Nat /\ Size \in Nat /\ Cell = 0 .. Size - 1 /\ MAX_COLS \in Nat \ {0}
  BY LenProperties, StaysInScreen, TerminalAssumption
<1>2. CASE o \in Cell
  <2>1. after_scrolling(o) - (o - p) = p
    BY <1>2 DEF after_scrolling
  <2> QED BY <1>2, <2>1 DEF handle_scrolling
<1>3. CASE o \notin Cell
  <2>1. after_scrolling(o) - (o - p) = p - MAX_COLS /\ handle_scrolling(cs, o) = scrolled(cs)
    BY <1>1, <1>3 DEF after_scrolling, handle_scrolling
  <2>2. \A x \in Cell : x + MAX_COLS \in Cell => scrolled(cs)[x] = cs[x + MAX_COLS]
    BY DEF scrolled
  <2>3. ASSUME NEW k \in 0 + 1 .. Len(l), p - MAX_COLS - k \in Cell
        PROVE  scrolled(cs)[p - MAX_COLS - k] = l[Len(l) + 1 - k]
    <3>1. (p - MAX_COLS - k) + MAX_COLS = p - k /\ p - k \in Cell
      BY <1>1, <2>3
    <3>2. cs[p - k] = l[Len(l) + 1 - k]
      BY <3>1 DEF Shown
    <3> QED BY <2>2, <2>3, <3>1, <3>2
  <2> QED BY <2>1, <2>3 DEF Shown
<1> QED BY <1>2, <1>3

LEMMA ShownLonger ==
  ASSUME NEW cs \in [Cell -> Int], NEW l \in Seq(Nat \ {0}), NEW p \in Int, NEW n \in Nat \ {0}, Shown(cs, p, l, 0)
  PROVE  /\ Shown(cs, p + 1, Append(l, n), 1)
         /\ Append(l, n)[Len(Append(l, n))] = n
<1>1. Len(l) \in Nat
  BY LenProperties
<1>2. /\ Len(Append(l, n)) = Len(l) + 1
      /\ \A i \in 1 .. Len(l) : Append(l, n)[i] = l[i]
      /\ Append(l, n)[Len(l) + 1] = n
  BY <1>1
<1>3. ASSUME NEW k \in 1 + 1 .. Len(l) + 1, p + 1 - k \in Cell
      PROVE  cs[p + 1 - k] = Append(l, n)[(Len(l) + 1) + 1 - k]
  <2>1. k - 1 \in 0 + 1 .. Len(l) /\ p - (k - 1) = p + 1 - k /\ (Len(l) + 1) + 1 - k = Len(l) + 1 - (k - 1)
    BY <1>1
  <2>2. Len(l) + 1 - (k - 1) \in 1 .. Len(l)
    BY <1>1
  <2> QED BY <1>2, <1>3, <2>1, <2>2 DEF Shown
<1>4. Shown(cs, p + 1, Append(l, n), 1)
  <2> DEFINE s == Append(l, n)
  <2>1. Len(s) = Len(l) + 1
    BY <1>2
  <2> HIDE DEF s
  <2>2. ASSUME NEW k \in 1 + 1 .. Len(s), p + 1 - k \in Cell PROVE cs[p + 1 - k] = s[Len(s) + 1 - k]
    BY <1>3, <2>1, <2>2 DEF s
  <2> QED BY <2>2 DEF Shown, s
<1>5. Append(l, n)[Len(Append(l, n))] = n
  <2>1. Len(Append(l, n)) = Len(l) + 1 /\ Append(l, n)[Len(l) + 1] = n
    BY <1>2
  <2> QED BY <2>1, Zenon
<1> QED BY <1>4, <1>5

LEMMA ShownShorter ==
  ASSUME NEW cs \in [Cell -> Int], NEW l \in Seq(Nat \ {0}), l # <<>>, NEW p \in Int, Shown(cs, p, l, 0)
  PROVE  Shown(cs, p - 1, SubSeq(l, 1, Len(l) - 1), 0)
<1>1. Len(l) \in Nat \ {0}
  BY LenProperties
<1>2. /\ Len(SubSeq(l, 1, Len(l) - 1)) = Len(l) - 1
      /\ \A i \in 1 .. Len(l) - 1 : SubSeq(l, 1, Len(l) - 1)[i] = l[i]
  <2> DEFINE n == Len(l) - 1
             s == SubSeq(l, 1, n)
  <2>1. n \in Nat /\ \A i \in 1 .. n : l[i] \in Nat \ {0}
    BY <1>1
  <2>2. /\ Len(s) = IF 1 <= n THEN n - 1 + 1 ELSE 0
        /\ \A i \in 1 .. n - 1 + 1 : s[i] = l[1 + i - 1]
    <3> HIDE DEF n
    <3> QED BY <2>1, SubSeqProperties
  <2> HIDE DEF n, s
  <2>3. Len(s) = n /\ \A i \in 1 .. n : s[i] = l[i]
    BY <2>1, <2>2
  <2> QED BY <2>3 DEF n, s
<1>3. ASSUME NEW k \in 0 + 1 .. Len(l) - 1, p - 1 - k \in Cell
      PROVE  cs[p - 1 - k] = SubSeq(l, 1, Len(l) - 1)[(Len(l) - 1) + 1 - k]
  <2>1. k + 1 \in 0 + 1 .. Len(l) /\ p - (k + 1) = p - 1 - k /\ Len(l) + 1 - (k + 1) = (Len(l) - 1) + 1 - k
    BY <1>1
  <2>2. (Len(l) - 1) + 1 - k \in 1 .. Len(l) - 1
    BY <1>1
  <2> QED BY <1>2, <1>3, <2>1, <2>2 DEF Shown
<1> QED BY <1>2, <1>3 DEF Shown

LEMMA OutParts ==
  /\ Head(erase) = BACK /\ Tail(erase) = <<BLANK, BACK>>
  /\ Head(<<BLANK, BACK>>) = BLANK /\ Tail(<<BLANK, BACK>>) = <<BACK>>
  /\ Head(<<BACK>>) = BACK /\ Tail(<<BACK>>) = <<>>
  /\ \A x : Head(<<x>>) = x /\ Tail(<<x>>) = <<>>
<1>1. Head(erase) = BACK /\ Tail(erase) = <<BLANK, BACK>>
  BY DEF erase
<1>2. Head(<<BLANK, BACK>>) = BLANK /\ Tail(<<BLANK, BACK>>) = <<BACK>>
  OBVIOUS
<1>3. \A x : Head(<<x>>) = x /\ Tail(<<x>>) = <<>>
  OBVIOUS
<1> QED BY <1>1, <1>2, <1>3

\* What is printed may differ from screen to screen, but not for a line that
\* is empty or one that has been entered.
LEMMA EmptyShown ==
  ASSUME NEW cs, NEW p PROVE Shown(cs, p, <<>>, 0)
BY DEF Shown

LEMMA LineStep ==
  ASSUME KeyInv, LineInv, [Next]_vars PROVE LineInv'
<1> DEFINE a == get_terminal_buf_addr
<1>0. ScreenTypes /\ ShellTypes /\ KeyOrder /\ InScreen
  BY DEF KeyInv, ConsoleTypes, LineInv
<1>a. a \in Place /\ buf[a] \in [Cell -> Int] /\ cursor[a] \in Int /\ cursor[a] < Size
  BY <1>0, Places DEF ScreenTypes, InScreen
<1>l. line \in Seq(Nat \ {0}) /\ c \in Nat /\ offset \in Int
  BY <1>0, LenProperties DEF ShellTypes
<1>s. InScreen'
  BY <1>0, ScreenKept
<1>e. UNCHANGED <<c, typed>> /\ Entered => Entered'
  BY DEF Entered
<1>1. ASSUME pc' \notin Printing \cup {"getchar", "poll", "take"}, pc' = "gone" => line' = <<>>, pc' = "command" => Entered'
      PROVE  LineInv'
  BY <1>s, <1>1 DEF LineInv, Printing
<1>2. ASSUME line' = <<>>, pc' # "command"
      PROVE  LineInv'
  <2>1. Shown(buf[get_terminal_buf_addr], cursor[get_terminal_buf_addr], line, 0)'
    BY <1>2 DEF Shown
  <2> QED BY <1>s, <1>2, <2>1 DEF LineInv
<1>3. ASSUME pc' \in Printing, Entered'
      PROVE  LineInv'
  <2>1. pc' \notin {"gone", "command", "getchar", "poll", "take"}
    BY <1>3 DEF Printing
  <2> QED BY <1>s, <1>3, <2>1 DEF LineInv
<1>4. ASSUME pc' \in Printing, ~strayed' => Echoing'
      PROVE  LineInv'
  <2>1. pc' \notin {"gone", "command", "getchar", "poll", "take"}
    BY <1>4 DEF Printing
  <2> QED BY <1>s, <1>4, <2>1 DEF LineInv
<1>5. ASSUME pc' \in {"getchar", "poll", "take"},
             ~strayed' => Shown(buf[get_terminal_buf_addr], cursor[get_terminal_buf_addr], line, 0)'
      PROVE  LineInv'
  <2>1. pc' \notin Printing
    BY <1>5 DEF Printing
  <2> QED BY <1>s, <1>5, <2>1 DEF LineInv
<1>6. ASSUME strayed', UNCHANGED <<pc, line>>, Entered => Entered' PROVE LineInv'
  BY <1>s, <1>6 DEF LineInv
<1>7. ASSUME buf'[a] = buf[a], cursor'[a] = cursor[a], a' = a, UNCHANGED <<pc, line, c, out, vidmem, offset>>,
             strayed' \/ ~strayed, Entered => Entered'
      PROVE  LineInv'
  <2>1. ~strayed' => ~strayed
    BY <1>7
  <2>2. Shown(buf[get_terminal_buf_addr], cursor[get_terminal_buf_addr], line, 0)
        => Shown(buf[get_terminal_buf_addr], cursor[get_terminal_buf_addr], line, 0)'
    BY <1>7 DEF Shown
  <2>3. Echoing => Echoing'
    <3>1. \A p, n : Shown(buf[a], p, line, n) <=> Shown(buf'[a'], p, line', n)
      BY <1>7 DEF Shown
    <3> QED BY <1>7, <3>1 DEF Echoing, erase, BACK, BLANK
  <2> QED BY <1>s, <1>7, <2>1, <2>2, <2>3 DEF LineInv
<1>8. CASE UNCHANGED vars \/ press_ctrl(TRUE) \/ press_ctrl(FALSE) \/ (\E p \in Proc : proc_create(p))
  <2>1. UNCHANGED <<termVars, typed, shellVars>>
    BY <1>8 DEF vars, kbVars, press_ctrl, proc_create
  <2> QED BY <1>7, <1>e, <2>1 DEF termVars, shellVars, get_terminal_buf_addr
<1>9. CASE press_char
  <2>1. UNCHANGED <<termVars, shellVars>>
    BY <1>9 DEF press_char
  <2>2. Entered => Entered'
    <3>1. c \in 0 .. Len(typed) /\ typed \in Seq(Key) /\ Len(typed) \in Nat
      BY <1>0 DEF ShellTypes
    <3>2. c # 0 => typed'[c] = typed[c]
      BY <1>9, <3>1 DEF press_char, Key
    <3> QED BY <2>1, <3>2 DEF Entered, shellVars
  <2> QED BY <1>7, <2>1, <2>2 DEF termVars, shellVars, get_terminal_buf_addr
<1>10. ASSUME NEW t \in Terminal, press_F(t) PROVE LineInv'
  <2>1. /\ UNCHANGED <<typed, pc, line, c, out, vidmem, offset>>
        /\ change_terminal(t, curr_proc = NULL)
        /\ strayed' = (strayed \/ t # curr_terminal \/ t # tmp_terminal)
    BY <1>10 DEF press_F
  <2>2. CASE strayed'
    BY <1>6, <1>e, <2>1, <2>2
  <2>3. CASE ~strayed'
    <3>1. ~strayed /\ t = curr_terminal /\ t = tmp_terminal
      BY <2>1, <2>3
    <3>2. a = VIDEO
      BY <3>1 DEF get_terminal_buf_addr
    <3>3. /\ curr_terminal' = t /\ tmp_terminal' = t
          /\ buf' = [[[buf EXCEPT ![t] = buf[VIDEO]] EXCEPT ![VIDEO] = blank]
                     EXCEPT ![VIDEO] = [[buf EXCEPT ![t] = buf[VIDEO]] EXCEPT ![VIDEO] = blank][t]]
          /\ cursor' = [[[cursor EXCEPT ![t] = cursor[a]] EXCEPT ![VIDEO] = 0]
                        EXCEPT ![VIDEO] = [[cursor EXCEPT ![t] = cursor[a]] EXCEPT ![VIDEO] = 0][t]]
      BY <2>1, <3>1 DEF change_terminal, get_cursor
    <3>4. a' = VIDEO
      BY <3>3 DEF get_terminal_buf_addr
    <3>5. buf'[VIDEO] = buf[VIDEO] /\ cursor'[VIDEO] = cursor[VIDEO]
      <4>1. t \in Place /\ VIDEO \in Place /\ t # VIDEO /\ DOMAIN buf = Place /\ DOMAIN cursor = Place
        BY <1>0, Places DEF ScreenTypes
      <4> HIDE DEF a
      <4> QED BY <3>2, <3>3, <4>1
    <3> QED BY <1>7, <1>e, <2>1, <3>1, <3>2, <3>4, <3>5
  <2> QED BY <2>2, <2>3
<1>11. ASSUME pc \in {"getchar", "poll", "take"}, pc' \in {"getchar", "poll", "take"}, UNCHANGED <<termVars, line, strayed>>
       PROVE  LineInv'
  <2>1. ~strayed => Shown(buf[get_terminal_buf_addr], cursor[get_terminal_buf_addr], line, 0)
    BY <1>11 DEF LineInv
  <2>2. ~strayed' => Shown(buf[get_terminal_buf_addr], cursor[get_terminal_buf_addr], line, 0)'
    BY <1>11, <2>1 DEF termVars, get_terminal_buf_addr, Shown
  <2> QED BY <1>5, <1>11, <2>2
<1>12. CASE getchar \/ poll
  BY <1>11, <1>12 DEF getchar, poll
<1>13. CASE take
  <2>0. /\ pc = "take" /\ UNCHANGED <<termVars, typed, c, strayed, vidmem, offset>>
        /\ c # 0
    BY <1>0, <1>13 DEF take, KeyOrder, ShellTypes
  <2>1. /\ ~strayed' => ~strayed /\ Shown(buf[a], cursor[a], line, 0)
        /\ a' = a /\ buf' = buf /\ cursor' = cursor
    BY <2>0 DEF LineInv, termVars, get_terminal_buf_addr
  <2>2. CASE UNCHANGED line /\ pc' = "getchar"
    BY <1>11, <2>0, <2>2
  <2>3. CASE line # <<>> /\ line' = SubSeq(line, 1, Len(line) - 1) /\ out' = erase /\ pc' = "print"
    <3>1. ~strayed' => Shown(buf[a], cursor[a] - 1, line', 0)
      BY <1>a, <1>l, <2>1, <2>3, ShownShorter
    <3>2. ~strayed' => Echoing'
      <4>1. ~strayed' => Shown(buf'[a'], cursor'[a'] - 1, line', 0)
        BY <2>1, <3>1
      <4> HIDE DEF a
      <4> QED BY <2>3, <4>1 DEF Echoing, a, erase, BACK, BLANK
    <3> QED BY <1>4, <2>3, <3>2 DEF Printing
  <2>4. CASE line' = Append(line, c) /\ out' = <<c>> /\ pc' = "print"
    <3>1. c \in Nat \ {0}
      BY <1>l, <2>0
    <3>2. line'[Len(line')] = c /\ (~strayed' => Shown(buf[a], cursor[a] + 1, line', 1))
      <4>1. ~strayed' => /\ Shown(buf[a], cursor[a] + 1, Append(line, c), 1)
                         /\ Append(line, c)[Len(Append(line, c))] = c
        <5> HIDE DEF a
        <5> QED BY <1>a, <1>l, <2>1, <3>1, ShownLonger
      <4>2. Append(line, c)[Len(Append(line, c))] = c
        <5>1. Len(Append(line, c)) = Len(line) + 1 /\ Len(line) \in Nat /\ Append(line, c)[Len(line) + 1] = c
          BY <1>l, <3>1
        <5> QED BY <5>1, Zenon
      <4> QED BY <2>4, <4>1, <4>2
    <3>3. ~strayed' => Echoing'
      <4>1. ~strayed' => Shown(buf'[a'], cursor'[a'] + 1, line', 1)
        BY <2>1, <3>2
      <4>2. c' = c /\ c > 0
        BY <2>0, <3>1
      <4>3. out' = <<c'>>
        BY <2>4, <4>2
      <4>4. pc' = "print" /\ c' > 0 /\ line'[Len(line')] = c'
        BY <2>4, <3>2, <4>2
      <4>5. pc' # "scroll" /\ pc' # "back" /\ pc' \notin {"cursor", "write"} /\ pc' \notin {"write", "back"}
        BY <4>4
      <4> QED BY <4>1, <4>3, <4>4, <4>5 DEF Echoing
    <3> QED BY <1>4, <2>4, <3>3 DEF Printing
  <2>5. CASE typed[c] = "enter" /\ pc' = "print"
    <3>1. Entered'
      BY <2>0, <2>5 DEF Entered
    <3> QED BY <1>3, <2>5, <3>1 DEF Printing
  <2> QED BY <1>13, <2>2, <2>3, <2>4, <2>5 DEF take
\* The steps of putchar: an empty line and one that has been entered stay so.
<1>14. ASSUME pc \in Printing, pc' \in Printing, UNCHANGED <<line, c, typed, strayed>>,
              ~strayed /\ line # <<>> /\ ~Entered /\ Echoing => Echoing'
       PROVE  LineInv'
  <2>1. CASE Entered
    BY <1>3, <1>e, <1>14, <2>1
  <2>2. CASE line = <<>>
    <3>1. pc' # "command"
      BY <1>14 DEF Printing
    <3> QED BY <1>2, <1>14, <2>2, <3>1
  <2>3. CASE line # <<>> /\ ~Entered
    <3>1. ~strayed' => Echoing'
      BY <1>14, <2>3 DEF LineInv
    <3> QED BY <1>4, <1>14, <3>1
  <2> QED BY <2>1, <2>2, <2>3
<1>15. CASE latch_addr
  <2>1. /\ pc = "print" /\ pc' = "cursor" /\ vidmem' = a
        /\ UNCHANGED <<termVars, line, c, out, typed, strayed>>
    BY <1>15 DEF latch_addr, kbVars
  <2>2. a' = a /\ buf' = buf /\ cursor' = cursor
    BY <2>1 DEF termVars, get_terminal_buf_addr
  <2>3. ASSUME Echoing PROVE Echoing'
    <3>1. \/ /\ out = <<c>> /\ c > 0 /\ line[Len(line)] = c
             /\ Shown(buf[a], cursor[a] + 1, line, 1)
          \/ /\ out \in {erase, <<BACK>>}
             /\ Shown(buf[a], cursor[a] - 1, line, 0)
          \/ /\ out = <<BLANK, BACK>>
             /\ Shown(buf[a], cursor[a], line, 0)
      BY <2>1, <2>3 DEF Echoing
    <3>2. \A p, n : Shown(buf[a], p, line, n) => Shown(buf'[a'], p, line', n)
      BY <2>1, <2>2 DEF Shown
    <3> HIDE DEF a
    <3> QED BY <2>1, <2>2, <3>1, <3>2 DEF Echoing, a, erase, BACK, BLANK
  <2> QED BY <1>14, <2>1, <2>3 DEF Printing
<1>16. CASE latch_cursor
  <2>1. /\ pc = "cursor" /\ UNCHANGED <<termVars, line, c, out, vidmem, typed, strayed>>
        /\ offset' = (IF clearing THEN cell_cleared(Head(out)) ELSE get_cursor)
        /\ pc' = (IF Head(out) \in {BACK, HOME} THEN "back" ELSE "write")
    BY <1>16 DEF latch_cursor, kbVars
  <2>2. a' = a /\ buf' = buf /\ cursor' = cursor
    BY <2>1 DEF termVars, get_terminal_buf_addr
  <2>3. ASSUME Echoing PROVE Echoing'
    <3>1. /\ vidmem = a
          /\ \/ /\ out = <<c>> /\ c > 0 /\ line[Len(line)] = c
                /\ Shown(buf[a], cursor[a] + 1, line, 1)
             \/ /\ out \in {erase, <<BACK>>}
                /\ Shown(buf[a], cursor[a] - 1, line, 0)
             \/ /\ out = <<BLANK, BACK>>
                /\ Shown(buf[a], cursor[a], line, 0)
      BY <2>1, <2>3 DEF Echoing
    <3>2. \A p, n : Shown(buf[a], p, line, n) => Shown(buf'[a'], p, line', n)
      BY <2>1, <2>2 DEF Shown
    <3>3. Head(out) >= HOME
      <4>1. Head(out) \in {c, BACK, BLANK} /\ (Head(out) = c => c > 0 \/ Head(out) \in {BACK, BLANK})
        BY <3>1, OutParts
      <4> QED BY <1>l, <4>1 DEF HOME, BACK, BLANK
    <3>4. offset' = cursor'[a']
      <4>1. ~clearing
        <5>1. Head(out) \in Int
          BY <1>0, <2>1, HeadTailProperties DEF ShellTypes, Printing
        <5> QED BY <3>3, <5>1 DEF clearing, HOME
      <4> QED BY <2>1, <2>2, <4>1 DEF get_cursor
    <3>5. CASE out = <<c>> /\ c > 0 /\ line[Len(line)] = c /\ Shown(buf[a], cursor[a] + 1, line, 1)
      <4>1. pc' = "write"
        <5>1. Head(out) = c
          BY <3>5, OutParts
        <5> QED BY <1>l, <2>1, <3>5, <5>1 DEF BACK, HOME
      <4>2. Shown(buf'[a'], cursor'[a'] + 1, line', 1)
        BY <2>2, <3>2, <3>5
      <4>3. out' = <<c'>> /\ c' > 0 /\ line'[Len(line')] = c' /\ vidmem' = a'
        BY <2>1, <2>2, <3>1, <3>5
      <4> HIDE DEF a
      <4> QED BY <3>4, <4>1, <4>2, <4>3 DEF Echoing, a
    <3>6. CASE out \in {erase, <<BACK>>} /\ Shown(buf[a], cursor[a] - 1, line, 0)
      <4>1. pc' = "back"
        <5>1. Head(out) = BACK
          BY <3>6, OutParts
        <5> QED BY <2>1, <5>1
      <4>2. Shown(buf'[a'], cursor'[a'] - 1, line', 0)
        BY <2>2, <3>2, <3>6
      <4>3. out' \in {erase, <<BACK>>} /\ vidmem' = a'
        BY <2>1, <2>2, <3>1, <3>6
      <4> HIDE DEF a
      <4> QED BY <3>4, <4>1, <4>2, <4>3 DEF Echoing, a, erase, BACK, BLANK
    <3>7. CASE out = <<BLANK, BACK>> /\ Shown(buf[a], cursor[a], line, 0)
      <4>1. pc' = "write"
        <5>1. Head(out) = BLANK
          BY <3>7, OutParts
        <5> QED BY <2>1, <5>1 DEF BLANK, BACK, HOME
      <4>2. Shown(buf'[a'], cursor'[a'], line', 0)
        BY <2>2, <3>2, <3>7
      <4>3. out' = <<BLANK, BACK>> /\ vidmem' = a'
        BY <2>1, <2>2, <3>1, <3>7
      <4> HIDE DEF a
      <4> QED BY <3>4, <4>1, <4>2, <4>3 DEF Echoing, a, BACK, BLANK
    <3> QED BY <3>1, <3>5, <3>6, <3>7
  <2> QED BY <1>14, <2>1, <2>3 DEF Printing
<1>17. CASE write
  <2>1. /\ pc = "write" /\ pc' = "scroll" /\ UNCHANGED <<curr_terminal, tmp_terminal, cursor, line, c, out, vidmem, typed, strayed>>
        /\ buf' = [buf EXCEPT ![vidmem] = written(@, IF clearing THEN BLANK ELSE Head(out), offset)]
        /\ offset' = behind(Head(out), offset)
    BY <1>17 DEF write, kbVars
  <2>2. a' = a /\ cursor' = cursor
    BY <2>1 DEF get_terminal_buf_addr
  <2>3. ASSUME line # <<>>, Echoing PROVE Echoing'
    <3>1. /\ vidmem = a /\ offset = cursor[a]
          /\ \/ /\ out = <<c>> /\ c > 0 /\ line[Len(line)] = c
                /\ Shown(buf[a], offset + 1, line, 1)
             \/ /\ out = <<BLANK, BACK>>
                /\ Shown(buf[a], offset, line, 0)
      BY <2>1, <2>3 DEF Echoing
    <3>2. Head(out) \in Nat /\ Head(out) # NEWLINE /\ ~clearing
      <4>1. Head(out) = c \/ Head(out) = BLANK
        BY <3>1, OutParts
      <4>2. Head(out) \in Nat
        BY <1>l, <4>1 DEF BLANK
      <4> QED BY <4>2 DEF NEWLINE, clearing, HOME
    <3>3. buf'[a'] = written(buf[a], Head(out), offset) /\ offset' = offset + 1
      BY <1>0, <1>a, <2>1, <2>2, <3>1, <3>2 DEF ScreenTypes, behind
    <3>4. CASE out = <<c>> /\ c > 0 /\ line[Len(line)] = c /\ Shown(buf[a], offset + 1, line, 1)
      <4>1. Head(out) = c
        BY <3>4, OutParts
      <4>2. Shown(written(buf[a], c, offset), offset + 1, line, 0)
        <5>1. c \in Int /\ c # NEWLINE
          BY <1>l, <3>4 DEF NEWLINE
        <5> HIDE DEF a
        <5> QED BY <1>a, <1>l, <2>3, <3>4, <5>1, ShownWritten
      <4>3. Shown(buf'[a'], offset', line', 0)
        BY <2>1, <3>3, <4>1, <4>2
      <4>4. out' = <<c'>> /\ c' > 0 /\ line'[Len(line')] = c'
        BY <2>1, <3>4
      <4> HIDE DEF a
      <4> QED BY <2>1, <4>3, <4>4 DEF Echoing, a
    <3>5. CASE out = <<BLANK, BACK>> /\ Shown(buf[a], offset, line, 0)
      <4>1. Head(out) = BLANK
        BY <3>5, OutParts
      <4>2. Shown(written(buf[a], BLANK, offset), offset, line, 0)
        <5>1. BLANK \in Int /\ BLANK # NEWLINE
          BY DEF BLANK, NEWLINE
        <5> HIDE DEF a
        <5> QED BY <1>a, <1>l, <3>5, <5>1, ShownWritten
      <4>3. Shown(buf'[a'], offset' - 1, line', 0)
        <5>1. offset' - 1 = offset
          BY <1>l, <3>3
        <5> QED BY <2>1, <3>3, <4>1, <4>2, <5>1
      <4>4. out' = <<BLANK, BACK>>
        BY <2>1, <3>5
      <4> HIDE DEF a
      <4> QED BY <2>1, <4>3, <4>4 DEF Echoing, a, BACK, BLANK
    <3> QED BY <3>1, <3>4, <3>5
  <2> QED BY <1>14, <2>1, <2>3 DEF Printing
\* What follows the end of a character, given what it leaves of the line.
<1>18. ASSUME pc \in Printing, printed, UNCHANGED <<line, c, typed, strayed>>,
              ~strayed /\ line # <<>> /\ ~Entered /\ Echoing =>
                IF pc' = "print" THEN Echoing'
                ELSE Shown(buf[get_terminal_buf_addr], cursor[get_terminal_buf_addr], line, 0)'
       PROVE  LineInv'
  <2>1. /\ pc' \in {"print", "done", "command", "getchar"}
        /\ pc' = "command" => Entered /\ Entered'
    BY <1>18 DEF printed, Entered
  <2>2. CASE pc' = "done"
    BY <1>1, <2>2 DEF Printing
  <2>3. CASE pc' = "command"
    BY <1>1, <2>1, <2>3 DEF Printing
  <2>4. CASE pc' = "print"
    BY <1>14, <1>18, <2>4 DEF Printing
  <2>5. CASE pc' = "getchar"
    <3>1. CASE line = <<>>
      BY <1>2, <1>18, <2>5, <3>1
    <3>2. CASE Entered
      BY <1>18, <2>5, <3>2 DEF printed, Entered
    <3>3. CASE line # <<>> /\ ~Entered
      <4>1. ~strayed' => Shown(buf[get_terminal_buf_addr], cursor[get_terminal_buf_addr], line, 0)'
        BY <1>18, <2>5, <3>3 DEF LineInv
      <4> QED BY <1>5, <2>5, <4>1
    <3> QED BY <3>1, <3>2, <3>3
  <2> QED BY <2>1, <2>2, <2>3, <2>4, <2>5
<1>19. CASE step_back
  <2>1. /\ pc = "back" /\ UNCHANGED <<curr_terminal, tmp_terminal, buf, line, c, typed, strayed>> /\ printed
        /\ cursor' = [cursor EXCEPT ![a] = IF Head(out) = HOME THEN 0 ELSE offset - 1]
    BY <1>19 DEF step_back, kbVars, set_cursor
  <2>2. a' = a /\ buf'[a'] = buf[a]
    BY <2>1 DEF get_terminal_buf_addr
  <2>3. ASSUME line # <<>>, ~Entered, Echoing
        PROVE  IF pc' = "print" THEN Echoing'
               ELSE Shown(buf[get_terminal_buf_addr], cursor[get_terminal_buf_addr], line, 0)'
    <3>1. offset = cursor[a] /\ out \in {erase, <<BACK>>} /\ Shown(buf[a], offset - 1, line, 0)
      BY <2>1, <2>3 DEF Echoing
    <3>2. Head(out) = BACK
      BY <3>1, OutParts
    <3>3. cursor'[a'] = offset - 1
      <4>1. cursor \in [Place -> Int]
        BY <1>0 DEF ScreenTypes
      <4>2. Head(out) # HOME
        BY <3>2 DEF BACK, HOME
      <4> HIDE DEF a
      <4> QED BY <1>a, <2>1, <2>2, <4>1, <4>2
    <3>4. Shown(buf'[a'], cursor'[a'], line', 0)
      BY <2>1, <2>2, <3>1, <3>3
    <3>5. CASE out = erase
      <4>1. out' = <<BLANK, BACK>> /\ pc' = "print"
        BY <2>1, <3>5, OutParts DEF printed
      <4> HIDE DEF a
      <4> QED BY <3>4, <4>1 DEF Echoing, a, BACK, BLANK
    <3>6. CASE out = <<BACK>>
      <4>1. pc' # "print"
        BY <2>1, <3>6, OutParts DEF printed
      <4> QED BY <3>4, <4>1
    <3> QED BY <3>1, <3>5, <3>6
  <2> QED BY <1>18, <2>1, <2>3 DEF Printing
<1>20. CASE scroll
  <2>1. /\ pc = "scroll" /\ UNCHANGED <<curr_terminal, tmp_terminal, line, c, typed, strayed>> /\ printed
        /\ buf' = [buf EXCEPT ![a] = handle_scrolling(@, offset)]
        /\ cursor' = [cursor EXCEPT ![a] = after_scrolling(offset)]
    BY <1>20 DEF scroll, kbVars, set_cursor
  <2>2. a' = a
    BY <2>1 DEF get_terminal_buf_addr
  <2>3. buf'[a'] = handle_scrolling(buf[a], offset) /\ cursor'[a'] = after_scrolling(offset)
    <3>1. cursor \in [Place -> Int] /\ buf \in [Place -> [Cell -> Int]]
      BY <1>0 DEF ScreenTypes
    <3> HIDE DEF a
    <3> QED BY <1>a, <2>1, <2>2, <3>1
  <2>4. offset <= Size /\ after_scrolling(offset) \in Int
    BY <1>0, <1>l, <2>1, OffsetsKept DEF InScreen
  <2>5. ASSUME line # <<>>, ~Entered, Echoing
        PROVE  IF pc' = "print" THEN Echoing'
               ELSE Shown(buf[get_terminal_buf_addr], cursor[get_terminal_buf_addr], line, 0)'
    <3>1. \/ out = <<c>> /\ Shown(buf[a], offset, line, 0)
          \/ out = <<BLANK, BACK>> /\ Shown(buf[a], offset - 1, line, 0)
      BY <2>1, <2>5 DEF Echoing
    <3>2. CASE out = <<c>> /\ Shown(buf[a], offset, line, 0)
      <4>1. pc' # "print"
        <5>1. out' = <<>>
          BY <2>1, <3>2, OutParts DEF printed
        <5> QED BY <2>1, <5>1 DEF printed
      <4>2. Shown(handle_scrolling(buf[a], offset), after_scrolling(offset) - (offset - offset), line, 0)
        <5> HIDE DEF a
        <5> QED BY <1>a, <1>l, <2>4, <3>2, ShownScrolled
      <4>3. after_scrolling(offset) - (offset - offset) = after_scrolling(offset)
        BY <1>l, <2>4
      <4>4. Shown(buf'[a'], cursor'[a'], line', 0)
        BY <2>1, <2>3, <4>2, <4>3
      <4> QED BY <4>1, <4>4
    <3>3. CASE out = <<BLANK, BACK>> /\ Shown(buf[a], offset - 1, line, 0)
      <4>1. out' = <<BACK>> /\ pc' = "print"
        BY <2>1, <3>3, OutParts DEF printed
      <4>2. Shown(handle_scrolling(buf[a], offset), after_scrolling(offset) - (offset - (offset - 1)), line, 0)
        <5>1. offset - 1 \in Int /\ offset - 1 <= offset
          BY <1>l
        <5> HIDE DEF a
        <5> QED BY <1>a, <1>l, <2>4, <3>3, <5>1, ShownScrolled
      <4>3. after_scrolling(offset) - (offset - (offset - 1)) = after_scrolling(offset) - 1
        BY <1>l, <2>4
      <4>4. Shown(buf'[a'], cursor'[a'] - 1, line', 0)
        BY <2>1, <2>3, <4>2, <4>3
      <4> HIDE DEF a
      <4> QED BY <4>1, <4>4 DEF Echoing, a, BACK, BLANK
    <3> QED BY <3>1, <3>2, <3>3
  <2> QED BY <1>18, <2>1, <2>5 DEF Printing
<1>21. CASE put_prompt
  BY <1>2, <1>21 DEF put_prompt
<1>22. CASE clear_screen
  <2>1. Entered /\ UNCHANGED <<c, typed>> /\ pc' = "print"
    BY <1>22 DEF clear_screen, LineInv, kbVars
  <2> QED BY <1>3, <1>e, <2>1 DEF Printing
<1>23. CASE fat12_find_entry \/ fat12_set_dir \/ exec \/ exec_nothing
  BY <1>1, <1>23 DEF fat12_find_entry, fat12_set_dir, exec, exec_nothing, Printing
<1>24. CASE schedule_proc
  BY <1>1, <1>24 DEF schedule_proc, shell_gone, Printing
<1>25. CASE process_prints \/ process_draws
  <2>1. pc = "gone" /\ pc' = "gone" /\ line = <<>> /\ line' = <<>>
    BY <1>0, <1>25 DEF process_prints, process_draws, shellVars, ShellTypes, LineInv
  <2> QED BY <1>1, <2>1 DEF Printing
<1>26. CASE process_returns
  <2>1. pc = "gone" /\ line = <<>> /\ line' = line /\ pc' = "getchar"
    BY <1>0, <1>26 DEF process_returns, ShellTypes, LineInv
  <2> QED BY <1>2, <2>1
<1> QED BY <1>8, <1>9, <1>10, <1>12, <1>13, <1>15, <1>16, <1>17, <1>19, <1>20, <1>21, <1>22, <1>23,
           <1>24, <1>25, <1>26 DEF Next, terminal_loop, keyboard_handler_main

\* What Enter will execute stands before the cursor, for every screen size and
\* line, with backspaces and scrolling, until consoles are switched.
THEOREM LineIsShown == Spec => []LineShown
<1>1. Init => LineInv
  <2> SUFFICES ASSUME Init PROVE LineInv
    OBVIOUS
  <2>1. /\ line = <<>> /\ out = <<>> /\ pc = "getchar"
        /\ cursor = [t \in Place |-> 1]
    BY DEF Init, terminal_init, Place
  <2>2. Size > 1
    <3>1. PICK r \in Nat : MAX_ROWS = 1 + r
      <4>1. MAX_ROWS - 1 \in Nat
        BY TerminalAssumption
      <4> QED BY <4>1, TerminalAssumption
    <3>2. MAX_ROWS * MAX_COLS = MAX_COLS + r * MAX_COLS /\ r * MAX_COLS \in Nat
      BY <3>1, TerminalAssumption
    <3> QED BY <3>2, TerminalAssumption DEF Size
  <2>3. InScreen
    BY <2>1, <2>2 DEF InScreen
  <2> QED BY <2>1, <2>3 DEF LineInv, Shown, Printing
<1>2. KeyInv /\ LineInv /\ [Next]_vars => LineInv'
  BY LineStep
<1>3. KeyInv /\ LineInv => LineShown
  <2> SUFFICES ASSUME KeyInv, LineInv, pc \in {"getchar", "poll", "take"}, ~strayed
               PROVE  Shown(buf[get_terminal_buf_addr], cursor[get_terminal_buf_addr], line, 0)
    BY DEF LineShown, Shown
  <2> QED BY DEF LineInv
<1> QED BY <1>1, <1>2, <1>3, KeyInvariant, PTL DEF Spec

=============================================================================
