------------------------------- MODULE Console -------------------------------
(***************************************************************************)
(* The keyboard (include/keyboard.h), the line editor getline of           *)
(* include/stdio.h, the loop of the shell and the output of processes, on  *)
(* the consoles of Terminal.                                               *)
(*                                                                         *)
(* The shell has no exclusion against the keyboard interrupt: what getline *)
(* echoes, it writes to an address and at a cursor that it has read before,*)
(* and a Ctrl-F key may change both in between.  There is one shell and    *)
(* one line for all consoles.                                              *)
(*                                                                         *)
(* A process has two ways to the screen.  The kernel prints for it with    *)
(* interrupts off, by int 0x80 with 0 or 1.  In ring 3 it writes to the    *)
(* video memory and the cursor registers on its own, whatever console is   *)
(* shown: that is what show.inc does for the .com programs, and putchar in *)
(* the .out files of mydisk.hdd.  The stdio.h of the sources asks          *)
(* get_terminal_buf_addr and get_cursor, which only the kernel defines: no *)
(* program of usr/ links with it as it stands, and what putchar would do   *)
(* in one that did is not in the sources.                                  *)
(***************************************************************************)
EXTENDS Terminal, Sequences

CONSTANTS
  Proc, NULL,
  Dir,         \* the directories that cd reaches
  Drawn,       \* the places of the screen that processes draw at
  MaxKeys,     \* bound on the characters typed
  MaxSwitches  \* bound on the console switches

ASSUME ConsoleAssumption ==
  NULL \notin Proc /\ Drawn \subseteq Cell /\ MaxKeys \in Nat /\ MaxSwitches \in Nat

VARIABLES
  kb_char,   \* the mailbox: which of the keys typed, 0 for INVALID_KB_CHAR
  ctrl,      \* __ctrl
  typed,     \* the characters typed so far, each "letter", "enter" or "backspace"
  switches,  \* counts the console switches, for the bound
  pc,        \* where the shell is
  line, c,   \* getline's res and ch, as numbers of keys
  since,     \* history: the keys typed when getchar was called
  out,       \* what is still to be printed
  vidmem, offset,  \* putchar's
  found,     \* the directory that fat12_cd has found
  home,      \* history: the console on the screen when cd was begun
  strayed,   \* history: consoles were switched since the line began
  curr_proc, status, terminal

kbVars == <<kb_char, ctrl, typed, switches>>
shellVars == <<pc, line, c, since, out, vidmem, offset, found, home, strayed>>
procVars == <<curr_proc, status, terminal>>
vars == <<termVars, kbVars, shellVars, procVars>>

ready == {p \in Proc : status[p] = "READY"}

-----------------------------------------------------------------------------
(* keyboard_handler_main: interrupts are off in it. *)

press_ctrl(on) ==
  /\ ctrl' = on
  /\ UNCHANGED <<termVars, kb_char, typed, switches, shellVars, procVars>>

press_F(t) ==
  /\ ctrl /\ switches < MaxSwitches
  /\ change_terminal(t, curr_proc = NULL)
  /\ switches' = switches + 1
  /\ strayed' = (strayed \/ t # curr_terminal \/ t # tmp_terminal)
  /\ UNCHANGED <<kb_char, ctrl, typed, pc, line, c, since, out, vidmem, offset, found, home, procVars>>

\* A key without a character empties the mailbox.
press_char ==
  /\ \/ Len(typed) < MaxKeys
        /\ \E k \in {"letter", "enter", "backspace"} : typed' = Append(typed, k)
        /\ kb_char' = Len(typed')
     \/ kb_char' = 0 /\ UNCHANGED typed
  /\ UNCHANGED <<termVars, ctrl, switches, shellVars, procVars>>

keyboard_handler_main ==
  \/ press_ctrl(TRUE) \/ press_ctrl(FALSE)
  \/ \E t \in Terminal : press_F(t)
  \/ press_char

-----------------------------------------------------------------------------
(* getchar and getline *)

\* Faulty: what was typed before is still in the mailbox.
getchar_keeps ==
  /\ pc = "getchar"
  /\ since' = Len(typed)
  /\ pc' = "poll"
  /\ UNCHANGED <<termVars, kbVars, line, c, out, vidmem, offset, found, home, strayed, procVars>>

getchar ==
  /\ pc = "getchar"
  /\ kb_char' = 0 /\ since' = Len(typed)
  /\ pc' = "poll"
  /\ UNCHANGED <<termVars, ctrl, typed, switches, line, c, out, vidmem, offset, found, home, strayed, procVars>>

poll ==
  /\ pc = "poll" /\ kb_char # 0
  /\ c' = kb_char
  /\ pc' = "take"
  /\ UNCHANGED <<termVars, kbVars, line, since, out, vidmem, offset, found, home, strayed, procVars>>

\* Faulty: the step back that follows the blank is missing.
erase_once == <<BACK, BLANK>>

\* set_cursor(get_cursor()-2); print_char(' '); set_cursor(get_cursor()-2)
erase == <<BACK, BLANK, BACK>>

\* The second store to the mailbox, which may hold a new key by now, and what
\* getline does with the character.  The models do not step back over the
\* start of the screen, which only a line begun on another console could.
take ==
  /\ pc = "take"
  /\ kb_char' = 0
  /\ \/ /\ typed[c] = "backspace" /\ line = <<>>
        /\ pc' = "getchar" /\ UNCHANGED <<line, out>>
     \/ /\ typed[c] = "backspace" /\ line # <<>> /\ get_cursor > 0
        /\ line' = SubSeq(line, 1, Len(line) - 1)
        /\ out' = erase /\ pc' = "print"
     \/ /\ typed[c] = "letter"
        /\ line' = Append(line, c)
        /\ out' = <<c>> /\ pc' = "print"
     \/ /\ typed[c] = "enter"
        /\ out' = <<NEWLINE>> /\ pc' = "print" /\ UNCHANGED line
  /\ UNCHANGED <<termVars, ctrl, typed, switches, c, since, vidmem, offset, found, home, strayed, procVars>>

-----------------------------------------------------------------------------
(* putchar, and the steps back, interrupted by the keyboard *)

latch_addr ==
  /\ pc = "print"
  /\ vidmem' = get_terminal_buf_addr
  /\ pc' = "cursor"
  /\ UNCHANGED <<termVars, kbVars, line, c, since, out, offset, found, home, strayed, procVars>>

\* putchar is told the place, by clear_screen only.
clearing == Head(out) < HOME

latch_cursor ==
  /\ pc = "cursor"
  /\ offset' = IF clearing THEN cell_cleared(Head(out)) ELSE get_cursor
  /\ pc' = IF Head(out) \in {BACK, HOME} THEN "back" ELSE "write"
  /\ UNCHANGED <<termVars, kbVars, line, c, since, out, vidmem, found, home, strayed, procVars>>

write ==
  /\ pc = "write"
  /\ buf' = [buf EXCEPT ![vidmem] = written(@, IF clearing THEN BLANK ELSE Head(out), offset)]
  /\ offset' = behind(Head(out), offset)
  /\ pc' = "scroll"
  /\ UNCHANGED <<curr_terminal, tmp_terminal, cursor, curr_dir, dir, kbVars, line, c, since, out,
                 vidmem, found, home, strayed, procVars>>

\* The character is out; behind the last one getline goes on.
printed ==
  /\ out' = Tail(out)
  /\ pc' = IF out' # <<>> THEN "print"
           ELSE IF Head(out) = HOME THEN "done"
           ELSE IF c # 0 /\ typed[c] = "enter" THEN "command" ELSE "getchar"

step_back ==
  /\ pc = "back"
  /\ set_cursor(IF Head(out) = HOME THEN 0 ELSE offset - 1)
  /\ printed
  /\ UNCHANGED <<curr_terminal, tmp_terminal, buf, curr_dir, dir, kbVars, line, c, since, vidmem,
                 offset, found, home, strayed, procVars>>

\* handle_scrolling asks for the address again.  It does so for each row, with
\* interrupts on: a switch between two rows is left out, they move in one step.
scroll ==
  LET a == get_terminal_buf_addr
  IN  /\ pc = "scroll"
      /\ buf' = [buf EXCEPT ![a] = handle_scrolling(@, offset)]
      /\ set_cursor(after_scrolling(offset))
      /\ printed
      /\ UNCHANGED <<curr_terminal, tmp_terminal, curr_dir, dir, kbVars, line, c, since, vidmem,
                     offset, found, home, strayed, procVars>>

-----------------------------------------------------------------------------
(* terminal_loop *)

\* Also the end of a command that only prints, or is none.
put_prompt ==
  /\ pc \in {"command", "done"}
  /\ out' = <<PROMPT>> /\ pc' = "print"
  /\ line' = <<>> /\ c' = 0 /\ found' = Root /\ home' = 0 /\ strayed' = FALSE
  /\ UNCHANGED <<termVars, kbVars, since, vidmem, offset, procVars>>

clear_screen ==
  /\ pc = "command" /\ line # <<>>
  /\ out' = Append([k \in 1 .. MAX_ROWS * MAX_COLS |-> clear(k - 1)], HOME)
  /\ pc' = "print"
  /\ UNCHANGED <<termVars, kbVars, line, c, since, vidmem, offset, found, home, strayed, procVars>>

\* fat12_cd: reading the directory from the disk enables interrupts.
fat12_find_entry ==
  /\ pc = "command" /\ line # <<>>
  /\ found' \in Dir /\ home' = curr_terminal
  /\ pc' = "cd"
  /\ UNCHANGED <<termVars, kbVars, line, c, since, out, vidmem, offset, strayed, procVars>>

\* The directory; the text of the path, which changes right behind it, is left
\* out, and so is a switch between the two.
fat12_set_dir ==
  /\ pc = "cd"
  /\ curr_dir' = found
  /\ pc' = "done"
  /\ UNCHANGED <<curr_terminal, tmp_terminal, buf, cursor, dir, kbVars, line, c, since, out,
                 vidmem, offset, found, home, strayed, procVars>>

\* exec_user_prg has read the first program: interrupts are on.
exec ==
  /\ pc = "command" /\ line # <<>>
  /\ pc' = "exec"
  /\ UNCHANGED <<termVars, kbVars, line, c, since, out, vidmem, offset, found, home, strayed, procVars>>

\* proc_create, and the next program of the list is read.
proc_create(p) ==
  /\ pc = "exec" /\ status[p] = "NEW"
  /\ status' = [status EXCEPT ![p] = "READY"]
  /\ terminal' = [terminal EXCEPT ![p] = curr_terminal]
  /\ UNCHANGED <<termVars, kbVars, shellVars, curr_proc>>

\* exec_user_prg found nothing to run.
exec_nothing ==
  /\ pc = "exec" /\ ready = {}
  /\ pc' = "done"
  /\ UNCHANGED <<termVars, kbVars, line, c, since, out, vidmem, offset, found, home, strayed, procVars>>

\* What the shell was doing is lost.
shell_gone ==
  /\ pc' = "gone" /\ line' = <<>> /\ c' = 0 /\ since' = 0 /\ out' = <<>>
  /\ vidmem' = VIDEO /\ offset' = 0 /\ found' = Root /\ home' = 0 /\ strayed' = FALSE

\* Faulty: the process prints wherever the last one did.
proc_switch_unset(p) ==
  /\ curr_proc' = p
  /\ status' = [q \in Proc |-> IF q = p THEN "RUNNING"
                               ELSE IF status[q] = "RUNNING" THEN "READY" ELSE status[q]]
  /\ UNCHANGED tmp_terminal

proc_switch(p) ==
  /\ curr_proc' = p
  /\ status' = [q \in Proc |-> IF q = p THEN "RUNNING"
                               ELSE IF status[q] = "RUNNING" THEN "READY" ELSE status[q]]
  /\ set_tmp_terminal(terminal[p])

\* The schedule_proc that ends exec_user_prg, and the one of the timer, over
\* the shell or a process.  Which READY process it picks is Task's business.
schedule_proc ==
  /\ \E p \in ready : proc_switch(p)
  /\ shell_gone
  /\ UNCHANGED <<curr_terminal, buf, cursor, curr_dir, dir, kbVars, terminal>>

\* int 0x80 with 0 or 1, character by character.
process_prints ==
  /\ curr_proc # NULL
  /\ putchar(OUTPUT)
  /\ UNCHANGED <<curr_terminal, tmp_terminal, curr_dir, dir, kbVars, shellVars, procVars>>

\* print_string and the like in ring 3, one cell or one move of the cursor at a
\* time: a tick or a key may come in between.
process_draws ==
  /\ curr_proc # NULL
  /\ \E o \in Drawn :
       \/ buf' = [buf EXCEPT ![VIDEO][o] = OUTPUT] /\ UNCHANGED cursor
       \/ cursor' = [cursor EXCEPT ![VIDEO] = o] /\ UNCHANGED buf
  /\ UNCHANGED <<curr_terminal, tmp_terminal, curr_dir, dir, kbVars, shellVars, procVars>>

\* int 0x80 with 100: a fresh terminal_loop, which starts without a prompt.
process_returns ==
  /\ curr_proc # NULL
  /\ status' = [status EXCEPT ![curr_proc] = "TERMINATED"]
  /\ curr_proc' = NULL
  /\ pc' = "getchar"
  /\ UNCHANGED <<termVars, kbVars, line, c, since, out, vidmem, offset, found, home, strayed, terminal>>

Init ==
  /\ terminal_init
  /\ kb_char = 0 /\ ctrl = FALSE /\ typed = <<>> /\ switches = 0
  /\ pc = "getchar" /\ line = <<>> /\ c = 0 /\ since = 0 /\ out = <<>>
  /\ vidmem = VIDEO /\ offset = 0 /\ found = Root /\ home = 0 /\ strayed = FALSE
  /\ curr_proc = NULL
  /\ status = [p \in Proc |-> "NEW"]
  /\ terminal = [p \in Proc |-> 0]

terminal_loop ==
  \/ getchar \/ poll \/ take
  \/ latch_addr \/ latch_cursor \/ write \/ step_back \/ scroll
  \/ put_prompt \/ clear_screen \/ fat12_find_entry \/ fat12_set_dir
  \/ exec \/ exec_nothing \/ \E p \in Proc : proc_create(p)

Next ==
  \/ terminal_loop \/ keyboard_handler_main
  \/ schedule_proc \/ process_prints \/ process_draws \/ process_returns

Spec == Init /\ [][Next]_vars

-----------------------------------------------------------------------------

\* A line holds its keys in the order they were typed, none twice, and getchar
\* never returns a key from before it was called.
FreshKeys ==
  /\ pc = "take" => c > since
  /\ \A i, j \in DOMAIN line : i < j => line[i] < line[j]

\* What will be executed is what stands before the cursor, whatever was typed
\* and taken back, as long as the consoles were left alone.
LineShown ==
  LET a == get_terminal_buf_addr
  IN  pc \in {"getchar", "poll", "take"} /\ ~strayed =>
        \A k \in 1 .. Len(line) :
          cursor[a] - k \in Cell => buf[a][cursor[a] - k] = line[Len(line) + 1 - k]

writer == IF curr_proc = NULL THEN tmp_terminal ELSE terminal[curr_proc]

\* A character on its way when the consoles were switched.
torn == pc = "write" /\ vidmem # get_terminal_buf_addr

\* A process may draw on the console that is shown.
drawn(t) == curr_proc # NULL /\ t = curr_terminal

\* What a step does to console t.
Apart(t) ==
  /\ dir_of(t)' # dir_of(t) => pc = "cd" /\ (t = home \/ strayed)
  /\ IF switches' # switches
     THEN curr_proc = NULL =>
            /\ cells(t)' = cells(t)
            /\ curr_terminal = tmp_terminal => cursor_of(t)' = cursor_of(t)
     ELSE /\ cells(t)' # cells(t) => t = writer \/ torn \/ drawn(t)
          /\ cursor_of(t)' # cursor_of(t) => t = writer \/ drawn(t)

\* The kernel prints for shell and processes on their own console only, but for
\* a character torn by a switch; what processes draw themselves stays on the
\* console shown; the directory of a console changes by a cd given on it, but
\* for a cd that a switch has come into, which changes that of the console
\* switched to; and a switch changes no console, unless a process runs or the
\* shell is not on the screen.
ConsolesApart == [][\A t \in Terminal : Apart(t)]_vars

=============================================================================
