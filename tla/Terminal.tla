------------------------------- MODULE Terminal -------------------------------
(***************************************************************************)
(* The consoles of include/terminal.h and what putchar, handle_scrolling   *)
(* and clear_screen of include/stdio.h do to them.                         *)
(*                                                                         *)
(* Each console has a buffer and a cursor of its own, but the one that the *)
(* user sees lives in the video memory and in the cursor register of the   *)
(* screen controller: VIDEO here, one more place of cells and a cursor.    *)
(* What a console shows is a cell for each position, without its colour.   *)
(***************************************************************************)
EXTENDS Integers, FiniteSets

CONSTANTS
  MAX_TERMINAL, MAX_ROWS, MAX_COLS,
  VIDEO,  \* VIDEO_ADDRESS, and registers 14 and 15 of the controller
  Root    \* the path and the directory that a console starts with

Terminal == 0 .. MAX_TERMINAL - 1
Cell == 0 .. MAX_ROWS * MAX_COLS - 1

\* The prompt and the cursor behind it fit in a row.
ASSUME TerminalAssumption ==
  /\ MAX_TERMINAL \in Nat \ {0} /\ MAX_ROWS \in Nat \ {0} /\ MAX_COLS \in Nat \ {0, 1}
  /\ VIDEO \notin Terminal

\* What a cell can show besides the n-th key typed, and what else can be
\* printed: '\n', the step back of getline, and in clear_screen a blank at cell c
\* and the step to the first one.
BLANK == 0
PROMPT == -1
OUTPUT == -2
NEWLINE == -3
BACK == -4
HOME == -5
clear(c) == HOME - 1 - c
cell_cleared(mark) == HOME - 1 - mark

VARIABLES
  curr_terminal,  \* the console on the screen
  tmp_terminal,   \* the console of whoever has the CPU
  buf, cursor,    \* of each console and of VIDEO
  curr_dir,       \* the shell's path and directory
  dir             \* those saved for each console

termVars == <<curr_terminal, tmp_terminal, buf, cursor, curr_dir, dir>>

blank == [c \in Cell |-> BLANK]

\* Also where get_cursor and set_cursor go.
get_terminal_buf_addr == IF curr_terminal = tmp_terminal THEN VIDEO ELSE tmp_terminal

get_cursor == cursor[get_terminal_buf_addr]
set_cursor(offset) == cursor' = [cursor EXCEPT ![get_terminal_buf_addr] = offset]

\* The rows one up, the last one blank.
scrolled(cells) ==
  [c \in Cell |-> IF c + MAX_COLS \in Cell THEN cells[c + MAX_COLS] ELSE BLANK]

handle_scrolling(cells, offset) == IF offset \in Cell THEN cells ELSE scrolled(cells)
after_scrolling(offset) == IF offset \in Cell THEN offset ELSE offset - MAX_COLS

\* putchar: what is written to vidmem, and the offset behind it.
written(cells, c, offset) ==
  IF c = NEWLINE THEN cells ELSE [cells EXCEPT ![offset] = c]

behind(c, offset) ==
  IF c = NEWLINE THEN (offset \div MAX_COLS + 1) * MAX_COLS ELSE offset + 1

\* putchar with interrupts off, by a system call.
putchar(c) ==
  LET a == get_terminal_buf_addr
      o == behind(c, cursor[a])
  IN  /\ buf' = [buf EXCEPT ![a] = handle_scrolling(written(@, c, cursor[a]), o)]
      /\ set_cursor(after_scrolling(o))

set_tmp_terminal(i) == tmp_terminal' = i

\* get_proc_NULL: whether the shell has the CPU.  Otherwise clear_screen and
\* set_cursor work on tmp_terminal unless it is the console that comes up.
change_terminal(new_ter, get_proc_NULL) ==
  LET tmp == IF get_proc_NULL THEN new_ter ELSE tmp_terminal
      a == IF new_ter = tmp THEN VIDEO ELSE tmp
      saved == [buf EXCEPT ![curr_terminal] = buf[VIDEO]]
      cleared == [saved EXCEPT ![a] = blank]
      saved_cursor == [cursor EXCEPT ![curr_terminal] = get_cursor]
      cleared_cursor == [saved_cursor EXCEPT ![a] = 0]
      dirs == [dir EXCEPT ![curr_terminal] = curr_dir]
  IN  /\ curr_terminal' = new_ter /\ tmp_terminal' = tmp
      /\ buf' = [cleared EXCEPT ![VIDEO] = cleared[new_ter]]
      /\ cursor' = [cleared_cursor EXCEPT ![a] = cleared_cursor[new_ter]]
      /\ dir' = dirs /\ curr_dir' = dirs[new_ter]

\* HELLO_INFO is left out of what new_terminal prints.
terminal_init ==
  /\ curr_terminal = 0 /\ tmp_terminal = 0
  /\ buf = [t \in Terminal \cup {VIDEO} |-> [blank EXCEPT ![0] = PROMPT]]
  /\ cursor = [t \in Terminal \cup {VIDEO} |-> 1]
  /\ curr_dir = Root /\ dir = [t \in Terminal |-> Root]

-----------------------------------------------------------------------------

\* What the user finds on console t: its cells, its cursor and its directory.
cells(t) == IF t = curr_terminal THEN buf[VIDEO] ELSE buf[t]
cursor_of(t) == IF t = curr_terminal THEN cursor[VIDEO] ELSE cursor[t]
dir_of(t) == IF t = curr_terminal THEN curr_dir ELSE dir[t]

=============================================================================
