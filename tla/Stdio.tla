-------------------------------- MODULE Stdio --------------------------------
(***************************************************************************)
(* sprintf of include/stdio.h, and sscanf reading its result back.         *)
(*                                                                         *)
(* A format is a sequence of characters and an argument a number, a        *)
(* character or a string.  printf and scanf have the same two loops:       *)
(* printf puts on the screen what sprintf appends to its buffer, and scanf *)
(* reads the line that it has got from getline.                            *)
(*                                                                         *)
(* Neither loop looks for the end of the format behind a '%'; formats end  *)
(* with a whole conversion here, as all those of the kernel do.  A         *)
(* conversion that sscanf does not know moves it by an offset that nobody  *)
(* has set: it is given the formats with %c, %d and %s only.               *)
(***************************************************************************)
EXTENDS Strings

CONSTANTS
  Calls,   \* formats, each with its arguments
  Spaces   \* bound: the blanks that the user adds where the format has one

\* sscanf knows every conversion of such a format.
scannable(f) ==
  \A k \in DOMAIN f : f[k] = "%" => k < Len(f) /\ f[k + 1] \in {"c", "d", "s"}

\* How many arguments its conversions up to a character take.
taken(f, k) == Cardinality({j \in DOMAIN f : j <= k /\ f[j] = "%"})

\* A program gives each conversion an argument of its type.
ASSUME CallsAssumption ==
  /\ Spaces \in Nat
  /\ \A call \in Calls : LET f == call.format v == call.valist IN
       /\ f \in Seq(Char)
       /\ scannable(f) =>
            /\ v = [k \in 1 .. taken(f, Len(f)) |-> v[k]]
            /\ \A k \in DOMAIN f : f[k] = "%" =>
                 \/ f[k + 1] = "c" /\ v[taken(f, k)] \in Char
                 \/ f[k + 1] = "d" /\ v[taken(f, k)] \in Int /\ v[taken(f, k)] = int(v[taken(f, k)])
                 \/ f[k + 1] = "s" /\ v[taken(f, k)] \in Seq(Char)

VARIABLES
  format,   \* the format
  valist,   \* its arguments
  phase,    \* which of the two functions is at work
  i,        \* the next character of the format
  narg,     \* arguments used
  buf,      \* what sprintf has written
  s_i,      \* how much of it sscanf has read
  read      \* what sscanf has stored

ioVars == <<format, valist, phase, i, narg, buf, s_i, read>>

\* The character of the format at a position, NUL at its end.
char(k) == IF k <= Len(format) THEN format[k] ELSE NUL

\* sprintf lets a number stand behind the '%' and makes nothing of it.
digitLength ==
  IF isdigit(char(i + 1)) \/ char(i + 1) = "-"
  THEN read_int(SubSeq(format, i + 1, Len(format))).cnt ELSE 0

kind == char(i + digitLength + 1)

HasArgument == {"d", "i", "x", "X", "c", "s"}

\* What a conversion makes of its argument.
converted(arg) ==
  CASE kind \in {"d", "i"} -> itoa(arg, 10)
    [] kind \in {"x", "X"} -> itoa(arg, 16)
    [] kind = "c" -> <<arg>>
    [] kind = "s" -> arg

ioInit ==
  /\ \E call \in Calls : format = call.format /\ valist = call.valist
  /\ phase = "sprintf"
  /\ i = 1 /\ narg = 0 /\ buf = <<>> /\ s_i = 0 /\ read = <<>>

sprintf_conversion ==
  /\ phase = "sprintf" /\ char(i) = "%"
  /\ IF kind \in HasArgument
     THEN buf' = buf \o converted(valist[narg + 1]) /\ narg' = narg + 1
     ELSE buf' = (IF kind = "%" THEN Append(buf, "%") ELSE buf) /\ narg' = narg
  /\ i' = i + digitLength + 2
  /\ UNCHANGED <<format, valist, phase, s_i, read>>

sprintf_char ==
  /\ phase = "sprintf" /\ char(i) \notin {"%", NUL}
  /\ buf' = Append(buf, IF format[i] = "\r" THEN "\n" ELSE format[i])
  /\ i' = i + 1
  /\ UNCHANGED <<format, valist, phase, narg, s_i, read>>

blanks(n) == [k \in 1 .. n |-> " "]

\* The line that is read back: the user has typed more blanks for each one.
sscanf_begin ==
  /\ phase = "sprintf" /\ char(i) = NUL /\ scannable(format)
  /\ phase' = "sscanf"
  /\ i' = 1 /\ s_i' = 0
  /\ \E n \in 0 .. Spaces :
       buf' = FlattenSeq([k \in DOMAIN buf |-> IF isspace(buf[k]) THEN blanks(n + 1) ELSE <<buf[k]>>])
  /\ UNCHANGED <<format, valist, narg, read>>

\* What sscanf has in front of it.
s == SubSeq(buf, s_i + 1, Len(buf))

least_or(S, n) == Min(S \cup {n})

\* Faulty: %s moves along its word and adds an offset to that.
scanned_twice ==
  LET word == least_or({k - 1 : k \in {k \in DOMAIN s : isspace(s[k])}}, Len(s))
  IN  CASE char(i + 1) = "c" -> [value |-> Head(Append(s, NUL)), length |-> 1]
        [] char(i + 1) = "d" -> [value |-> read_int(s).num, length |-> read_int(s).cnt]
        [] char(i + 1) = "s" -> [value |-> SubSeq(s, 1, word), length |-> word + 1]

\* What a conversion reads: a character, a number, or all up to a blank.
scanned ==
  LET word == least_or({k - 1 : k \in {k \in DOMAIN s : isspace(s[k])}}, Len(s))
  IN  CASE char(i + 1) = "c" -> [value |-> Head(Append(s, NUL)), length |-> 1]
        [] char(i + 1) = "d" -> [value |-> read_int(s).num, length |-> read_int(s).cnt]
        [] char(i + 1) = "s" -> [value |-> SubSeq(s, 1, word), length |-> word]

sscanf_conversion ==
  /\ phase = "sscanf" /\ char(i) = "%"
  /\ read' = Append(read, scanned.value)
  /\ s_i' = s_i + scanned.length
  /\ i' = i + 2
  /\ UNCHANGED <<format, valist, phase, narg, buf>>

\* A blank stands for any number of them; any other character is passed if it
\* is there, and the format goes on if it is not.
sscanf_char ==
  /\ phase = "sscanf" /\ char(i) \notin {"%", NUL}
  /\ s_i' = IF isspace(char(i))
            THEN s_i + least_or({k - 1 : k \in {k \in DOMAIN s : ~ isspace(s[k])}}, Len(s))
            ELSE IF s # <<>> /\ char(i) = Head(s) THEN s_i + 1 ELSE s_i
  /\ i' = i + 1
  /\ UNCHANGED <<format, valist, phase, narg, buf, read>>

ioNext == sprintf_conversion \/ sprintf_char \/ sscanf_begin \/ sscanf_conversion \/ sscanf_char

IoSpec == ioInit /\ [][ioNext]_ioVars

-----------------------------------------------------------------------------

\* A number is told from what follows it, and a word ends with a blank.  An
\* empty word between blanks is not seen, and no argument has a blank itself.
Separated ==
  \A k \in DOMAIN format :
    /\ format[k] # "\r"
    /\ format[k] = "%" => LET arg == valist[taken(format, k)] IN
         \/ char(k + 1) = "d" /\ char(k + 2) # "%" /\ ~ isdigit(char(k + 2))
         \/ /\ char(k + 1) = "s" /\ strchr(arg, {" "}) = {}
            /\ char(k + 2) \in {NUL, " "}
            /\ arg # <<>> \/ char(k + 2) = NUL \/ k = 1 \/ format[k - 1] # " "
         \/ char(k + 1) = "c" /\ arg # " "

\* sscanf gets back every argument that sprintf has written with the same
\* format, however many blanks the user typed for one: negative numbers too,
\* which sprintf writes as large ones and read_int brings back by overflow.
ScanReadsPrint ==
  phase = "sscanf" /\ Separated =>
    /\ read = SubSeq(valist, 1, Len(read))
    /\ char(i) = NUL => Len(read) = Len(valist) /\ s_i = Len(buf)

=============================================================================
