------------------------------- MODULE Strings -------------------------------
(***************************************************************************)
(* include/string.h, and read_int of include/stdio.h.                      *)
(*                                                                         *)
(* Memory is a sequence of characters in which NUL ends a string; an       *)
(* address is an index, and NULL is 0.  A string that is only read stands  *)
(* for itself, as the sequence of its characters without the NUL.          *)
(***************************************************************************)
EXTENDS Integers, SequencesExt

CONSTANTS
  W,    \* bits of an int; 32 on the i386
  Char  \* the characters besides NUL

NUL == "NUL"
NULL == 0

\* The characters that '0' .. '9', 'A' .. 'F' stand for.
bchars == <<"0", "1", "2", "3", "4", "5", "6", "7", "8", "9",
            "A", "B", "C", "D", "E", "F">>
\* What is needed of powers of two, of which the provers know nothing.
ASSUME WordAssumption ==
  W \in Nat \ {0} /\ 2 ^ (W - 1) \in Nat \ {0} /\ 2 ^ W = 2 * 2 ^ (W - 1)

ASSUME CharAssumption ==
  /\ NUL \notin Char
  /\ {" ", ".", "/", "\n"} \cup {bchars[k] : k \in DOMAIN bchars} \subseteq Char

digit(c) == (CHOOSE k \in DOMAIN bchars : bchars[k] = c) - 1

isdigit(c) == c \in {bchars[k] : k \in 1 .. 10}
isspace(c) == c = " "

\* An int after wrapping around, and its bits read as an unsigned.
int(n) == ((n + 2 ^ (W - 1)) % 2 ^ W) - 2 ^ (W - 1)
unsigned(n) == n % 2 ^ W

\* A string that ends behind `mem` is looked at as far as `mem` goes.
strlen(mem, p) == Min({e \in p .. Len(mem) : mem[e] = NUL} \cup {Len(mem) + 1}) - p

\* The string at an address.
string(mem, p) == SubSeq(mem, p, p + strlen(mem, p) - 1)

\* What is written behind the end of `mem` is not looked at by anyone.
strcpy(mem, p, s) ==
  [k \in DOMAIN mem |-> IF k \in p .. p + Len(s) - 1 THEN s[k - p + 1]
                        ELSE IF k = p + Len(s) THEN NUL ELSE mem[k]]

strcat(mem, p, s) == strcpy(mem, p + strlen(mem, p), s)

reverse(mem, p) == strcpy(mem, p, Reverse(string(mem, p)))

\* Where a character of s is one of delims, first of all.
strchr(s, delims) == {k \in DOMAIN s : s[k] \in delims}

\* Faulty: the delimiter stays, so that the token goes on behind it.
strsep_open(mem, p, delims) ==
  LET at == strchr(string(mem, p), delims)
  IN  IF at = {} THEN [mem |-> mem, rest |-> NULL]
      ELSE [mem |-> mem, rest |-> p + Min(at)]

\* The token is the string that begins at p; what is left begins at `rest`.
strsep(mem, p, delims) ==
  LET at == strchr(string(mem, p), delims)
  IN  IF p = NULL \/ at = {} THEN [mem |-> mem, rest |-> NULL]
      ELSE [mem |-> [mem EXCEPT ![p + Min(at) - 1] = NUL], rest |-> p + Min(at)]

\* The positions of c in a string from 0 on, each behind those passed before
\* it, and the length of the string.
split(s, c) ==
  LET at == strchr(s, {c})
  IN  [cnt \in 1 .. Cardinality(at) + 1 |->
         CHOOSE i \in 0 .. Len(s) : /\ Cardinality({k \in at : k <= i}) = cnt - 1
                                   /\ (i + 1 \in at \/ i = Len(s))]

\* The letters that the runs need.
LowerCase == [A |-> "a", T |-> "t"]
tolower(s) == [k \in DOMAIN s |-> IF s[k] \in DOMAIN LowerCase THEN LowerCase[s[k]] ELSE s[k]]

\* The digits of a number, most significant first: the remainders of dividing
\* it until nothing is left, turned round.
itoa(i, base) ==
  LET n == unsigned(i)
      left[pos \in Nat] == IF pos = 0 THEN n ELSE left[pos - 1] \div base
      top == Min({pos \in 1 .. n + 1 : left[pos] = 0})
  IN  IF base > 16 THEN <<"0">>
      ELSE [opos \in 1 .. top |-> bchars[(left[top - opos] % base) + 1]]

\* The number at the beginning of a string and how many characters it takes.
read_int(s) ==
  LET sign == IF s # <<>> /\ Head(s) = "-" THEN 1 ELSE 0
      cnt == Min({k \in sign .. Len(s) : k = Len(s) \/ ~ isdigit(s[k + 1])})
      ret[k \in 0 .. cnt - sign] ==
        IF k = 0 THEN 0 ELSE int(ret[k - 1] * 10 + digit(s[sign + k]))
  IN  [num |-> int(IF sign = 1 THEN - ret[cnt - sign] ELSE ret[cnt - sign]), cnt |-> cnt]

=============================================================================
