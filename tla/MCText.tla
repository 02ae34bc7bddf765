------------------------------- MODULE MCText -------------------------------
(* The strings of the kernel at work: the lines of the shell, or one       *)
(* format.  Names of up to five characters and extensions of up to three   *)
(* against fields of two, so that either may run over; formats of four     *)
(* pieces; ints of four bits, both positive and negative.                  *)
EXTENDS CommandLine, Stdio

CONSTANT MaxPieces

MCChar == {" ", ".", "/", "\n", "\r", ":", "%", "-", "a", "c", "d", "p", "s", "t", "x", "T"}
            \cup {bchars[k] : k \in DOMAIN bchars}

Base == {<<>>, <<"a">>, <<"a", "T">>, <<"a", "a", "a">>, <<"T", "a", "t", "a">>,
         <<"a", "a", "a", "a", "t">>}
Extension == {<<>>, <<"a">>, <<"T", "a">>, <<"a", "t", "t">>, <<"a", ".", "t">>}
Arguments == {<<"a">>, <<"t", ".", "a">>, <<".">>, <<".", ".">>, <<"a", "/">>}

MCLines ==
  {<<"c", "p", " ", "a", " ">> \o b \o <<".">> \o e : b \in Base, e \in Extension}
    \cup {<<"c", "p", " ", "a", " ", "a", " ", ".", "t">>}
    \cup {<<"c", "d", " ">> \o w : w \in Arguments}
    \cup {<<>>, <<"x">>, <<"c", "d">>}
    \cup {<<"x", " ">> \o v \o <<" ">> \o w : v \in Arguments, w \in Arguments \cup {<<>>}}

numbers == <<-8, -1, 7>>

\* A piece of a format and the arguments that it takes.
Pieces ==
  << << <<" ">>, <<>> >>, << <<":">>, <<>> >>, << <<"\r">>, <<>> >>,
     << <<"%", "%">>, <<>> >>, << <<"%", "-", "1", "2", "x">>, <<-5>> >>,
     << <<"%", "c">>, <<"a">> >>, << <<"%", "c">>, <<"7">> >>, << <<"%", "c">>, <<" ">> >>,
     << <<"%", "s">>, << <<>> >> >>, << <<"%", "s">>, << <<"7">> >> >>,
     << <<"%", "s">>, << <<"a", " ", ":">> >> >>, << <<"%", "s">>, << <<"a", ":">> >> >> >>
  \o [k \in DOMAIN numbers |-> << <<"%", "d">>, <<numbers[k]>> >>]

MCCalls ==
  {[format |-> FlattenSeq([k \in DOMAIN f |-> Pieces[f[k]][1]]),
    valist |-> FlattenSeq([k \in DOMAIN f |-> Pieces[f[k]][2]])] :
     f \in BoundedSeq(DOMAIN Pieces, MaxPieces)}

vars == <<lineVars, ioVars>>

noFormat ==
  format = <<>> /\ valist = <<>> /\ phase = "none" /\ i = 1 /\ narg = 0
    /\ buf = <<>> /\ s_i = 0 /\ read = <<>>

\* A session of the shell, or a call of sprintf and sscanf.
Init == lineInit /\ (ioInit \/ noFormat)

Next ==
  \/ phase = "none" /\ lineNext /\ UNCHANGED ioVars
  \/ ioNext /\ UNCHANGED lineVars

Spec == Init /\ [][Next]_vars

=============================================================================
