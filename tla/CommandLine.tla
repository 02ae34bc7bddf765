----------------------------- MODULE CommandLine -----------------------------
(***************************************************************************)
(* What the shell makes of a line: strsep cuts it in place into the        *)
(* command and its arguments, cd changes the text of the path, and cp      *)
(* forces a name into the 8 + 3 characters of a directory entry.           *)
(*                                                                         *)
(* Two commands are kept away from what the code does not survive: an      *)
(* argument that is not there is the null pointer, which cd, cp and exec   *)
(* go on to read, and so is the extension of a name without a dot.         *)
(***************************************************************************)
EXTENDS Strings

CONSTANTS
  Lines,             \* what the user types
  NAME_LEN,          \* characters of a name, 8 in the source
  EXT_LEN,           \* and of an extension, 3
  DirectoryLetters,  \* the characters whose bit 4 is set
  PATH_LEN           \* bytes of curr_path, 50 in the source

\* A line is typed on a keyboard; NUL has no bit set.
ASSUME LineAssumption ==
  /\ Lines \subseteq Seq(Char)
  /\ {NAME_LEN, EXT_LEN} \subseteq Nat \ {0}
  /\ PATH_LEN \in Nat /\ PATH_LEN > 1
  /\ NUL \notin DirectoryLetters

VARIABLES
  str,        \* the line, in the shell's memory
  rest,       \* the address of what strsep has left of it
  words,      \* the addresses of the tokens so far
  curr_path,  \* the text that the prompt shows
  entry,      \* name and extension of the newest directory entry, attribute
  typed,      \* history: the line
  dirs        \* history: the names of the directories from the root on

lineVars == <<str, rest, words, curr_path, entry, typed, dirs>>

\* A blank entry: zeros.
zeros(n) == [k \in 1 .. n |-> NUL]

command == string(str, 1)
argument == string(str, rest)

lineInit ==
  /\ str = zeros(1) /\ rest = NULL /\ words = <<>>
  /\ curr_path = strcpy(zeros(PATH_LEN), 1, <<"/">>)
  /\ entry = zeros(NAME_LEN + EXT_LEN + 1)
  /\ typed = <<>> /\ dirs = <<>>

\* The prompt has come back and the user types a line.
getline(line) ==
  /\ rest = NULL
  /\ typed' = line
  /\ str' = Append(line, NUL)
  /\ rest' = 1
  /\ words' = <<>>
  /\ UNCHANGED <<curr_path, entry, dirs>>

\* Done with a line: its remaining argument was used as it is.
answered == rest' = NULL /\ words' = Append(words, rest) /\ UNCHANGED <<str, typed>>

\* Cuts one word off: the command, the source of cp, the programs of exec.
separate ==
  LET s == strsep(str, rest, {" "})
  IN  /\ rest # NULL
      /\ words = <<>> \/ command = <<"x">> \/ (command = <<"c", "p">> /\ Len(words) = 1)
      /\ str' = s.mem
      /\ rest' = s.rest
      /\ words' = Append(words, rest)
      /\ UNCHANGED <<curr_path, entry, typed, dirs>>

\* Faulty: what is left of the reversed path is not turned round again.
parent_backwards(path) == LET r == reverse(path, 1)
                          IN  strcpy(path, 1, string(r, strsep(r, 1, {"/"}).rest))

\* The path without its last name: cut off the front of the reversed path.
parent(path) ==
  LET r == reverse(path, 1)
      tmp_path == strsep(r, 1, {"/"})
      s == reverse(tmp_path.mem, tmp_path.rest)
  IN  strcpy(s, 1, string(s, tmp_path.rest))

\* fat12_set_dir: only a directory in the root has the root as its parent.
set_path(path, action) ==
  IF dirs = <<>> THEN strcpy(path, 1, <<"/">> \o action)
  ELSE IF action = <<".">> THEN path
  ELSE IF action = <<".", ".">>
       THEN IF Len(dirs) = 1 THEN strcpy(parent(path), 1, <<"/">>) ELSE parent(path)
  ELSE strcat(strcat(path, 1, <<"/">>), 1, action)

\* The text of a path.
path_of(names) ==
  IF names = <<>> THEN <<"/">>
  ELSE FlattenSeq([k \in DOMAIN names |-> <<"/">> \o names[k]])

\* The name of an entry that was never used reads ".", and its cluster is 0.  In
\* the root cd . finds one, and leads out of the tree: to cluster 0, which is
\* the end of the root on the disk, has only such entries, and is the word for
\* the root in all directories but the root.
nowhere == << <<".">> >>

\* A directory of the disk has any name without a slash; ".." is not in the
\* root.  Paths that run over their buffer are left out.
cd ==
  /\ rest # NULL /\ words # <<>> /\ command = <<"c", "d">>
  /\ strchr(argument, {"/"}) = {}
  /\ \/ dirs = <<>> /\ argument # <<".", ".">> /\ dirs' = <<argument>>
     \/ dirs = nowhere /\ argument = <<".">> /\ dirs' = <<>>
     \/ /\ dirs \notin {<<>>, nowhere}
        /\ dirs' = CASE argument = <<".">> -> dirs
                     [] argument = <<".", ".">> -> Front(dirs)
                     [] OTHER -> Append(dirs, argument)
  /\ Len(path_of(dirs')) < PATH_LEN
  /\ curr_path' = set_path(curr_path, argument)
  /\ answered
  /\ UNCHANGED entry

\* Blanks behind a field up to its end.
padded(mem, p, size) ==
  [k \in DOMAIN mem |-> IF k \in p + strlen(mem, p) .. p + size - 1 THEN " " ELSE mem[k]]

\* Faulty: the extension is written first, and a long name over it.
named_over(old, name) ==
  LET tmp_name == Append(name, NUL)
      s == strsep(tmp_name, 1, {"."})
      m == padded(strcpy(Append(old, NUL), NAME_LEN + 1, string(s.mem, s.rest)), NAME_LEN + 1, EXT_LEN)
  IN  SubSeq(padded(strcpy(m, 1, string(s.mem, 1)), 1, NAME_LEN), 1, Len(old))

\* What fat12_create_file writes over the name of an unused entry.  A name
\* or an extension that is too long runs into the field behind it.  The copy
\* that strsep cuts has a buffer of 20 bytes in the code and as many as it needs
\* here: longer names, which overwrite what lies behind it, are left out.
named_entry(old, name) ==
  LET tmp_name == Append(name, NUL)
      s == strsep(tmp_name, 1, {"."})
      m == padded(strcpy(Append(old, NUL), 1, string(s.mem, 1)), 1, NAME_LEN)
  IN  SubSeq(padded(strcpy(m, NAME_LEN + 1, string(s.mem, s.rest)), NAME_LEN + 1, EXT_LEN),
             1, Len(old))

\* cp to a name with a dot, the whole rest of the line.
cp ==
  /\ rest # NULL /\ Len(words) = 2 /\ command = <<"c", "p">>
  /\ strchr(argument, {"."}) # {}
  /\ entry' = named_entry(zeros(Len(entry)), argument)
  /\ answered
  /\ UNCHANGED <<curr_path, dirs>>

\* The part of a field before its first blank.
field(mem, p, size) ==
  LET f == SubSeq(mem, p, p + size - 1)
  IN  SubSeq(f, 1, Min({k - 1 : k \in strchr(f, {" ", NUL})} \cup {size}))

fat12_construct_file_name(f) ==
  tolower(field(f, 1, NAME_LEN)
          \o IF f[NAME_LEN + 1] = " " THEN <<>>
             ELSE <<".">> \o field(f, NAME_LEN + 1, EXT_LEN))

\* What the attribute byte says; the code sets its archive bit besides.
directory(f) == f[NAME_LEN + EXT_LEN + 1] \in DirectoryLetters

\* fat12_find_entry has found nothing of that name.
cd_fails ==
  /\ rest # NULL /\ words # <<>> /\ command = <<"c", "d">>
  /\ answered
  /\ UNCHANGED <<curr_path, entry, dirs>>

\* Any other command looks at its argument only.
other_command ==
  /\ rest # NULL /\ words # <<>> /\ command \notin {<<"c", "d">>, <<"c", "p">>}
  /\ answered
  /\ UNCHANGED <<curr_path, entry, dirs>>

lineNext ==
  \/ \E line \in Lines : getline(line)
  \/ separate \/ cd \/ cd_fails \/ cp \/ other_command

LineSpec == lineInit /\ [][lineNext]_lineVars

-----------------------------------------------------------------------------

prefix(s, n) == SubSeq(s, 1, IF n < Len(s) THEN n ELSE Len(s))

\* However often strsep has cut the line, every word is still readable at the
\* address it was found at, and the words and the rest make up the line: each
\* word begins where split finds a blank.
WordsMakeUpLine ==
  LET left == IF rest = NULL THEN words ELSE Append(words, rest)
  IN  /\ words # <<>> =>
           FlattenSeq([k \in DOMAIN left |->
             IF k = 1 THEN string(str, left[k]) ELSE <<" ">> \o string(str, left[k])]) = typed
      /\ \A k \in 2 .. Len(left) : left[k] = split(typed, " ")[k - 1] + 2

\* The path in the prompt is the list of the directories that lead to the
\* current one, whatever cd has appended to it and cut off again; but in the
\* root it may be the path of cluster 0, "/.", from where cd . has led back.
PathShowsDirectories ==
  \/ string(curr_path, 1) = path_of(dirs)
  \/ dirs = <<>> /\ string(curr_path, 1) = path_of(nowhere)

\* A file that cp wrote answers to the name it was given, in lower case and
\* with both parts cut to their fields, unless it has no extension or has a
\* blank; and it is no directory as long as both parts fit.
NamesFound ==
  words # <<>> /\ rest = NULL /\ Len(words) = 3 /\ command = <<"c", "p">> =>
    LET name == string(str, words[3])
        dot == Min(strchr(name, {"."}))
        base == SubSeq(name, 1, dot - 1)
        ext == SubSeq(name, dot + 1, Len(name))
    IN  /\ strchr(name, {" "}) = {} =>
             fat12_construct_file_name(entry) =
               tolower(prefix(base, NAME_LEN)
                       \o IF ext = <<>> THEN <<>> ELSE <<".">> \o prefix(ext, EXT_LEN))
        /\ Len(base) <= NAME_LEN + EXT_LEN /\ Len(ext) <= EXT_LEN => ~ directory(entry)

=============================================================================
