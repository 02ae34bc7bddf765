----------------------------- MODULE FilesProofs -----------------------------
(***************************************************************************)
(* For every size of the FAT and of the directories, and whatever shell    *)
(* and processes do: the file system stays well formed, the table of files *)
(* has no file that is lost or shared, chains keep the length of their     *)
(* files and share no cluster, a name keeps its file until rm, and the     *)
(* path in the prompt leads to the current directory.                      *)
(***************************************************************************)
EXTENDS SysFile, FiniteSetTheorems, SequenceTheorems, WellFoundedInduction, TLAPS

FatInv == FatTypeOK /\ ChainsAscend

\* A set of numbers that is not empty has a least one.
LEMMA LeastIn ==
  ASSUME NEW S \in SUBSET Nat, S # {}
  PROVE  least(S) \in S /\ \A j \in S : least(S) <= j
\* Among the intervals 0 .. x there is one that is minimal for inclusion.
<1> DEFINE T == {0 .. x : x \in S}
<1>1. IsWellFoundedOn(StrictSubsetOrdering(Nat), FiniteSubsetsOf(Nat))
  BY FS_StrictSubsetOrderingWellFounded
<1>2. \A x \in S : IsFiniteSet(0 .. x) /\ 0 .. x \in SUBSET Nat
  BY FS_Interval
<1>3. T \subseteq FiniteSubsetsOf(Nat) /\ T # {}
  BY <1>2 DEF FiniteSubsetsOf
<1>4. PICK t \in T : \A u \in T : ~(<<u, t>> \in StrictSubsetOrdering(Nat))
  BY <1>1, <1>3, WFMin
<1>5. PICK x \in S : t = 0 .. x
  BY <1>4
<1>6. ASSUME NEW y \in S, y < x PROVE FALSE
  <2>1. 0 .. y \in T /\ 0 .. y \in SUBSET Nat /\ 0 .. x \in SUBSET Nat
    BY <1>5
  <2>2. 0 .. y \subseteq 0 .. x /\ x \in 0 .. x /\ x \notin 0 .. y
    BY <1>6
  <2>3. <<0 .. y, 0 .. x>> \in StrictSubsetOrdering(Nat)
    BY <2>1, <2>2 DEF StrictSubsetOrdering
  <2> QED
    BY <1>4, <1>5, <2>1, <2>3
<1>7. \A y \in S : x <= y
  BY <1>6
<1> QED
  BY <1>7 DEF least

\* What the loop of create_file does to a FAT keeps it one: links within the
\* clusters, and upwards.
LEMMA LinkedUpwards ==
  ASSUME FatInv, NEW n
  PROVE  /\ linked(n) \in [0 .. FAT_NUM_ENTRY - 1 -> {0, EOF_FAT12} \cup Cluster]
         /\ \A c \in DOMAIN linked(n) :
              linked(n)[c] # 0 /\ linked(n)[c] # EOF_FAT12 => linked(n)[c] > c
<1> USE FatAssumption DEF FatInv, FatTypeOK, ChainsAscend
<1>1. DOMAIN linked(n) = 0 .. FAT_NUM_ENTRY - 1
  BY DEF linked
<1>2. SUFFICES ASSUME NEW c \in 0 .. FAT_NUM_ENTRY - 1
      PROVE  /\ linked(n)[c] \in {0, EOF_FAT12} \cup Cluster
             /\ linked(n)[c] # 0 /\ linked(n)[c] # EOF_FAT12 => linked(n)[c] > c
  BY <1>1 DEF linked
<1> DEFINE after == {d \in taken(n) : d > c}
<1>3. /\ c \notin taken(n) => linked(n)[c] = fat[c]
      /\ c \in taken(n) /\ after # {} => linked(n)[c] = least(after)
      /\ c \in taken(n) /\ after = {} => linked(n)[c] \in {0, EOF_FAT12}
  BY DEF linked
<1>4. after \in SUBSET Nat /\ after \subseteq Cluster /\ \A d \in after : d > c
  BY DEF taken, free_clusters, Cluster
<1>5. after # {} => least(after) \in after
  BY <1>4, LeastIn
<1> HIDE DEF after
<1> QED
  BY <1>3, <1>4, <1>5

LEMMA CreateKeeps ==
  ASSUME FatInv, NEW size \in Nat, NEW name \in Name, fat12_create_file(size, name)
  PROVE  FatInv'
<1> USE FatAssumption DEF Name
<1>1. fat' = linked(num_cluster(size)) /\ UNCHANGED <<curr_dir, curr_path>>
  BY DEF fat12_create_file
<1>2. /\ fat' \in [0 .. FAT_NUM_ENTRY - 1 -> {0, EOF_FAT12} \cup Cluster]
      /\ ChainsAscend'
  BY <1>1, LinkedUpwards DEF ChainsAscend
<1>3. root_dir' \in Seq(Entry) /\ short' \subseteq DOMAIN root_dir'
  <2>1. CASE unused_entries = {} /\ UNCHANGED <<root_dir, short>>
    BY <2>1 DEF FatInv, FatTypeOK
  <2>2. CASE unused_entries # {}
    <3> DEFINE i == least(unused_entries)
               e == [name |-> name, length |-> size, directory |-> FALSE, start |-> cstart]
    <3>1. unused_entries \in SUBSET Nat /\ unused_entries \subseteq DOMAIN root_dir
      BY DEF unused_entries, FatInv, FatTypeOK
    <3>2. i \in DOMAIN root_dir
      BY <2>2, <3>1, LeastIn
    <3>3. free_clusters \in SUBSET Nat /\ free_clusters \subseteq Cluster
      BY DEF free_clusters, Cluster
    <3>4. cstart \in {0} \cup Cluster
      BY <3>3, LeastIn DEF cstart
    <3>5. e \in Entry
      BY <3>4 DEF Entry
    <3>6. root_dir' = [root_dir EXCEPT ![i] = e]
      BY <2>2 DEF fat12_create_file
    <3>7. short' = short \/ short' = short \cup {i}
      BY <2>2 DEF fat12_create_file
    <3> HIDE DEF i, e
    <3> QED
      BY <3>2, <3>5, <3>6, <3>7 DEF FatInv, FatTypeOK
  <2> QED
    BY <2>1, <2>2 DEF fat12_create_file
<1> QED
  BY <1>1, <1>2, <1>3 DEF FatInv, FatTypeOK

\* The entry that answers to a name is an entry, wherever cd and rm look.
LEMMA FoundEntry ==
  ASSUME FatInv, NEW x, named(searched, x) # {}
  PROVE  /\ least(named(searched, x)) \in DOMAIN searched
         /\ searched[least(named(searched, x))] \in Entry
<1>1. searched \in Seq(Entry)
  <2>1. Unused \in Entry
    BY DEF Unused, Entry, Name
  <2> QED
    BY <2>1, FatAssumption DEF searched, Directory, FatInv, FatTypeOK
<1>2. named(searched, x) \in SUBSET Nat
  BY <1>1 DEF named
<1>3. least(named(searched, x)) \in named(searched, x)
  BY <1>2, LeastIn
<1> QED
  BY <1>1, <1>3 DEF named

LEMMA ShellKeeps ==
  ASSUME FatInv, Shell
  PROVE  FatInv'
<1> USE FatAssumption DEF Name
<1>1. ASSUME NEW x \in Names, fat12_cd(x) PROVE FatInv'
  <2> DEFINE start == searched[least(named(searched, x))].start
  <2>1. start \in {0} \cup Cluster
    BY <1>1, FoundEntry DEF fat12_cd, Entry
  <2>2. curr_dir' \in {start, ROOT} /\ UNCHANGED <<fat, root_dir, short>>
    BY <1>1 DEF fat12_cd, fat12_set_dir
  <2> QED
    BY <2>1, <2>2 DEF FatInv, FatTypeOK, ChainsAscend
<1>2. ASSUME NEW x \in Names, fat12_rm(x) PROVE FatInv'
  <2> DEFINE i == least(named(searched, x))
  <2>1. UNCHANGED <<fat, curr_dir, curr_path, short>>
    BY <1>2 DEF fat12_rm, fat12_del_fat_entry
  <2>2. CASE curr_dir = ROOT
    <3>1. i \in DOMAIN root_dir /\ root_dir[i] \in Entry
      BY <1>2, <2>2, FoundEntry DEF fat12_rm, searched
    <3>2. root_dir' = [root_dir EXCEPT ![i].name = DELETED]
      BY <1>2, <2>2 DEF fat12_rm
    <3>3. [root_dir[i] EXCEPT !.name = DELETED] \in Entry
      BY <3>1 DEF Entry
    <3>4. root_dir' = [root_dir EXCEPT ![i] = [root_dir[i] EXCEPT !.name = DELETED]]
      BY <3>2
    <3> HIDE DEF i
    <3>5. root_dir' \in Seq(Entry) /\ DOMAIN root_dir' = DOMAIN root_dir
      BY <3>1, <3>3, <3>4 DEF FatInv, FatTypeOK
    <3> QED
      BY <2>1, <3>5 DEF FatInv, FatTypeOK, ChainsAscend
  <2>3. CASE curr_dir # ROOT
    BY <1>2, <2>1, <2>3 DEF fat12_rm, FatInv, FatTypeOK, ChainsAscend
  <2> QED
    BY <2>2, <2>3
<1>3. ASSUME NEW x \in Names, NEW y \in FileNames, fat12_cp(x, y) PROVE FatInv'
  <2> DEFINE f == fat12_read_file(x)
  <2>1. named(root_dir, x) \in SUBSET Nat
    BY DEF named, FatInv, FatTypeOK
  <2>2. least(named(root_dir, x)) \in named(root_dir, x)
    BY <1>3, <2>1, LeastIn DEF fat12_cp
  <2>3. f \in Entry
    BY <2>2 DEF fat12_read_file, named, FatInv, FatTypeOK
  <2>4. f.length \in Nat /\ y \in Name
    BY <2>3 DEF Entry
  <2>5. fat12_create_file(f.length, y)
    BY <1>3 DEF fat12_cp
  <2> QED
    BY <2>4, <2>5, CreateKeeps
<1>4. ASSUME write PROVE FatInv'
  BY <1>4, CreateKeeps DEF write
<1> QED
  BY <1>1, <1>2, <1>3, <1>4 DEF Shell

\* The table of open files, whose names and positions go to create_file.
TableOK ==
  /\ file_list \in [FileSlot -> [mode : {"u", "r", "w"}, name : Name, pos : Nat]]
  /\ opening \in [Proc -> {NULL} \cup [file : FileSlot, name : FileNames, mode : {"r", "w"}]]
  /\ handles \subseteq [proc : Proc, file : FileSlot]

LEMMA OpenKeeps ==
  ASSUME TableOK, NEW p \in Proc, NEW f \in FileSlot, NEW name \in FileNames,
         NEW mode \in {"r", "w"}, open(p, f, name, mode)
  PROVE  handles' \subseteq [proc : Proc, file : FileSlot] /\ new_mode(f, name, mode) \in {"u", "r", "w"}
<1>1. file_list[f] \in [mode : {"u", "r", "w"}, name : Name, pos : Nat]
  BY DEF TableOK
<1>2. new_mode(f, name, mode) \in {"u", "r", "w"}
  BY <1>1 DEF new_mode
<1>3. handles' \in {handles, handles \cup {[proc |-> p, file |-> f]}}
  BY DEF open
<1> QED
  BY <1>2, <1>3 DEF TableOK

LEMMA UnusedFile ==
  ASSUME TableOK, unused_files # {}
  PROVE  least(unused_files) \in FileSlot
<1>1. unused_files \in SUBSET Nat /\ unused_files \subseteq FileSlot
  BY DEF unused_files, FileSlot
<1> QED
  BY <1>1, LeastIn

LEMMA FileCallKeeps ==
  ASSUME FatInv, TableOK, sys_file_handler_main
  PROVE  FatInv' /\ TableOK'
<1> USE FatAssumption, SysFileAssumption DEF Name
<1> DEFINE Row == [mode : {"u", "r", "w"}, name : Name, pos : Nat]
<1>1. ASSUME NEW p \in Proc, NEW x \in FileNames, NEW mode \in {"r", "w"}, do_fopen(p, x, mode)
      PROVE  FatInv' /\ TableOK'
  <2>1. PICK f \in FileSlot : f = least(unused_files)
    BY <1>1, UnusedFile DEF do_fopen
  <2>2. FatInv'
    BY <1>1 DEF do_fopen, fatVars, FatInv, FatTypeOK, ChainsAscend
  <2>3. file_list[f] \in Row /\ x \in Name
    BY DEF TableOK
  <2>4. CASE curr_dir = ROOT
    <3> DEFINE m == new_mode(f, x, mode)
    <3>1. /\ open(p, f, x, mode)
          /\ file_list' = [file_list EXCEPT ![f].name = x, ![f].mode = m]
          /\ UNCHANGED <<opening, cut>>
      BY <1>1, <2>1, <2>4 DEF do_fopen
    <3>2. handles' \subseteq [proc : Proc, file : FileSlot] /\ m \in {"u", "r", "w"}
      BY <3>1, OpenKeeps
    <3> HIDE DEF m
    <3>3. [file_list[f] EXCEPT !.name = x, !.mode = m] \in Row
      BY <2>3, <3>2
    <3>4. file_list' = [file_list EXCEPT ![f] = [file_list[f] EXCEPT !.name = x, !.mode = m]]
      BY <2>3, <3>1 DEF TableOK
    <3> QED
      BY <2>2, <3>1, <3>2, <3>3, <3>4 DEF TableOK
  <2>5. CASE curr_dir # ROOT
    <3> DEFINE o == [file |-> f, name |-> x, mode |-> mode]
    <3>1. /\ file_list' = [file_list EXCEPT ![f].name = x]
          /\ opening' = [opening EXCEPT ![p] = o]
          /\ UNCHANGED handles
      BY <1>1, <2>1, <2>5 DEF do_fopen
    <3>2. o \in [file : FileSlot, name : FileNames, mode : {"r", "w"}]
      OBVIOUS
    <3> HIDE DEF o
    <3>3. file_list' \in [FileSlot -> Row]
      BY <2>3, <3>1 DEF TableOK
    <3> QED
      BY <2>2, <3>1, <3>2, <3>3 DEF TableOK
  <2> QED
    BY <2>4, <2>5
<1>2. ASSUME NEW p \in Proc, fopen_found(p) PROVE FatInv' /\ TableOK'
  <2> DEFINE o == opening[p]
  <2>1. o \in [file : FileSlot, name : FileNames, mode : {"r", "w"}]
    BY <1>2 DEF fopen_found, TableOK
  <2>2. /\ open(p, o.file, o.name, o.mode)
        /\ file_list' = [file_list EXCEPT ![o.file].mode = new_mode(o.file, o.name, o.mode)]
        /\ opening' = [opening EXCEPT ![p] = NULL]
    BY <1>2 DEF fopen_found
  <2>3. handles' \subseteq [proc : Proc, file : FileSlot] /\ new_mode(o.file, o.name, o.mode) \in {"u", "r", "w"}
    BY <2>1, <2>2, OpenKeeps
  <2>4. FatInv'
    BY <1>2 DEF fopen_found, fatVars, FatInv, FatTypeOK, ChainsAscend
  <2> DEFINE m == new_mode(o.file, o.name, o.mode)
             f == o.file
  <2>5. f \in FileSlot /\ file_list[f] \in Row /\ m \in {"u", "r", "w"}
    BY <2>1, <2>3 DEF TableOK
  <2>6. file_list' = [file_list EXCEPT ![f].mode = m]
    BY <2>2
  <2> HIDE DEF f, m, o
  <2>7. [file_list[f] EXCEPT !.mode = m] \in Row
    BY <2>5
  <2>8. file_list' \in [FileSlot -> Row]
    BY <2>5, <2>6, <2>7 DEF TableOK
  <2> QED
    BY <2>2, <2>3, <2>4, <2>8 DEF TableOK
<1>3. ASSUME NEW h \in handles, do_fclose(h) PROVE FatInv' /\ TableOK'
  <2>1. h.file \in FileSlot /\ file_list[h.file] \in Row
    BY DEF TableOK
  <2>2. FatInv'
    <3>1. CASE fat12_create_file(file_list[h.file].pos, file_list[h.file].name)
      BY <2>1, <3>1, CreateKeeps
    <3>2. CASE UNCHANGED fatVars
      BY <3>2 DEF fatVars, FatInv, FatTypeOK, ChainsAscend
    <3> QED
      BY <1>3, <3>1, <3>2 DEF do_fclose
  <2>3. file_list' = [file_list EXCEPT ![h.file].mode = "u"]
    BY <1>3 DEF do_fclose
  <2>4. [file_list[h.file] EXCEPT !.mode = "u"] \in Row
    BY <2>1
  <2>5. file_list' \in [FileSlot -> Row]
    BY <2>1, <2>3, <2>4 DEF TableOK
  <2> QED
    BY <1>3, <2>2, <2>5 DEF do_fclose, TableOK
<1>4. ASSUME NEW h \in handles, NEW n \in PutSizes, do_fputs(h, n) PROVE FatInv' /\ TableOK'
  <2>1. h.file \in FileSlot /\ file_list[h.file] \in Row
    BY DEF TableOK
  <2>2. file_list[h.file].pos + n \in Nat
    BY <2>1
  <2>3. file_list' = [file_list EXCEPT ![h.file].pos = file_list[h.file].pos + n]
    BY <1>4 DEF do_fputs
  <2>4. file_list' \in [FileSlot -> Row]
    BY <2>1, <2>2, <2>3 DEF TableOK
  <2> QED
    BY <1>4, <2>4 DEF do_fputs, TableOK, fatVars, FatInv, FatTypeOK, ChainsAscend
<1> QED
  BY <1>1, <1>2, <1>3, <1>4 DEF sys_file_handler_main

\* The shell and the calls of processes keep the FAT, the directories and the
\* table of files well formed.
THEOREM FileSystemInvariant == Spec => [](FatInv /\ TableOK)
<1> USE FatAssumption, SysFileAssumption DEF Name
<1>1. Init => FatInv /\ TableOK
  <2> SUFFICES ASSUME Init PROVE FatInv /\ TableOK
    OBVIOUS
  <2>1. FatInv
    BY DEF Init, fat12_init, FatInv, FatTypeOK, ChainsAscend
  <2>2. TableOK
    <3>1. [mode |-> "u", name |-> UNUSED, pos |-> 0] \in [mode : {"u", "r", "w"}, name : Name, pos : Nat]
      OBVIOUS
    <3>2. handles = {} /\ opening = [p \in Proc |-> NULL]
      BY DEF Init, file_init
    <3>3. file_list = [f \in FileSlot |-> [mode |-> "u", name |-> UNUSED, pos |-> 0]]
      BY DEF Init, file_init
    <3> QED
      BY <3>1, <3>2, <3>3 DEF TableOK
  <2> QED
    BY <2>1, <2>2
<1>2. FatInv /\ TableOK /\ [Next]_vars => (FatInv /\ TableOK)'
  <2> SUFFICES ASSUME FatInv, TableOK, [Next]_vars PROVE (FatInv /\ TableOK)'
    OBVIOUS
  <2>1. CASE Command
    <3>1. FatInv'
      BY <2>1, ShellKeeps DEF Command
    <3>2. TableOK'
      BY <2>1 DEF Command, sysVars, TableOK
    <3> QED
      BY <3>1, <3>2
  <2>2. CASE sys_file_handler_main
    BY <2>2, FileCallKeeps
  <2>3. CASE UNCHANGED vars
    BY <2>3 DEF vars, fatVars, FatInv, FatTypeOK, ChainsAscend, TableOK
  <2> QED
    BY <2>1, <2>2, <2>3 DEF Next
<1> QED
  BY <1>1, <1>2, PTL DEF Spec

\* The FAT and the root directory keep their types.
THEOREM FileSystemTyped == Spec => []FatTypeOK
<1>1. FatInv /\ TableOK => FatTypeOK
  BY DEF FatInv
<1> QED
  BY <1>1, FileSystemInvariant, PTL

\* No cluster chain ever becomes a circle: a loop over fat12_next_sector ends.
THEOREM ChainsEnd == Spec => []ChainsAscend
<1>1. FatInv /\ TableOK => ChainsAscend
  BY DEF FatInv
<1> QED
  BY <1>1, FileSystemInvariant, PTL

-----------------------------------------------------------------------------
(* The table of files.                                                     *)

\* A call that was cut keeps a file that nobody holds: there is none in the
\* root directory, where calls are not cut, and no two with the same file.
CutCalls ==
  /\ \A p \in Proc : opening[p] # NULL => curr_dir # ROOT
  /\ ~cut => \A p \in Proc : opening[p] # NULL =>
               /\ file_list[opening[p].file].mode = "u"
               /\ \A q \in Proc : opening[q] # NULL /\ opening[q].file = opening[p].file => p = q

TableInv == TableOK /\ FilesAccounted /\ OwnFile /\ CutCalls

\* What a file and its mode get when a name has been looked up.
LEMMA OpenedFile ==
  ASSUME TableInv, NEW p \in Proc, NEW f \in FileSlot, NEW name \in FileNames, NEW mode \in {"r", "w"},
         open(p, f, name, mode),
         \A g \in FileSlot : file_list'[g].mode = IF g = f THEN new_mode(f, name, mode) ELSE file_list[g].mode
  PROVE  /\ FilesAccounted'
         /\ file_list[f].mode = "u" =>
              (~cut /\ ~cut' => OwnFile')
<1>1. /\ handles \subseteq [proc : Proc, file : FileSlot]
      /\ \A h \in handles : h.file \in FileSlot
      /\ \A g \in FileSlot : file_list[g].mode # "u" => \E h \in handles : h.file = g
  BY DEF TableInv, TableOK, FilesAccounted, unused_files
<1>2. CASE opens(name, mode)
  <2>1. /\ file_list'[f].mode = mode /\ \A g \in FileSlot : g # f => file_list'[g].mode = file_list[g].mode
        /\ handles' = handles \cup {[proc |-> p, file |-> f]}
    BY <1>2 DEF open, new_mode
  <2>2. FilesAccounted'
    <3>1. [proc |-> p, file |-> f].file = f
      OBVIOUS
    <3>2. \A g \in FileSlot : file_list'[g].mode # "u" => \E h \in handles' : h.file = g
      BY <1>1, <2>1, <3>1
    <3> QED BY <3>2 DEF FilesAccounted, unused_files
  <2>3. ASSUME file_list[f].mode = "u", ~cut PROVE OwnFile'
    <3> DEFINE new == [proc |-> p, file |-> f]
    <3>1. new.file = f /\ handles' = handles \cup {new}
      BY <2>1
    <3>2. \A h \in handles : h.file # f /\ file_list[h.file].mode # "u"
      BY <2>3 DEF OwnFile, TableInv
    <3>3. \A g, h \in handles : g.file = h.file => g = h
      BY <2>3 DEF OwnFile, TableInv
    <3> HIDE DEF new
    <3>4. \A h \in handles' : file_list'[h.file].mode # "u"
      BY <1>1, <2>1, <3>1, <3>2
    <3>5. \A g, h \in handles' : g.file = h.file => g = h
      BY <3>1, <3>2, <3>3
    <3> QED BY <3>4, <3>5 DEF OwnFile
  <2> QED BY <2>2, <2>3
<1>3. CASE ~opens(name, mode)
  <2>1. /\ \A g \in FileSlot : file_list'[g].mode = file_list[g].mode
        /\ handles' = handles
    BY <1>3 DEF open, new_mode
  <2> QED BY <1>1, <2>1 DEF FilesAccounted, unused_files, OwnFile, TableInv
<1> QED BY <1>2, <1>3

LEMMA TableStep ==
  ASSUME TableInv, FatInv, [Next]_vars PROVE TableInv'
<1>0. /\ file_list \in [FileSlot -> [mode : {"u", "r", "w"}, name : Name, pos : Nat]]
      /\ opening \in [Proc -> {NULL} \cup [file : FileSlot, name : FileNames, mode : {"r", "w"}]]
      /\ handles \subseteq [proc : Proc, file : FileSlot]
      /\ FilesAccounted /\ OwnFile /\ CutCalls
  BY DEF TableInv, TableOK
<1>1. TableOK'
  <2>1. CASE Command
    BY <1>0, <2>1 DEF Command, sysVars, TableOK
  <2>2. CASE UNCHANGED vars
    BY <1>0, <2>2 DEF vars, TableOK
  <2> QED BY <2>1, <2>2, FileCallKeeps DEF Next, TableInv
<1>2. ASSUME UNCHANGED <<file_list, opening, handles, cut>>,
             curr_dir' = curr_dir \/ \A p \in Proc : opening[p] = NULL
      PROVE  TableInv'
  BY <1>0, <1>1, <1>2 DEF TableInv, FilesAccounted, unused_files, OwnFile, CutCalls
<1>3. CASE Command \/ UNCHANGED vars
  BY <1>2, <1>3 DEF Command, sysVars, vars, fatVars
<1>4. ASSUME NEW p \in Proc, NEW x \in FileNames, NEW mode \in {"r", "w"}, do_fopen(p, x, mode)
      PROVE  TableInv'
  <2>0. PICK f \in FileSlot : f = least(unused_files) /\ file_list[f].mode = "u"
    <3>1. unused_files \in SUBSET Nat /\ unused_files # {}
      BY <1>4 DEF do_fopen, unused_files, FileSlot
    <3>2. least(unused_files) \in unused_files
      BY <3>1, LeastIn
    <3> QED BY <3>2 DEF unused_files
  <2>u. curr_dir' = curr_dir /\ opening[p] = NULL
    BY <1>4 DEF do_fopen, fatVars
  <2>1. CASE curr_dir = ROOT
    <3>1. /\ open(p, f, x, mode) /\ UNCHANGED <<opening, cut>>
          /\ file_list' = [file_list EXCEPT ![f].name = x, ![f].mode = new_mode(f, x, mode)]
      BY <1>4, <2>0, <2>1 DEF do_fopen
    <3>2. \A g \in FileSlot : file_list'[g].mode = IF g = f THEN new_mode(f, x, mode) ELSE file_list[g].mode
      BY <1>0, <3>1
    <3>3. FilesAccounted' /\ (~cut' => OwnFile')
      BY <2>0, <3>1, <3>2, OpenedFile
    <3>4. \A q \in Proc : opening'[q] = NULL
      BY <1>0, <2>1, <3>1 DEF CutCalls
    <3>5. OwnFile'
      BY <3>3 DEF OwnFile
    <3> QED BY <1>1, <3>3, <3>4, <3>5 DEF TableInv, CutCalls
  <2>2. CASE curr_dir # ROOT
    <3>1. /\ file_list' = [file_list EXCEPT ![f].name = x]
          /\ opening' = [opening EXCEPT ![p] = [file |-> f, name |-> x, mode |-> mode]]
          /\ cut' = (cut \/ \E q \in Proc : opening[q] # NULL /\ opening[q].file = f)
          /\ UNCHANGED handles
      BY <1>4, <2>0, <2>2 DEF do_fopen
    <3>2. \A g \in FileSlot : file_list'[g].mode = file_list[g].mode
      BY <1>0, <3>1
    <3>3. FilesAccounted'
      BY <1>0, <3>1, <3>2 DEF FilesAccounted, unused_files
    <3>4. ~cut' => ~cut /\ \A q \in Proc : opening[q] # NULL => opening[q].file # f
      BY <3>1
    <3>5. OwnFile'
      BY <1>0, <3>1, <3>2, <3>4 DEF OwnFile
    <3>6. \A q \in Proc : opening'[q] = IF q = p THEN [file |-> f, name |-> x, mode |-> mode] ELSE opening[q]
      BY <1>0, <3>1
    <3>7. \A q \in Proc : opening[q] # NULL => opening[q].file \in FileSlot
      BY <1>0
    <3>8. CutCalls'
      <4>1. [file |-> f, name |-> x, mode |-> mode].file = f
        OBVIOUS
      <4>2. ASSUME ~cut', NEW r \in Proc, opening'[r] # NULL
            PROVE  /\ file_list'[opening'[r].file].mode = "u"
                   /\ \A q \in Proc : opening'[q] # NULL /\ opening'[q].file = opening'[r].file => r = q
        BY <1>0, <2>0, <3>2, <3>4, <3>6, <3>7, <4>1, <4>2 DEF CutCalls
      <4> QED BY <2>2, <2>u, <4>2 DEF CutCalls
    <3> QED BY <1>1, <3>3, <3>5, <3>8 DEF TableInv
  <2> QED BY <2>1, <2>2
<1>5. ASSUME NEW p \in Proc, fopen_found(p) PROVE TableInv'
  <2> DEFINE o == opening[p]
             f == opening[p].file
             m == new_mode(f, o.name, o.mode)
  <2>1. o \in [file : FileSlot, name : FileNames, mode : {"r", "w"}] /\ f \in FileSlot
        /\ o.name \in FileNames /\ o.mode \in {"r", "w"}
    BY <1>0, <1>5 DEF fopen_found
  <2>2. /\ open(p, f, o.name, o.mode) /\ UNCHANGED <<curr_dir, cut>>
        /\ file_list' = [file_list EXCEPT ![f].mode = m]
        /\ opening' = [opening EXCEPT ![p] = NULL]
    BY <1>5 DEF fopen_found, fatVars
  <2>3. \A g \in FileSlot : file_list'[g].mode = IF g = f THEN m ELSE file_list[g].mode
    <3> HIDE DEF f, m, o
    <3> QED BY <1>0, <2>1, <2>2
  <2>4. ~cut => file_list[f].mode = "u"
    BY <1>0, <1>5 DEF CutCalls, fopen_found
  <2>5. FilesAccounted' /\ (file_list[f].mode = "u" /\ ~cut' => OwnFile')
    BY <2>1, <2>2, <2>3, OpenedFile
  <2>6. OwnFile'
    BY <2>2, <2>4, <2>5 DEF OwnFile
  <2>7. \A q \in Proc : opening'[q] = IF q = p THEN NULL ELSE opening[q]
    BY <1>0, <2>2
  <2>8. CutCalls'
    <3>1. \A q \in Proc : opening'[q] # NULL => opening'[q] = opening[q] /\ opening[q].file \in FileSlot /\ q # p
      BY <1>0, <2>7
    <3>2. ASSUME ~cut, NEW q \in Proc, opening'[q] # NULL
          PROVE  file_list'[opening'[q].file].mode = "u"
      <4>1. opening[q].file # f
        BY <1>0, <1>5, <3>1, <3>2 DEF CutCalls, fopen_found
      <4> HIDE DEF f, m, o
      <4> QED BY <1>0, <2>3, <3>1, <3>2, <4>1 DEF CutCalls
    <3> QED BY <1>0, <2>2, <3>1, <3>2 DEF CutCalls
  <2> QED BY <1>1, <2>5, <2>6, <2>8 DEF TableInv
<1>6. ASSUME NEW h \in handles, do_fclose(h) PROVE TableInv'
  <2>1. /\ UNCHANGED <<curr_dir, opening, cut>> /\ handles' = handles \ {h}
        /\ file_list' = [file_list EXCEPT ![h.file].mode = "u"]
    BY <1>6 DEF do_fclose, fat12_create_file, fatVars
  <2>2. h.file \in FileSlot
    BY <1>0
  <2>3. \A g \in FileSlot : file_list'[g].mode = IF g = h.file THEN "u" ELSE file_list[g].mode
    BY <1>0, <2>1, <2>2
  <2>4. FilesAccounted'
    BY <1>0, <2>1, <2>2, <2>3 DEF FilesAccounted, unused_files
  <2>5. OwnFile'
    BY <1>0, <2>1, <2>2, <2>3 DEF OwnFile
  <2>6. CutCalls'
    BY <1>0, <2>1, <2>2, <2>3 DEF CutCalls
  <2> QED BY <1>1, <2>4, <2>5, <2>6 DEF TableInv
<1>7. ASSUME NEW h \in handles, NEW n \in PutSizes, do_fputs(h, n) PROVE TableInv'
  <2>1. /\ UNCHANGED <<curr_dir, opening, handles, cut>>
        /\ file_list' = [file_list EXCEPT ![h.file].pos = @ + n]
    BY <1>7 DEF do_fputs, fatVars
  <2>2. \A g \in FileSlot : file_list'[g].mode = file_list[g].mode
    BY <1>0, <2>1
  <2>3. \A g \in handles : g.file \in FileSlot
    BY <1>0
  <2>4. FilesAccounted' /\ OwnFile'
    BY <1>0, <2>1, <2>2, <2>3 DEF FilesAccounted, unused_files, OwnFile
  <2>5. CutCalls'
    BY <1>0, <2>1, <2>2 DEF CutCalls
  <2> QED BY <1>1, <2>4, <2>5 DEF TableInv
<1> QED BY <1>3, <1>4, <1>5, <1>6, <1>7 DEF Next, sys_file_handler_main

LEMMA TableInvariant == Spec => []TableInv
<1>1. Init => TableInv
  <2> SUFFICES ASSUME Init PROVE TableInv
    OBVIOUS
  <2>1. file_list = [f \in FileSlot |-> [mode |-> "u", name |-> UNUSED, pos |-> 0]]
        /\ opening = [p \in Proc |-> NULL] /\ handles = {}
    BY DEF Init, file_init
  <2>2. TableOK
    BY <2>1, SysFileAssumption DEF TableOK, Name
  <2> QED BY <2>1, <2>2 DEF TableInv, FilesAccounted, OwnFile, CutCalls, unused_files
<1>2. TableInv /\ (FatInv /\ TableOK) /\ [Next]_vars => TableInv'
  BY TableStep
<1> QED BY <1>1, <1>2, FileSystemInvariant, PTL DEF Spec

\* A call of fopen that fails gives its file back, one that was cut as well.
THEOREM FilesAreAccounted == Spec => []FilesAccounted
<1>1. TableInv => FilesAccounted
  BY DEF TableInv
<1> QED BY <1>1, TableInvariant, PTL

\* Two programs get the same file of the table only by two calls of fopen that
\* meet in a subdirectory, between the search of the table and its mode.
THEOREM FilesHaveOneOwner == Spec => []OwnFile
<1>1. TableInv => OwnFile
  BY DEF TableInv
<1> QED BY <1>1, TableInvariant, PTL

-----------------------------------------------------------------------------
(* Chains of clusters.                                                     *)

\* Induction, on a set of numbers.
LEMMA AllNumbers ==
  ASSUME NEW S \in SUBSET Nat, 0 \in S, \A k \in S : k + 1 \in S
  PROVE  \A k \in Nat : k \in S
<1> SUFFICES ASSUME Nat \ S # {} PROVE FALSE
  OBVIOUS
<1>1. PICK m \in Nat \ S : \A j \in Nat \ S : m <= j
  <2>1. Nat \ S \in SUBSET Nat
    OBVIOUS
  <2> QED BY <2>1, LeastIn
<1>2. m - 1 \in Nat /\ ~(m <= m - 1) /\ (m - 1) + 1 = m
  BY <1>1
<1> QED BY <1>1, <1>2

\* A function that is defined by recursion over the numbers exists.
LEMMA Iterated ==
  ASSUME NEW D, NEW nx \in [D -> D], NEW s \in D,
         NEW g, g = CHOOSE f : f = [k \in Nat |-> IF k = 0 THEN s ELSE nx[f[k - 1]]]
  PROVE  g \in [Nat -> D] /\ g[0] = s /\ \A k \in Nat : g[k + 1] = nx[g[k]]
<1> DEFINE Ok(h, n) == h \in [0 .. n -> D] /\ h[0] = s /\ \A k \in 0 .. n - 1 : h[k + 1] = nx[h[k]]
           S == {n \in Nat : \E h \in [0 .. n -> D] : Ok(h, n)}
<1>1. \A n \in Nat : \E h : Ok(h, n)
  <2>1. 0 \in S
    <3>1. Ok([k \in 0 .. 0 |-> s], 0)
      OBVIOUS
    <3> QED BY <3>1
  <2>2. ASSUME NEW n \in S PROVE n + 1 \in S
    <3>1. PICK h \in [0 .. n -> D] : Ok(h, n)
      OBVIOUS
    <3> DEFINE e == [k \in 0 .. n + 1 |-> IF k = n + 1 THEN nx[h[n]] ELSE h[k]]
    <3>2. e \in [0 .. n + 1 -> D] /\ e[0] = s
      BY <3>1
    <3>3. ASSUME NEW k \in 0 .. (n + 1) - 1 PROVE e[k + 1] = nx[e[k]]
      <4>1. CASE k = n
        BY <4>1
      <4>2. CASE k # n
        <5>1. k \in 0 .. n - 1 /\ k + 1 \in 0 .. n
          BY <4>2
        <5> QED BY <3>1, <5>1
      <4> QED BY <4>1, <4>2
    <3> HIDE DEF e
    <3> QED BY <3>2, <3>3
  <2> HIDE DEF Ok
  <2>3. S \in SUBSET Nat
    OBVIOUS
  <2> HIDE DEF S
  <2>4. \A n \in Nat : n \in S
    BY <2>1, <2>2, <2>3, AllNumbers
  <2> QED BY <2>4 DEF S
<1>2. ASSUME NEW n \in Nat, NEW m \in Nat, n <= m, NEW h, NEW e, Ok(h, n), Ok(e, m)
      PROVE  h[n] = e[n]
  <2> DEFINE Q == {k \in Nat : k <= n => h[k] = e[k]}
  <2>1. 0 \in Q
    BY <1>2
  <2>2. ASSUME NEW k \in Q PROVE k + 1 \in Q
    <3>1. k + 1 <= n => k \in 0 .. n - 1 /\ k \in 0 .. m - 1 /\ k <= n
      BY <1>2
    <3> QED BY <1>2, <3>1
  <2>3. Q \in SUBSET Nat
    OBVIOUS
  <2> HIDE DEF Q, Ok
  <2>4. \A k \in Nat : k \in Q
    BY <2>1, <2>2, <2>3, AllNumbers
  <2> QED BY <2>4 DEF Q
<1> DEFINE part(k) == CHOOSE h : Ok(h, k)
           f == [k \in Nat |-> part(k)[k]]
<1>3. \A k \in Nat : Ok(part(k), k)
  <2> HIDE DEF Ok
  <2> QED BY <1>1
<1> HIDE DEF part
<1>4. f[0] = s
  BY <1>3
<1>5. ASSUME NEW k \in Nat PROVE f[k + 1] = nx[f[k]]
  <2>1. part(k + 1)[k + 1] = nx[part(k + 1)[k]]
    BY <1>3
  <2>2. part(k)[k] = part(k + 1)[k]
    <3>1. k + 1 \in Nat /\ k <= k + 1
      OBVIOUS
    <3> HIDE DEF Ok
    <3> QED BY <1>2, <1>3, <3>1
  <2> QED BY <2>1, <2>2
<1>6. f = [k \in Nat |-> IF k = 0 THEN s ELSE nx[f[k - 1]]]
  <2>1. ASSUME NEW k \in Nat, k # 0 PROVE f[k] = nx[f[k - 1]]
    <3>1. k - 1 \in Nat /\ (k - 1) + 1 = k
      BY <2>1
    <3> HIDE DEF f
    <3> QED BY <1>5, <3>1
  <2> DEFINE e == [k \in Nat |-> IF k = 0 THEN s ELSE nx[f[k - 1]]]
  <2>2. \A k \in Nat : f[k] = e[k]
    <3> HIDE DEF f
    <3> QED BY <1>4, <2>1
  <2>3. f = [k \in Nat |-> f[k]] /\ e = [k \in Nat |-> e[k]]
    OBVIOUS
  <2> HIDE DEF f, e
  <2>4. f = e
    BY <2>2, <2>3
  <2> QED BY <2>4 DEF e
<1> HIDE DEF f
<1>7. g = [k \in Nat |-> IF k = 0 THEN s ELSE nx[g[k - 1]]]
  BY <1>6
<1>8. g[0] = s /\ \A k \in Nat : g[k + 1] = nx[g[k]]
  <2>1. \A k \in Nat : g[k] = IF k = 0 THEN s ELSE nx[g[k - 1]]
    BY <1>7
  <2>2. \A k \in Nat : k + 1 \in Nat /\ k + 1 # 0 /\ (k + 1) - 1 = k
    OBVIOUS
  <2> QED BY <2>1, <2>2
<1>9. \A k \in Nat : g[k] \in D
  <2> DEFINE Q == {k \in Nat : g[k] \in D}
  <2>1. 0 \in Q /\ \A k \in Q : k + 1 \in Q
    BY <1>8
  <2>2. Q \in SUBSET Nat
    OBVIOUS
  <2> HIDE DEF Q
  <2>3. \A k \in Nat : k \in Q
    BY <2>1, <2>2, AllNumbers
  <2> QED BY <2>3 DEF Q
<1>10. g \in [Nat -> D]
  BY <1>7, <1>9
<1> QED BY <1>8, <1>10

\* What is asked of a FAT f, the one on the disk and the one in memory.
GoodFat(f) ==
  /\ f \in [0 .. FAT_NUM_ENTRY - 1 -> {0, EOF_FAT12} \cup Cluster]
  /\ f[0] \in {0, EOF_FAT12}
  /\ \A c \in DOMAIN f : f[c] # 0 /\ f[c] # EOF_FAT12 => f[c] > c

LEMMA Links ==
  ASSUME NEW f, GoodFat(f)
  PROVE  LET D == 0 .. FAT_NUM_ENTRY - 1
             nx == fat12_next_sector(f)
         IN  /\ nx \in [D -> D] /\ nx[0] = 0 /\ 0 \in D /\ Cluster \subseteq D
             /\ \A c \in D : /\ nx[c] \in {0} \cup Cluster
                             /\ nx[c] # 0 => nx[c] > c /\ nx[c] = f[c]
                             /\ nx[c] = 0 <=> f[c] \in {0, EOF_FAT12}
<1> DEFINE D == 0 .. FAT_NUM_ENTRY - 1
<1>1. /\ FAT_NUM_ENTRY \in Nat /\ FAT_NUM_ENTRY > 2 /\ EOF_FAT12 \in Nat /\ EOF_FAT12 >= FAT_NUM_ENTRY
      /\ Cluster \subseteq D /\ 0 \in D /\ \A c \in Cluster : c \in Nat /\ c < EOF_FAT12 /\ c # 0
  BY FatAssumption DEF Cluster
<1>2. DOMAIN f = D /\ \A c \in D : f[c] \in {0, EOF_FAT12} \cup Cluster
  BY DEF GoodFat
<1>3. \A c \in D : fat12_next_sector(f)[c] = IF f[c] \in Cluster THEN f[c] ELSE 0
  <2> SUFFICES ASSUME NEW c \in D PROVE fat12_next_sector(f)[c] = IF f[c] \in Cluster THEN f[c] ELSE 0
    OBVIOUS
  <2>1. fat12_next_sector(f)[c] = IF f[c] >= EOF_FAT12 THEN 0 ELSE f[c]
    BY <1>2 DEF fat12_next_sector
  <2>2. CASE f[c] \in Cluster
    <3>1. f[c] \in Nat /\ f[c] < EOF_FAT12
      BY <1>1, <2>2
    <3>2. ~(f[c] >= EOF_FAT12)
      BY <1>1, <3>1
    <3> QED BY <2>1, <2>2, <3>2
  <2>3. CASE f[c] = 0 /\ f[c] \notin Cluster
    BY <1>1, <2>1, <2>3
  <2>4. CASE f[c] = EOF_FAT12 /\ f[c] \notin Cluster
    BY <1>1, <2>1, <2>4
  <2> QED BY <1>2, <2>2, <2>3, <2>4
<1>4. fat12_next_sector(f) \in [D -> D]
  <2>1. fat12_next_sector(f) = [c \in D |-> fat12_next_sector(f)[c]]
    BY <1>2 DEF fat12_next_sector
  <2> QED BY <1>1, <1>3, <2>1
<1>5. fat12_next_sector(f)[0] = 0
  BY <1>1, <1>3 DEF GoodFat
<1>6. \A c \in D : f[c] \in Cluster => f[c] > c
  BY <1>1, <1>2 DEF GoodFat
<1>7. \A c \in D : /\ fat12_next_sector(f)[c] \in {0} \cup Cluster
                   /\ fat12_next_sector(f)[c] # 0 => fat12_next_sector(f)[c] > c /\ fat12_next_sector(f)[c] = f[c]
                   /\ fat12_next_sector(f)[c] = 0 <=> f[c] \in {0, EOF_FAT12}
  <2> SUFFICES ASSUME NEW c \in D
               PROVE  /\ fat12_next_sector(f)[c] \in {0} \cup Cluster
                      /\ fat12_next_sector(f)[c] # 0 => fat12_next_sector(f)[c] > c /\ fat12_next_sector(f)[c] = f[c]
                      /\ fat12_next_sector(f)[c] = 0 <=> f[c] \in {0, EOF_FAT12}
    OBVIOUS
  <2>1. fat12_next_sector(f)[c] = IF f[c] \in Cluster THEN f[c] ELSE 0
    BY <1>3
  <2>2. f[c] \in Cluster => f[c] # 0 /\ f[c] # EOF_FAT12 /\ f[c] > c
    BY <1>1, <1>6
  <2>3. f[c] \notin Cluster => f[c] \in {0, EOF_FAT12}
    BY <1>2
  <2> QED BY <2>1, <2>2, <2>3
<1> QED BY <1>1, <1>4, <1>5, <1>7

\* The loop of read_clusters collects the least set with its first cluster
\* and the successors of its members: chains ascend, so that it is not cut off.
LEMMA ChainLeast ==
  ASSUME NEW f, GoodFat(f), NEW s \in {0} \cup Cluster
  PROVE  LET C == clusters_from(f, s)
             nx == fat12_next_sector(f)
         IN  /\ s \in C /\ C \subseteq {s} \cup Cluster
             /\ \A c \in C : nx[c] # 0 => nx[c] \in C
             /\ \A T : s \in T /\ (\A c \in T : nx[c] # 0 => nx[c] \in T) => C \subseteq T
<1> DEFINE D == 0 .. FAT_NUM_ENTRY - 1
           nx == fat12_next_sector(f)
           g == CHOOSE h : h = [k \in Nat |-> IF k = 0 THEN s ELSE nx[h[k - 1]]]
           C == clusters_from(f, s)
<1>0. FAT_NUM_ENTRY \in Nat /\ FAT_NUM_ENTRY > 2 /\ \A c \in Cluster : c \in Nat /\ c >= 2 /\ c < FAT_NUM_ENTRY
  BY FatAssumption DEF Cluster
<1>1. C = {s} \cup ({g[k] : k \in 1 .. FAT_NUM_ENTRY - 1} \ {0})
  BY DEF clusters_from
<1>2. /\ nx \in [D -> D] /\ nx[0] = 0 /\ 0 \in D /\ s \in D /\ Cluster \subseteq D
      /\ \A c \in D : nx[c] \in {0} \cup Cluster /\ (nx[c] # 0 => nx[c] > c)
  BY Links
<1>3. g \in [Nat -> D] /\ g[0] = s /\ \A k \in Nat : g[k + 1] = nx[g[k]]
  <2> HIDE DEF nx, D
  <2> QED BY <1>2, Iterated
<1> HIDE DEF g, C, nx
<1>4. \A k \in Nat : g[k] \in {s} \cup Cluster \cup {0}
  <2> DEFINE Q == {k \in Nat : g[k] \in {s} \cup Cluster \cup {0}}
  <2>1. 0 \in Q /\ \A k \in Q : k + 1 \in Q
    <3>1. \A k \in Nat : g[k] \in D
      BY <1>3
    <3>2. \A k \in Nat : g[k + 1] \in {0} \cup Cluster
      <4> HIDE DEF D
      <4> QED BY <1>2, <1>3, <3>1
    <3>3. 0 \in Q
      BY <1>3
    <3> QED BY <3>2, <3>3
  <2>2. Q \in SUBSET Nat
    OBVIOUS
  <2> HIDE DEF Q
  <2>3. \A k \in Nat : k \in Q
    BY <2>1, <2>2, AllNumbers
  <2> QED BY <2>3 DEF Q
<1>5. \A k \in Nat : g[k] # 0 => g[k] >= k
  <2> DEFINE Q == {k \in Nat : g[k] # 0 => g[k] >= k}
  <2>1. 0 \in Q
    BY <1>3
  <2>2. ASSUME NEW k \in Q PROVE k + 1 \in Q
    <3>1. g[k] \in D /\ g[k + 1] \in D /\ g[k + 1] = nx[g[k]]
      BY <1>3
    <3>2. g[k + 1] # 0 => g[k] # 0 /\ g[k + 1] > g[k]
      BY <1>2, <3>1
    <3> QED BY <3>1, <3>2
  <2>3. Q \in SUBSET Nat
    OBVIOUS
  <2> HIDE DEF Q
  <2>4. \A k \in Nat : k \in Q
    BY <2>1, <2>2, <2>3, AllNumbers
  <2> QED BY <2>4 DEF Q
<1>6. s \in C /\ C \subseteq {s} \cup Cluster
  BY <1>0, <1>1, <1>4
<1>7. \A T : s \in T /\ (\A c \in T : nx[c] # 0 => nx[c] \in T) => C \subseteq T
  <2> SUFFICES ASSUME NEW T, s \in T, \A c \in T : nx[c] # 0 => nx[c] \in T PROVE C \subseteq T
    OBVIOUS
  <2> DEFINE Q == {k \in Nat : g[k] \in T \cup {0}}
  <2>1. 0 \in Q /\ \A k \in Q : k + 1 \in Q
    <3>1. 0 \in Q
      BY <1>3
    <3>2. ASSUME NEW k \in Nat, g[k] \in T \cup {0} PROVE g[k + 1] \in T \cup {0}
      <4>1. g[k + 1] = nx[g[k]]
        BY <1>3
      <4> HIDE DEF D
      <4>2. CASE g[k] \in T
        BY <4>1, <4>2
      <4>3. CASE g[k] = 0
        BY <1>2, <4>1, <4>3
      <4> QED BY <3>2, <4>2, <4>3
    <3> QED BY <3>1, <3>2
  <2>2. Q \in SUBSET Nat
    OBVIOUS
  <2> HIDE DEF Q
  <2>3. \A k \in Nat : k \in Q
    BY <2>1, <2>2, AllNumbers
  <2> QED BY <1>0, <1>1, <2>3 DEF Q
<1>8. \A c \in C : nx[c] # 0 => nx[c] \in C
  <2>1. CASE s = 0
    <3>1. \A c \in {0} : nx[c] # 0 => nx[c] \in {0}
      BY <1>2
    <3>2. C \subseteq {0}
      BY <1>7, <2>1, <3>1
    <3> QED BY <1>2, <3>2
  <2>2. CASE s # 0
    <3> SUFFICES ASSUME NEW c \in C, nx[c] # 0 PROVE nx[c] \in C
      OBVIOUS
    <3>1. PICK k \in 0 .. FAT_NUM_ENTRY - 1 : c = g[k]
      BY <1>0, <1>1, <1>3
    <3>2. g[k + 1] = nx[c] /\ g[k + 1] # 0 /\ g[k + 1] \in D /\ g[k + 1] >= k + 1
      BY <1>0, <1>3, <1>5, <3>1
    <3>3. k + 1 \in 1 .. FAT_NUM_ENTRY - 1
      BY <1>0, <3>1, <3>2
    <3> QED BY <1>1, <3>2, <3>3
  <2> QED BY <2>1, <2>2
<1> QED BY <1>6, <1>7, <1>8 DEF C, nx

\* A chain depends on its own links only.
LEMMA ChainKept ==
  ASSUME NEW f, GoodFat(f), NEW e, GoodFat(e), NEW s \in {0} \cup Cluster,
         \A c \in clusters_from(f, s) : e[c] = f[c]
  PROVE  clusters_from(e, s) = clusters_from(f, s)
<1> DEFINE C == clusters_from(f, s)
           B == clusters_from(e, s)
           nf == fat12_next_sector(f)
           ne == fat12_next_sector(e)
<1>1. /\ s \in C /\ C \subseteq {s} \cup Cluster /\ \A c \in C : nf[c] # 0 => nf[c] \in C
      /\ \A T : s \in T /\ (\A c \in T : nf[c] # 0 => nf[c] \in T) => C \subseteq T
  BY ChainLeast
<1>2. /\ s \in B /\ B \subseteq {s} \cup Cluster /\ \A c \in B : ne[c] # 0 => ne[c] \in B
      /\ \A T : s \in T /\ (\A c \in T : ne[c] # 0 => ne[c] \in T) => B \subseteq T
  BY ChainLeast
<1>3. \A c \in C : nf[c] = ne[c]
  <2>1. \A c \in C : c \in DOMAIN f /\ c \in DOMAIN e
    BY <1>1, FatAssumption DEF GoodFat, Cluster
  <2> QED BY <2>1 DEF fat12_next_sector
<1> HIDE DEF C, B, nf, ne
<1>4. B \subseteq C
  BY <1>1, <1>2, <1>3
<1>5. C \subseteq B
  <2>1. s \in B \cap C /\ \A c \in B \cap C : nf[c] # 0 => nf[c] \in B \cap C
    BY <1>1, <1>2, <1>3
  <2> QED BY <1>1, <2>1
<1> QED BY <1>4, <1>5 DEF B, C

LEMMA GreatestIn ==
  ASSUME NEW N \in Nat, NEW S \in SUBSET (0 .. N), S # {}
  PROVE  \E m \in S : \A j \in S : j <= m
<1> DEFINE T == {N - j : j \in S}
<1>1. T \in SUBSET Nat /\ T # {}
  <2>1. \A j \in S : N - j \in Nat
    OBVIOUS
  <2> QED BY <2>1
<1>2. PICK t \in T : \A u \in T : t <= u
  BY <1>1, LeastIn
<1>3. PICK m \in S : t = N - m
  BY <1>2
<1>4. ASSUME NEW j \in S PROVE j <= m
  <2>1. t <= N - j
    BY <1>2
  <2> QED BY <1>3, <2>1
<1> QED BY <1>4

\* A set of n numbers or more has n that come first.
LEMMA FirstOnes ==
  ASSUME NEW X \in SUBSET Nat, IsFiniteSet(X)
  PROVE  \A n \in Nat : n <= Cardinality(X) =>
           Cardinality({c \in X : Cardinality({d \in X : d < c}) < n}) = n
<1> DEFINE below(c) == {d \in X : d < c}
           first(n) == {c \in X : Cardinality(below(c)) < n}
           Q == {n \in Nat : n <= Cardinality(X) => Cardinality(first(n)) = n}
<1>0. Cardinality(X) \in Nat
  BY FS_CardinalityType
<1>1. \A S \in SUBSET X : IsFiniteSet(S) /\ Cardinality(S) \in Nat
  BY FS_Subset, FS_CardinalityType
<1>2. \A c : below(c) \subseteq X
  OBVIOUS
<1>3. 0 \in Q
  <2>1. first(0) = {}
    BY <1>1, <1>2
  <2> QED BY <2>1, FS_EmptySet
<1>4. ASSUME NEW n \in Q PROVE n + 1 \in Q
  <2> SUFFICES ASSUME n + 1 <= Cardinality(X) PROVE Cardinality(first(n + 1)) = n + 1
    OBVIOUS
  <2>1. Cardinality(first(n)) = n /\ n \in Nat
    BY <1>0
  <2>2. first(n) \subseteq X /\ X \ first(n) # {}
    <3>1. first(n) \subseteq X
      OBVIOUS
    <3>2. n # Cardinality(X)
      BY <1>0, <2>1
    <3> HIDE DEF first
    <3>3. first(n) # X
      BY <2>1, <3>2
    <3> QED BY <3>1, <3>3
  <2>3. PICK m \in X \ first(n) : \A j \in X \ first(n) : m <= j
    <3>1. X \ first(n) \in SUBSET Nat
      OBVIOUS
    <3> HIDE DEF first
    <3> QED BY <2>2, <3>1, LeastIn
  <2>4. below(m) = first(n)
    <3>1. ASSUME NEW d \in X, d < m PROVE d \in first(n)
      BY <2>3, <3>1
    <3>2. ASSUME NEW d \in first(n) PROVE d < m
      <4>1. CASE m < d
        <5>1. below(m) \subseteq below(d) /\ below(m) \subseteq X /\ below(d) \subseteq X
          <6>1. d \in Nat /\ m \in Nat
            BY <2>3
          <6>2. \A x \in X : x < m => x < d
            BY <4>1, <6>1
          <6> QED BY <6>2
        <5>2. Cardinality(below(m)) <= Cardinality(below(d))
          <6> HIDE DEF below
          <6> QED BY <1>1, <5>1, FS_Subset
        <5>3. Cardinality(below(d)) < n /\ ~(Cardinality(below(m)) < n)
          BY <2>3
        <5> HIDE DEF below
        <5> QED BY <1>1, <5>1, <5>2, <5>3, <2>1
      <4>2. d # m /\ d \in Nat /\ m \in Nat
        BY <2>3
      <4> QED BY <4>1, <4>2
    <3> HIDE DEF first
    <3>3. first(n) \subseteq X
      BY <2>2
    <3> QED BY <3>1, <3>2, <3>3
  <2>5. Cardinality(below(m)) = n
    BY <2>1, <2>4
  <2>6. ASSUME NEW c \in X, Cardinality(below(c)) < n + 1, c \notin first(n) PROVE c = m
    <3>1. CASE m < c
      <4>1. below(m) \cup {m} \subseteq below(c) /\ m \notin below(m) /\ below(c) \subseteq X /\ below(m) \subseteq X
        <5>1. c \in Nat /\ m \in Nat /\ m \in X
          BY <2>3
        <5>2. \A x \in X : x < m => x < c
          BY <3>1, <5>1
        <5>3. m \notin below(m)
          BY <5>1
        <5> QED BY <3>1, <5>1, <5>2, <5>3
      <4>2. Cardinality(below(m) \cup {m}) = n + 1 /\ Cardinality(below(m) \cup {m}) <= Cardinality(below(c))
        <5> HIDE DEF below
        <5> QED BY <1>1, <2>5, <4>1, FS_AddElement, FS_Subset
      <4>3. Cardinality(below(c)) \in Nat
        BY <1>1, <4>1
      <4> QED BY <2>1, <2>6, <4>2, <4>3
    <3>2. m <= c /\ m \in Nat /\ c \in Nat
      BY <2>3, <2>6
    <3> QED BY <3>1, <3>2
  <2>7. first(n + 1) = first(n) \cup {m}
    <3>1. ASSUME NEW c \in first(n) PROVE c \in first(n + 1)
      <4>1. Cardinality(below(c)) \in Nat
        BY <1>1, <1>2
      <4> QED BY <2>1, <4>1
    <3>2. m \in first(n + 1)
      BY <2>1, <2>3, <2>5
    <3>3. \A c \in first(n + 1) : c \in X /\ Cardinality(below(c)) < n + 1
      OBVIOUS
    <3> HIDE DEF first
    <3> QED BY <2>6, <3>1, <3>2, <3>3
  <2>8. m \notin first(n) /\ IsFiniteSet(first(n))
    BY <1>1, <2>2, <2>3
  <2> HIDE DEF first
  <2> QED BY <2>1, <2>7, <2>8, FS_AddElement
<1>5. Q \in SUBSET Nat
  OBVIOUS
<1> HIDE DEF Q
<1>6. \A n \in Nat : n \in Q
  BY <1>3, <1>4, <1>5, AllNumbers
<1> QED BY <1>6 DEF Q

\* The loop of create_file links the clusters it has found to a chain of them
\* all, if it has found as many as the file needs.
LEMMA NewChain ==
  ASSUME FatInv, fat[0] \in {0, EOF_FAT12}, NEW n \in Nat \ {0}, n <= Cardinality(free_clusters)
  PROVE  LET C == clusters_from(linked(n), cstart)
         IN  /\ C = taken(n) /\ Cardinality(C) = n
             /\ \E c \in C : linked(n)[c] = EOF_FAT12
             /\ \A c \in C : linked(n)[c] # 0
<1> DEFINE D == 0 .. FAT_NUM_ENTRY - 1
           after(c) == {d \in taken(n) : d > c}
<1>0. /\ FAT_NUM_ENTRY \in Nat /\ EOF_FAT12 # 0 /\ D \subseteq Nat /\ DOMAIN linked(n) = D
      /\ Cluster \subseteq D /\ \A c \in Cluster : c \in Nat /\ c # 0
  BY FatAssumption DEF Cluster, linked, FatInv, FatTypeOK
<1>1. free_clusters \in SUBSET Nat /\ free_clusters \subseteq Cluster /\ IsFiniteSet(free_clusters)
  <2>1. IsFiniteSet(Cluster)
    BY FatAssumption, FS_Interval DEF Cluster
  <2>2. free_clusters \subseteq Cluster /\ Cluster \subseteq Nat
    BY <1>0 DEF free_clusters
  <2> QED BY <2>1, <2>2, FS_Subset
<1>2. taken(n) = {c \in free_clusters : Cardinality({d \in free_clusters : d < c}) < n}
  BY DEF taken
<1>3. Cardinality(taken(n)) = n
  <2> HIDE DEF after
  <2> QED BY <1>1, <1>2, FirstOnes
<1>4. free_clusters # {} /\ taken(n) # {}
  <2>1. n # 0 /\ Cardinality({}) = 0 /\ n \in Nat
    BY FS_EmptySet
  <2>2. Cardinality(taken(n)) # 0
    BY <1>3, <2>1
  <2>3. taken(n) # {}
    BY <2>1, <2>2
  <2> QED BY <1>2, <2>3
<1>5. cstart \in free_clusters /\ \A d \in free_clusters : cstart <= d
  BY <1>1, <1>4, LeastIn DEF cstart
<1>6. cstart \in taken(n)
  <2>1. {d \in free_clusters : d < cstart} = {}
    <3>1. \A d \in free_clusters : d \in Nat /\ cstart \in Nat /\ ~(d < cstart)
      BY <1>1, <1>5
    <3> QED BY <3>1
  <2>2. Cardinality({d \in free_clusters : d < cstart}) = 0
    BY <2>1, FS_EmptySet
  <2> QED BY <1>2, <1>5, <2>2
<1>7. taken(n) \subseteq Cluster /\ taken(n) \subseteq D /\ taken(n) \subseteq free_clusters
  BY <1>0, <1>1, <1>2
<1>8. ASSUME NEW c \in taken(n)
      PROVE  linked(n)[c] = IF after(c) # {} THEN least(after(c)) ELSE EOF_FAT12
  BY <1>0, <1>3, <1>7 DEF linked, FatInv, FatTypeOK
<1>9. \A c \in taken(n) : after(c) # {} => /\ least(after(c)) \in after(c) /\ least(after(c)) \in Cluster
                                           /\ \A j \in after(c) : least(after(c)) <= j
  <2> SUFFICES ASSUME NEW c \in taken(n), after(c) # {}
               PROVE  /\ least(after(c)) \in after(c) /\ least(after(c)) \in Cluster
                      /\ \A j \in after(c) : least(after(c)) <= j
    OBVIOUS
  <2>1. after(c) \in SUBSET Nat /\ after(c) \subseteq Cluster
    BY <1>0, <1>7
  <2> HIDE DEF after
  <2> QED BY <2>1, LeastIn
<1>10. GoodFat(linked(n)) /\ cstart \in {0} \cup Cluster
  <2>1. linked(n)[0] = fat[0]
    <3>1. 0 \in D /\ 0 \notin taken(n)
      <4>1. 0 \in D
        BY FatAssumption
      <4> HIDE DEF after, D
      <4> QED BY <1>0, <1>7, <4>1
    <3> QED BY <1>0, <3>1 DEF linked, FatInv, FatTypeOK
  <2> QED BY <1>6, <1>7, <2>1, LinkedUpwards DEF GoodFat
<1> DEFINE C == clusters_from(linked(n), cstart)
           nx == fat12_next_sector(linked(n))
<1>11. /\ cstart \in C /\ C \subseteq {cstart} \cup Cluster
       /\ \A c \in C : nx[c] # 0 => nx[c] \in C
       /\ \A T : cstart \in T /\ (\A c \in T : nx[c] # 0 => nx[c] \in T) => C \subseteq T
  BY <1>10, ChainLeast
<1>12. \A c \in D : /\ nx[c] # 0 => nx[c] = linked(n)[c]
                    /\ nx[c] = 0 <=> linked(n)[c] \in {0, EOF_FAT12}
  BY <1>10, Links
<1> HIDE DEF C, nx
<1>13. \A c \in taken(n) : nx[c] = IF after(c) # {} THEN least(after(c)) ELSE 0
  <2> SUFFICES ASSUME NEW c \in taken(n) PROVE nx[c] = IF after(c) # {} THEN least(after(c)) ELSE 0
    OBVIOUS
  <2>1. CASE after(c) # {}
    <3>1. linked(n)[c] \in Cluster /\ linked(n)[c] = least(after(c)) /\ c \in D
      BY <1>7, <1>8, <1>9, <2>1
    <3>2. linked(n)[c] \notin {0, EOF_FAT12}
      BY <3>1, FatAssumption DEF Cluster
    <3> HIDE DEF after, D
    <3> QED BY <1>12, <2>1, <3>1, <3>2
  <2>2. CASE after(c) = {}
    BY <1>7, <1>8, <1>12, <2>2
  <2> QED BY <2>1, <2>2
<1>14. C \subseteq taken(n)
  <2>1. ASSUME NEW c \in taken(n), nx[c] # 0 PROVE nx[c] \in taken(n)
    BY <1>9, <1>13, <2>1
  <2> QED BY <1>6, <1>11, <2>1
<1>15. taken(n) \subseteq C
  <2> SUFFICES ASSUME taken(n) \ C # {} PROVE FALSE
    OBVIOUS
  <2>1. PICK m \in taken(n) \ C : \A j \in taken(n) \ C : m <= j
    <3>1. taken(n) \ C \in SUBSET Nat
      BY <1>0, <1>7
    <3> HIDE DEF after
    <3> QED BY <3>1, LeastIn
  <2>2. m # cstart /\ cstart <= m /\ m \in Nat /\ cstart \in Nat
    BY <1>1, <1>5, <1>7, <1>11, <2>1
  <2> DEFINE P == {d \in taken(n) : d < m}
  <2>3. cstart \in P
    BY <1>6, <2>2
  <2>4. PICK p \in P : \A j \in P : j <= p
    <3>1. P \in SUBSET (0 .. m)
      BY <1>0, <1>7, <2>2
    <3> HIDE DEF P, after
    <3> QED BY <2>2, <2>3, <3>1, GreatestIn
  <2>5. p \in taken(n) /\ p < m /\ p \in Nat /\ p \in C
    <3>1. p \in taken(n) /\ p < m /\ p \in Nat
      BY <1>0, <1>7, <2>4
    <3> QED BY <2>1, <2>2, <3>1
  <2>6. m \in after(p)
    BY <2>1, <2>2, <2>5
  <2>7. least(after(p)) = m
    <3>1. least(after(p)) \in taken(n) /\ least(after(p)) > p /\ least(after(p)) <= m /\ least(after(p)) \in Nat
      <4>1. least(after(p)) \in after(p) /\ \A j \in after(p) : least(after(p)) <= j
        BY <1>9, <2>5, <2>6
      <4>2. least(after(p)) \in taken(n) /\ least(after(p)) > p
        BY <4>1
      <4> HIDE DEF after
      <4> QED BY <1>0, <1>7, <2>6, <4>1, <4>2
    <3>2. ASSUME least(after(p)) < m PROVE FALSE
      <4>1. least(after(p)) \in P
        BY <3>1, <3>2
      <4> HIDE DEF after, P
      <4> QED BY <2>4, <2>5, <3>1, <4>1
    <3> HIDE DEF after
    <3> QED BY <2>2, <3>1, <3>2
  <2>8. nx[p] = m /\ m # 0
    <3>1. nx[p] = m
      <4>1. after(p) # {}
        BY <2>6
      <4> HIDE DEF after
      <4> QED BY <1>13, <2>5, <2>7, <4>1
    <3> QED BY <1>0, <1>7, <2>1, <3>1
  <2> QED BY <1>11, <2>1, <2>5, <2>8
<1>16. \E c \in C : linked(n)[c] = EOF_FAT12
  <2>1. PICK m \in taken(n) : \A j \in taken(n) : j <= m
    <3>1. taken(n) \in SUBSET (0 .. FAT_NUM_ENTRY) /\ FAT_NUM_ENTRY \in Nat
      BY <1>0, <1>7
    <3> HIDE DEF after
    <3> QED BY <1>4, <3>1, GreatestIn
  <2>2. after(m) = {}
    BY <1>0, <1>7, <2>1
  <2>3. linked(n)[m] = EOF_FAT12
    BY <1>8, <2>2
  <2> QED BY <1>15, <2>3
<1>17. \A c \in C : linked(n)[c] # 0
  <2> SUFFICES ASSUME NEW c \in C PROVE linked(n)[c] # 0
    OBVIOUS
  <2>1. c \in taken(n)
    BY <1>14
  <2>2. CASE after(c) # {}
    <3>1. linked(n)[c] \in Cluster
      BY <1>8, <1>9, <2>1, <2>2
    <3> QED BY <1>0, <3>1
  <2>3. CASE after(c) = {}
    BY <1>0, <1>8, <2>1, <2>3
  <2> QED BY <2>2, <2>3
<1> QED BY <1>3, <1>14, <1>15, <1>16, <1>17 DEF C

-----------------------------------------------------------------------------
(* Files and their chains.                                                 *)

\* The entries that are somebody's, of files and of directories, but for the
\* files that got fewer clusters than they need.
Kept == {i \in DOMAIN root_dir : root_dir[i].name \notin {UNUSED, DELETED}} \ short

\* Their chains lead over clusters that are taken, and entries are taken from
\* the front: a cluster or an entry that is free belongs to none of them.
DiskInv ==
  /\ FatInv /\ GoodFat(fat)
  /\ \A i, j \in DOMAIN root_dir : j < i /\ root_dir[j].name = UNUSED => root_dir[i].name = UNUSED
  /\ \A i \in Kept : \A c \in Chain(i) \ {0} : fat[c] # 0
  /\ SoundChains

LEMMA SoundMeans ==
  ASSUME NEW f, NEW root, NEW files
  PROVE  Sound(f, root, files) <=>
           /\ \A i \in files : root[i].start # 0 =>
                LET C == clusters_from(f, root[i].start)
                IN  Cardinality(C) = num_cluster(root[i].length) /\ \E c \in C : f[c] = EOF_FAT12
           /\ \A i, j \in files : root[i].start # 0 /\ root[j].start # 0 /\ i < j =>
                clusters_from(f, root[i].start) \cap clusters_from(f, root[j].start) = {}
<1> DEFINE B == {j \in files : root[j].start # 0}
           chain == [i \in B |-> clusters_from(f, root[i].start)]
<1>1. DOMAIN chain = B /\ \A i \in B : chain[i] = clusters_from(f, root[i].start)
  OBVIOUS
<1>2. \A i : i \in B <=> i \in files /\ root[i].start # 0
  OBVIOUS
<1>3. Sound(f, root, files) <=>
        /\ \A i \in DOMAIN chain : /\ Cardinality(chain[i]) = num_cluster(root[i].length)
                                   /\ \E c \in chain[i] : f[c] = EOF_FAT12
        /\ \A i, j \in DOMAIN chain : i < j => chain[i] \cap chain[j] = {}
  BY DEF Sound
<1> HIDE DEF chain, B
<1> QED BY <1>1, <1>2, <1>3

LEMMA KeptEntry ==
  ASSUME DiskInv, NEW i \in DOMAIN root_dir
  PROVE  /\ root_dir \in Seq(Entry) /\ DOMAIN root_dir \subseteq Nat
         /\ root_dir[i] \in Entry /\ root_dir[i].start \in {0} \cup Cluster /\ root_dir[i].length \in Nat
         /\ Chain(i) = clusters_from(fat, root_dir[i].start)
<1>1. root_dir \in Seq(Entry) /\ DOMAIN root_dir \subseteq Nat
  BY DEF DiskInv, FatInv, FatTypeOK
<1>2. root_dir[i] \in Entry
  BY <1>1
<1> QED BY <1>1, <1>2 DEF Entry, Chain, fat12_read_clusters

\* The loop of create_file changes no link of a chain that is kept.
LEMMA ChainsStay ==
  ASSUME DiskInv, NEW n, NEW i \in Kept
  PROVE  /\ clusters_from(linked(n), root_dir[i].start) = Chain(i)
         /\ \A c \in Chain(i) : c \notin taken(n) /\ linked(n)[c] = fat[c] /\ c \in DOMAIN fat
         /\ GoodFat(linked(n))
<1>0. /\ fat \in [0 .. FAT_NUM_ENTRY - 1 -> {0, EOF_FAT12} \cup Cluster]
      /\ 0 \in 0 .. FAT_NUM_ENTRY - 1 /\ Cluster \subseteq 0 .. FAT_NUM_ENTRY - 1 /\ 0 \notin Cluster
      /\ taken(n) \subseteq Cluster /\ \A c \in taken(n) : fat[c] = 0
  BY FatAssumption DEF DiskInv, FatInv, FatTypeOK, Cluster, taken, free_clusters
<1>1. i \in DOMAIN root_dir
  BY DEF Kept
<1>2. root_dir[i].start \in {0} \cup Cluster /\ Chain(i) = clusters_from(fat, root_dir[i].start)
  BY <1>1, KeptEntry
<1>3. Chain(i) \subseteq {0} \cup Cluster
  <2>1. GoodFat(fat)
    BY DEF DiskInv
  <2>2. clusters_from(fat, root_dir[i].start) \subseteq {root_dir[i].start} \cup Cluster
    <3> DEFINE s == root_dir[i].start
               C == clusters_from(fat, s)
               nx == fat12_next_sector(fat)
    <3>1. s \in {0} \cup Cluster
      BY <1>2
    <3> HIDE DEF s
    <3>2. /\ s \in C /\ C \subseteq {s} \cup Cluster
          /\ \A c \in C : nx[c] # 0 => nx[c] \in C
          /\ \A T : s \in T /\ (\A c \in T : nx[c] # 0 => nx[c] \in T) => C \subseteq T
      BY <2>1, <3>1, ChainLeast
    <3> QED BY <3>2 DEF s
  <2> QED BY <1>2, <2>2
<1>4. \A c \in Chain(i) : c \notin taken(n) /\ linked(n)[c] = fat[c] /\ c \in DOMAIN fat
  <2> SUFFICES ASSUME NEW c \in Chain(i) PROVE c \notin taken(n) /\ linked(n)[c] = fat[c] /\ c \in DOMAIN fat
    OBVIOUS
  <2>1. c \notin taken(n)
    BY <1>0 DEF DiskInv
  <2>2. c \in DOMAIN fat
    BY <1>0, <1>3
  <2> QED BY <2>1, <2>2 DEF linked
<1>5. GoodFat(linked(n))
  <2>1. linked(n)[0] = fat[0]
    BY <1>0 DEF linked
  <2> QED BY <2>1, LinkedUpwards DEF GoodFat, DiskInv
<1>6. clusters_from(linked(n), root_dir[i].start) = Chain(i)
  BY <1>2, <1>4, <1>5, ChainKept DEF DiskInv
<1> QED BY <1>4, <1>5, <1>6

LEMMA GoodLinked == ASSUME DiskInv, NEW n PROVE GoodFat(linked(n))
<1>0. /\ fat \in [0 .. FAT_NUM_ENTRY - 1 -> {0, EOF_FAT12} \cup Cluster]
      /\ 0 \in 0 .. FAT_NUM_ENTRY - 1 /\ 0 \notin Cluster /\ taken(n) \subseteq Cluster
  BY FatAssumption DEF DiskInv, FatInv, FatTypeOK, Cluster, taken, free_clusters
<1>1. linked(n)[0] = fat[0]
  BY <1>0 DEF linked
<1> QED BY <1>1, LinkedUpwards DEF GoodFat, DiskInv

LEMMA Clusters == ASSUME NEW size \in Nat PROVE num_cluster(size) \in Nat
<1> DEFINE a == size + FAT_SECTOR_SIZE - 1
<1>1. a \in Nat /\ FAT_SECTOR_SIZE \in Nat \ {0}
  BY FatAssumption
<1> HIDE DEF a
<1>2. a \div FAT_SECTOR_SIZE \in Nat
  BY <1>1
<1> QED BY <1>2 DEF num_cluster, a

\* create_file keeps what there is, and puts a new file behind it that is
\* complete or counts as short.
LEMMA CreateDisk ==
  ASSUME DiskInv, NEW size \in Nat, NEW name \in Name, name # UNUSED, fat12_create_file(size, name)
  PROVE  /\ DiskInv'
         /\ \A i \in Kept : i \in DOMAIN root_dir' /\ root_dir'[i] = root_dir[i] /\ Chain(i)' = Chain(i) /\ i \notin short'
         /\ \A j \in DOMAIN root_dir' : j \in DOMAIN root_dir /\
              (root_dir'[j] = root_dir[j] \/ root_dir[j].name = UNUSED)
<1>i. PICK i : i = least(unused_entries)
  OBVIOUS
<1> DEFINE n == num_cluster(size)
           e == [name |-> name, length |-> size, directory |-> FALSE, start |-> cstart]
<1>0. /\ DOMAIN root_dir \subseteq Nat /\ root_dir \in Seq(Entry) /\ n \in Nat
      /\ fat' = linked(n) /\ GoodFat(fat')
  <2>1. DOMAIN root_dir \subseteq Nat /\ root_dir \in Seq(Entry)
    BY DEF DiskInv, FatInv, FatTypeOK
  <2>2. fat' = linked(n)
    BY DEF fat12_create_file
  <2>3. n \in Nat
    BY Clusters
  <2>4. GoodFat(linked(n))
    BY GoodLinked
  <2> QED BY <2>1, <2>2, <2>3, <2>4
<1>f. FatInv'
  BY CreateKeeps DEF DiskInv
<1>1. \A j : Chain(j)' = clusters_from(linked(n), root_dir'[j].start)
  BY <1>0 DEF Chain, fat12_read_clusters
<1>2. \A j \in Kept : /\ j \in DOMAIN root_dir /\ root_dir[j].name # UNUSED
                      /\ clusters_from(linked(n), root_dir[j].start) = Chain(j)
                      /\ Chain(j) = clusters_from(fat, root_dir[j].start)
                      /\ \A c \in Chain(j) : c \notin taken(n) /\ linked(n)[c] = fat[c]
  BY ChainsStay DEF Kept, Chain, fat12_read_clusters
<1>k. Files \subseteq Kept /\ \A j \in Kept : \A c \in Chain(j) \ {0} : fat[c] # 0
  BY DEF Files, files_in, Kept, DiskInv
<1>s. /\ \A j \in Files : root_dir[j].start # 0 =>
           Cardinality(Chain(j)) = num_cluster(root_dir[j].length) /\ \E c \in Chain(j) : fat[c] = EOF_FAT12
      /\ \A j, k \in Files : root_dir[j].start # 0 /\ root_dir[k].start # 0 /\ j < k => Chain(j) \cap Chain(k) = {}
  <2>1. Sound(fat, root_dir, Files)
    BY DEF DiskInv, SoundChains
  <2>2. /\ \A j \in Files : root_dir[j].start # 0 =>
              Cardinality(clusters_from(fat, root_dir[j].start)) = num_cluster(root_dir[j].length)
                /\ \E c \in clusters_from(fat, root_dir[j].start) : fat[c] = EOF_FAT12
        /\ \A j, k \in Files : root_dir[j].start # 0 /\ root_dir[k].start # 0 /\ j < k =>
              clusters_from(fat, root_dir[j].start) \cap clusters_from(fat, root_dir[k].start) = {}
    BY <2>1, SoundMeans
  <2>3. \A j \in Files : Chain(j) = clusters_from(fat, root_dir[j].start)
    BY <1>2, <1>k
  <2> QED BY <2>2, <2>3
<1> HIDE DEF n
<1>3. CASE unused_entries = {} /\ UNCHANGED <<root_dir, short>>
  <2>1. \A j \in Kept : Chain(j)' = Chain(j) /\ j \notin short'
    BY <1>1, <1>2, <1>3 DEF Kept
  <2>2. Files' = Files /\ Kept' = Kept
    BY <1>3 DEF Files, files_in, Kept
  <2>3. Sound(fat', root_dir', Files')
    <3>1. /\ \A j \in Files' : /\ j \in Files /\ root_dir'[j] = root_dir[j]
                               /\ clusters_from(fat', root_dir'[j].start) = Chain(j)
                               /\ \A c \in Chain(j) : fat'[c] = fat[c]
      BY <1>0, <1>2, <1>3, <1>k, <2>2
    <3>2. /\ \A j \in Files' : root_dir'[j].start # 0 =>
               Cardinality(clusters_from(fat', root_dir'[j].start)) = num_cluster(root_dir'[j].length)
                 /\ \E c \in clusters_from(fat', root_dir'[j].start) : fat'[c] = EOF_FAT12
          /\ \A j, k \in Files' : root_dir'[j].start # 0 /\ root_dir'[k].start # 0 /\ j < k =>
               clusters_from(fat', root_dir'[j].start) \cap clusters_from(fat', root_dir'[k].start) = {}
      BY <1>s, <3>1
    <3> QED BY <3>2, SoundMeans
  <2>4. DiskInv'
    BY <1>0, <1>2, <1>3, <1>f, <1>k, <2>1, <2>2, <2>3 DEF DiskInv, SoundChains
  <2> QED BY <1>2, <1>3, <2>1, <2>4
<1>4. CASE unused_entries # {}
  <2>1. /\ root_dir' = [root_dir EXCEPT ![i] = e]
        /\ short' = IF n = 0 \/ n > Cardinality(free_clusters) THEN short \cup {i} ELSE short
    BY <1>4, <1>i DEF fat12_create_file, n
  <2>2. /\ i \in DOMAIN root_dir /\ root_dir[i].name = UNUSED
        /\ \A j \in DOMAIN root_dir : root_dir[j].name = UNUSED => i <= j
    <3>1. unused_entries \in SUBSET Nat
      BY <1>0 DEF unused_entries
    <3>2. i \in unused_entries /\ \A j \in unused_entries : i <= j
      BY <1>4, <1>i, <3>1, LeastIn
    <3> QED BY <3>2 DEF unused_entries
  <2>3. e.name = name /\ e.length = size /\ e.start = cstart
    OBVIOUS
  <2> HIDE DEF e
  <2>4. /\ DOMAIN root_dir' = DOMAIN root_dir /\ root_dir'[i] = e
        /\ \A j \in DOMAIN root_dir : j # i => root_dir'[j] = root_dir[j]
    BY <1>0, <2>1, <2>2
  <2>5. i \notin Kept /\ short \subseteq short' /\ short' \subseteq short \cup {i}
    BY <2>1, <2>2 DEF Kept
  <2>6. \A j \in Kept : /\ j \in DOMAIN root_dir' /\ root_dir'[j] = root_dir[j] /\ Chain(j)' = Chain(j)
                        /\ j \notin short' /\ j # i
    <3> SUFFICES ASSUME NEW j \in Kept
                 PROVE  /\ j \in DOMAIN root_dir' /\ root_dir'[j] = root_dir[j] /\ Chain(j)' = Chain(j)
                        /\ j \notin short' /\ j # i
      OBVIOUS
    <3>1. j # i /\ j \in DOMAIN root_dir /\ j \notin short
      BY <2>5 DEF Kept
    <3>2. root_dir'[j] = root_dir[j]
      BY <2>4, <3>1
    <3> QED BY <1>1, <1>2, <2>4, <2>5, <3>1, <3>2
  <2>7. Kept' \subseteq Kept \cup {i} /\ Files' \subseteq Files \cup {i}
    <3>1. \A j \in DOMAIN root_dir' : j # i => root_dir'[j] = root_dir[j] /\ j \in DOMAIN root_dir
      BY <2>4
    <3> QED BY <2>5, <3>1 DEF Kept, Files, files_in
  \* The new entry, if it has got its clusters.
  <2>8. ASSUME i \notin short'
        PROVE  /\ Chain(i)' = taken(n) /\ Cardinality(Chain(i)') = num_cluster(root_dir'[i].length)
               /\ \E c \in Chain(i)' : fat'[c] = EOF_FAT12
               /\ \A c \in Chain(i)' : fat'[c] # 0
               /\ \A j \in Kept : Chain(i)' \cap Chain(j) = {}
    <3>1. n # 0 /\ n <= Cardinality(free_clusters)
      <4>1. IsFiniteSet(free_clusters)
        <5>1. IsFiniteSet(Cluster)
          BY FatAssumption, FS_Interval DEF Cluster
        <5>2. free_clusters \in SUBSET Cluster
          BY DEF free_clusters
        <5> QED BY <5>1, <5>2, FS_Subset
      <4>2. Cardinality(free_clusters) \in Nat
        BY <4>1, FS_CardinalityType
      <4>3. n # 0 /\ ~(n > Cardinality(free_clusters))
        BY <2>1, <2>8
      <4> QED BY <1>0, <4>2, <4>3
    <3>2. n \in Nat \ {0} /\ fat[0] \in {0, EOF_FAT12} /\ FatInv
      BY <1>0, <3>1 DEF DiskInv, GoodFat
    <3>3. /\ clusters_from(linked(n), cstart) = taken(n) /\ Cardinality(taken(n)) = n
          /\ \E c \in taken(n) : linked(n)[c] = EOF_FAT12
          /\ \A c \in taken(n) : linked(n)[c] # 0
      BY <3>1, <3>2, NewChain
    <3>4. Chain(i)' = taken(n)
      BY <1>1, <2>3, <2>4, <3>3
    <3>5. num_cluster(root_dir'[i].length) = n
      BY <2>3, <2>4 DEF n
    <3> QED BY <1>0, <1>2, <3>3, <3>4, <3>5
  <2>9. \A j \in Kept' : \A c \in Chain(j)' \ {0} : fat'[c] # 0
    <3> SUFFICES ASSUME NEW j \in Kept', NEW c \in Chain(j)' \ {0} PROVE fat'[c] # 0
      OBVIOUS
    <3>1. CASE j = i
      <4>1. i \notin short'
        BY <3>1 DEF Kept
      <4> QED BY <2>8, <3>1, <4>1
    <3>2. CASE j \in Kept
      BY <1>0, <1>2, <1>k, <2>6, <3>2
    <3> QED BY <2>7, <3>1, <3>2
  <2>10. Sound(fat', root_dir', Files')
    <3>0. \A j : clusters_from(fat', root_dir'[j].start) = Chain(j)'
      BY <1>0, <1>1
    <3>n. i \in Files' => i \notin short'
      BY DEF Files
    <3>1. ASSUME NEW j \in Files', root_dir'[j].start # 0
          PROVE  Cardinality(Chain(j)') = num_cluster(root_dir'[j].length) /\ \E c \in Chain(j)' : fat'[c] = EOF_FAT12
      <4>1. CASE j = i
        BY <2>8, <3>1, <3>n, <4>1
      <4>2. CASE j \in Files
        <5>1. Chain(j)' = Chain(j) /\ root_dir'[j] = root_dir[j] /\ j \in Kept
          BY <1>k, <2>6, <4>2
        <5> QED BY <1>0, <1>2, <1>s, <3>1, <4>2, <5>1
      <4> QED BY <2>7, <3>1, <4>1, <4>2
    <3>2. ASSUME NEW j \in Files', NEW k \in Files', root_dir'[j].start # 0, root_dir'[k].start # 0, j < k
          PROVE  Chain(j)' \cap Chain(k)' = {}
      <4>1. \A l \in Files : Chain(l)' = Chain(l) /\ root_dir'[l] = root_dir[l] /\ l \in Kept
        BY <1>k, <2>6
      <4>2. CASE j = i /\ k = i
        <5>1. i \in Nat
          BY <1>0, <2>2
        <5> QED BY <3>2, <4>2, <5>1
      <4>3. CASE j \in Files /\ k \in Files
        BY <1>s, <3>2, <4>1, <4>3
      <4>4. CASE j = i /\ k \in Files
        BY <2>8, <3>2, <3>n, <4>1, <4>4
      <4>5. CASE k = i /\ j \in Files
        BY <2>8, <3>2, <3>n, <4>1, <4>5
      <4> QED BY <2>7, <3>2, <4>2, <4>3, <4>4, <4>5
    <3> QED BY <3>0, <3>1, <3>2, SoundMeans
  <2>11. \A j, k \in DOMAIN root_dir' : k < j /\ root_dir'[k].name = UNUSED => root_dir'[j].name = UNUSED
    <3> SUFFICES ASSUME NEW j \in DOMAIN root_dir', NEW k \in DOMAIN root_dir', k < j, root_dir'[k].name = UNUSED
                 PROVE  root_dir'[j].name = UNUSED
      OBVIOUS
    <3>1. k # i /\ root_dir[k].name = UNUSED /\ k \in DOMAIN root_dir /\ j \in DOMAIN root_dir
      BY <2>3, <2>4
    <3>2. root_dir[j].name = UNUSED
      BY <3>1 DEF DiskInv
    <3>3. i <= k /\ i \in Nat /\ k \in Nat /\ j \in Nat
      BY <1>0, <2>2, <3>1
    <3>4. j # i
      BY <3>3
    <3> QED BY <2>4, <3>1, <3>2, <3>4
  <2>12. DiskInv'
    BY <1>0, <1>f, <2>9, <2>10, <2>11 DEF DiskInv, SoundChains
  <2>13. \A j \in DOMAIN root_dir' : j \in DOMAIN root_dir /\ (root_dir'[j] = root_dir[j] \/ root_dir[j].name = UNUSED)
    BY <2>2, <2>4
  <2> QED BY <2>6, <2>12, <2>13
<1> QED BY <1>3, <1>4 DEF fat12_create_file

\* Files get a name before they are written.
NamesGiven ==
  /\ \A f \in FileSlot : file_list[f].mode # "u" => file_list[f].name \in FileNames
  /\ \A p \in Proc : opening[p] # NULL => file_list[opening[p].file].name \in FileNames

LEMMA NamesStep ==
  ASSUME TableOK, NamesGiven, [Next]_vars PROVE NamesGiven'
<1>0. /\ file_list \in [FileSlot -> [mode : {"u", "r", "w"}, name : Name, pos : Nat]]
      /\ opening \in [Proc -> {NULL} \cup [file : FileSlot, name : FileNames, mode : {"r", "w"}]]
      /\ handles \subseteq [proc : Proc, file : FileSlot]
      /\ \A p \in Proc : opening[p] # NULL => opening[p].file \in FileSlot
  BY DEF TableOK
<1>1. ASSUME \A f \in FileSlot : /\ file_list'[f].name = file_list[f].name
                                 /\ file_list'[f].mode # "u" => file_list[f].mode # "u" \/ file_list[f].name \in FileNames,
             \A p \in Proc : opening'[p] # NULL => opening'[p] = opening[p]
      PROVE  NamesGiven'
  BY <1>0, <1>1 DEF NamesGiven
<1>2. CASE Command \/ UNCHANGED vars
  BY <1>1, <1>2 DEF Command, sysVars, vars
<1>3. ASSUME NEW p \in Proc, NEW x \in FileNames, NEW mode \in {"r", "w"}, do_fopen(p, x, mode)
      PROVE  NamesGiven'
  <2>1. PICK f \in FileSlot : f = least(unused_files)
    <3>1. unused_files \in SUBSET Nat /\ unused_files # {} /\ unused_files \subseteq FileSlot
      BY <1>3 DEF do_fopen, unused_files, FileSlot
    <3> QED BY <3>1, LeastIn
  <2>2. /\ file_list'[f].name = x
        /\ \A g \in FileSlot : g # f => file_list'[g] = file_list[g]
    <3>1. \/ file_list' = [file_list EXCEPT ![f].name = x, ![f].mode = new_mode(f, x, mode)]
          \/ file_list' = [file_list EXCEPT ![f].name = x]
      BY <1>3, <2>1 DEF do_fopen
    <3> QED BY <1>0, <3>1
  <2>3. \A q \in Proc : opening'[q] # NULL => opening'[q] = opening[q] \/ opening'[q].file = f
    <3>1. \/ opening' = opening
          \/ opening' = [opening EXCEPT ![p] = [file |-> f, name |-> x, mode |-> mode]]
      BY <1>3, <2>1 DEF do_fopen
    <3>2. [file |-> f, name |-> x, mode |-> mode].file = f
      OBVIOUS
    <3> QED BY <1>0, <3>1, <3>2
  <2> QED BY <1>0, <2>2, <2>3 DEF NamesGiven
<1>4. ASSUME NEW p \in Proc, fopen_found(p) PROVE NamesGiven'
  <2>1. PICK f \in FileSlot : f = opening[p].file
    BY <1>0, <1>4 DEF fopen_found
  <2>2. PICK m : file_list' = [file_list EXCEPT ![f].mode = m]
    BY <1>4, <2>1 DEF fopen_found
  <2>3. \A g \in FileSlot : /\ file_list'[g].name = file_list[g].name
                            /\ g # f => file_list'[g].mode = file_list[g].mode
    BY <1>0, <2>1, <2>2
  <2>4. \A q \in Proc : opening'[q] # NULL => opening'[q] = opening[q]
    BY <1>0, <1>4 DEF fopen_found
  <2>5. file_list[f].name \in FileNames
    BY <1>4, <2>1 DEF fopen_found, NamesGiven
  <2> QED BY <1>1, <2>3, <2>4, <2>5
<1>5. ASSUME NEW h \in handles, do_fclose(h) \/ (\E n \in PutSizes : do_fputs(h, n)) PROVE NamesGiven'
  <2>1. h.file \in FileSlot /\ opening' = opening
    BY <1>0, <1>5 DEF do_fclose, do_fputs
  <2>2. \/ file_list' = [file_list EXCEPT ![h.file].mode = "u"]
        \/ \E n \in PutSizes : file_list' = [file_list EXCEPT ![h.file].pos = @ + n]
    BY <1>5 DEF do_fclose, do_fputs
  <2>3. \A g \in FileSlot : /\ file_list'[g].name = file_list[g].name
                            /\ file_list'[g].mode # "u" => file_list[g].mode # "u"
    <3>1. CASE file_list' = [file_list EXCEPT ![h.file].mode = "u"]
      BY <1>0, <2>1, <3>1
    <3>2. ASSUME NEW n \in PutSizes, file_list' = [file_list EXCEPT ![h.file].pos = @ + n]
          PROVE  \A g \in FileSlot : /\ file_list'[g].name = file_list[g].name
                                     /\ file_list'[g].mode # "u" => file_list[g].mode # "u"
      <4>1. PICK v : file_list' = [file_list EXCEPT ![h.file].pos = v]
        BY <3>2
      <4> QED BY <1>0, <2>1, <4>1
    <3> QED BY <2>2, <3>1, <3>2
  <2> QED BY <1>1, <2>1, <2>3
<1> QED BY <1>2, <1>3, <1>4, <1>5 DEF Next, sys_file_handler_main

-----------------------------------------------------------------------------

\* The entry that a name of a file stands for: one that is kept.
LEMMA NamedEntry ==
  ASSUME DiskInv, NEW x \in FileNames, file(x) # NULL
  PROVE  LET l == least(named(root_dir, x))
         IN  /\ l \in Kept /\ l \in named(root_dir, x) /\ \A j \in named(root_dir, x) : l <= j
             /\ root_dir[l].name = x
<1>1. named(root_dir, x) # {} /\ least(named(root_dir, x)) \notin short
  BY DEF file
<1>2. named(root_dir, x) \in SUBSET Nat
  BY DEF named, DiskInv, FatInv, FatTypeOK
<1> DEFINE l == least(named(root_dir, x))
<1>3. l \in named(root_dir, x) /\ \A j \in named(root_dir, x) : l <= j
  BY <1>1, <1>2, LeastIn
<1> HIDE DEF l
<1>4. l \in DOMAIN root_dir /\ fat12_construct_file_name(root_dir[l]) = x
  BY <1>3 DEF named
<1>5. root_dir[l].name = x /\ x \notin {UNUSED, DELETED}
  BY <1>4, DiskAssumption DEF fat12_construct_file_name
<1>6. l \in Kept
  BY <1>1, <1>4, <1>5 DEF Kept, l
<1> QED BY <1>3, <1>5, <1>6 DEF l

\* What a step that leaves the entry and its chain alone, and puts no other of
\* the same name before it, means for the name.
LEMMA SameFile ==
  ASSUME NEW x, NEW l \in Nat, l \in named(root_dir, x), \A j \in named(root_dir, x) : l <= j,
         named(root_dir, x) \subseteq Nat, named(root_dir', x) \subseteq Nat,
         l \notin short, l \in named(root_dir', x), \A j \in named(root_dir', x) : l <= j,
         l \notin short', root_dir'[l] = root_dir[l], Chain(l)' = Chain(l)
  PROVE  file(x)' = file(x)
<1>1. least(named(root_dir, x)) = l
  <2>1. /\ least(named(root_dir, x)) \in named(root_dir, x)
        /\ \A j \in named(root_dir, x) : least(named(root_dir, x)) <= j
    BY LeastIn
  <2> QED BY <2>1
<1>2. least(named(root_dir', x)) = l
  <2>1. /\ least(named(root_dir', x)) \in named(root_dir', x)
        /\ \A j \in named(root_dir', x) : least(named(root_dir', x)) <= j
    BY LeastIn
  <2> QED BY <2>1
<1>3. file(x) = <<root_dir[l], Chain(l)>>
  BY <1>1 DEF file
<1>4. file(x)' = <<root_dir'[l], Chain(l)'>>
  BY <1>2 DEF file
<1> QED BY <1>3, <1>4

LEMMA CreateStable ==
  ASSUME DiskInv, NEW size \in Nat, NEW name \in Name, name # UNUSED, fat12_create_file(size, name),
         NEW x \in FileNames, file(x) # NULL
  PROVE  file(x)' = file(x)
<1>1. PICK l : l = least(named(root_dir, x))
  OBVIOUS
<1>2. /\ l \in Kept /\ l \in named(root_dir, x) /\ \A j \in named(root_dir, x) : l <= j /\ root_dir[l].name = x
  BY <1>1, NamedEntry
<1>3. /\ l \in DOMAIN root_dir' /\ root_dir'[l] = root_dir[l] /\ Chain(l)' = Chain(l) /\ l \notin short'
      /\ \A j \in DOMAIN root_dir' : j \in DOMAIN root_dir /\
           (root_dir'[j] = root_dir[j] \/ root_dir[j].name = UNUSED)
  BY <1>2, CreateDisk
<1>4. DOMAIN root_dir \subseteq Nat /\ l \in DOMAIN root_dir /\ l \notin short
  BY <1>2 DEF Kept, DiskInv, FatInv, FatTypeOK
<1>5. named(root_dir, x) \subseteq Nat /\ named(root_dir', x) \subseteq Nat
  BY <1>3, <1>4 DEF named
<1>6. l \in named(root_dir', x)
  BY <1>2, <1>3 DEF named
<1>7. ASSUME NEW j \in named(root_dir', x) PROVE l <= j
  <2>1. j \in DOMAIN root_dir' /\ j \in DOMAIN root_dir /\ j \in Nat /\ l \in Nat
    BY <1>3, <1>4, <1>7 DEF named
  <2>2. CASE root_dir'[j] = root_dir[j]
    <3>1. j \in named(root_dir, x)
      BY <1>7, <2>1, <2>2 DEF named
    <3> QED BY <1>2, <3>1
  <2>3. CASE root_dir[j].name = UNUSED
    <3>1. j < l => root_dir[l].name = UNUSED
      BY <1>4, <2>1, <2>3 DEF DiskInv
    <3>2. x # UNUSED
      BY DiskAssumption
    <3> QED BY <1>2, <2>1, <3>1, <3>2
  <2> QED BY <1>3, <2>1, <2>2, <2>3
<1> QED BY <1>2, <1>3, <1>4, <1>5, <1>6, <1>7, SameFile

LEMMA SameDisk ==
  ASSUME DiskInv, FatInv', UNCHANGED <<fat, root_dir, short>>
  PROVE  DiskInv' /\ \A x \in FileNames : file(x)' = file(x)
<1>1. \A j : Chain(j)' = Chain(j)
  BY DEF Chain, fat12_read_clusters
<1>2. Kept' = Kept /\ SoundChains' /\ GoodFat(fat')
  BY DEF Kept, SoundChains, Files, DiskInv
<1>3. DiskInv'
  BY <1>1, <1>2 DEF DiskInv
<1> QED BY <1>1, <1>3 DEF file

\* rm in a directory changes nothing; in the root directory its entry is
\* nobody's from then on.
LEMMA RemoveDisk ==
  ASSUME DiskInv, FatInv', NEW filename, fat12_rm(filename)
  PROVE  /\ DiskInv'
         /\ \A x \in FileNames :
              \/ file(x) = NULL
              \/ root_dir'[least(named(root_dir, x))].name = DELETED
              \/ file(x)' = file(x)
<1>1. CASE curr_dir # ROOT
  <2>1. UNCHANGED <<fat, root_dir, short>>
    BY <1>1 DEF fat12_rm, fat12_del_fat_entry
  <2> QED BY <2>1, SameDisk
<1>2. CASE curr_dir = ROOT
  <2>0. /\ root_dir \in Seq(Entry) /\ DOMAIN root_dir \subseteq Nat
        /\ named(root_dir, filename) # {} /\ named(root_dir, filename) \in SUBSET Nat
    BY <1>2 DEF DiskInv, FatInv, FatTypeOK, fat12_rm, searched, named
  <2>1. PICK d : d = least(named(root_dir, filename))
    OBVIOUS
  <2>2. /\ d \in DOMAIN root_dir /\ fat12_construct_file_name(root_dir[d]) = filename
        /\ \A j \in DOMAIN root_dir : fat12_construct_file_name(root_dir[j]) = filename => d <= j
    <3>1. d \in named(root_dir, filename) /\ \A j \in named(root_dir, filename) : d <= j
      BY <2>0, <2>1, LeastIn
    <3> QED BY <3>1 DEF named
  <2>3. fat' = fat /\ short' = short /\ root_dir' = [root_dir EXCEPT ![d].name = DELETED]
    BY <1>2, <2>1 DEF fat12_rm, fat12_del_fat_entry, searched
  <2>4. /\ DOMAIN root_dir' = DOMAIN root_dir
        /\ root_dir'[d].name = DELETED
        /\ \A j \in DOMAIN root_dir : j # d => root_dir'[j] = root_dir[j]
    <3>1. root_dir[d] \in Entry
      BY <2>0, <2>2
    <3>2. root_dir'[d] = [root_dir[d] EXCEPT !.name = DELETED]
      BY <2>2, <2>3
    <3>3. root_dir'[d].name = DELETED
      BY <3>1, <3>2 DEF Entry
    <3> QED BY <2>0, <2>2, <2>3, <3>3
  <2>5. \A j \in DOMAIN root_dir : j # d => Chain(j)' = Chain(j)
    BY <2>3, <2>4 DEF Chain, fat12_read_clusters
  <2>6. /\ Kept' \subseteq Kept /\ d \notin Kept' /\ Files' \subseteq Files /\ d \notin Files'
        /\ Files' \subseteq DOMAIN root_dir
    BY <2>3, <2>4 DEF Kept, Files, files_in
  <2>7. \A j \in Kept' : \A c \in Chain(j)' \ {0} : fat'[c] # 0
    <3> SUFFICES ASSUME NEW j \in Kept' PROVE \A c \in Chain(j)' \ {0} : fat'[c] # 0
      OBVIOUS
    <3>1. j \in Kept /\ j # d /\ j \in DOMAIN root_dir
      BY <2>6 DEF Kept
    <3> QED BY <2>3, <2>5, <3>1 DEF DiskInv
  <2>8. Sound(fat', root_dir', Files')
    <3>1. Sound(fat, root_dir, Files)
      BY DEF DiskInv, SoundChains
    <3>2. \A j \in Files' : j \in Files /\ root_dir'[j] = root_dir[j]
      BY <2>4, <2>6
    <3>3. /\ \A i \in Files : root_dir[i].start # 0 =>
               Cardinality(clusters_from(fat, root_dir[i].start)) = num_cluster(root_dir[i].length)
                 /\ \E c \in clusters_from(fat, root_dir[i].start) : fat[c] = EOF_FAT12
          /\ \A i, j \in Files : root_dir[i].start # 0 /\ root_dir[j].start # 0 /\ i < j =>
               clusters_from(fat, root_dir[i].start) \cap clusters_from(fat, root_dir[j].start) = {}
      BY <3>1, SoundMeans
    <3>4. /\ \A i \in Files' : root_dir'[i].start # 0 =>
               Cardinality(clusters_from(fat, root_dir'[i].start)) = num_cluster(root_dir'[i].length)
                 /\ \E c \in clusters_from(fat, root_dir'[i].start) : fat[c] = EOF_FAT12
          /\ \A i, j \in Files' : root_dir'[i].start # 0 /\ root_dir'[j].start # 0 /\ i < j =>
               clusters_from(fat, root_dir'[i].start) \cap clusters_from(fat, root_dir'[j].start) = {}
      BY <3>2, <3>3
    <3>5. Sound(fat, root_dir', Files')
      BY <3>4, SoundMeans
    <3> QED BY <2>3, <3>5
  <2>9. \A i, j \in DOMAIN root_dir' : j < i /\ root_dir'[j].name = UNUSED => root_dir'[i].name = UNUSED
    <3> SUFFICES ASSUME NEW i \in DOMAIN root_dir, NEW j \in DOMAIN root_dir, j < i, root_dir'[j].name = UNUSED
                 PROVE  root_dir'[i].name = UNUSED
      BY <2>4
    <3>1. j # d /\ root_dir[j].name = UNUSED
      BY <2>4, DiskAssumption
    <3>2. root_dir[i].name = UNUSED
      BY <3>1 DEF DiskInv
    \* Two entries that were never used answer to one name, and rm takes the first.
    <3>3. i # d
      <4> SUFFICES ASSUME i = d PROVE FALSE
        OBVIOUS
      <4>1. fat12_construct_file_name(root_dir[j]) = fat12_construct_file_name(root_dir[d])
        BY <3>1, <3>2 DEF fat12_construct_file_name
      <4>2. d <= j
        BY <2>2, <4>1
      <4> QED BY <2>0, <4>2
    <3> QED BY <2>4, <3>2, <3>3
  <2>10. DiskInv'
    BY <2>3, <2>7, <2>8, <2>9 DEF DiskInv, SoundChains
  <2>11. ASSUME NEW x \in FileNames, file(x) # NULL,
                root_dir'[least(named(root_dir, x))].name # DELETED
         PROVE  file(x)' = file(x)
    <3>1. PICK l : l = least(named(root_dir, x))
      OBVIOUS
    <3>2. /\ l \in Kept /\ l \in named(root_dir, x) /\ \A j \in named(root_dir, x) : l <= j
      BY <2>11, <3>1, NamedEntry
    <3>3. l # d /\ l \in DOMAIN root_dir /\ l \notin short
      BY <2>4, <2>11, <3>1, <3>2 DEF Kept
    <3>4. named(root_dir, x) \subseteq Nat /\ named(root_dir', x) \subseteq Nat
      BY <2>0, <2>4 DEF named
    <3>5. l \in named(root_dir', x)
      BY <2>4, <3>2, <3>3 DEF named
    <3>6. ASSUME NEW j \in named(root_dir', x) PROVE l <= j
      <4>1. j \in DOMAIN root_dir /\ fat12_construct_file_name(root_dir'[j]) = x
        BY <2>4, <3>6 DEF named
      <4>2. j # d
        BY <2>4, <4>1, DiskAssumption DEF fat12_construct_file_name
      <4>3. j \in named(root_dir, x)
        BY <2>4, <4>1, <4>2 DEF named
      <4> QED BY <3>2, <4>3
    <3> QED BY <2>0, <2>3, <2>4, <2>5, <3>2, <3>3, <3>4, <3>5, <3>6, SameFile
  <2> QED BY <2>10, <2>11
<1> QED BY <1>1, <1>2

\* What a name stands for until its entry is deleted, in a step.
NamesStay ==
  \A x \in FileNames :
    \/ file(x) = NULL
    \/ root_dir'[least(named(root_dir, x))].name = DELETED
    \/ file(x)' = file(x)

LEMMA DiskStep ==
  ASSUME FatInv, FatInv', TableOK, NamesGiven, DiskInv, [Next]_vars
  PROVE  DiskInv' /\ NamesStay
<1>1. CASE UNCHANGED <<fat, root_dir, short>>
  BY <1>1, SameDisk DEF NamesStay
<1>2. ASSUME NEW size \in Nat, NEW name \in FileNames \cup {"test.txt"}, fat12_create_file(size, name)
      PROVE  DiskInv' /\ NamesStay
  <2>1. name \in Name /\ name # UNUSED
    BY DiskAssumption DEF Name
  <2>2. DiskInv'
    BY <1>2, <2>1, CreateDisk
  <2>3. NamesStay
    BY <1>2, <2>1, CreateStable DEF NamesStay
  <2> QED BY <2>2, <2>3
<1>3. ASSUME NEW x \in Names, fat12_cd(x) PROVE DiskInv' /\ NamesStay
  BY <1>1, <1>3 DEF fat12_cd
<1>4. ASSUME NEW x \in Names, fat12_rm(x) PROVE DiskInv' /\ NamesStay
  BY <1>4, RemoveDisk DEF NamesStay
<1>5. ASSUME NEW x \in Names, NEW y \in FileNames, fat12_cp(x, y) PROVE DiskInv' /\ NamesStay
  <2>1. named(root_dir, x) \in SUBSET Nat /\ named(root_dir, x) # {}
    BY <1>5 DEF named, FatInv, FatTypeOK, fat12_cp
  <2>2. least(named(root_dir, x)) \in DOMAIN root_dir
    BY <2>1, LeastIn DEF named
  <2>3. fat12_read_file(x).length \in Nat
    BY <2>2, KeptEntry DEF fat12_read_file
  <2> QED BY <1>2, <1>5, <2>3 DEF fat12_cp
<1>6. CASE write
  BY <1>2, <1>6 DEF write
<1>7. ASSUME NEW h \in handles, do_fclose(h) PROVE DiskInv' /\ NamesStay
  <2>1. h.file \in FileSlot /\ file_list[h.file] \in [mode : {"u", "r", "w"}, name : Name, pos : Nat]
    BY DEF TableOK
  <2>2. file_list[h.file].mode = "w" => file_list[h.file].name \in FileNames
    BY <2>1 DEF NamesGiven
  <2>3. \/ /\ file_list[h.file].mode = "w"
           /\ fat12_create_file(file_list[h.file].pos, file_list[h.file].name)
        \/ UNCHANGED fatVars
    BY <1>7 DEF do_fclose
  <2>4. CASE UNCHANGED fatVars
    BY <1>1, <2>4 DEF fatVars
  <2> QED BY <1>2, <2>1, <2>2, <2>3, <2>4
<1>8. ASSUME NEW p \in Proc, UNCHANGED fatVars PROVE DiskInv' /\ NamesStay
  BY <1>1, <1>8 DEF fatVars
<1>9. CASE Command
  BY <1>3, <1>4, <1>5, <1>6, <1>9 DEF Command, Shell
<1>10. CASE sys_file_handler_main
  <2>1. PICK p \in Proc :
          \/ \E x \in FileNames, mode \in {"r", "w"} : do_fopen(p, x, mode)
          \/ fopen_found(p)
          \/ \E h \in handles : do_fclose(h) \/ \E n \in PutSizes : do_fputs(h, n)
    BY <1>10 DEF sys_file_handler_main
  <2> QED BY <1>7, <1>8, <2>1 DEF do_fopen, fopen_found, do_fputs
<1>11. CASE UNCHANGED vars
  BY <1>1, <1>11 DEF vars, fatVars
<1> QED BY <1>9, <1>10, <1>11 DEF Next

LEMMA DiskInvariant == Spec => [](NamesGiven /\ DiskInv)
<1>1. Init /\ (FatInv /\ TableOK) => NamesGiven /\ DiskInv
  <2> SUFFICES ASSUME Init, FatInv PROVE NamesGiven /\ DiskInv
    OBVIOUS
  <2>1. /\ fat = DiskFat /\ root_dir = DiskRoot /\ short = {} /\ opening = [p \in Proc |-> NULL]
        /\ file_list = [f \in FileSlot |-> [mode |-> "u", name |-> UNUSED, pos |-> 0]]
    BY DEF Init, fat12_init, file_init
  <2>2. NamesGiven
    BY <2>1 DEF NamesGiven
  <2>3. GoodFat(fat)
    BY <2>1, FatAssumption, DiskAssumption DEF GoodFat, FatInv, FatTypeOK, ChainsAscend
  <2>4. \A i \in Kept : \A c \in Chain(i) \ {0} : fat[c] # 0
    BY <2>1, DiskAssumption DEF Kept, Chain, fat12_read_clusters
  <2>5. SoundChains
    <3>1. Files = files_in(DiskRoot)
      BY <2>1 DEF Files
    <3> QED BY <2>1, <3>1, DiskAssumption DEF SoundChains
  <2> QED BY <2>1, <2>2, <2>3, <2>4, <2>5, DiskAssumption DEF DiskInv
<1>2. (NamesGiven /\ DiskInv) /\ (FatInv /\ TableOK) /\ (FatInv /\ TableOK)' /\ [Next]_vars => (NamesGiven /\ DiskInv)'
  BY DiskStep, NamesStep
<1> QED BY <1>1, <1>2, FileSystemInvariant, PTL DEF Spec

\* A file has all the clusters that its length asks for, up to one with the end
\* mark, and shares none with another file, unless create_file ran out of them.
THEOREM ChainsAreSound == Spec => []SoundChains
<1>1. NamesGiven /\ DiskInv => SoundChains
  BY DEF DiskInv
<1> QED BY <1>1, DiskInvariant, PTL

\* No command and no call of a process changes what a name of a file stands
\* for, its entry and its clusters, until rm deletes that entry.
THEOREM NamesAreStable == Spec => NameStable
<1>1. (NamesGiven /\ DiskInv) /\ (FatInv /\ TableOK) /\ (FatInv /\ TableOK)' /\ [Next]_vars
        => [\A x \in FileNames :
              \/ file(x) = NULL
              \/ root_dir'[least(named(root_dir, x))].name = DELETED
              \/ file(x)' = file(x)]_fatVars
  BY DiskStep DEF NamesStay
<1> QED BY <1>1, DiskInvariant, FileSystemInvariant, PTL DEF Spec, NameStable

-----------------------------------------------------------------------------
(* Directories and the path in the prompt.                                 *)

\* The entry at the name, where cd looks for it.
found(entries, x) == entries[least(named(entries, x))].start

\* The directories that a path goes through, from the root to its end.
Route(at, path) ==
  /\ at = [k \in 0 .. Len(path) |->
             IF k = 0 THEN ROOT
             ELSE found(IF k = 1 THEN DiskRoot ELSE Directory(at[k - 1]), path[k])]
  /\ \A k \in 1 .. Len(path) :
       /\ at[k] \in DOMAIN DiskDirectory
       /\ path[k] \in Names \ {".", ".."}
       /\ named(IF k = 1 THEN DiskRoot ELSE Directory(at[k - 1]), path[k]) # {}

\* Directories are never free, their entries in the root directory are those of
\* the disk, and the path that is shown is one that leads to where cd looks.
PathInv ==
  /\ \A c \in DOMAIN DiskDirectory : fat[c] # 0
  /\ \A i \in DOMAIN root_dir :
       root_dir[i].name # DELETED /\ root_dir[i].start \in DOMAIN DiskDirectory =>
         i \in DOMAIN DiskRoot /\ root_dir[i] = DiskRoot[i]
  /\ curr_dir \in DOMAIN DiskDirectory =>
       /\ curr_path \in Seq(Names) /\ curr_path # <<>>
       /\ \E at : Route(at, curr_path) /\ at[Len(curr_path)] = curr_dir

\* There is only one such list of directories.
LEMMA RouteResolves ==
  ASSUME NEW path \in Seq(Names), NEW at, Route(at, path)
  PROVE  Resolve(path) = at[Len(path)]
<1> DEFINE n == Len(path)
           E(f, k) == IF k = 0 THEN ROOT
                      ELSE found(IF k = 1 THEN DiskRoot ELSE Directory(f[k - 1]), path[k])
           g == CHOOSE f : f = [k \in 0 .. n |-> E(f, k)]
<1>1. n \in Nat
  OBVIOUS
<1>2. at = [k \in 0 .. n |-> E(at, k)]
  BY DEF Route
<1>3. g = [k \in 0 .. n |-> E(g, k)]
  <2> HIDE DEF E, n
  <2> QED BY <1>2
<1>4. Resolve(path) = g[n]
  BY DEF Resolve, found
<1> HIDE DEF g, n
<1>5. /\ \A k \in 0 .. n : at[k] = E(at, k)
      /\ \A k \in 0 .. n : g[k] = E(g, k)
  <2> HIDE DEF E
  <2> QED BY <1>2, <1>3
<1> DEFINE Q == {k \in Nat : k <= n => at[k] = g[k]}
<1>6. 0 \in Q
  BY <1>1, <1>5
<1>7. ASSUME NEW k \in Q PROVE k + 1 \in Q
  <2>1. SUFFICES ASSUME k + 1 <= n PROVE at[k + 1] = g[k + 1]
    OBVIOUS
  <2>2. k \in 0 .. n /\ k + 1 \in 0 .. n /\ k + 1 # 0 /\ (k + 1) - 1 = k /\ at[k] = g[k]
    BY <1>1, <2>1
  <2>3. E(at, k + 1) = E(g, k + 1)
    BY <2>2
  <2> HIDE DEF E
  <2> QED BY <1>5, <2>2, <2>3
<1>8. Q \in SUBSET Nat
  OBVIOUS
<1> HIDE DEF Q
<1>9. \A k \in Nat : k \in Q
  BY <1>6, <1>7, <1>8, AllNumbers
<1>10. at[n] = g[n]
  BY <1>1, <1>9 DEF Q
<1> QED BY <1>4, <1>10 DEF n

\* What an entry of a directory leads to.
LEMMA InDirectory ==
  ASSUME NEW c \in DOMAIN DiskDirectory, NEW x \in Names, named(Directory(c), x) # {}
  PROVE  /\ found(Directory(c), x) \in {0} \cup Cluster
         /\ x = "." => found(Directory(c), x) = c
         /\ x = ".." => found(Directory(c), x) = DiskDirectory[c][2].start
         /\ x \notin {".", ".."} /\ found(Directory(c), x) \in DOMAIN DiskDirectory
              => DiskDirectory[found(Directory(c), x)][2].start = c
<1> DEFINE entries == DiskDirectory[c]
           S == named(entries, x)
           i == least(S)
<1>1. entries \in Seq(Entry) /\ Directory(c) = entries
  BY FatAssumption DEF Directory
<1>2. S \in SUBSET Nat /\ S # {}
  BY <1>1 DEF named
<1>3. i \in S /\ \A j \in S : i <= j
  <2> HIDE DEF S
  <2> QED BY <1>2, LeastIn
<1>4. i \in DOMAIN entries /\ i \in 1 .. Len(entries) /\ Len(entries) \in Nat /\ entries[i] \in Entry
      /\ fat12_construct_file_name(entries[i]) = x
  <2>1. i \in DOMAIN entries /\ fat12_construct_file_name(entries[i]) = x
    BY <1>3 DEF named
  <2> HIDE DEF i
  <2> QED BY <1>1, <2>1
<1>5. found(Directory(c), x) = entries[i].start
  BY <1>1 DEF found
<1> HIDE DEF i
<1>6. /\ Len(entries) >= 2
      /\ entries[1].name = "." /\ entries[1].start = c
      /\ entries[2].name = ".."
      /\ \A k \in 3 .. Len(entries) :
           /\ entries[k].name \notin {".", ".."}
           /\ entries[k].name \notin {UNUSED, DELETED} /\ entries[k].start \in DOMAIN DiskDirectory
                => DiskDirectory[entries[k].start][2].start = c
      /\ x \notin {UNUSED, DELETED} /\ UNUSED # ".." /\ UNUSED # "."
  BY TreeAssumption, DiskAssumption
<1> HIDE DEF entries
<1>7. entries[i].start \in {0} \cup Cluster
  BY <1>4 DEF Entry
<1>8. ASSUME x = "." PROVE i = 1
  <2>1. 1 \in S
    BY <1>4, <1>6, <1>8 DEF named, fat12_construct_file_name
  <2> QED BY <1>3, <1>4, <2>1
<1>9. ASSUME x = ".." PROVE i = 2
  <2>1. i # 1 /\ ~(i \in 3 .. Len(entries))
    BY <1>4, <1>6, <1>9 DEF fat12_construct_file_name
  <2> QED BY <1>4, <2>1
<1>10. ASSUME x \notin {".", ".."} PROVE i \in 3 .. Len(entries) /\ entries[i].name = x
  <2>1. i # 1 /\ i # 2 /\ entries[i].name = x
    BY <1>4, <1>6, <1>10 DEF fat12_construct_file_name
  <2> QED BY <1>4, <2>1
<1> QED BY <1>5, <1>6, <1>7, <1>8, <1>9, <1>10 DEF entries

\* Outside of the directories cd finds the unused entry, and goes to the root.
LEMMA NoDirectory ==
  ASSUME NEW c, c \notin DOMAIN DiskDirectory, NEW x, named(Directory(c), x) # {}
  PROVE  found(Directory(c), x) = 0
<1>1. Directory(c) = <<Unused>>
  BY DEF Directory
<1>2. named(Directory(c), x) \in SUBSET {1}
  BY <1>1 DEF named
<1>3. least(named(Directory(c), x)) = 1
  <2>1. named(Directory(c), x) \in SUBSET Nat
    BY <1>2
  <2>2. least(named(Directory(c), x)) \in named(Directory(c), x)
    BY <2>1, LeastIn
  <2> QED BY <1>2, <2>2
<1> QED BY <1>1, <1>3 DEF found, Unused

\* From the root directory cd comes to a directory as the disk has it.
LEMMA FromRoot ==
  ASSUME FatInv, PathInv, NEW x \in Names, named(root_dir, x) # {},
         found(root_dir, x) \in DOMAIN DiskDirectory
  PROVE  /\ x \notin {".", ".."} /\ named(DiskRoot, x) # {}
         /\ found(DiskRoot, x) = found(root_dir, x)
<1> DEFINE i == least(named(root_dir, x))
<1>1. root_dir \in Seq(Entry) /\ named(root_dir, x) \in SUBSET Nat
  BY DEF FatInv, FatTypeOK, named
<1>2. i \in DOMAIN root_dir /\ fat12_construct_file_name(root_dir[i]) = x
  <2>1. i \in named(root_dir, x)
    BY <1>1, LeastIn
  <2> QED BY <2>1 DEF named
<1>3. found(root_dir, x) = root_dir[i].start
  BY DEF found
<1> HIDE DEF i
<1>4. x \notin {UNUSED, DELETED} /\ 0 \notin DOMAIN DiskDirectory
  BY TreeAssumption DEF Cluster
<1>5. root_dir[i].name # DELETED
  BY <1>2, <1>4, DiskAssumption DEF fat12_construct_file_name
<1>6. i \in DOMAIN DiskRoot /\ root_dir[i] = DiskRoot[i]
  BY <1>2, <1>3, <1>5 DEF PathInv
<1>7. DiskRoot[i].name # UNUSED
  BY <1>3, <1>4, <1>6, TreeAssumption DEF Unused
<1>8. DiskRoot[i].name = x /\ x \notin {".", ".."}
  BY <1>2, <1>6, <1>7, TreeAssumption DEF fat12_construct_file_name
<1>9. named(DiskRoot, x) = {i}
  <2>1. i \in named(DiskRoot, x)
    BY <1>2, <1>6 DEF named
  <2>2. ASSUME NEW j \in named(DiskRoot, x) PROVE j = i
    <3>1. j \in DOMAIN DiskRoot /\ DiskRoot[j].name = x
      BY <1>8, <2>2 DEF named, fat12_construct_file_name
    <3> QED BY <1>4, <1>6, <1>8, <3>1, TreeAssumption
  <2> QED BY <2>1, <2>2
<1>10. least(named(DiskRoot, x)) = i
  <2>1. {i} \in SUBSET Nat
    BY <1>1, <1>2
  <2> QED BY <1>9, <2>1, LeastIn
<1> QED BY <1>3, <1>6, <1>8, <1>9, <1>10 DEF found

\* A path gets longer by a directory behind it.
LEMMA RouteLonger ==
  ASSUME NEW path \in Seq(Names), NEW at, Route(at, path), NEW x \in Names \ {".", ".."},
         LET entries == IF path = <<>> THEN DiskRoot ELSE Directory(at[Len(path)])
         IN  named(entries, x) # {} /\ found(entries, x) \in DOMAIN DiskDirectory
  PROVE  /\ Append(path, x) \in Seq(Names) /\ Append(path, x) # <<>>
         /\ \E new : /\ Route(new, Append(path, x))
                     /\ new[Len(Append(path, x))] =
                          found(IF path = <<>> THEN DiskRoot ELSE Directory(at[Len(path)]), x)
<1> DEFINE n == Len(path)
           entries == IF path = <<>> THEN DiskRoot ELSE Directory(at[n])
           longer == Append(path, x)
           d == found(entries, x)
           new == [k \in 0 .. n + 1 |-> IF k = n + 1 THEN d ELSE at[k]]
<1>1. /\ n \in Nat /\ longer \in Seq(Names) /\ Len(longer) = n + 1 /\ longer # <<>>
      /\ longer[n + 1] = x /\ \A k \in 1 .. n : longer[k] = path[k]
      /\ path = <<>> <=> n = 0
  BY AppendProperties
<1>2. /\ \A k \in 0 .. n : at[k] = IF k = 0 THEN ROOT
                                   ELSE found(IF k = 1 THEN DiskRoot ELSE Directory(at[k - 1]), path[k])
      /\ \A k \in 1 .. n : /\ at[k] \in DOMAIN DiskDirectory /\ path[k] \in Names \ {".", ".."}
                           /\ named(IF k = 1 THEN DiskRoot ELSE Directory(at[k - 1]), path[k]) # {}
  BY DEF Route
<1>3. entries = IF n + 1 = 1 THEN DiskRoot ELSE Directory(at[n])
  BY <1>1
<1>4. named(entries, x) # {} /\ d \in DOMAIN DiskDirectory
  OBVIOUS
<1> HIDE DEF n, entries, longer, d
<1>5. /\ DOMAIN new = 0 .. n + 1 /\ new[n + 1] = d /\ \A k \in 0 .. n : new[k] = at[k]
  BY <1>1
<1>f. new = [k \in 0 .. n + 1 |-> new[k]]
  OBVIOUS
<1> HIDE DEF new
<1>6. ASSUME NEW k \in 0 .. n + 1
      PROVE  new[k] = IF k = 0 THEN ROOT
                      ELSE found(IF k = 1 THEN DiskRoot ELSE Directory(new[k - 1]), longer[k])
  <2>1. CASE k = 0
    BY <1>1, <1>2, <1>5, <2>1
  <2>2. CASE k \in 1 .. n
    <3>1. k \in 0 .. n /\ k # 0 /\ k - 1 \in 0 .. n
      BY <1>1, <2>2
    <3> QED BY <1>1, <1>2, <1>5, <2>2, <3>1
  <2>3. CASE k = n + 1
    <3>1. k # 0 /\ k - 1 = n /\ n \in 0 .. n
      BY <1>1, <2>3
    <3> QED BY <1>1, <1>3, <1>5, <2>3, <3>1 DEF d
  <2> QED BY <1>1, <2>1, <2>2, <2>3
<1>7. ASSUME NEW k \in 1 .. n + 1
      PROVE  /\ new[k] \in DOMAIN DiskDirectory /\ longer[k] \in Names \ {".", ".."}
             /\ named(IF k = 1 THEN DiskRoot ELSE Directory(new[k - 1]), longer[k]) # {}
  <2>1. CASE k \in 1 .. n
    <3>1. k \in 0 .. n /\ k - 1 \in 0 .. n
      BY <1>1, <2>1
    <3> QED BY <1>1, <1>2, <1>5, <2>1, <3>1
  <2>2. CASE k = n + 1
    <3>1. k - 1 = n /\ n \in 0 .. n
      BY <1>1, <2>2
    <3> QED BY <1>1, <1>3, <1>4, <1>5, <2>2, <3>1
  <2> QED BY <1>1, <2>1, <2>2
<1> DEFINE made == [k \in 0 .. n + 1 |->
             IF k = 0 THEN ROOT
             ELSE found(IF k = 1 THEN DiskRoot ELSE Directory(new[k - 1]), longer[k])]
<1>8. new = made
  <2>1. \A k \in 0 .. n + 1 : new[k] = made[k]
    BY <1>6
  <2>2. made = [k \in 0 .. n + 1 |-> made[k]]
    OBVIOUS
  <2> HIDE DEF made
  <2> QED BY <1>f, <2>1, <2>2
<1>9. Route(new, longer)
  BY <1>1, <1>7, <1>8 DEF Route
<1> QED BY <1>1, <1>5, <1>9 DEF longer, d, entries, n

\* And it gets shorter by the last one.
LEMMA RouteShorter ==
  ASSUME NEW path \in Seq(Names), Len(path) >= 2, NEW at, Route(at, path)
  PROVE  LET shorter == SubSeq(path, 1, Len(path) - 1)
         IN  /\ shorter \in Seq(Names) /\ shorter # <<>>
             /\ \E new : Route(new, shorter) /\ new[Len(shorter)] = at[Len(path) - 1]
<1> DEFINE n == Len(path)
           shorter == SubSeq(path, 1, n - 1)
           new == [k \in 0 .. n - 1 |-> at[k]]
<1>1. /\ n \in Nat /\ n >= 2 /\ n - 1 \in Nat /\ shorter \in Seq(Names) /\ Len(shorter) = n - 1
      /\ shorter # <<>> /\ \A k \in 1 .. n - 1 : shorter[k] = path[k]
  <2>1. n \in Nat /\ n >= 2 /\ 1 \in 1 .. n /\ n - 1 \in 1 .. n
    OBVIOUS
  <2>2. shorter \in Seq(Names) /\ Len(shorter) = n - 1 /\ \A k \in 1 .. n - 1 : shorter[k] = path[k]
    <3>1. \A k \in 1 .. n - 1 : path[k] \in Names
      BY <2>1
    <3> HIDE DEF n
    <3>2. /\ shorter \in Seq(Names)
          /\ Len(shorter) = IF 1 <= n - 1 THEN (n - 1) - 1 + 1 ELSE 0
          /\ \A k \in 1 .. (n - 1) - 1 + 1 : shorter[k] = path[1 + k - 1]
      BY <2>1, <3>1, SubSeqProperties
    <3> HIDE DEF shorter
    <3>3. (n - 1) - 1 + 1 = n - 1 /\ 1 <= n - 1 /\ \A k \in 1 .. n - 1 : 1 + k - 1 = k
      BY <2>1
    <3> QED BY <3>2, <3>3
  <2>3. shorter # <<>>
    <3> HIDE DEF n, shorter
    <3>1. Len(shorter) # 0
      BY <2>1, <2>2
    <3> QED BY <3>1
  <2> HIDE DEF n, shorter
  <2> QED BY <2>1, <2>2, <2>3
<1>2. /\ \A k \in 0 .. n : at[k] = IF k = 0 THEN ROOT
                                   ELSE found(IF k = 1 THEN DiskRoot ELSE Directory(at[k - 1]), path[k])
      /\ \A k \in 1 .. n : /\ at[k] \in DOMAIN DiskDirectory /\ path[k] \in Names \ {".", ".."}
                           /\ named(IF k = 1 THEN DiskRoot ELSE Directory(at[k - 1]), path[k]) # {}
  BY DEF Route
<1> HIDE DEF n, shorter
<1>3. new[n - 1] = at[n - 1] /\ \A k \in 0 .. n - 1 : new[k] = at[k]
  BY <1>1
<1>f. new = [k \in 0 .. n - 1 |-> new[k]]
  OBVIOUS
<1> HIDE DEF new
<1> DEFINE made == [k \in 0 .. n - 1 |->
             IF k = 0 THEN ROOT
             ELSE found(IF k = 1 THEN DiskRoot ELSE Directory(new[k - 1]), shorter[k])]
<1>4. ASSUME NEW k \in 0 .. n - 1 PROVE new[k] = made[k]
  <2>1. CASE k = 0
    BY <1>1, <1>2, <1>3, <2>1
  <2>2. CASE k # 0
    <3>1. k \in 0 .. n /\ k \in 1 .. n - 1 /\ k - 1 \in 0 .. n - 1
      BY <1>1, <2>2
    <3>2. new[k - 1] = at[k - 1] /\ new[k] = at[k] /\ shorter[k] = path[k]
      BY <1>1, <1>3, <3>1
    <3> QED BY <1>2, <2>2, <3>1, <3>2
  <2> QED BY <2>1, <2>2
<1>5. new = made
  <2>1. made = [k \in 0 .. n - 1 |-> made[k]]
    OBVIOUS
  <2> HIDE DEF made
  <2> QED BY <1>4, <1>f, <2>1
<1>6. ASSUME NEW k \in 1 .. n - 1
      PROVE  /\ new[k] \in DOMAIN DiskDirectory /\ shorter[k] \in Names \ {".", ".."}
             /\ named(IF k = 1 THEN DiskRoot ELSE Directory(new[k - 1]), shorter[k]) # {}
  <2>1. k \in 1 .. n /\ k - 1 \in 0 .. n - 1 /\ k \in 0 .. n - 1
    BY <1>1
  <2>2. new[k - 1] = at[k - 1] /\ new[k] = at[k] /\ shorter[k] = path[k]
    BY <1>1, <1>3, <2>1
  <2> QED BY <1>2, <2>1, <2>2
<1>7. Route(new, shorter)
  BY <1>1, <1>5, <1>6 DEF Route
<1> QED BY <1>1, <1>3, <1>7 DEF shorter, n

\* The last directory of a path names the one before as its parent.
LEMMA Parent ==
  ASSUME NEW path \in Seq(Names), path # <<>>, NEW at, Route(at, path)
  PROVE  DiskDirectory[at[Len(path)]][2].start = IF Len(path) = 1 THEN 0 ELSE at[Len(path) - 1]
<1> DEFINE n == Len(path)
<1>1. n \in Nat /\ n >= 1 /\ n \in 1 .. n /\ n \in 0 .. n
  OBVIOUS
<1>2. /\ at[n] = found(IF n = 1 THEN DiskRoot ELSE Directory(at[n - 1]), path[n])
      /\ at[n] \in DOMAIN DiskDirectory /\ path[n] \in Names \ {".", ".."}
      /\ named(IF n = 1 THEN DiskRoot ELSE Directory(at[n - 1]), path[n]) # {}
      /\ \A k \in 1 .. n : at[k] \in DOMAIN DiskDirectory
  <2>1. /\ \A k \in 0 .. n : at[k] = IF k = 0 THEN ROOT
                                     ELSE found(IF k = 1 THEN DiskRoot ELSE Directory(at[k - 1]), path[k])
        /\ \A k \in 1 .. n : /\ at[k] \in DOMAIN DiskDirectory /\ path[k] \in Names \ {".", ".."}
                             /\ named(IF k = 1 THEN DiskRoot ELSE Directory(at[k - 1]), path[k]) # {}
    BY DEF Route
  <2> HIDE DEF n
  <2>2. n # 0
    BY <1>1
  <2>3. at[n] = found(IF n = 1 THEN DiskRoot ELSE Directory(at[n - 1]), path[n])
    BY <1>1, <2>1, <2>2
  <2>4. \A k \in 1 .. n : at[k] \in DOMAIN DiskDirectory
    BY <2>1
  <2> QED BY <1>1, <2>1, <2>3, <2>4
<1> HIDE DEF n
<1>3. CASE n = 1
  <2> DEFINE i == least(named(DiskRoot, path[n]))
  <2>1. named(DiskRoot, path[n]) \in SUBSET Nat /\ named(DiskRoot, path[n]) # {}
    BY <1>2, <1>3, FatAssumption DEF named
  <2>2. i \in named(DiskRoot, path[n])
    BY <2>1, LeastIn
  <2>3. at[n] = DiskRoot[i].start
    BY <1>2, <1>3 DEF found
  <2> HIDE DEF i
  <2>4. i \in DOMAIN DiskRoot /\ DiskRoot[i].name \notin {UNUSED, DELETED}
    BY <1>2, <2>2, TreeAssumption DEF named, fat12_construct_file_name
  <2>5. DiskDirectory[at[n]][2].start = 0
    BY <1>2, <2>3, <2>4, TreeAssumption
  <2> QED BY <1>3, <2>5 DEF n
<1>4. CASE n # 1
  <2>1. n - 1 \in 1 .. n
    BY <1>1, <1>4
  <2>2. at[n - 1] \in DOMAIN DiskDirectory
    BY <1>2, <2>1
  <2>3. DiskDirectory[at[n]][2].start = at[n - 1]
    BY <1>2, <1>4, <2>2, InDirectory
  <2> QED BY <1>4, <2>3 DEF n
<1> QED BY <1>3, <1>4

LEMMA CdPath ==
  ASSUME FatInv, PathInv, NEW x \in Names, fat12_cd(x)
  PROVE  PathInv'
<1> DEFINE start == found(searched, x)
<1>1. /\ named(searched, x) # {} /\ UNCHANGED <<fat, root_dir, short>>
      /\ fat12_set_dir(start, x)
  BY DEF fat12_cd, found
<1>2. SUFFICES ASSUME curr_dir' \in DOMAIN DiskDirectory
               PROVE  /\ curr_path' \in Seq(Names) /\ curr_path' # <<>>
                      /\ \E at : Route(at, curr_path') /\ at[Len(curr_path')] = curr_dir'
  BY <1>1 DEF PathInv
<1>3. ROOT \notin DOMAIN DiskDirectory /\ 0 \notin DOMAIN DiskDirectory /\ DOMAIN DiskDirectory \subseteq Cluster
  BY TreeAssumption DEF Cluster
<1>4. CASE curr_dir = ROOT
  <2>1. /\ curr_dir' = start /\ curr_path' = <<x>> /\ start = found(root_dir, x) /\ named(root_dir, x) # {}
    <3>1. searched = root_dir
      BY <1>4 DEF searched
    <3> HIDE DEF start
    <3>2. curr_dir' = start /\ curr_path' = <<x>>
      BY <1>1, <1>4 DEF fat12_set_dir
    <3> QED BY <1>1, <3>1, <3>2 DEF start
  <2>2. /\ x \notin {".", ".."} /\ named(DiskRoot, x) # {} /\ found(DiskRoot, x) = start
    BY <1>2, <2>1, FromRoot
  <2>3. <<>> \in Seq(Names) /\ Len(<<>>) = 0 /\ Append(<<>>, x) = <<x>>
    OBVIOUS
  <2> DEFINE at == [k \in 0 .. 0 |-> ROOT]
  <2>4. Route(at, <<>>)
    <3> DEFINE made == [k \in 0 .. Len(<<>>) |->
             IF k = 0 THEN ROOT
             ELSE found(IF k = 1 THEN DiskRoot ELSE Directory(at[k - 1]), <<>>[k])]
    <3>1. \A k \in 0 .. 0 : k = 0
      OBVIOUS
    <3>2. DOMAIN made = 0 .. 0 /\ \A k \in 0 .. 0 : made[k] = ROOT
      BY <2>3, <3>1
    <3>3. at = made
      <4>1. made = [k \in 0 .. 0 |-> made[k]]
        BY <2>3
      <4> HIDE DEF made
      <4> QED BY <3>2, <4>1
    <3>4. ~\E k \in 1 .. Len(<<>>) : TRUE
      BY <2>3
    <3> QED BY <3>3, <3>4 DEF Route
  <2> HIDE DEF at, start
  <2>5. /\ Append(<<>>, x) \in Seq(Names) /\ Append(<<>>, x) # <<>>
        /\ \E new : Route(new, Append(<<>>, x)) /\ new[Len(Append(<<>>, x))] = found(DiskRoot, x)
    <3>1. x \in Names \ {".", ".."} /\ named(DiskRoot, x) # {} /\ found(DiskRoot, x) \in DOMAIN DiskDirectory
      BY <1>2, <2>1, <2>2
    <3> QED BY <2>3, <2>4, <3>1, RouteLonger
  <2> QED BY <2>1, <2>2, <2>3, <2>5
<1>5. CASE curr_dir # ROOT
  <2>1. /\ start = found(Directory(curr_dir), x) /\ named(Directory(curr_dir), x) # {}
    <3>1. searched = Directory(curr_dir)
      BY <1>5 DEF searched
    <3> QED BY <1>1, <3>1
  <2> HIDE DEF start
  <2>2. /\ curr_dir' = IF start = 0 THEN ROOT ELSE start
        /\ curr_path' = IF x = "." THEN curr_path
                        ELSE IF x # ".." THEN Append(curr_path, x)
                        ELSE IF curr_dir' = ROOT THEN <<>>
                        ELSE SubSeq(curr_path, 1, Len(curr_path) - 1)
    BY <1>1, <1>5 DEF fat12_set_dir
  <2>3. curr_dir' = start /\ start # 0 /\ start \in DOMAIN DiskDirectory /\ curr_dir' # ROOT
    BY <1>2, <1>3, <2>2
  <2>4. curr_dir \in DOMAIN DiskDirectory
    BY <2>1, <2>3, NoDirectory
  <2>5. PICK at : /\ curr_path \in Seq(Names) /\ curr_path # <<>> /\ Route(at, curr_path)
                  /\ at[Len(curr_path)] = curr_dir
    BY <2>4 DEF PathInv
  <2>6. /\ x = "." => start = curr_dir
        /\ x = ".." => start = DiskDirectory[curr_dir][2].start
    BY <2>1, <2>4, InDirectory
  <2>7. CASE x = "."
    BY <2>2, <2>3, <2>5, <2>6, <2>7
  <2>8. CASE x = ".."
    <3>1. start = IF Len(curr_path) = 1 THEN 0 ELSE at[Len(curr_path) - 1]
      BY <2>5, <2>6, <2>8, Parent
    <3>2. Len(curr_path) >= 2
      <4>1. Len(curr_path) \in Nat /\ Len(curr_path) # 0
        BY <2>5
      <4>2. Len(curr_path) # 1
        BY <2>3, <3>1
      <4> HIDE DEF start
      <4> QED BY <4>1, <4>2
    <3>3. curr_path' = SubSeq(curr_path, 1, Len(curr_path) - 1) /\ start = at[Len(curr_path) - 1]
      <4>1. ".." # "."
        OBVIOUS
      <4> QED BY <2>2, <2>3, <2>8, <3>1, <3>2, <4>1
    <3> DEFINE shorter == SubSeq(curr_path, 1, Len(curr_path) - 1)
    <3>4. /\ shorter \in Seq(Names) /\ shorter # <<>>
          /\ \E new : Route(new, shorter) /\ new[Len(shorter)] = at[Len(curr_path) - 1]
      BY <2>5, <3>2, RouteShorter
    <3> QED BY <2>3, <3>3, <3>4
  <2>9. CASE x \notin {".", ".."}
    <3>1. curr_path' = Append(curr_path, x)
      BY <2>2, <2>9
    <3>2. LET entries == IF curr_path = <<>> THEN DiskRoot ELSE Directory(at[Len(curr_path)])
          IN  named(entries, x) # {} /\ found(entries, x) \in DOMAIN DiskDirectory
      BY <2>1, <2>3, <2>5
    <3>3. /\ Append(curr_path, x) \in Seq(Names) /\ Append(curr_path, x) # <<>>
          /\ \E new : /\ Route(new, Append(curr_path, x))
                      /\ new[Len(Append(curr_path, x))] =
                           found(IF curr_path = <<>> THEN DiskRoot ELSE Directory(at[Len(curr_path)]), x)
      BY <2>5, <2>9, <3>2, RouteLonger
    <3> QED BY <2>1, <2>3, <2>5, <3>1, <3>3
  <2> QED BY <2>7, <2>8, <2>9
<1> QED BY <1>4, <1>5

\* What leaves the current directory alone.
LEMMA PathStays ==
  ASSUME PathInv, UNCHANGED <<curr_dir, curr_path>>,
         \A c \in DOMAIN DiskDirectory : fat'[c] # 0,
         \A i \in DOMAIN root_dir' :
           root_dir'[i].name # DELETED /\ root_dir'[i].start \in DOMAIN DiskDirectory =>
             i \in DOMAIN root_dir /\ root_dir'[i] = root_dir[i]
  PROVE  PathInv'
<1>1. \A i \in DOMAIN root_dir' :
        root_dir'[i].name # DELETED /\ root_dir'[i].start \in DOMAIN DiskDirectory =>
          i \in DOMAIN DiskRoot /\ root_dir'[i] = DiskRoot[i]
  BY DEF PathInv
<1>2. curr_dir' \in DOMAIN DiskDirectory =>
        /\ curr_path' \in Seq(Names) /\ curr_path' # <<>>
        /\ \E at : Route(at, curr_path') /\ at[Len(curr_path')] = curr_dir'
  BY DEF PathInv
<1> QED BY <1>1, <1>2 DEF PathInv

LEMMA CreatePath ==
  ASSUME FatInv, PathInv, NEW size, NEW name, fat12_create_file(size, name)
  PROVE  PathInv'
<1>i. PICK i : i = least(unused_entries)
  OBVIOUS
<1>1. fat' = linked(num_cluster(size)) /\ UNCHANGED <<curr_dir, curr_path>>
  BY DEF fat12_create_file
<1>2. \A c \in DOMAIN DiskDirectory : fat'[c] # 0
  <2> SUFFICES ASSUME NEW c \in DOMAIN DiskDirectory PROVE fat'[c] # 0
    OBVIOUS
  <2>1. fat[c] # 0 /\ c \in DOMAIN fat
    BY TreeAssumption, FatAssumption DEF PathInv, FatInv, FatTypeOK, Cluster
  <2>2. c \notin taken(num_cluster(size))
    BY <2>1 DEF taken, free_clusters
  <2> QED BY <1>1, <2>1, <2>2 DEF linked
<1>3. cstart \notin DOMAIN DiskDirectory
  <2>1. free_clusters \in SUBSET Nat
    BY FatAssumption DEF free_clusters, Cluster
  <2>2. cstart = 0 \/ cstart \in free_clusters
    BY <2>1, LeastIn DEF cstart
  <2> QED BY <2>2, TreeAssumption DEF PathInv, free_clusters, Cluster
<1>4. CASE unused_entries = {} /\ UNCHANGED <<root_dir, short>>
  BY <1>1, <1>2, <1>4, PathStays
<1>5. CASE unused_entries # {}
  <2> DEFINE e == [name |-> name, length |-> size, directory |-> FALSE, start |-> cstart]
  <2>1. root_dir' = [root_dir EXCEPT ![i] = e]
    BY <1>5, <1>i DEF fat12_create_file
  <2>2. e.start = cstart
    OBVIOUS
  <2>3. root_dir \in Seq(Entry)
    BY DEF FatInv, FatTypeOK
  <2> HIDE DEF e
  <2>4. \A j \in DOMAIN root_dir' : j \in DOMAIN root_dir /\ (root_dir'[j] = root_dir[j] \/ root_dir'[j] = e)
    BY <2>1, <2>3
  <2> QED BY <1>1, <1>2, <1>3, <2>2, <2>4, PathStays
<1> QED BY <1>4, <1>5 DEF fat12_create_file

LEMMA RemovePath ==
  ASSUME FatInv, PathInv, NEW x \in Names, fat12_rm(x)
  PROVE  PathInv'
<1>1. fat' = fat /\ UNCHANGED <<curr_dir, curr_path>>
  BY DEF fat12_rm, fat12_del_fat_entry
<1>2. CASE curr_dir # ROOT
  BY <1>1, <1>2, PathStays DEF fat12_rm, PathInv
<1>3. CASE curr_dir = ROOT
  <2>1. PICK d : d = least(named(searched, x))
    OBVIOUS
  <2>2. d \in DOMAIN root_dir /\ root_dir[d] \in Entry
    BY <1>3, <2>1, FoundEntry DEF fat12_rm, searched
  <2>3. root_dir' = [root_dir EXCEPT ![d].name = DELETED]
    BY <1>3, <2>1 DEF fat12_rm
  <2>4. /\ DOMAIN root_dir' = DOMAIN root_dir /\ root_dir'[d].name = DELETED
        /\ \A j \in DOMAIN root_dir : j # d => root_dir'[j] = root_dir[j]
    <3>1. root_dir \in Seq(Entry)
      BY DEF FatInv, FatTypeOK
    <3>2. root_dir'[d] = [root_dir[d] EXCEPT !.name = DELETED]
      BY <2>2, <2>3, <3>1
    <3>3. root_dir'[d].name = DELETED
      BY <2>2, <3>2 DEF Entry
    <3> QED BY <2>2, <2>3, <3>1, <3>3
  <2> QED BY <1>1, <2>4, PathStays DEF PathInv
<1> QED BY <1>2, <1>3

LEMMA PathInvariant == Spec => []PathInv
<1>1. Init => PathInv
  BY TreeAssumption DEF Init, fat12_init, PathInv
<1>2. PathInv /\ (FatInv /\ TableOK) /\ [Next]_vars => PathInv'
  <2> SUFFICES ASSUME PathInv, FatInv, [Next]_vars PROVE PathInv'
    OBVIOUS
  <2>1. CASE UNCHANGED fatVars
    BY <2>1, PathStays DEF PathInv, fatVars
  <2>2. CASE Command
    <3>1. ASSUME NEW x \in Names, fat12_cd(x) PROVE PathInv'
      BY <3>1, CdPath
    <3>2. ASSUME NEW x \in Names, fat12_rm(x) PROVE PathInv'
      BY <3>2, RemovePath
    <3>3. ASSUME NEW x \in Names, NEW y \in FileNames, fat12_cp(x, y) PROVE PathInv'
      BY <3>3, CreatePath DEF fat12_cp
    <3>4. CASE write
      BY <3>4, CreatePath DEF write
    <3> QED BY <2>2, <3>1, <3>2, <3>3, <3>4 DEF Command, Shell
  <2>3. CASE sys_file_handler_main
    <3>1. \/ \E h \in handles : do_fclose(h)
          \/ UNCHANGED fatVars
      BY <2>3 DEF sys_file_handler_main, do_fopen, fopen_found, do_fputs
    <3>2. ASSUME NEW h \in handles, do_fclose(h) PROVE PathInv'
      BY <2>1, <3>2, CreatePath DEF do_fclose
    <3> QED BY <2>1, <3>1, <3>2
  <2> QED BY <2>1, <2>2, <2>3 DEF Next, vars, fatVars
<1> QED BY <1>1, <1>2, FileSystemInvariant, PTL DEF Spec

\* In a directory of the disk the path in the prompt is one that leads there:
\* cd changes the two alike, and neither rm nor a new file gets between them.
THEOREM PathLeadsHere == Spec => []PathResolves
<1>1. PathInv => PathResolves
  <2> SUFFICES ASSUME PathInv, curr_dir \in DOMAIN DiskDirectory PROVE Resolve(curr_path) = curr_dir
    BY DEF PathResolves
  <2> QED BY RouteResolves DEF PathInv
<1> QED BY <1>1, PathInvariant, PTL

=============================================================================
