------------------------------- MODULE SysFile -------------------------------
(***************************************************************************)
(* The files of processes (include/sysfile.h) behind int 0x82: a table of  *)
(* MAX_FILE_NUM files for all processes, over the file system.             *)
(*                                                                         *)
(* fread and fgets copy from the start of the buffer wherever pos is, and  *)
(* change nothing.  The file system turns interrupts on behind each sector *)
(* it reads, so that the timer can cut a call in two where it reads a      *)
(* directory from the disk.                                                *)
(***************************************************************************)
EXTENDS Fat12

CONSTANTS
  MAX_FILE_NUM,  \* 10 in the source
  Proc,          \* the processes that use files
  MaxOpens,      \* the models let them call fopen so often in all
  PutSizes       \* how much they write at once

ASSUME SysFileAssumption == MAX_FILE_NUM \in Nat /\ PutSizes \subseteq Nat

BUFFER == 2 * FAT_SECTOR_SIZE  \* file_list[i].buffer has 1024 bytes

VARIABLES
  file_list,  \* mode "u" (unused), "r" or "w"; name; pos, from the buffer's start
  opening,    \* the call of fopen a process has been cut in, or NULL
  handles,    \* the FILE pointers that programs have got
  calls,      \* how often fopen was called
  cut         \* history: two calls of fopen have chosen the same file

vars == <<fatVars, file_list, opening, handles, calls, cut>>
sysVars == <<file_list, opening, handles, calls, cut>>

FileSlot == 1 .. MAX_FILE_NUM

file_init ==
  /\ file_list = [f \in FileSlot |-> [mode |-> "u", name |-> UNUSED, pos |-> 0]]
  /\ opening = [p \in Proc |-> NULL]
  /\ handles = {}
  /\ calls = 0
  /\ cut = FALSE

\* Faulty: takes a file that another process writes.
unused_files_shared == {f \in FileSlot : file_list[f].mode # "r"}

unused_files == {f \in FileSlot : file_list[f].mode = "u"}

\* What fat12_find_entry answers decides whether fopen gets a file: one that is
\* missing can be written, or not be read.
opens(name, mode) == mode = "w" \/ named(searched, name) # {}

\* Faulty: the file has its mode before fopen has looked for the name.
new_mode_early(f, name, mode) == mode

new_mode(f, name, mode) == IF opens(name, mode) THEN mode ELSE file_list[f].mode

\* Then a file that is there is read to the buffer; the models keep to files
\* that fit, the code reads on over the next one.
open(p, f, name, mode) ==
  /\ LET found == named(searched, name)
     IN  found # {} => Fits(searched[least(found)].start, 2)
  /\ handles' = IF opens(name, mode)
                THEN handles \cup {[proc |-> p, file |-> f]}
                ELSE handles

\* In the root directory, which is in memory, the call is not cut.
do_fopen(p, name, mode) ==
  /\ opening[p] = NULL /\ unused_files # {}
  /\ calls < MaxOpens /\ calls' = calls + 1
  /\ LET f == least(unused_files)
     IN  \/ /\ curr_dir = ROOT
            /\ open(p, f, name, mode)
            /\ file_list' = [file_list EXCEPT ![f].name = name,
                                              ![f].mode = new_mode(f, name, mode)]
            /\ UNCHANGED <<opening, cut>>
         \/ /\ curr_dir # ROOT
            /\ file_list' = [file_list EXCEPT ![f].name = name]
            /\ opening' = [opening EXCEPT ![p] = [file |-> f, name |-> name, mode |-> mode]]
            /\ cut' = (cut \/ \E q \in Proc : opening[q] # NULL /\ opening[q].file = f)
            /\ UNCHANGED handles
  /\ UNCHANGED fatVars

\* The process gets the CPU back with the directory read.
fopen_found(p) ==
  /\ opening[p] # NULL
  /\ LET o == opening[p]
     IN  /\ open(p, o.file, o.name, o.mode)
         /\ file_list' = [file_list EXCEPT ![o.file].mode = new_mode(o.file, o.name, o.mode)]
  /\ opening' = [opening EXCEPT ![p] = NULL]
  /\ UNCHANGED <<fatVars, calls, cut>>

\* fwrite and fputs; the models do not write over the end of the buffer.
do_fputs(h, size) ==
  /\ file_list[h.file].mode = "w"
  /\ file_list[h.file].pos + size <= BUFFER
  /\ file_list' = [file_list EXCEPT ![h.file].pos = @ + size]
  /\ UNCHANGED <<fatVars, opening, handles, calls, cut>>

\* pos stays where it is.
do_fclose(h) ==
  LET f == file_list[h.file]
  IN  /\ \/ f.mode = "w" /\ fat12_create_file(f.pos, f.name)
         \/ f.mode # "w" /\ UNCHANGED fatVars
      /\ file_list' = [file_list EXCEPT ![h.file].mode = "u"]
      /\ handles' = handles \ {h}
      /\ UNCHANGED <<opening, calls, cut>>

sys_file_handler_main ==
  \E p \in Proc :
    \/ \E x \in FileNames, mode \in {"r", "w"} : do_fopen(p, x, mode)
    \/ fopen_found(p)
    \/ /\ opening[p] = NULL
       /\ \E h \in handles : h.proc = p /\ (do_fclose(h) \/ \E n \in PutSizes : do_fputs(h, n))

\* Programs and shell commands take turns; no command runs inside an fopen.
Command ==
  /\ \A p \in Proc : opening[p] = NULL
  /\ Shell
  /\ UNCHANGED sysVars

Init == fat12_init /\ file_init

Next == Command \/ sys_file_handler_main

Spec == Init /\ [][Next]_vars

-----------------------------------------------------------------------------

\* Every file of the table that is not free is in somebody's hands: an fopen
\* that fails costs nothing.
FilesAccounted == FileSlot \ unused_files \subseteq {h.file : h \in handles}

\* No two programs hold one file of the table, and none that is free, unless
\* two calls of fopen have met in a subdirectory.
OwnFile ==
  ~cut => /\ \A h \in handles : file_list[h.file].mode # "u"
          /\ \A g, h \in handles : g.file = h.file => g = h

=============================================================================
