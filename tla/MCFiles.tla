------------------------------- MODULE MCFiles -------------------------------
(* A disk of seven clusters, two of them free: the directory `dir` (2),  *)
(* `sub` (3) in it, a file of two clusters in the root directory, another  *)
(* one in `sub`, and two root entries   that were never used.              *)
EXTENDS SysFile, TLC

entry(name, start, length, directory) ==
  [name |-> name, start |-> start, length |-> length, directory |-> directory]

MCFat == [c \in 0 .. FAT_NUM_ENTRY - 1 |->
            CASE c = 4 -> 5 [] c \in {7, 8} -> 0 [] OTHER -> EOF_FAT12]

MCRoot == <<entry("dir", 2, 0, TRUE), entry("a.txt", 4, 3, FALSE),
            Unused, Unused>>

MCDirectory ==
  [c \in {2, 3} |->
     IF c = 2 THEN <<entry(".", 2, 0, TRUE), entry("..", 0, 0, TRUE),
                     entry("sub", 3, 0, TRUE), Unused>>
     ELSE <<entry(".", 3, 0, TRUE), entry("..", 2, 0, TRUE),
            entry("a.txt", 6, 1, FALSE), Unused>>]

MCSymmetry == Permutations(Proc)

=============================================================================
