-------------------------------- MODULE Fat12 --------------------------------
(***************************************************************************)
(* The FAT12 file system of include/fat12.h, as the shell uses it: cd, rm, *)
(* cp and write.                                                           *)
(*                                                                         *)
(* The FAT and the root directory live in memory from fat12_init on and    *)
(* are never written back.  A subdirectory is read from the disk whenever  *)
(* it is looked at, so that it is a constant here: what rm does to the     *)
(* copy in `subdir` is gone at the next look.  New files always go to the  *)
(* root directory.  An entry that was never used has a zero name, which    *)
(* fat12_construct_file_name turns into ".".                               *)
(***************************************************************************)
EXTENDS Naturals, Sequences, FiniteSets

CONSTANTS
  FAT_NUM_ENTRY,    \* entries of the FAT; 3072 in the source
  FAT_SECTOR_SIZE,  \* bytes of a cluster
  ROOT,             \* FAT_ROOT_REGION_START, curr_dir's word for the root
  EOF_FAT12,        \* any link from 0xFF0 on
  UNUSED,           \* a name whose first byte is 0
  DELETED,          \* a name whose first byte is 0xE5
  NULL,
  DiskFat,          \* the FAT on the disk
  DiskRoot,         \* its root directory, a sequence of entries
  DiskDirectory,    \* the entries of each cluster that holds a subdirectory
  Names,            \* what the user types
  FileNames         \* the names of files among them

Cluster == 2 .. FAT_NUM_ENTRY - 1

Name == Names \cup FileNames \cup {UNUSED, DELETED, "test.txt"}
Entry == [name : Name, start : {0} \cup Cluster, length : Nat, directory : BOOLEAN]

ASSUME FatAssumption ==
  /\ FAT_NUM_ENTRY \in Nat \ {0, 1, 2}
  /\ FAT_SECTOR_SIZE \in Nat \ {0}
  /\ DiskRoot \in Seq(Entry)
  /\ \A c \in DOMAIN DiskDirectory : DiskDirectory[c] \in Seq(Entry)
  /\ EOF_FAT12 \in Nat /\ EOF_FAT12 >= FAT_NUM_ENTRY
  /\ DiskFat \in [0 .. FAT_NUM_ENTRY - 1 -> Nat]
  \* mkfs and the copies to a fresh disk lay out files upwards.
  /\ \A c \in DOMAIN DiskFat :
       DiskFat[c] = 0 \/ DiskFat[c] = EOF_FAT12
         \/ (DiskFat[c] \in Cluster /\ DiskFat[c] > c)

VARIABLES
  fat,        \* fat.entry
  root_dir,   \* entries: name, first cluster, length, and whether a directory
  curr_dir,   \* ROOT or a cluster
  curr_path,  \* the names between the slashes
  short       \* history: the root entries that got fewer clusters than they need

fatVars == <<fat, root_dir, curr_dir, curr_path, short>>

Unused == [name |-> UNUSED, start |-> 0, length |-> 0, directory |-> FALSE]

\* The rest of the disk is zero: cluster 0 is read from the end of the root
\* region, and a short file ends in zeros.
Directory(c) == IF c \in DOMAIN DiskDirectory THEN DiskDirectory[c] ELSE <<Unused>>

least(S) == CHOOSE i \in S : \A j \in S : i <= j

fat12_construct_file_name(f) == IF f.name = UNUSED THEN "." ELSE f.name

\* The entries that answer to a name; the first one counts.
named(entries, x) == {i \in DOMAIN entries : fat12_construct_file_name(entries[i]) = x}

\* Where fat12_find_entry looks.
searched == IF curr_dir = ROOT THEN root_dir ELSE Directory(curr_dir)

\* The cluster after each one, 0 at the end of a chain.
fat12_next_sector(f) == [c \in DOMAIN f |-> IF f[c] >= EOF_FAT12 THEN 0 ELSE f[c]]

\* The clusters that fat12_read_clusters reads, from start on, in a FAT f.
clusters_from(f, start) ==
  LET clust[k \in Nat] == IF k = 0 THEN start ELSE fat12_next_sector(f)[clust[k - 1]]
  IN  {start} \cup ({clust[k] : k \in 1 .. FAT_NUM_ENTRY - 1} \ {0})

fat12_read_clusters(start) == clusters_from(fat, start)

Fits(start, clusters) == Cardinality(fat12_read_clusters(start)) <= clusters

\* What fat12_read_file reads: a file of the root directory, wherever one is.
fat12_read_file(filename) == root_dir[least(named(root_dir, filename))]

num_cluster(size) == (size + FAT_SECTOR_SIZE - 1) \div FAT_SECTOR_SIZE

files_in(root) == {i \in DOMAIN root : ~root[i].directory /\ root[i].name \notin {UNUSED, DELETED}}

\* Each file has exactly as many clusters as its length says, up to the end
\* mark, and shares none of them.
Sound(f, root, files) ==
  LET chain == [i \in {j \in files : root[j].start # 0} |-> clusters_from(f, root[i].start)]
  IN  /\ \A i \in DOMAIN chain :
           /\ Cardinality(chain[i]) = num_cluster(root[i].length)
           /\ \E c \in chain[i] : f[c] = EOF_FAT12
      /\ \A i, j \in DOMAIN chain : i < j => chain[i] \cap chain[j] = {}

\* The disk comes out of mkfs and the copies in good order.  Entry 0 of a FAT is
\* no link, and the entries that were never used are the last ones.
ASSUME DiskAssumption ==
  /\ DiskFat[0] \in {0, EOF_FAT12}
  /\ \A i, j \in DOMAIN DiskRoot : j < i /\ DiskRoot[j].name = UNUSED => DiskRoot[i].name = UNUSED
  /\ \A i \in DOMAIN DiskRoot : DiskRoot[i].name \notin {UNUSED, DELETED} =>
       \A c \in clusters_from(DiskFat, DiskRoot[i].start) \ {0} : DiskFat[c] # 0
  /\ Sound(DiskFat, DiskRoot, files_in(DiskRoot))
  /\ UNUSED # DELETED /\ {UNUSED, DELETED, "."} \cap (FileNames \cup {"test.txt"}) = {}

\* Its directories are a tree.  The first two entries of each are "." and "..",
\* which has a 0 for the root directory; names in the root directory are
\* unique, and an entry that was never used is zero.  No name that can be typed
\* begins with 0 or 0xE5, and no directory is in the cluster that ROOT says.
ASSUME TreeAssumption ==
  LET up(c) == DiskDirectory[c][2].start
      used(e) == e.name \notin {UNUSED, DELETED}
  IN  /\ DOMAIN DiskDirectory \subseteq {c \in Cluster \ {ROOT} : DiskFat[c] # 0}
      /\ \A i \in DOMAIN DiskRoot :
           /\ DiskRoot[i].name \notin {".", ".."}
           /\ DiskRoot[i].name = UNUSED => DiskRoot[i] = Unused
           /\ used(DiskRoot[i]) =>
                /\ \A j \in DOMAIN DiskRoot : DiskRoot[j].name = DiskRoot[i].name => j = i
                /\ DiskRoot[i].start \in DOMAIN DiskDirectory => up(DiskRoot[i].start) = 0
      /\ \A c \in DOMAIN DiskDirectory :
           LET entries == DiskDirectory[c]
           IN  /\ Len(entries) >= 2
               /\ entries[1].name = "." /\ entries[1].start = c
               /\ entries[2].name = ".."
               /\ \A i \in 3 .. Len(entries) :
                    /\ entries[i].name \notin {".", ".."}
                    /\ used(entries[i]) /\ entries[i].start \in DOMAIN DiskDirectory
                         => up(entries[i].start) = c
      /\ {UNUSED, DELETED} \cap (Names \cup {".", ".."}) = {}

fat12_init ==
  /\ fat = DiskFat
  /\ root_dir = DiskRoot
  /\ curr_dir = ROOT
  /\ curr_path = <<>>
  /\ short = {}

\* Faulty: ".." leaves the path where it was.
fat12_set_dir_stays(new_dir, action) ==
  /\ curr_dir' = IF curr_dir # ROOT /\ new_dir = 0 THEN ROOT ELSE new_dir
  /\ curr_path' = CASE curr_dir = ROOT -> <<action>>
                    [] curr_dir # ROOT /\ action \in {".", ".."} -> curr_path
                    [] OTHER -> Append(curr_path, action)

\* The root directory has no ".." that could mean 0: its own case keeps a 0.
fat12_set_dir(new_dir, action) ==
  \/ /\ curr_dir = ROOT
     /\ curr_dir' = new_dir
     /\ curr_path' = <<action>>
  \/ /\ curr_dir # ROOT
     /\ curr_dir' = IF new_dir = 0 THEN ROOT ELSE new_dir
     /\ curr_path' = IF action = "." THEN curr_path
                     ELSE IF action # ".." THEN Append(curr_path, action)
                     ELSE IF curr_dir' = ROOT THEN <<>>
                     ELSE SubSeq(curr_path, 1, Len(curr_path) - 1)

\* Nothing asks whether the entry is a directory.  The models keep to entries
\* of one cluster, all that the buffer `subdir` holds.
fat12_cd(folder) ==
  LET found == named(searched, folder)
      start == searched[least(found)].start
  IN  /\ found # {} /\ Fits(start, 1)
      /\ fat12_set_dir(start, folder)
      /\ UNCHANGED <<fat, root_dir, short>>

\* Zeroes the memory at the address that each link of the chain happens to be,
\* where it was to zero the link: the clusters are never free again.
fat12_del_fat_entry == UNCHANGED fat

fat12_rm(filename) ==
  LET found == named(searched, filename)
  IN  /\ found # {}
      /\ root_dir' = IF curr_dir = ROOT
                     THEN [root_dir EXCEPT ![least(found)].name = DELETED]
                     ELSE root_dir
      /\ fat12_del_fat_entry
      /\ UNCHANGED <<curr_dir, curr_path, short>>

free_clusters == {c \in Cluster : fat[c] = 0}

\* Faulty: a deleted entry is as good as one that was never used.
unused_entries_again == {i \in DOMAIN root_dir : root_dir[i].name \in {UNUSED, DELETED}}

unused_entries == {i \in DOMAIN root_dir : root_dir[i].name = UNUSED}

\* The clusters the loop passes: the first n free ones, and all of them if
\* there are fewer or if n is 0, which the count has left behind at 1.
taken(n) ==
  {c \in free_clusters : n = 0 \/ Cardinality({d \in free_clusters : d < c}) < n}

\* Faulty: the mark comes one cluster late, on none.
linked_open(n) ==
  [c \in DOMAIN fat |->
     LET after == {d \in taken(n) : d > c}
     IN  IF c \in taken(n) /\ after # {} THEN least(after) ELSE fat[c]]

\* Faulty: each cluster is linked to the one before.
linked_back(n) ==
  [c \in DOMAIN fat |->
     LET before == {d \in taken(n) : d < c}
     IN  IF c \notin taken(n) THEN fat[c]
         ELSE IF before # {} THEN CHOOSE d \in before : \A e \in before : e <= d
         ELSE IF Cardinality(taken(n)) = n THEN EOF_FAT12 ELSE 0]

\* The FAT after the loop.  Only the n-th cluster is marked as the last one.
linked(n) ==
  [c \in DOMAIN fat |->
     LET after == {d \in taken(n) : d > c}
     IN  IF c \notin taken(n) THEN fat[c]
         ELSE IF after # {} THEN least(after)
         ELSE IF Cardinality(taken(n)) = n THEN EOF_FAT12 ELSE 0]

cstart == IF free_clusters = {} THEN 0 ELSE least(free_clusters)

\* Without an unused entry the clusters are taken all the same.
fat12_create_file(size, name) ==
  LET n == num_cluster(size)
      i == least(unused_entries)
  IN  /\ fat' = linked(n)
      /\ \/ unused_entries = {} /\ UNCHANGED <<root_dir, short>>
         \/ /\ unused_entries # {}
            /\ root_dir' = [root_dir EXCEPT ![i] =
                 [name |-> name, length |-> size, directory |-> FALSE,
                  start |-> cstart]]
            /\ short' = IF n = 0 \/ n > Cardinality(free_clusters)
                        THEN short \cup {i} ELSE short
      /\ UNCHANGED <<curr_dir, curr_path>>

\* cp reads the source to the stack, which has room for 30 clusters.
fat12_cp(src, dst) ==
  LET f == fat12_read_file(src)
  IN  /\ named(root_dir, src) # {} /\ Fits(f.start, 30)
      /\ fat12_create_file(f.length, dst)

\* The command `write`: a file of less than one cluster, always the same name.
write == fat12_create_file(1, "test.txt")

Shell ==
  \/ \E x \in Names : fat12_cd(x) \/ fat12_rm(x)
  \/ \E x \in Names, y \in FileNames : fat12_cp(x, y)
  \/ write

FatSpec == fat12_init /\ [][Shell]_fatVars

-----------------------------------------------------------------------------

FatTypeOK ==
  /\ fat \in [0 .. FAT_NUM_ENTRY - 1 -> {0, EOF_FAT12} \cup Cluster]
  /\ root_dir \in Seq(Entry)
  /\ curr_dir \in {ROOT, 0} \cup Cluster
  /\ short \subseteq DOMAIN root_dir

\* A link leads to a higher cluster: no chain is a circle, and every loop over
\* fat12_next_sector comes to its end.
ChainsAscend ==
  \A c \in DOMAIN fat : fat[c] # 0 /\ fat[c] # EOF_FAT12 => fat[c] > c

Files == files_in(root_dir) \ short

Chain(i) == fat12_read_clusters(root_dir[i].start)

\* So it stays with the files that found the clusters they asked for.
SoundChains == Sound(fat, root_dir, Files)

\* The cluster at the end of a path of directory names.
Resolve(path) ==
  LET step(entries, x) == entries[least(named(entries, x))].start
      at[k \in 0 .. Len(path)] ==
        IF k = 0 THEN ROOT ELSE step(IF k = 1 THEN DiskRoot ELSE Directory(at[k - 1]), path[k])
  IN  at[Len(path)]

\* In a directory, the prompt shows the path that leads to it.
PathResolves == curr_dir \in DOMAIN DiskDirectory => Resolve(curr_path) = curr_dir

\* What a name of the root directory stands for: an entry and its clusters.
file(x) ==
  LET i == least(named(root_dir, x))
  IN  IF named(root_dir, x) = {} \/ i \in short THEN NULL
      ELSE <<root_dir[i], Chain(i)>>

\* It stays until that entry is deleted: not even a new file of the same name
\* changes it.
NameStable ==
  [][\A x \in FileNames :
       \/ file(x) = NULL
       \/ root_dir'[least(named(root_dir, x))].name = DELETED
       \/ file(x)' = file(x)]_fatVars

=============================================================================
