SPECIFICATION Spec
SYMMETRY MCSymmetry
CONSTANTS
  FAT_NUM_ENTRY = 9
  FAT_SECTOR_SIZE = 2
  ROOT = 19
  EOF_FAT12 = 4095
  UNUSED = ""
  DELETED = "deleted"
  NULL = NULL
  DiskFat <- MCFat
  DiskRoot <- MCRoot
  DiskDirectory <- MCDirectory
  Names = {"dir", "sub", ".", "..", "a.txt"}
  FileNames = {"a.txt", "b.txt"}
  MAX_FILE_NUM = 2
  p = p
  q = q
  Proc = {p, q}
  MaxOpens = 2
  PutSizes = {3}
INVARIANTS
  ChainsAscend
  SoundChains
  PathResolves
  FilesAccounted
  OwnFile
PROPERTIES
  NameStable
