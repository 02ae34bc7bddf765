SPECIFICATION Spec
CHECK_DEADLOCK FALSE
CONSTANTS
  W = 4
  Char <- MCChar
  NAME_LEN = 2
  EXT_LEN = 2
  DirectoryLetters = {"t"}
  PATH_LEN = 10
  Lines <- MCLines
  Calls <- MCCalls
  Spaces = 1
  MaxPieces = 4
INVARIANTS
  WordsMakeUpLine
  PathShowsDirectories
  NamesFound
  ScanReadsPrint
