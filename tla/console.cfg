SPECIFICATION Spec
SYMMETRY MCSymmetry
CONSTANTS
  MAX_TERMINAL = 3
  MAX_ROWS = 2
  MAX_COLS = 2
  VIDEO = VIDEO
  NULL = NULL
  Root = Root
  sub = sub
  Dir = {sub}
  p = p
  q = q
  Proc = {p, q}
  Drawn = {0}
  MaxKeys = 3
  MaxSwitches = 2
INVARIANTS
  FreshKeys
  LineShown
PROPERTIES
  ConsolesApart
