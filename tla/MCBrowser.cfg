SPECIFICATION PathSpec
CONSTANTS
  Ports = {p1, p2}
  Tabs = {t1}
  Execs = {x1, x2}
  Loops = {l1, l2}
  NULL = NULL
  MaxDocs = 2
  MaxWire = 1
SYMMETRY PathSymmetry
CHECK_DEADLOCK FALSE
INVARIANTS
  PathTypeOK
  FilledWhereGranted
  WindowCovers
  KeepsPolling
