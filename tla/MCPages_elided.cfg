SPECIFICATION PagesSpec
CONSTANTS
  NULL = NULL
  none = none
  NoText = none
  Fold <- MCFold
  Digest <- MCDigest
  p1 = p1
  t1 = t1
  x1 = x1
  c1 = c1
  c2 = c2
  Ports = {p1}
  Tabs = {t1}
  Execs = {x1}
  Callers = {c1}
  Kinds <- MCObserving
  Documents <- MCDocuments
  SnapshotNodes = 1
  ResolveNodes = 3
  TextRuns = 3
  MaxCommands = 6
CONSTRAINT Scenarios
CHECK_DEADLOCK FALSE
INVARIANT ProtectedElided
