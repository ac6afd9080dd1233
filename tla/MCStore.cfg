SPECIFICATION MCSpec
CONSTANTS
  Requests = {r1}
  Approvals = {a1}
  Caps = {c1, c2}
  Execs = {e1, e2}
  Policies = {p1, p2}
  TotpSteps = {s1, s2}
  LooseEvents = {"secret.retrieve_succeeded"}
  NULL = NULL
  MaxEvents = 5
SYMMETRY Symmetry
CHECK_DEADLOCK FALSE
INVARIANTS
  StoreTypeOK
  SingleRelease
  LedgerAgrees
  RevokedNeverExecuted
PROPERTY
  ImplementsSingleUse
