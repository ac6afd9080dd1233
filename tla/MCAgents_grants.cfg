SPECIFICATION CallsSpec
CONSTANTS
  NULL = NULL
  a1 = a1
  a2 = a2
  t1 = t1
  q1 = q1
  q2 = q2
  q3 = q3
  r1 = r1
  Agents = {a1}
  Targets = {t1}
  Risk <- MCRisk
  Assured = {t1}
  PresenceLimit = 2
  MaxGrantable = 1
  Policies <- AllPolicies
  Requests = {r1, r2}
  Handlers = {1}
  Admins = {d1, d2}
  GrantIds = {1, 2}
  MaxChanges = 4
  MaxRestarts = 0
  Calls = {q1, q2}
  Caller <- MCCaller
  Subject <- MCSubject
  Named <- MCNamed
  MaxDrops = 1
CONSTRAINT Scenarios
SYMMETRY AdminSymmetry
CHECK_DEADLOCK FALSE
INVARIANTS PolicySound RevokedNeverUsed OneLiveGrant OldPolicyRevoked
