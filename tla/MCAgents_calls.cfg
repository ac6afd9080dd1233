SPECIFICATION CallsSpec
CONSTANTS
  NULL = NULL
  a1 = a1
  a2 = a2
  t1 = t1
  q1 = q1
  q2 = q2
  q3 = q3
  r1 = r1
  Agents = {a1, a2}
  Targets = {t1}
  Risk <- MCRisk
  Assured = {t1}
  PresenceLimit = 2
  MaxGrantable = 1
  Policies <- NoDenial
  Requests = {r1}
  Handlers = {1, 2}
  Admins = {d1}
  GrantIds = {}
  MaxChanges = 0
  MaxRestarts = 1
  Calls = {q1, q3}
  Caller <- MCCaller
  Subject <- MCSubject
  Named <- MCNamed
  MaxDrops = 2
CHECK_DEADLOCK FALSE
INVARIANTS CallsTypeOK RetryMintsOnce AnswersOwn
PROPERTY CallsSettle
