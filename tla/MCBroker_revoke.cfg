SPECIFICATION BrokerSpec
CONSTANTS
  Requests = {r1, r2}
  Approvals = {}
  Caps = {c1, c2}
  Execs = {e1, e2}
  Policies = {p1, p2}
  TotpSteps = {1, 2}
  LooseEvents = {"action.requested", "policy.evaluated", "approval.auto_granted",
    "secret.retrieve_succeeded", "browser.registered", "browser.stale",
    "oauth.token_stored", "oauth.callback_failed"}
  NULL = NULL
  Actions = {"fill", "oauth", "totp"}
  Paths = {"auto"}
  Statuses = {"completed", "failed"}
  Admins = {adm}
  Executors = {x1, x2}
  Ticker = ticker
  MaxNavigations = 0
  MaxRestarts = 1
  MaxReloads = 1
  MaxStale = 1
SYMMETRY BrokerSymmetry
CONSTRAINT Scenarios
CHECK_DEADLOCK FALSE
INVARIANTS
  ReleaseTraced
  ReleaseOnce
  NoOrphanRows
  ResultsAgree
  TotpCodeOnce
PROPERTY
  RevocationSticks
