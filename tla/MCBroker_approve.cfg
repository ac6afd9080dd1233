SPECIFICATION FairBrokerSpec
CONSTANTS
  Requests = {r1}
  Approvals = {a1}
  Caps = {c1, c2}
  Execs = {e1}
  Policies = {p1}
  TotpSteps = {1}
  LooseEvents = {"action.requested", "policy.evaluated", "approval.auto_granted",
    "secret.retrieve_succeeded", "browser.registered", "browser.stale",
    "oauth.token_stored", "oauth.callback_failed"}
  NULL = NULL
  Actions = {"fill"}
  Paths = {"presence", "grant"}
  Statuses = {"completed", "failed"}
  Admins = {adm, ui}
  Executors = {}
  Ticker = ticker
  MaxNavigations = 1
  MaxRestarts = 1
  MaxReloads = 0
  MaxStale = 0
CHECK_DEADLOCK FALSE
INVARIANTS
  BrokerTypeOK
  ReleaseTraced
  NoOrphanRows
  OneMintPerSubmission
PROPERTY
  PendingDecided
