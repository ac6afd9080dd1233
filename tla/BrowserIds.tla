---------------------------- MODULE BrowserIds -----------------------------
(* The identifiers the broker, the extension and the pages of one managed  *)
(* browser have in common.                                                 *)
CONSTANTS
  Ports,       \* native ports of the extension, and the sessions registered over them
  Tabs,
  Execs,       \* capabilities and the executions that consume them
  NULL

ASSUME IdsAssumption == NULL \notin Ports \cup Tabs \cup Execs
============================================================================
