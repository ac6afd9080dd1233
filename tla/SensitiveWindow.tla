-------------------------- MODULE SensitiveWindow --------------------------
(***************************************************************************)
(* The broker's side of one managed browser: its launch and shutdown, the  *)
(* sessions its extension registers and the sensitive windows of its       *)
(* CdpFilter.                                                              *)
(*                                                                         *)
(* The extension registers one session over each native port it opens, so  *)
(* a session is named by its port.  What Broker says of requests, rows and *)
(* the ledger is left out: an execution here starts as a capability that   *)
(* was minted for a session, a tab and the document it then showed.        *)
(***************************************************************************)
EXTENDS Naturals, FiniteSets, Sequences, BrowserIds

VARIABLES
  browser,     \* where the browser is between launch and shutdown
  windows,     \* active_sensitive_tabs of its filter
  sess,        \* sessions: port -> state
  exec,        \* id -> NULL or [sess, tab, doc, state, guarded]
  ticker,      \* expire_stale_sessions: its phase and the sessions it found stale
  lapsed       \* TRUE once a session has missed its heartbeats

windowVars == <<browser, windows, sess, exec, ticker, lapsed>>

BrowserStates == {"absent", "spawned", "managed", "removed", "dead"}
Alive == browser \in {"spawned", "managed", "removed"}
\* The browser is in managed_browsers: only then do handlers find its pipe and its filter.
Managed == browser = "managed"

ExecStates == {"offered", "taken", "revoked", "consumed", "retrieving", "running",
               "spoiled", "done"}
\* A capability and the execution that consumes it.
ActiveExecution == [sess : Ports, tab : Tabs, doc : Nat, state : ExecStates, guarded : BOOLEAN]
ASSUME ExecutionAssumption == NULL \notin ActiveExecution

\* In the executions map; the row of those in Open is still unfinished.
InMap(x) == exec[x] # NULL /\ exec[x].state \notin {"offered", "taken", "revoked"}
Open(x) == InMap(x) /\ exec[x].state # "done"

SetExec(x, st) == exec' = [exec EXCEPT ![x].state = st]

(***************************************************************************)
(* Launch and shutdown.  Chrome runs, with the extension loaded, before    *)
(* the browser is entered in the map; it leaves the map before the process *)
(* is killed, and its sessions end only when the kill succeeded.  A launch *)
(* that cannot list the extensions and a kill that fails leave the process *)
(* to itself: it then stays spawned, or removed, for good.                 *)
(***************************************************************************)
LaunchSpawn ==
  /\ browser = "absent"
  /\ browser' = "spawned"
  /\ UNCHANGED <<windows, sess, exec, ticker, lapsed>>

LaunchInsert ==
  /\ browser = "spawned"
  /\ browser' = "managed"
  /\ UNCHANGED <<windows, sess, exec, ticker, lapsed>>

LaunchFails ==
  /\ browser = "spawned"
  /\ browser' = "dead"
  /\ UNCHANGED <<windows, sess, exec, ticker, lapsed>>

CloseRemove ==
  /\ Managed
  /\ browser' = "removed"
  /\ UNCHANGED <<windows, sess, exec, ticker, lapsed>>

Shutdown ==
  /\ browser = "removed"
  /\ browser' = "dead"
  /\ sess' = [p \in Ports |-> IF sess[p] = "none" THEN "none" ELSE "terminated"]
  /\ UNCHANGED <<windows, exec, ticker, lapsed>>

(***************************************************************************)
(* Sessions.                                                               *)
(***************************************************************************)
RegisterSession(p) ==
  /\ sess[p] = "none"
  /\ sess' = [sess EXCEPT ![p] = "active"]
  /\ UNCHANGED <<browser, windows, exec, ticker, lapsed>>

\* Any known session becomes active, whatever it was.
Heartbeat(p) ==
  /\ sess[p] # "none"
  /\ sess' = [sess EXCEPT ![p] = "active"]
  /\ UNCHANGED <<browser, windows, exec, ticker, lapsed>>

MarkStale(S) ==
  /\ ticker.phase = "idle"
  /\ S # {} /\ \A p \in S : sess[p] = "active"
  /\ sess' = [p \in Ports |-> IF p \in S THEN "stale" ELSE sess[p]]
  /\ ticker' = [phase |-> "windows", found |-> S]
  /\ lapsed' = TRUE
  /\ UNCHANGED <<browser, windows, exec>>

\* exit_sensitive_window: the filter is found through the browser map.
Exit(T) == windows' = IF Managed THEN windows \ T ELSE windows

\* Every execution of a stale session leaves its window, the finished ones too.
ExpireWindows ==
  /\ ticker.phase = "windows"
  /\ Exit({exec[x].tab : x \in {y \in Execs : InMap(y) /\ exec[y].sess \in ticker.found}})
  /\ ticker' = [ticker EXCEPT !.phase = "offers"]
  /\ UNCHANGED <<browser, sess, exec, lapsed>>

RevokeOffers ==
  /\ ticker.phase = "offers"
  /\ exec' = [x \in Execs |->
        IF exec[x] # NULL /\ exec[x].sess \in ticker.found
             /\ exec[x].state \in {"offered", "taken"}
        THEN [exec[x] EXCEPT !.state = "revoked"] ELSE exec[x]]
  /\ ticker' = [phase |-> "idle", found |-> {}]
  /\ UNCHANGED <<browser, windows, sess, lapsed>>

(***************************************************************************)
(* Executions.  d is the document the executor measured, p the port the    *)
(* call came over: its session proof must be that of the capability's      *)
(* session.  Whether the session is still active is not asked.             *)
(***************************************************************************)
Offer(x, p, t, d) ==
  /\ exec[x] = NULL
  /\ sess[p] = "active"
  /\ exec' = [exec EXCEPT ![x] =
        [sess |-> p, tab |-> t, doc |-> d, state |-> "offered", guarded |-> FALSE]]
  /\ UNCHANGED <<browser, windows, sess, ticker, lapsed>>

NextOffer(p, x) ==
  /\ sess[p] = "active"
  /\ exec[x] # NULL /\ exec[x].sess = p /\ exec[x].state = "offered"
  /\ SetExec(x, "taken")
  /\ UNCHANGED <<browser, windows, sess, ticker, lapsed>>

MayConsume(x, p, d) ==
  exec[x].state = "taken" /\ exec[x].sess = p /\ exec[x].doc = d

AcceptConsume(x, p, d) ==
  /\ MayConsume(x, p, d)
  /\ SetExec(x, "consumed")
  /\ UNCHANGED <<browser, windows, sess, ticker, lapsed>>

\* Seeded fault: the window is entered under the id of the execution.
EnterWindowByExec(x) ==
  /\ exec[x] # NULL /\ exec[x].state = "consumed"
  /\ exec' = [exec EXCEPT ![x].state = "retrieving", ![x].guarded = Managed]
  /\ windows' = IF Managed THEN windows \cup {x} ELSE windows
  /\ UNCHANGED <<browser, sess, ticker, lapsed>>

\* SensitiveWindowGuard::enter, when the browser has a filter.
EnterWindow(x) ==
  /\ exec[x] # NULL /\ exec[x].state = "consumed"
  /\ exec' = [exec EXCEPT ![x].state = "retrieving", ![x].guarded = Managed]
  /\ windows' = IF Managed THEN windows \cup {exec[x].tab} ELSE windows
  /\ UNCHANGED <<browser, sess, ticker, lapsed>>

\* Seeded fault: the guard drops although the secret was handed out.
RetrieveDropsGuard(x) ==
  /\ exec[x] # NULL /\ exec[x].state = "retrieving"
  /\ SetExec(x, "running")
  /\ windows' = windows \ {exec[x].tab}
  /\ UNCHANGED <<browser, sess, ticker, lapsed>>

\* keep_open: the window outlives the handler and waits for the result.
RetrieveSucceeds(x) ==
  /\ exec[x] # NULL /\ exec[x].state = "retrieving"
  /\ SetExec(x, "running")
  /\ UNCHANGED <<browser, windows, sess, ticker, lapsed>>

\* The recipe is gone or the provider, the audit or the field plan failed: the guard, if
\* there is one, closes the window again.
RetrieveFails(x) ==
  /\ exec[x] # NULL /\ exec[x].state \in {"consumed", "retrieving"}
  /\ SetExec(x, "spoiled")
  /\ windows' = IF exec[x].guarded THEN windows \ {exec[x].tab} ELSE windows
  /\ UNCHANGED <<browser, sess, ticker, lapsed>>

\* executor.result: recorded; or not recorded and acknowledged all the same because the
\* page reported success; or not recorded and answered with an error, and then the window
\* stays.  Nothing is asked about the session the report came over.
ResultRecorded(x) ==
  /\ Open(x)
  /\ SetExec(x, "done")
  /\ Exit({exec[x].tab})
  /\ UNCHANGED <<browser, sess, ticker, lapsed>>

EvidenceLost(x, status) ==
  /\ InMap(x) /\ status = "completed"
  /\ SetExec(x, "done")
  /\ Exit({exec[x].tab})
  /\ UNCHANGED <<browser, sess, ticker, lapsed>>

(***************************************************************************)
(* Initial state and types.                                                *)
(***************************************************************************)
WindowInit ==
  /\ browser = "absent"
  /\ windows = {}
  /\ sess = [p \in Ports |-> "none"]
  /\ exec = [x \in Execs |-> NULL]
  /\ ticker = [phase |-> "idle", found |-> {}]
  /\ lapsed = FALSE

WindowTypeOK ==
  /\ browser \in BrowserStates
  /\ windows \subseteq Tabs
  /\ sess \in [Ports -> {"none", "active", "stale", "terminated"}]
  /\ exec \in [Execs -> ActiveExecution \cup {NULL}]
  /\ ticker \in [phase : {"idle", "windows", "offers"}, found : SUBSET Ports]
  /\ lapsed \in BOOLEAN
============================================================================
