# A TLA+ model of secretctl

secretctl lets an agent *use* a credential without holding it: the agent asks a
local daemon, `secretctld`, to act; the daemon checks its policy, may ask a human,
mints a single-use capability bound to one page of one managed browser, and hands
the secret to the browser's extension when that capability is consumed. Everything
it does goes into a hash-chained ledger. This directory models the parts of that
program whose correctness depends on the order in which things happen.

## 1. The system

| Component | State it keeps | Operations | What is hard | What makes it correct |
|---|---|---|---|---|
| Store (`secretctl-store`) | SQLite tables `approvals`, `capabilities`, `executions`, `totp_issuances`, `audit_events`; key tables | one immediate transaction per operation, guarded by its `WHERE` clause | many handlers race to the same row; recovery after a crash | a capability is used at most once, and the ledger agrees with the tables |
| Broker (`secretctld/src/state.rs`) | maps behind one lock each: requests, approvals, capabilities, offers, executions, OAuth executions, sessions, page contexts, policy | handlers of the agent, executor and admin sockets, and the ticker | no lock is held across a transaction and the write to memory after it; entries are cloned, used and written back; the process may die anywhere | what is released was requested, allowed, minted, consumed and recorded, once; revocation is not undone |
| Verifier (`secretctl-capability`) | none | `verify_and_consume_capability` | acts on a clone | a token serves only the page it was minted for |
| Audit ledger (`secretctl-audit`) and keys | the chain, signed checkpoints, trusted public keys, audit key versions; the keychain; the daemon's cursor | append, checkpoint at shutdown, provisioning at start, `secretctl keys rotate` | two programs, two tables and a keychain changed one write at a time | the ledger verifies at every moment and loses nothing below a checkpoint |
| Standing grants (`state.rs`, `ui.rs`, `repository.rs`) | `standing_grants` | create, supersede, match, expire, revoke, disable an agent | list-then-update revocation; a clock read early; requests in flight | a withdrawn grant authorizes nothing that comes later; one live grant per use |
| Policy (`secretctl-policy`) | the document and its hash | evaluate, risk level | replaced while requests are in flight | default deny, deny before allow; no capability of an old policy |
| Sensitive window (`secretctl-browser-gateway/src/cdp_filter.rs`) | the set of tabs in a window | enter, exit, filter a CDP command | entered by one handler, left by three others; a set, not a count | nothing is observable while a secret is in the page |
| Launcher and pipe (`launcher.rs`, `cdp_pipe.rs`) | the browser process, the map of managed browsers, one pipe to Chrome | launch, close, one command and its answer | Chrome runs before it is in the map and after it has left it; all callers read one pipe | an answer is taken only by the command it belongs to |
| DOM view and page calls (`dom_view.rs`, `state.rs`) | none; references the agents keep | read, snapshot, wait, click, type, select, navigate, tabs | the page changes between the view and the action, a window opens between the guard and the read | what is protected is not shown; nothing is read while a secret is in the page |
| OAuth (`oauth.rs`) | pending authorizations, token grants | start, callback, exchange, store, revoke | tokens in the keychain and a row in the table | a code is exchanged once, no token without a grant |
| Secure channel (`secretctl-crypto/src/channel.rs`) | record counters, keys | handshake, seal, open | replay and reordering | each record is accepted once, in order |
| Native host and extension (`bridge.rs`, `service_worker.js`, `executor.js`) | ports, session id, pending requests, one timer; nonces prepared in a page | relay; connect, poll, preflight, consume, fill, report | callbacks share globals; runs overlap; the worker is stopped at any time; the tab navigates | it fills only the document the capability names, and goes on polling |
| SDKs (`sdk/typescript`, `sdk/python`) | one connection, its age | connect, call, retry once | an answer that is lost after the request was served | a retry buys nothing twice, and a call returns |
| Providers, CLI, backup, desktop and macOS apps, MCP | none of the protocol's state | front ends and platform bindings | | |

Components meet in three ways. Clients call the broker over three Unix sockets; each
connection is served by a task of its own, so handlers interleave. The broker's
handlers share the maps and the store. `secretctl keys rotate` is another process,
which shares the database and the keychain with the daemon.

## 2. The modules

| Module | Models |
|---|---|
| `SingleUse` | the promise: a capability is minted once, used at most once while live, and never comes back |
| `CapabilityStore` | the store; one action per transaction |
| `Broker` | the broker, built on the actions of `CapabilityStore` |
| `AuditLedger` | the ledger, its keys, the daemon's start and stop, and key rotation |
| `SensitiveWindow` | the broker's side of one managed browser: launch and close, sessions, windows, executions |
| `Extension` | the service worker and the content script, with the relay of the native host |
| `BrowserPath` | the two together, from the launch to the report of a result |
| `PageView` | the projection of a page and its locators, as operators, with a reference definition |
| `PageCalls` | agents' `browser.*` and `page.*` calls through the shared pipe, over `SensitiveWindow` and `PageView` |
| `PolicyRules` | policy evaluation and risk, as operators, with a reference definition |
| `Authority` | request intake and idempotency, policy, standing grants and their administration |
| `AgentCalls` | the client libraries, their connections and retries, over `Authority` |
| `BrowserIds` | the identifiers `SensitiveWindow` and `Extension` have in common |
| `StoreProofs` | theorems about the store: types, single release, ledger and rows, refinement of `SingleUse` |
| `BrokerProofs` | theorems about the broker: it uses the store by its transactions; its memory against the rows |
| `BrokerReleaseProofs` | theorems about the broker's releases and the events behind them |
| `LedgerProofs` | theorems about the ledger over any number of restarts, crashes and rotations |
| `PathProofs` | theorems about the browser path |
| `PageProofs` | theorems about agents' page calls and about the view |
| `AgentProofs` | theorems about policy, grants, intake and retries |
| `ProofLemmas` | facts about numbers and sequences that several of them use |
| `MCStore`, `MCBroker`, `MCBrowser`, `MCPages`, `MCAgents` | the bounds and symmetries of the runs |

**CapabilityStore.** A table is a function from ids to rows or `NULL`. The guard of
an action is the `WHERE` clause of its transaction, so a disabled action is the
`StateConflict` the callers see, and the audit event is part of the step because it
is part of the transaction. The ledger is the sequence of events, each reduced to
its type, request and capability; `capability.minted` carries its decision. The
module says nothing about who calls which transaction when: what holds of it holds
whatever the broker does.

**Broker.** `task[x]` says what handler `x` is doing. A handler's step is one
transaction, or one critical section with the local computation after it. So
`handle_executor_consume` is `BeginConsume` (clone and verify), `ConsumeDb`,
`ConsumeMem` and `Retrieve`, with `ConsumeRejected` and `RetrieveFails` for its error
paths; `decide_approval_at` is `BeginDecide`, `DecideDb`, `DecideMem` and either
`DecideReq` or the three steps of `mint_authorized_capability`. Where a handler holds
one lock while it takes another (`handle_action_cancel`) the action is one step.
`Restart` is a crash between any two steps followed by a start: memory is emptied and
`Recover` has run before anything is served. Two critical sections of the mint, the
insertion of the entry and of its offer, are one step: the only steps that could come
between them revoke the entry, and they commute with the offer. One browser session
and one credential are modelled; a page is its navigation epoch; clocks are reduced
to what they decide (an approval becomes due once and stays so; freshness of a
context, and a capability's deadline, may fail whenever they are tested).

**AuditLedger.** Keys are numbers handed out in order. A MAC is the tuple of what it
covers, a signature names its key: they agree exactly when real ones would, unless
HMAC-SHA-256 or Ed25519 is broken. The daemon's start is five steps, the rotation
eight, and each may be the last one taken. A keychain lookup that fails counts as an
absent key, as it does in `main`. By the runbook the daemon is not started while a
rotation runs. `mishaps` records interrupted rotations and failed lookups.

**SensitiveWindow, Extension, BrowserPath.** A session is named by the native port it
was registered over. `browser` follows the process through the launcher and the map
of managed browsers: handlers find the pipe and the filter only in between
(`Managed`), while Chrome and its extension run before and after. The window is
entered by `EnterWindow` in the consume handler, kept open by `RetrieveSucceeds`
(`keep_open`) and left by `RetrieveFails`, by a result or by the ticker. In the
extension a step is one run of a callback up to its next `await`; `loops` are the runs
of `pollExecution` that may overlap after a reconnect, and `wire[p]` is what was sent
over port `p` and not answered, whose head the lock-step bridge has in hand. A consume
that has left its queue because the port was lost is still finished by its handler.
A document is a number per tab; a nonce is known to the document that prepared it.
Not in the model: OAuth offers, the envelope encryption, and the contents of fields.

**PageView, PageCalls.** A document is a sequence of nodes in document order, each
with its tag, its role, its own protection, its label and its text; the walker's
inherited protection is a recursive function over parents. A reference is a position
among the interactable elements and a `Digest` of tag, role and `Fold`ed name; names may
fold to one another and digests may collide, as three bytes of SHA-256 do. A call is the
fixed series of commands its handler sends (`Script`), each written, run by Chrome and
read back as steps of their own, with the page changing at any time. What the handler
keeps of the page is `saw`, and `Told` is the text of its answer: the view of the whole
page, or, for `page.read_text` at a locator, of the subtree below the element found
(`SubtreeText`, a walk that starts there and knows nothing of the elements above).
`guard_observation` is part of beginning a call, and of every round of `page.wait_for`;
no `page.*` call uses a method the filter would refuse inside a window, so nothing else
stands between a call that was admitted and the page. Ids come from one counter; a caller
reads frames until it meets its own id and drops those of others. A command may fail, and
an answer that shows the page may be a frame too long or unreadable: it fails whichever
caller reads it, whose own answer is then still on its way. "navigate" stands for navigate
and reload, "history" for back and forward, "tabs" for listing, opening and closing; a
click is one mouse command and a selection one key. Chrome's events are left out. The
sessions of this module keep up their heartbeats, the browser starts managed, and
executions follow one another, as the single poll loop makes them.

**PolicyRules, Authority, AgentCalls.** A target is a credential, an action, a
destination and an assurance together, so that a rule is a set of agents and a set of
targets. `handle_action_request` is one step per lock it takes: the fingerprint, the
agent, the state, the evaluation, the grant, the mint or the approval, and the waiting.
A decision is one step here; its steps, and what becomes of a capability, are
`Broker`'s. `dead` keeps, with a request, the grants that were dead when it arrived.
`RequestFails` may happen at each point where the handler can return an error. `Mint`
is the write of the capability to memory. Each connection of the local interface is a
task of its own (`admin[d]`): a revocation lists the grants and then updates those it
listed, and a replacement of the policy is `RevokeRows`, `SwapEvaluator` and
`SweepMemory`, with requests and other administrators in between. `late` marks a
capability that was evaluated under a policy whose replacement was over when it was
minted.
The library is what the TypeScript and the Python client have in common: one call at
a time, a connection replaced after nine minutes, one retry over a new connection when
the transport fails, none during a handshake. Handlers and grants are numbered and the
lowest free number is taken, which only names them. Left out: the record counters of
the channel, the cancellation of a Python task, and the TypeScript client's habit of
taking any error whose message contains "read" for a failed transport.

The definitions marked *Seeded fault* stand next to the definition they distort. No
specification uses them: each shows, when put in that definition's place, that the
property named with it in `PROJECT.json` can fail.

## 3. What is checked

| Run | Instance | Shows |
|---|---|---|
| `store` | 2 capabilities, executions, policies, TOTP steps; 5 events | `SingleRelease`, `LedgerAgrees`, `RevokedNeverExecuted` and the refinement of `SingleUse`, for every order of transactions |
| `approve` | 1 request, 1 approval, 2 capabilities, 2 administrators, ticker, 1 navigation, 1 restart (505,540 states) | one mint per submission, each with its own recorded approval; nothing open without an owner; every pending approval is decided |
| `revoke` | 2 requests, 2 capabilities, 2 executors, 1 administrator, 1 policy reload, 1 stale session, 1 restart; fills, OAuth callbacks and TOTP codes | at most one release, none after a recorded revocation, in-memory revocation sticks, results agree with rows, no TOTP code is released twice |
| `ledger` | 3 events, 3 key versions, 7 keys | the chain always verifies; checkpoints pin; with no mishap everything ever signed verifies |
| `browser` | 2 ports, 2 executions on 1 tab, 2 overlapping runs, 2 documents | a secret is only in the document its capability names; it is there only under its window while the connection is undisturbed; a connected extension polls |
| `pages` | 2 callers, 1 execution, 2 documents, 6 commands (2.5 million states) | a read beside a secret was admitted before the window opened; an answer is taken only by its own command; an answer holds hidden text only when it was asked for from within |
| `grants` | 1 agent, 2 calls, 2 requests, 2 administrators, 2 grants, 3 policies, 4 changes; 1 lost or renewed connection (1.4 million states) | the policy is sound against its reference; withdrawn grants authorize nothing later; one live grant; a replaced policy leaves no capability but those minted late |
| `calls` | 2 agents with the same request id, 2 connections, 2 losses, 1 restart | one capability per request id and life; answers are the caller's own; every call returns |

Two of each thing is where races between handlers of one kind begin, and two
capabilities are what a request can have around one restart. A configuration's
`Scenarios`, a constraint on its states, keep apart what is checked apart: `revoke` is the
union of one fill or sign-in with everything that can be done to it (`OneUse`), the codes
of two requests around a change of time step (`TwoCodes`), and what a restart at any point
of either leaves behind (`Recovered`). Seven keys
are enough for a first start, two complete rotations and one more key. Two ports are
a loss and a reconnection, two runs the overlap that follows; two documents tell the
one that was measured from the one that came after. The two documents of `pages`
differ by a button put before the protected group, spelled `OK` where its namesake is
`ok` and with a protected part of its own, and all buttons share a digest; a snapshot
shows one element and a locator sees three, so both limits cut. Six commands are the
longest call, or a call beside another; executions run beside observing calls only, since
no other looks at their windows, and the second caller only waits. In `grants` four
changes are a creation, a supersession or expiry, a revocation, and a replacement of the
policy in between; a connection is lost only beside one change at most. In `calls` two
losses are the retry and its failure.
`CHECK_DEADLOCK FALSE` is set everywhere, because the bounds end every behaviour and
the system itself may rest.

**Fairness.** Only `approve` and `calls` assume any. In `approve`, a handler that has started a
decision finishes it (weak fairness of its steps: it runs on its own task and holds no lock while it
waits). An approval's expiry comes. The ticker comes round every second and looks at
every overdue approval (`server.rs:142-154`); it is strongly fair because
administrators may keep snatching the row, and because a store that fails it once is
assumed not to fail it every time. Nothing is assumed of administrators, agents,
browsers or restarts. In `calls`, the steps of a client library and of the task that
serves a connection are weakly fair: they are callbacks and tasks the runtimes do run,
and the handler's waiting ends at a deadline of its own (`timeout_ms`). No fairness is
assumed of the person who decides, of enrollment or of the connection.

### Where the code departs from what is said of it

Four runs expect a violation.

* `cancel` — the agent cancels while an approval is pending and is told so; the
  approval is still there, and approving it issues a capability for the cancelled
  request.
* `rotation_atomic` — the operations guide calls key rotation atomic; cut short after
  the old key is retired, the next daemon registers the new key as `broker-key-v1`
  over the old public key, and earlier checkpoints no longer verify.
* `observation` — "Observation APIs are globally blocked for this managed browser from
  immediately before provider retrieval until the executor reports a terminal result"
  (`state.rs:2882`); `guard_observation` is asked when a call begins, and Chrome may run
  the commands of a call that was let through after the window has opened.
  `AdmittedBefore` is what is left: such a call was admitted before the window opened.
* `read_at` — protected subtrees are "elided before anything is serialized"
  (`dom_view.rs:3-7`, and the test's comment at 634-635); `page.read_text` at a locator
  starts its walk at the element with `visit(node, false)`, so an element inside a
  protected one gives its text. `ElidedOutside` is what is left: only then.

Others were met while translating the code and are visible in one definition each:

* The README promises that every consumption is chained; the OAuth path consumes with
  a bare `UPDATE` (`ConsumeOAuthCapability` appends no event).
* The runbook rotates right after `secretctl stop`; the socket file survives the stop
  and rotation refuses to run (the guard of `StartRotation`).
* "A field the projection refuses to name must also be a field the agent cannot type
  into" (`dom_view.rs:527`); typing asks only for the field's own attributes, while the
  projection also inherits protection from the elements around it (`NodeIsProtected`
  and `Protection`).
* "A reference that no longer names the same element is rejected instead of followed"
  (`dom_view.rs:481`); it holds a digest of tag, role and folded name, so a namesake put
  in the same position is followed (`ResolveReference`).
* A caller drops the answers of the others from the pipe; one whose answer was dropped
  waits for a frame that will not come (`ReadFrame`; the code has no time limit there).
* A capability evaluated before a replacement of the policy and minted after its sweep of
  the memory stays usable (`late`), although the replacement revokes those of other
  policies.
* Revocation lists the live grants and updates those it listed; a grant created in
  between stays live (`ListGrants`).
* The macOS app says of a disabled agent that it "will no longer be able to request
  credential operations" (`ManageWindow.swift:227`); `ui_disable_agent` revokes grants
  and capabilities and leaves the enrollment (`WithdrawCapabilities`).
* `authenticate` without a request id lets the broker pick one for each attempt, so a
  retry after a lost answer is a new request; `RetryMintsOnce` speaks of request ids.

## 4. What is proved

For every choice of the constants, with TLAPS:

* `StoreTypeCorrect`, `StoreSingleRelease`: the inductive invariant `StoreInv` adds to
  the types and `SingleRelease` that an executed capability's row is consumed
  (`ExecutedIsConsumed`). Without it a consume could meet a live row that already has
  an execution.
* `StoreLedgerAgrees`, `StoreRevocationFinal`: `LedgerInv` puts agreement and
  finality of revocation next to `StoreInv`. They need each other: a recorded
  revocation makes a row `revoked`, which no consume accepts. `EventsAppended` says
  what one more event does to the sets of events; `LedgerFrame` disposes of all
  transactions that add no relevant event.
* `StoreImplementsSingleUse`: every transaction is a step of `SingleUse` or leaves all
  stages alone.
* `BrokerUsesStore`: `BrokerSpec => StoreSpec`. Every step of a handler, of the
  ticker, of the environment and a restart is one transaction or none. Hence
  `BrokerSingleRelease` and `BrokerKeepsPromise`: whatever handlers do with their
  clones in memory, the rows decide.
* `BrokerTypeCorrect`, from `TypeInv`, which says what a handler carries at each point
  of its code. `BrokerNoOrphanRows`, `BrokerResultsAgree`, `BrokerTotpCodeOnce` and the
  action property `BrokerRevocationSticks` follow from `MemoryInv`, which ties the maps
  in memory and the handlers in flight to the rows: who has the row of an approval or a
  capability in hand, and how far behind the memory may be.
* `BrokerReleaseOnce` (`ReleaseInv`: of the handlers that may still release a
  capability there is one, and nothing was released before it); `BrokerReleaseTraced`
  and `BrokerOneMintPerSubmission` (`TraceInv`: which events are on record at each
  point of a handler, and that an approval pays for one minting only). They need
  `MemoryInv`, because a handler acts on the clone it took earlier.
* `LedgerTypeCorrect`, `LedgerChainVerifies`, `LedgerCheckpointsPin`: `ChainInv` adds to
  the properties what a daemon and a rotation know of the keys at each of their steps
  and that the head a daemon starts from is the last event. `LedgerUncutRotationsVerify`
  rests on `CleanInv`: as long as no rotation was cut short and no lookup in the keychain
  failed, one key signs, it is the one in the keychain but for the moment a rotation
  replaces it, and every checkpoint verifies under the key it names (`SignatureInv`).
* `AgentInvariant` is one invariant in six parts, for any number of agents, grants,
  handlers and calls: what a handler carries (`AuthInv`), grants and their rows
  (`GrantInv`), under which policy a capability was authorised (`PolicyInv`: the one in
  force, unless a replacement has yet to sweep the memory or it was minted late; the sweep
  carries the policy it was started for, because another may be put in force before it
  runs), who holds
  a request id (`IntakeInv`), which call a connection serves (`LinkInv`) and what a
  caller was answered (`AnsweredInv`). From it `AgentOneLiveGrant`,
  `AgentRevokedNeverUsed`, `AgentOldPolicyRevoked`, `AgentRetryMintsOnce`,
  `AgentAnswersOwn`, `AgentCallsTyped` and, with `EvaluateExact`, `AgentPolicySound`.
* `EvaluateExact`: for a policy of any length, the scan of its rules agrees with the
  reference definition. The scan is a recursive function; the proof shows that its
  equation has a solution and then that no rule is the first after which the scan and
  the reference part. This takes the place of the library's induction theorems, which
  the installed provers cannot instantiate.
* `PathTypeCorrect`, `PathFilledWhereGranted`, `PathKeepsPolling` and
  `PathWindowCovers`. `PathInv` holds always: a run with an offer, and a request on its
  way, know the capability they are about. `CoverInv` holds as long as the first
  connection does, as `WindowCovers` says: one run at most, a request somebody waits
  for is last in its queue (`InTurn`), an execution being consumed is at its head
  (`Served`), and a run that has a secret has its tab in the window (`Covered`). It is
  needed because all executions share one set of tabs: a handler of another execution
  that left a window late would open it, and `Served` excludes that there is one.
  A step is split into the broker's part (`WindowStep`) and the extension's (`ExtStep`).
* `PagesTypeCorrect`, `PagesAnswersFit`, `PagesAdmittedBefore`, `PagesElidedOutside`:
  `PageInv` says that ids are below the counter and no two callers wait for the same one
  (`CallsInv`); that an id is in the pipe once, and an entry with an awaited id is about
  the call as it is (`PipeInv`), while answers left behind by a caller that failed may be
  anything; and of executions that they run one at a time and that the one with a secret
  is behind its window (`ShieldInv`), so that those a call was admitted beside are over and
  stay so (`UnderInv`).
* `ViewExact`: for a document of any size and depth, the view of the whole page holds
  nothing that lies in a protected or a non-content element, neither as text nor in a
  name, and all text in the open when it fits the limit. `PagesElidedOutside` needs the
  first half, for the document a call saw, and the same of a walk that starts at an
  element. Each of the recursive functions of `PageView` is shown to solve its equation
  and to agree with the chain of elements above a node, from the first node (protection,
  visits) or from the last (the text below an element).

Every safety invariant, every action property and the refinement that a passing run
checks is a theorem.

The assumptions, all evaluated by TLC in the runs, are of three kinds. `NULL` and the
special events are no ids, rows or types of others (`NullAssumption`,
`LooseAssumption`, `EntriesAssumption`, `IdsAssumption`, `ExecutionAssumption`). The
bounds are numbers and the sets of inputs are among what the code accepts
(`BrokerAssumption`, `LedgerAssumption`, `AuthorityAssumption`, `CallsAssumption`,
`RiskAssumption`, `ExtensionAssumption`, `PagesAssumption`; the last also says that in a
document parents come before their children). And `PagesElidedOutside` alone needs
`DocumentsAssumption`: no text stands both in a protected element and in the open, where
it would rightly be shown.

Only model-checked: `PendingDecided` and `CallsSettle`, because liveness under fairness
is out of the prover's reach, and the four runs that expect a violation.

## 5. What is not modelled, and the plan

Not modelled, and not planned: cryptography and token encodings (taken as sound), byte
framing and the launcher's files and flags, the filter's lists of methods and its
redaction of event payloads, strict JSON, user interfaces, the MCP server, installers
and packaging.

Planned, in this order:

1. `OAuthGrants` — tokens in the keychain and rows in the table; OAuth offers in the
   extension.
2. `SecureChannel` — record counters at both ends.
3. Backup and restore, and the daemon's own integrity check, in `AuditLedger`.
4. TOTP steps and their margin as operators against a reference.
