------------------------------- MODULE Broker -------------------------------
(***************************************************************************)
(* secretctld's BrokerState: the maps it keeps in memory, each behind its  *)
(* own lock, and the handlers of the agent, executor and admin sockets and *)
(* of the one-second ticker that run concurrently over them.  A handler    *)
(* holds no lock across a store transaction and the write to memory that   *)
(* follows it, so every such gap is a step of its own here: an action is   *)
(* one transaction, or one critical section together with the local        *)
(* computation after it.  The durable half is CapabilityStore.             *)
(*                                                                         *)
(* One managed browser session and one credential are modelled.  The data  *)
(* a handler carries is reduced to the request, the action kind, the       *)
(* policy hash and the navigation epoch the authorization is bound to.     *)
(* Clocks are reduced to what they decide: an approval becomes due once    *)
(* and for good; the two-second freshness of a page context and the        *)
(* consume deadline of a capability may fail whenever they are tested.     *)
(***************************************************************************)
EXTENDS CapabilityStore

CONSTANTS
  Actions,         \* kinds of action the requests ask for, a subset of ActionKinds
  Paths,           \* outcomes of policy evaluation the policies can give
  Statuses,        \* results the executors report, a subset of {"completed", "failed"}
  Admins,          \* concurrent handlers of the admin socket and the local UI
  Executors,       \* concurrent handlers of the executor socket
  Ticker,          \* the ticker task
  MaxNavigations, MaxRestarts, MaxReloads, MaxStale   \* bounds on the environment

VARIABLES
  reqState,        \* requests: id -> state
  memAppr,         \* approvals: id -> NULL or the authorization waiting for a decision
  memCap,          \* capabilities: id -> NULL or [auth, state]
  offers,          \* pending_offers of the session
  memExec,         \* executions: id -> NULL or [cap, req, state]
  policy,          \* hash of the policy in policy_evaluator
  pendingOAuth,    \* keys of oauth_executions
  task,            \* what each handler is doing
  session,         \* state of the browser session
  ctx,             \* epoch of the page context last reported, NULL before the first
  epoch,           \* navigation epoch of the browser itself
  due,             \* approvals whose expires_at has passed
  totpStep,        \* current time step
  tokens,          \* capabilities whose token reached the browser
  released,        \* [exec, cap, step] of every secret handed to the executor
  restarts

memVars == <<reqState, memAppr, memCap, offers, memExec, policy, pendingOAuth>>
envVars == <<session, ctx, epoch, due, totpStep, tokens, released, restarts>>
brokerVars == <<storeVars, memVars, task, envVars>>

ActionKinds == {"fill", "totp", "oauth"}
Handlers == Requests \cup Admins \cup Executors \cup {Ticker}
Deciders == Admins \cup {Ticker}

BrokerEvents == {"action.requested", "policy.evaluated", "approval.auto_granted",
  "secret.retrieve_succeeded", "browser.registered", "browser.stale",
  "oauth.token_stored", "oauth.callback_failed"}

ASSUME BrokerAssumption ==
  /\ Actions \subseteq ActionKinds
  /\ Paths \subseteq {"auto", "grant", "presence"}
  /\ Statuses \subseteq {"completed", "failed"}
  /\ BrokerEvents \subseteq LooseEvents
  /\ TotpSteps \subseteq Nat

Auth == [req : Requests, action : Actions, policy : Policies \cup {NULL}, epoch : Nat \cup {NULL}]

MemExecStates == ExecStates \cup {"completed_evidence_lost"}
CapabilityEntry == [auth : Auth, state : {"issued", "consumed", "revoked"}]
ActiveExecution == [cap : Caps, req : Requests, state : MemExecStates]

\* No entry of a map is the value of an absent one.
ASSUME EntriesAssumption == NULL \notin Auth \cup CapabilityEntry \cup ActiveExecution

Idle == [pc |-> "idle", auth |-> NULL, appr |-> NULL, out |-> NULL,
         cap |-> NULL, exec |-> NULL, step |-> NULL]

Goto(x, pc) == task' = [task EXCEPT ![x].pc = pc]
Done(x) == task' = [task EXCEPT ![x] = Idle]
At(x, pc) == task[x].pc = pc

TerminalReq == {"completed", "denied", "expired", "cancelled", "indeterminate",
                "completed_evidence_lost", "revoked", "failed"}

SetReq(r, st) == reqState' = [reqState EXCEPT ![r] = st]

Usable(c) == memCap[c] # NULL /\ memCap[c].state = "issued"

\* The live in-memory capabilities of S become revoked; the others keep their state.
MemRevoke(S) ==
  memCap' = [c \in Caps |-> IF c \in S /\ Usable(c)
                            THEN [memCap[c] EXCEPT !.state = "revoked"] ELSE memCap[c]]

Happened(t) == Cardinality({i \in DOMAIN ledger : ledger[i].type = t})

(***************************************************************************)
(* action.request: handle_action_request and handle_new_action_request.    *)
(* A repeated request id returns the stored answer and changes nothing.    *)
(***************************************************************************)
Submit(r, k) ==
  /\ reqState[r] = "none"
  /\ At(r, "idle")
  /\ SetReq(r, "requested")
  /\ task' = [task EXCEPT ![r] = [Idle EXCEPT !.pc = "submitted",
        !.auth = [req |-> r, action |-> k, policy |-> NULL, epoch |-> NULL]]]
  /\ UNCHANGED <<storeVars, memAppr, memCap, offers, memExec, policy, pendingOAuth, envVars>>

RecordRequested(r) ==
  /\ At(r, "submitted")
  /\ RecordEvent("action.requested", r, NULL)
  /\ Goto(r, "session")
  /\ UNCHANGED <<memVars, envVars>>

ValidateSession(r) ==
  /\ At(r, "session")
  /\ session = "active"
  /\ Goto(r, "context")
  /\ UNCHANGED <<storeVars, memVars, envVars>>

MeasureContext(r) ==
  /\ At(r, "context")
  /\ ctx # NULL
  /\ task' = [task EXCEPT ![r].auth.epoch = ctx, ![r].pc = "evaluate"]
  /\ UNCHANGED <<storeVars, memVars, envVars>>

\* Allowed outright, allowed subject to user presence with a standing grant in force, or
\* allowed subject to user presence without one.
EvaluatePolicy(r, path) ==
  /\ At(r, "evaluate")
  /\ task' = [task EXCEPT ![r].auth.policy = policy,
                          ![r].pc = CASE path = "auto" -> "mint"
                                      [] path = "grant" -> "granted"
                                      [] path = "presence" -> "ask"]
  /\ UNCHANGED <<storeVars, memVars, envVars>>

PolicyDenies(r) ==
  /\ At(r, "evaluate")
  /\ RecordEvent("policy.evaluated", r, NULL)
  /\ Goto(r, "failing")
  /\ UNCHANGED <<memVars, envVars>>

RecordGranted(r) ==
  /\ At(r, "granted")
  /\ RecordEvent("approval.auto_granted", r, NULL)
  /\ Goto(r, "mint")
  /\ UNCHANGED <<memVars, envVars>>

AskDb(r) ==
  /\ At(r, "ask")
  /\ \E a \in Approvals :
        /\ InsertApproval(a, r)
        /\ task' = [task EXCEPT ![r].appr = a, ![r].pc = "askMem"]
  /\ UNCHANGED <<memVars, envVars>>

AskMem(r) ==
  /\ At(r, "askMem")
  /\ memAppr' = [memAppr EXCEPT ![task[r].appr] = task[r].auth]
  /\ Goto(r, "askReq")
  /\ UNCHANGED <<storeVars, reqState, memCap, offers, memExec, policy, pendingOAuth, envVars>>

\* The answer is written after the approval is visible to deciders.
AskReq(r) ==
  /\ At(r, "askReq")
  /\ SetReq(r, "awaiting_approval")
  /\ Done(r)
  /\ UNCHANGED <<storeVars, memAppr, memCap, offers, memExec, policy, pendingOAuth, envVars>>

\* Any validation that rejects, and any store error, marks the request failed.
RequestFails(r) ==
  /\ task[r].pc \in {"submitted", "session", "context", "evaluate", "failing",
                     "granted", "ask", "mint"}
  /\ SetReq(r, "failed")
  /\ Done(r)
  /\ UNCHANGED <<storeVars, memAppr, memCap, offers, memExec, policy, pendingOAuth, envVars>>

(***************************************************************************)
(* mint_authorized_capability, run by a request handler or by a decider.   *)
(***************************************************************************)
MintKind(x) == IF task[x].appr # NULL THEN "capability.minted:user_approved"
                                      ELSE "capability.minted:auto_approved"

MintDb(x) ==
  /\ At(x, "mint")
  /\ \E c \in Caps, r \in Requests, p \in Policies, t \in MintEvents :
        /\ r = task[x].auth.req
        /\ p = task[x].auth.policy
        /\ t = MintKind(x)
        /\ InsertCapability(c, r, p, t)
        /\ task' = [task EXCEPT ![x].cap = c, ![x].pc = "mintMem"]
  /\ UNCHANGED <<memVars, envVars>>

\* The entry is stored and its offer queued; nobody can name the capability in between.
MintMem(x) ==
  /\ At(x, "mintMem")
  /\ memCap' = [memCap EXCEPT ![task[x].cap] = [auth |-> task[x].auth, state |-> "issued"]]
  /\ offers' = Append(offers, task[x].cap)
  /\ Goto(x, "mintReq")
  /\ UNCHANGED <<storeVars, reqState, memAppr, memExec, policy, pendingOAuth, envVars>>

MintReq(x) ==
  /\ At(x, "mintReq")
  /\ SetReq(task[x].auth.req, "capability_issued")
  /\ Done(x)
  /\ UNCHANGED <<storeVars, memAppr, memCap, offers, memExec, policy, pendingOAuth, envVars>>

(***************************************************************************)
(* decide_approval_at, run for an administrator or by the ticker for an    *)
(* approval that is overdue.                                               *)
(***************************************************************************)
Votes == {"approve", "deny", "outdated"}

\* A denial stands for one without verified presence too; an outdated vote quotes another
\* context digest, or comes when the page context is not fresh.
Outcome(a, vote) ==
  IF a \in due THEN "expired"
  ELSE IF vote = "outdated" \/ ctx # memAppr[a].epoch THEN "invalidated"
  ELSE IF vote = "approve" THEN "approved" ELSE "denied"

BeginDecide(d, a, vote) ==
  /\ At(d, "idle")
  /\ memAppr[a] # NULL
  /\ d = Ticker => a \in due /\ vote = "deny"
  /\ task' = [task EXCEPT ![d] = [Idle EXCEPT !.pc = "decide", !.appr = a,
                 !.auth = memAppr[a], !.out = Outcome(a, vote)]]
  /\ UNCHANGED <<storeVars, memVars, envVars>>

DecideDb(d) ==
  /\ At(d, "decide")
  /\ \E a \in Approvals, o \in Decisions :
        a = task[d].appr /\ o = task[d].out /\ UpdateApproval(a, o)
  /\ Goto(d, "decideMem")
  /\ UNCHANGED <<memVars, envVars>>

\* Seeded fault: the decided approval stays in the map.
DecideKeeps(d) ==
  /\ At(d, "decideMem")
  /\ Goto(d, IF task[d].out = "approved" THEN "mint" ELSE "decideReq")
  /\ UNCHANGED <<storeVars, memVars, envVars>>

DecideMem(d) ==
  /\ At(d, "decideMem")
  /\ memAppr' = [memAppr EXCEPT ![task[d].appr] = NULL]
  /\ Goto(d, IF task[d].out = "approved" THEN "mint" ELSE "decideReq")
  /\ UNCHANGED <<storeVars, reqState, memCap, offers, memExec, policy, pendingOAuth, envVars>>

\* Seeded fault: the decision is stored as the request's state.
DecideVerbatim(d) ==
  /\ At(d, "decideReq")
  /\ SetReq(task[d].auth.req, task[d].out)
  /\ Done(d)
  /\ UNCHANGED <<storeVars, memAppr, memCap, offers, memExec, policy, pendingOAuth, envVars>>

DecideReq(d) ==
  /\ At(d, "decideReq")
  /\ SetReq(task[d].auth.req, IF task[d].out = "expired" THEN "expired" ELSE "denied")
  /\ Done(d)
  /\ UNCHANGED <<storeVars, memAppr, memCap, offers, memExec, policy, pendingOAuth, envVars>>

\* Seeded fault: the StateConflict of the update is ignored.
DecideAnyway(d) ==
  /\ At(d, "decide")
  /\ Goto(d, "decideMem")
  /\ UNCHANGED <<storeVars, memVars, envVars>>

\* The approval row was no longer pending, or the store failed: nothing is undone, and
\* nothing tells the request.
DecideFails(d) ==
  /\ task[d].pc \in {"decide", "mint"}
  /\ Done(d)
  /\ UNCHANGED <<storeVars, memVars, envVars>>

(***************************************************************************)
(* execution.next and executor.consume.                                    *)
(***************************************************************************)
Fates == {"delivered", "lost", "lapsed"}

\* One turn of the loop of handle_execution_next.  A head that is dead or past its
\* deadline is skipped; a good one is handed out once, and is gone from the queue even
\* when the answer never reaches the browser.
Poll(x, fate) ==
  /\ At(x, "idle")
  /\ session = "active"
  /\ offers # << >>
  /\ offers' = Tail(offers)
  /\ LET c == Head(offers) IN
     IF Usable(c) /\ fate # "lapsed"
     THEN /\ tokens' = IF fate = "delivered" THEN tokens \cup {c} ELSE tokens
          /\ pendingOAuth' = IF memCap[c].auth.action = "oauth"
                             THEN pendingOAuth \cup {c} ELSE pendingOAuth
     ELSE UNCHANGED <<tokens, pendingOAuth>>
  /\ UNCHANGED <<storeVars, reqState, memAppr, memCap, memExec, policy, task,
                 session, ctx, epoch, due, totpStep, released, restarts>>

\* verify_and_consume_capability on a clone of the entry: state and binding, and the
\* deadline when it has not passed.  A consume that fails here changes nothing.
Verifies(c) == Usable(c) /\ memCap[c].auth.epoch = epoch

BeginConsume(x, c) ==
  /\ At(x, "idle")
  /\ c \in tokens
  /\ session # "absent"
  /\ Verifies(c)
  /\ task' = [task EXCEPT ![x] = [Idle EXCEPT !.pc = "consume", !.cap = c,
        !.auth = memCap[c].auth,
        !.step = IF memCap[c].auth.action = "totp" THEN totpStep ELSE NULL]]
  /\ UNCHANGED <<storeVars, memVars, envVars>>

ConsumeDb(x) ==
  /\ At(x, "consume")
  /\ \E c \in Caps, e \in Execs, s \in TotpSteps \cup {NULL} :
        /\ c = task[x].cap
        /\ s = task[x].step
        /\ ConsumeCapability(c, e, s)
        /\ task' = [task EXCEPT ![x].exec = e, ![x].pc = "consumeMem"]
  /\ UNCHANGED <<memVars, envVars>>

\* Seeded fault: the clone is written back when the transaction failed.
ConsumeRestores(x) ==
  /\ At(x, "consume")
  /\ memCap' = [memCap EXCEPT ![task[x].cap].state = "issued"]
  /\ Done(x)
  /\ UNCHANGED <<storeVars, reqState, memAppr, offers, memExec, policy, pendingOAuth, envVars>>

\* StateConflict or a store error.
ConsumeRejected(x) ==
  /\ At(x, "consume")
  /\ Done(x)
  /\ UNCHANGED <<storeVars, memVars, envVars>>

\* Seeded fault: the execution is not entered in the map.
ConsumeForgets(x) ==
  /\ At(x, "consumeMem")
  /\ memCap' = [memCap EXCEPT ![task[x].cap].state = "consumed"]
  /\ Goto(x, "retrieve")
  /\ UNCHANGED <<storeVars, reqState, memAppr, offers, memExec, policy, pendingOAuth, envVars>>

\* The entry is overwritten by the consumed clone, whatever happened to it since.
ConsumeMem(x) ==
  /\ At(x, "consumeMem")
  /\ memCap' = [memCap EXCEPT ![task[x].cap].state = "consumed"]
  /\ memExec' = [memExec EXCEPT ![task[x].exec] =
        [cap |-> task[x].cap, req |-> task[x].auth.req, state |-> "consuming"]]
  /\ Goto(x, "retrieve")
  /\ UNCHANGED <<storeVars, reqState, memAppr, offers, policy, pendingOAuth, envVars>>

\* Seeded fault: the fields are sent without an audit event.
RetrieveUnaudited(x) ==
  /\ At(x, "retrieve")
  /\ task[x].auth.action # "oauth"
  /\ released' = released \cup {[exec |-> task[x].exec, cap |-> task[x].cap, step |-> task[x].step]}
  /\ Done(x)
  /\ UNCHANGED <<storeVars, memVars, session, ctx, epoch, due, totpStep, tokens, restarts>>

\* The secret is fetched, its release is audited, and the fields go to the executor.
Retrieve(x) ==
  /\ At(x, "retrieve")
  /\ task[x].auth.action # "oauth"
  /\ \E r \in Requests, c \in Caps :
        /\ r = task[x].auth.req
        /\ c = task[x].cap
        /\ RecordEvent("secret.retrieve_succeeded", r, c)
  /\ released' = released \cup {[exec |-> task[x].exec, cap |-> task[x].cap, step |-> task[x].step]}
  /\ Done(x)
  /\ UNCHANGED <<memVars, session, ctx, epoch, due, totpStep, tokens, restarts>>

\* The provider, the recipe or the audit write fails after the consume; an OAuth
\* capability always ends here.  The execution stays consuming.
RetrieveFails(x) ==
  /\ At(x, "retrieve")
  /\ Done(x)
  /\ UNCHANGED <<storeVars, memVars, envVars>>

(***************************************************************************)
(* executor.result.                                                        *)
(***************************************************************************)
BeginResult(x, e, status) ==
  /\ At(x, "idle")
  /\ memExec[e] # NULL
  /\ \E rel \in released : rel.exec = e
  /\ task' = [task EXCEPT ![x] = [Idle EXCEPT !.pc = "result", !.exec = e, !.out = status]]
  /\ UNCHANGED <<storeVars, memVars, envVars>>

ResultDb(x) ==
  /\ At(x, "result")
  /\ \E e \in Execs, o \in {"completed", "failed"} :
        e = task[x].exec /\ o = task[x].out /\ FinishExecution(e, o)
  /\ Goto(x, "resultMem")
  /\ UNCHANGED <<memVars, envVars>>

\* Seeded fault: a success counts although its evidence could not be written.
ResultUnproven(x) ==
  /\ At(x, "result")
  /\ IF task[x].out = "completed" THEN Goto(x, "resultMem") ELSE Done(x)
  /\ UNCHANGED <<storeVars, memVars, envVars>>

\* The row was not consuming any more, or the store failed: a success is acknowledged
\* with its evidence lost, a failure is an error and changes nothing.
ResultRejected(x) ==
  /\ At(x, "result")
  /\ IF task[x].out = "completed"
     THEN task' = [task EXCEPT ![x].out = "completed_evidence_lost", ![x].pc = "resultMem"]
     ELSE Done(x)
  /\ UNCHANGED <<storeVars, memVars, envVars>>

ResultMem(x) ==
  /\ At(x, "resultMem")
  /\ memExec' = [memExec EXCEPT ![task[x].exec].state = task[x].out]
  /\ Goto(x, "resultReq")
  /\ UNCHANGED <<storeVars, reqState, memAppr, memCap, offers, policy, pendingOAuth, envVars>>

ResultReq(x) ==
  /\ At(x, "resultReq")
  /\ SetReq(memExec[task[x].exec].req, task[x].out)
  /\ Done(x)
  /\ UNCHANGED <<storeVars, memAppr, memCap, offers, memExec, policy, pendingOAuth, envVars>>

(***************************************************************************)
(* oauth.callback.                                                         *)
(***************************************************************************)
\* The pending authorization is taken out first; one bound to another tab or session is
\* refused after that.
BeginCallback(x, c, bound) ==
  /\ At(x, "idle")
  /\ c \in tokens \cap pendingOAuth
  /\ memCap[c] # NULL
  /\ pendingOAuth' = pendingOAuth \ {c}
  /\ task' = [task EXCEPT ![x] = [Idle EXCEPT !.cap = c, !.auth = memCap[c].auth,
        !.pc = IF bound THEN "callback" ELSE "callbackReq",
        !.out = IF bound THEN NULL ELSE "failed"]]
  /\ UNCHANGED <<storeVars, reqState, memAppr, memCap, offers, memExec, policy, envVars>>

CallbackDb(x) ==
  /\ At(x, "callback")
  /\ \E c \in Caps : c = task[x].cap /\ ConsumeOAuthCapability(c)
  /\ Goto(x, "callbackMem")
  /\ UNCHANGED <<memVars, envVars>>

CallbackMem(x) ==
  /\ At(x, "callbackMem")
  /\ memCap' = [memCap EXCEPT ![task[x].cap].state = "consumed"]
  /\ Goto(x, "exchange")
  /\ UNCHANGED <<storeVars, reqState, memAppr, offers, memExec, policy, pendingOAuth, envVars>>

\* The code is exchanged and the token grant stored.
Exchange(x) ==
  /\ At(x, "exchange")
  /\ task' = [task EXCEPT ![x].out = "completed", ![x].pc = "callbackReq"]
  /\ UNCHANGED <<storeVars, memVars, envVars>>

\* The row was not live, the callback URI was wrong, or the exchange or the storage of
\* the tokens failed.
CallbackFails(x) ==
  /\ task[x].pc \in {"callback", "exchange"}
  /\ task' = [task EXCEPT ![x].out = "failed", ![x].pc = "callbackReq"]
  /\ UNCHANGED <<storeVars, memVars, envVars>>

CallbackReq(x) ==
  /\ At(x, "callbackReq")
  /\ SetReq(task[x].auth.req, task[x].out)
  /\ Goto(x, "callbackAudit")
  /\ UNCHANGED <<storeVars, memAppr, memCap, offers, memExec, policy, pendingOAuth, envVars>>

CallbackAudit(x) ==
  /\ At(x, "callbackAudit")
  /\ \E r \in Requests, c \in Caps :
        /\ r = task[x].auth.req
        /\ c = task[x].cap
        /\ RecordEvent(IF task[x].out = "completed" THEN "oauth.token_stored"
                       ELSE "oauth.callback_failed", r, c)
  /\ Done(x)
  /\ UNCHANGED <<memVars, envVars>>

(***************************************************************************)
(* Cancellation, revocation and policy replacement.                        *)
(***************************************************************************)
\* Holds the requests lock while it revokes the request's capabilities in memory; their
\* rows are left live.
Cancel(r) ==
  /\ reqState[r] \notin TerminalReq \cup {"none", "executing"}
  /\ SetReq(r, "cancelled")
  /\ MemRevoke({c \in Caps : Usable(c) /\ memCap[c].auth.req = r})
  /\ UNCHANGED <<storeVars, memAppr, offers, memExec, policy, pendingOAuth, task, envVars>>

RevokeDb(d, c) ==
  /\ At(d, "idle")
  /\ RevokeCapability(c)
  /\ task' = [task EXCEPT ![d] = [Idle EXCEPT !.pc = "revokeMem", !.cap = c]]
  /\ UNCHANGED <<memVars, envVars>>

RevokeMem(d) ==
  /\ At(d, "revokeMem")
  /\ memCap' = [c \in Caps |-> IF c = task[d].cap /\ memCap[c] # NULL
                               THEN [memCap[c] EXCEPT !.state = "revoked"] ELSE memCap[c]]
  /\ Done(d)
  /\ UNCHANGED <<storeVars, reqState, memAppr, offers, memExec, policy, pendingOAuth, envVars>>

ReloadDb(d, p) ==
  /\ At(d, "idle")
  /\ Happened("policy.reloaded") < MaxReloads
  /\ RevokeNotPolicy(p)
  /\ task' = [task EXCEPT ![d] = [Idle EXCEPT !.pc = "reloadEval", !.out = p]]
  /\ UNCHANGED <<memVars, envVars>>

ReloadEval(d) ==
  /\ At(d, "reloadEval")
  /\ policy' = task[d].out
  /\ Goto(d, "reloadMem")
  /\ UNCHANGED <<storeVars, reqState, memAppr, memCap, offers, memExec, pendingOAuth, envVars>>

ReloadMem(d) ==
  /\ At(d, "reloadMem")
  /\ MemRevoke({c \in Caps : Usable(c) /\ memCap[c].auth.policy # task[d].out})
  /\ Done(d)
  /\ UNCHANGED <<storeVars, reqState, memAppr, offers, memExec, policy, pendingOAuth, envVars>>

(***************************************************************************)
(* The browser session, the ticker's sweep, and the passage of time.       *)
(***************************************************************************)
Register ==
  /\ session = "absent"
  /\ session' = "active"
  /\ RecordEvent("browser.registered", NULL, NULL)
  /\ UNCHANGED <<memVars, task, ctx, epoch, due, totpStep, tokens, released, restarts>>

Heartbeat ==
  /\ session = "stale"
  /\ session' = "active"
  /\ UNCHANGED <<storeVars, memVars, task, ctx, epoch, due, totpStep, tokens, released, restarts>>

StaleMark ==
  /\ At(Ticker, "idle")
  /\ session = "active"
  /\ Happened("browser.stale") < MaxStale
  /\ session' = "stale"
  /\ Goto(Ticker, "sweep")
  /\ UNCHANGED <<storeVars, memVars, ctx, epoch, due, totpStep, tokens, released, restarts>>

StaleSweep ==
  /\ At(Ticker, "sweep")
  /\ MemRevoke(Caps)
  /\ Goto(Ticker, "staleAudit")
  /\ UNCHANGED <<storeVars, reqState, memAppr, offers, memExec, policy, pendingOAuth, envVars>>

\* The last event of a callback or of a sweep could not be written: nothing is undone.
AuditFails(x) ==
  /\ task[x].pc \in {"callbackAudit", "staleAudit"}
  /\ Done(x)
  /\ UNCHANGED <<storeVars, memVars, envVars>>

StaleAudit ==
  /\ At(Ticker, "staleAudit")
  /\ RecordEvent("browser.stale", NULL, NULL)
  /\ Done(Ticker)
  /\ UNCHANGED <<memVars, envVars>>

Navigate ==
  /\ epoch < MaxNavigations
  /\ epoch' = epoch + 1
  /\ UNCHANGED <<storeVars, memVars, task, session, ctx, due, totpStep, tokens, released, restarts>>

\* executor.prepare, sent by the extension for the page it sees.
Prepare ==
  /\ ctx # epoch
  /\ ctx' = epoch
  /\ UNCHANGED <<storeVars, memVars, task, session, epoch, due, totpStep, tokens, released, restarts>>

ApprovalLapses(a) ==
  /\ apprRow[a] # NULL /\ a \notin due
  /\ due' = due \cup {a}
  /\ UNCHANGED <<storeVars, memVars, task, session, ctx, epoch, totpStep, tokens, released, restarts>>

TotpTick ==
  /\ totpStep' \in {s \in TotpSteps : s > totpStep}
  /\ UNCHANGED <<storeVars, memVars, task, session, ctx, epoch, due, tokens, released, restarts>>

(***************************************************************************)
(* The whole broker.                                                       *)
(***************************************************************************)
EmptyMemory ==
  /\ reqState' = [r \in Requests |-> "none"]
  /\ memAppr' = [a \in Approvals |-> NULL]
  /\ memCap' = [c \in Caps |-> NULL]
  /\ offers' = << >>
  /\ memExec' = [e \in Execs |-> NULL]
  /\ pendingOAuth' = {}
  /\ task' = [x \in Handlers |-> Idle]

\* The daemon dies between any two steps and comes back: memory is gone, the store is
\* recovered before any socket is served, and the policy file is read again.
Restart ==
  /\ restarts < MaxRestarts
  /\ restarts' = restarts + 1
  /\ Recover
  /\ EmptyMemory
  /\ policy' \in Policies
  /\ session' = "absent"
  /\ ctx' = NULL
  /\ UNCHANGED <<epoch, due, totpStep, tokens, released>>

BrokerInit ==
  /\ StoreInit
  /\ reqState = [r \in Requests |-> "none"]
  /\ memAppr = [a \in Approvals |-> NULL]
  /\ memCap = [c \in Caps |-> NULL]
  /\ offers = << >>
  /\ memExec = [e \in Execs |-> NULL]
  /\ policy \in Policies
  /\ pendingOAuth = {}
  /\ task = [x \in Handlers |-> Idle]
  /\ session = "absent"
  /\ ctx = NULL
  /\ epoch = 0
  /\ due = {}
  /\ totpStep \in {s \in TotpSteps : \A t \in TotpSteps : s <= t}
  /\ tokens = {} /\ released = {}
  /\ restarts = 0

AgentStep(r) ==
  \/ \E k \in Actions : Submit(r, k)
  \/ RecordRequested(r) \/ ValidateSession(r) \/ MeasureContext(r)
  \/ \E path \in Paths : EvaluatePolicy(r, path)
  \/ PolicyDenies(r) \/ RecordGranted(r)
  \/ AskDb(r) \/ AskMem(r) \/ AskReq(r)
  \/ RequestFails(r) \/ Cancel(r)

MintStep(x) == MintDb(x) \/ MintMem(x) \/ MintReq(x)

DeciderStep(d) ==
  \/ \E a \in Approvals, v \in Votes : BeginDecide(d, a, v)
  \/ DecideDb(d) \/ DecideMem(d) \/ DecideReq(d) \/ DecideFails(d)

AdminStep(d) ==
  \/ \E c \in Caps : RevokeDb(d, c)
  \/ RevokeMem(d)
  \/ \E p \in Policies : ReloadDb(d, p)
  \/ ReloadEval(d) \/ ReloadMem(d)

ExecutorStep(x) ==
  \/ \E fate \in Fates : Poll(x, fate)
  \/ \E c \in Caps : BeginConsume(x, c)
  \/ ConsumeDb(x) \/ ConsumeRejected(x) \/ ConsumeMem(x) \/ Retrieve(x) \/ RetrieveFails(x)
  \/ \E e \in Execs, status \in Statuses : BeginResult(x, e, status)
  \/ ResultDb(x) \/ ResultRejected(x) \/ ResultMem(x) \/ ResultReq(x)
  \/ \E c \in Caps, bound \in BOOLEAN : BeginCallback(x, c, bound)
  \/ CallbackDb(x) \/ CallbackMem(x) \/ Exchange(x) \/ CallbackFails(x)
  \/ CallbackReq(x) \/ CallbackAudit(x) \/ AuditFails(x)

TickerStep == StaleMark \/ StaleSweep \/ StaleAudit \/ AuditFails(Ticker)

EnvironmentStep ==
  \/ Register \/ Heartbeat \/ Navigate \/ Prepare
  \/ \E a \in Approvals : ApprovalLapses(a)
  \/ TotpTick

BrokerNext ==
  \/ \E r \in Requests : AgentStep(r)
  \/ \E x \in Requests \cup Deciders : MintStep(x)
  \/ \E d \in Deciders : DeciderStep(d)
  \/ \E d \in Admins : AdminStep(d)
  \/ \E x \in Executors : ExecutorStep(x)
  \/ TickerStep
  \/ EnvironmentStep
  \/ Restart

BrokerSpec == BrokerInit /\ [][BrokerNext]_brokerVars

(***************************************************************************)
(* Properties.                                                             *)
(***************************************************************************)
ReqStates == TerminalReq \cup {"none", "requested", "awaiting_approval", "capability_issued"}
PCs == {"idle", "submitted", "session", "context", "evaluate", "failing", "granted", "ask",
  "askMem", "askReq", "mint", "mintMem", "mintReq", "decide", "decideMem", "decideReq",
  "consume", "consumeMem", "retrieve", "result", "resultMem", "resultReq", "callback",
  "callbackMem", "exchange", "callbackReq", "callbackAudit", "revokeMem", "reloadEval",
  "reloadMem", "sweep", "staleAudit"}
Outs == Decisions \cup MemExecStates \cup Policies \cup {NULL}
Task == [pc : PCs, auth : Auth \cup {NULL}, appr : Approvals \cup {NULL}, out : Outs,
         cap : Caps \cup {NULL}, exec : Execs \cup {NULL}, step : TotpSteps \cup {NULL}]
Release == [exec : Execs, cap : Caps, step : TotpSteps \cup {NULL}]

BrokerTypeOK ==
  /\ StoreTypeOK
  /\ reqState \in [Requests -> ReqStates]
  /\ memAppr \in [Approvals -> Auth \cup {NULL}]
  /\ memCap \in [Caps -> CapabilityEntry \cup {NULL}]
  /\ offers \in Seq(Caps)
  /\ memExec \in [Execs -> ActiveExecution \cup {NULL}]
  /\ policy \in Policies
  /\ pendingOAuth \subseteq Caps
  /\ task \in [Handlers -> Task]
  /\ session \in {"absent", "active", "stale"}
  /\ ctx \in Nat \cup {NULL} /\ epoch \in Nat
  /\ due \subseteq Approvals
  /\ totpStep \in TotpSteps
  /\ tokens \subseteq Caps
  /\ released \subseteq Release
  /\ restarts \in Nat

Before(T, r, i) == {j \in 1..(i - 1) : ledger[j].type \in T /\ ledger[j].req = r}

\* Every secret handed to an executor leaves the whole trail that justifies it, in order:
\* the capability's minting, its consumption and the retrieval; and the minting itself was
\* preceded by the request and, when a human had to decide, by one approval per minting.
\* The events are written by three handlers and survive restarts.
ReleaseTraced ==
  /\ \A rel \in released :
        \E i \in EventsOf(MintEvents, rel.cap),
           j \in EventsOf({"capability.consumed"}, rel.cap),
           k \in EventsOf({"secret.retrieve_succeeded"}, rel.cap) : i < j /\ j < k
  /\ \A i \in DOMAIN ledger :
        LET ev == ledger[i] IN
        /\ ev.type \in MintEvents => Before({"action.requested"}, ev.req, i) # {}
        /\ ev.type = "capability.minted:user_approved" =>
              Cardinality(Before({"capability.minted:user_approved"}, ev.req, i))
                < Cardinality(Before({"approval.approved"}, ev.req, i))

ReleaseEvents == {"secret.retrieve_succeeded", "oauth.token_stored"}

\* Between them the executor and the OAuth paths let one capability yield one secret or one
\* token grant, and none at all once its revocation is on record.  Both paths race the
\* administrator and one another with only the row's test-and-set between them.
ReleaseOnce ==
  \A c \in Caps :
     /\ \A i, j \in EventsOf(ReleaseEvents, c) : i = j
     /\ EventsOf({"capability.revoked"}, c) # {} => EventsOf(ReleaseEvents, c) = {}

\* No TOTP code is handed out twice: two releases never carry the same time step, even by
\* handlers that read the clock before either of them consumed.
TotpCodeOnce ==
  \A p, q \in released : p.step # NULL /\ p.step = q.step => p = q

Carries(pc, c) == \E x \in Handlers : At(x, pc) /\ task[x].cap = c

\* Durable state that is still open always has an owner in this process: a live capability
\* row is in the memory of the broker or in the hands of the handler that just minted it,
\* and a consuming execution is known to memory or to its consume handler.  So nothing
\* from before a restart stays live, and what memory has seen consumed is consumed.
NoOrphanRows ==
  /\ \A c \in Caps : Live(c) => memCap[c] # NULL \/ Carries("mintMem", c)
  /\ \A e \in Execs : CanFinish(e) =>
        \/ memExec[e] # NULL
        \/ \E x \in Executors : At(x, "consumeMem") /\ task[x].exec = e
  /\ \A c \in Caps : memCap[c] # NULL /\ memCap[c].state = "consumed" =>
        capRow[c].state = "consumed"

\* What memory reports of an execution is what the row says, except for a success whose
\* evidence was lost.
ResultsAgree ==
  \A e \in Execs : memExec[e] # NULL =>
     /\ execRow[e] # NULL /\ execRow[e].cap = memExec[e].cap
     /\ memExec[e].state \in {"completed", "failed"} => execRow[e].state = memExec[e].state

Mints(r) == {i \in DOMAIN ledger : ledger[i].type \in MintEvents /\ ledger[i].req = r}

\* One submission of a request yields at most one capability, whichever of the request
\* handler, the administrators and the ticker get to decide it; only a restart, which
\* forgets the request, allows another.
OneMintPerSubmission == \A r \in Requests : Cardinality(Mints(r)) <= restarts + 1

\* An in-memory revocation (cancel, stale session, policy, administrator) is never undone
\* by a handler that was already past its check: a revoked entry can become consumed, when
\* the consume had won the row, but never usable again while the process lives.
RevocationSticks ==
  [][\A c \in Caps :
       memCap[c] # NULL /\ memCap[c].state # "issued" /\ restarts' = restarts
         => memCap'[c] # NULL /\ memCap'[c].state # "issued"]_brokerVars

\* ActionRequestState::transition_to refuses to leave a terminal state, and the agent is
\* told its request was cancelled.  The handlers assign the state without transition_to,
\* and a cancellation leaves a pending approval in place.
CancelledIsFinal ==
  [][\A r \in Requests :
       reqState[r] = "cancelled" /\ restarts' = restarts
         => reqState'[r] # "capability_issued"]_brokerVars

(***************************************************************************)
(* Liveness.  Every handler runs on its own task: one that was started     *)
(* keeps going.  The ticker comes round every second and visits every      *)
(* overdue approval, and a store that fails it once does not fail it       *)
(* always: hence the strong fairness of its visits and of its update.      *)
(***************************************************************************)
Finish(d) == DecideMem(d) \/ DecideReq(d) \/ DecideFails(d) \/ MintStep(d)

BrokerFairness ==
  /\ \A a \in Approvals : WF_brokerVars(ApprovalLapses(a))
  /\ \A a \in Approvals : SF_brokerVars(BeginDecide(Ticker, a, "deny"))
  /\ SF_brokerVars(DecideDb(Ticker))
  /\ \A d \in Deciders : WF_brokerVars(Finish(d))

FairBrokerSpec == BrokerSpec /\ BrokerFairness

\* Every approval that was put before the deciders is decided: approved, denied, invalidated
\* or expired by the ticker, even when administrators are racing it, give up half way, or
\* lose the race on the row; a restart, which forgets it, counts too.
PendingDecided == \A a \in Approvals : memAppr[a] # NULL ~> memAppr[a] = NULL
============================================================================
