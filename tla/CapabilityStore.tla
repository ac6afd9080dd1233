-------------------------- MODULE CapabilityStore --------------------------
(***************************************************************************)
(* The durable half of the broker: the SQLite tables approvals,            *)
(* capabilities, executions, totp_issuances and audit_events, and the      *)
(* transactions of secretctl-store that write them.  Each action is one    *)
(* transaction: its guard is the WHERE clause (no row changed is the       *)
(* StoreError::StateConflict the callers see), and the rows and the audit  *)
(* event it writes commit together or not at all.                          *)
(*                                                                         *)
(* The store does not know the broker's threads: any enabled transaction   *)
(* may come next, so what holds here holds whatever the broker does with   *)
(* its memory.  The hash chain of the ledger is AuditLedger's subject;     *)
(* here the ledger is the sequence of the events' identities.              *)
(***************************************************************************)
EXTENDS Naturals, Sequences, FiniteSets

CONSTANTS
  Requests,    \* action request ids, chosen by the agents
  Approvals,   \* approval ids the broker may generate
  Caps,        \* capability ids the broker may generate
  Execs,       \* execution ids the broker may generate
  Policies,    \* policy documents, by their hash
  TotpSteps,   \* time steps of the one TOTP credential
  LooseEvents, \* event types record_audit_event appends without touching another table
  NULL

VARIABLES
  apprRow,     \* approvals: id -> NULL or [req, decision]
  capRow,      \* capabilities: id -> NULL or [req, policy, state, used]
  execRow,     \* executions: id -> NULL or [cap, state]
  totpRow,     \* totp_issuances of the credential: step -> NULL or execution
  ledger       \* audit_events in sequence order

storeVars == <<apprRow, capRow, execRow, totpRow, ledger>>

Decisions == {"approved", "denied", "expired", "invalidated"}
LiveStates == {"issued", "active"}
CapStates == LiveStates \cup {"consumed", "expired", "revoked"}
ExecStates == {"consuming", "completed", "failed", "indeterminate"}

ApprRow == [req : Requests, decision : Decisions \cup {"pending"}]
CapRow  == [req : Requests, policy : Policies, state : CapStates, used : 0..1]
ExecRow == [cap : Caps, state : ExecStates]

MintEvents == {"capability.minted:user_approved", "capability.minted:auto_approved"}
TableEvents == MintEvents \cup
  {"approval.requested", "approval.approved", "approval.denied", "approval.expired",
   "approval.invalidated", "capability.consumed", "capability.revoked",
   "policy.reloaded", "execution.completed", "execution.failed"}
EventTypes == TableEvents \cup LooseEvents
Event   == [type : EventTypes, req : Requests \cup {NULL}, cap : Caps \cup {NULL}]

ASSUME NullAssumption ==
  NULL \notin Requests \cup Approvals \cup Caps \cup Execs \cup TotpSteps
              \cup ApprRow \cup CapRow \cup ExecRow
ASSUME LooseAssumption == LooseEvents \cap TableEvents = {}

(***************************************************************************)
(* The transactions.                                                       *)
(***************************************************************************)
Append1(t, r, c) == ledger' = Append(ledger, [type |-> t, req |-> r, cap |-> c])

\* record_audit_event: one row of audit_events and nothing else.
RecordEvent(t, r, c) ==
  /\ Append1(t, r, c)
  /\ UNCHANGED <<apprRow, capRow, execRow, totpRow>>

InsertApproval(a, r) ==
  /\ apprRow[a] = NULL
  /\ apprRow' = [apprRow EXCEPT ![a] = [req |-> r, decision |-> "pending"]]
  /\ Append1("approval.requested", r, NULL)
  /\ UNCHANGED <<capRow, execRow, totpRow>>

Pending(a) == apprRow[a] # NULL /\ apprRow[a].decision = "pending"

DecisionEvent == [approved    |-> "approval.approved",
                  denied      |-> "approval.denied",
                  expired     |-> "approval.expired",
                  invalidated |-> "approval.invalidated"]

\* Seeded fault: the UPDATE does not ask for a pending row.
UpdateDecided(a, outcome) ==
  /\ apprRow[a] # NULL
  /\ apprRow' = [apprRow EXCEPT ![a].decision = outcome]
  /\ Append1(DecisionEvent[outcome], apprRow[a].req, NULL)
  /\ UNCHANGED <<capRow, execRow, totpRow>>

UpdateApproval(a, outcome) ==
  /\ Pending(a)
  /\ apprRow' = [apprRow EXCEPT ![a].decision = outcome]
  /\ Append1(DecisionEvent[outcome], apprRow[a].req, NULL)
  /\ UNCHANGED <<capRow, execRow, totpRow>>

InsertCapability(c, r, p, t) ==
  /\ capRow[c] = NULL
  /\ capRow' = [capRow EXCEPT ![c] =
                  [req |-> r, policy |-> p, state |-> "issued", used |-> 0]]
  /\ Append1(t, r, c)
  /\ UNCHANGED <<apprRow, execRow, totpRow>>

Live(c) == capRow[c] # NULL /\ capRow[c].state \in LiveStates

\* Seeded faults: the UPDATE tests only the use count; the TOTP step is not claimed.
CanConsumeDead(c, s) ==
  /\ s # NULL => totpRow[s] = NULL
  /\ capRow[c] # NULL
  /\ capRow[c].used < 1

CanConsumeStep(c, s) == Live(c) /\ capRow[c].used < 1

\* The test of the test-and-set: the TOTP step is unclaimed and the row is live.
CanConsume(c, s) ==
  /\ s # NULL => totpRow[s] = NULL
  /\ Live(c)
  /\ capRow[c].used < 1

\* Seeded fault: consuming leaves the row as it was.
StillLive(row) == row

Used(row) == [row EXCEPT !.state = "consumed", !.used = @ + 1]

\* Seeded fault: the event is not part of the transaction.
ConsumeSilently(c, e, s) ==
  /\ CanConsume(c, s)
  /\ execRow[e] = NULL
  /\ totpRow' = [t \in TotpSteps |-> IF t = s THEN e ELSE totpRow[t]]
  /\ capRow' = [capRow EXCEPT ![c] = Used(@)]
  /\ execRow' = [execRow EXCEPT ![e] = [cap |-> c, state |-> "consuming"]]
  /\ UNCHANGED <<apprRow, ledger>>

ConsumeCapability(c, e, s) ==
  /\ CanConsume(c, s)
  /\ execRow[e] = NULL
  /\ totpRow' = [t \in TotpSteps |-> IF t = s THEN e ELSE totpRow[t]]
  /\ capRow' = [capRow EXCEPT ![c] = Used(@)]
  /\ execRow' = [execRow EXCEPT ![e] = [cap |-> c, state |-> "consuming"]]
  /\ Append1("capability.consumed", capRow[c].req, c)
  /\ UNCHANGED apprRow

\* Seeded faults: the use count, or the state, is left out of the WHERE clause.
ConsumeOAuthAgain(c) ==
  /\ capRow[c] # NULL /\ capRow[c].state \in LiveStates \cup {"consumed"}
  /\ capRow' = [capRow EXCEPT ![c] = Used(@)]
  /\ UNCHANGED <<apprRow, execRow, totpRow, ledger>>

ConsumeOAuthDead(c) ==
  /\ capRow[c] # NULL /\ capRow[c].used < 1
  /\ capRow' = [capRow EXCEPT ![c] = Used(@)]
  /\ UNCHANGED <<apprRow, execRow, totpRow, ledger>>

\* The OAuth path consumes with a bare UPDATE: no execution and no event.
ConsumeOAuthCapability(c) ==
  /\ Live(c)
  /\ capRow[c].used < 1
  /\ capRow' = [capRow EXCEPT ![c] = Used(@)]
  /\ UNCHANGED <<apprRow, execRow, totpRow, ledger>>

FinishEvent == [completed |-> "execution.completed", failed |-> "execution.failed"]

CanFinish(e) == execRow[e] # NULL /\ execRow[e].state = "consuming"

FinishExecution(e, outcome) ==
  /\ CanFinish(e)
  /\ execRow' = [execRow EXCEPT ![e].state = outcome]
  /\ Append1(FinishEvent[outcome], capRow[execRow[e].cap].req, execRow[e].cap)
  /\ UNCHANGED <<apprRow, capRow, totpRow>>

\* Every live row of S moves to st; dead rows are left alone.
Withdrawn(S, st) ==
  [c \in Caps |-> IF c \in S /\ Live(c) THEN [capRow[c] EXCEPT !.state = st] ELSE capRow[c]]

\* Seeded fault: the number of rows changed is not tested.
RevokeAny(c) ==
  /\ capRow' = Withdrawn({c}, "revoked")
  /\ Append1("capability.revoked", NULL, c)
  /\ UNCHANGED <<apprRow, execRow, totpRow>>

RevokeCapability(c) ==
  /\ Live(c)
  /\ capRow' = Withdrawn({c}, "revoked")
  /\ Append1("capability.revoked", NULL, c)
  /\ UNCHANGED <<apprRow, execRow, totpRow>>

RevokeNotPolicy(p) ==
  /\ capRow' = Withdrawn({c \in Caps : Live(c) /\ capRow[c].policy # p}, "revoked")
  /\ Append1("policy.reloaded", NULL, NULL)
  /\ UNCHANGED <<apprRow, execRow, totpRow>>

\* Seeded fault: recovery closes the executions and forgets the capabilities.
RecoverExecutions ==
  /\ execRow' = [e \in Execs |-> IF CanFinish(e)
                                 THEN [execRow[e] EXCEPT !.state = "indeterminate"]
                                 ELSE execRow[e]]
  /\ UNCHANGED <<apprRow, capRow, totpRow, ledger>>

\* Opening the store after a stop: nothing live survives, nothing is audited.
Recover ==
  /\ capRow' = Withdrawn(Caps, "expired")
  /\ execRow' = [e \in Execs |-> IF CanFinish(e)
                                 THEN [execRow[e] EXCEPT !.state = "indeterminate"]
                                 ELSE execRow[e]]
  /\ UNCHANGED <<apprRow, totpRow, ledger>>

(***************************************************************************)
(* The store on its own.                                                   *)
(***************************************************************************)
StoreInit ==
  /\ apprRow = [a \in Approvals |-> NULL]
  /\ capRow  = [c \in Caps |-> NULL]
  /\ execRow = [e \in Execs |-> NULL]
  /\ totpRow = [s \in TotpSteps |-> NULL]
  /\ ledger  = << >>

StoreNext ==
  \/ \E t \in LooseEvents, r \in Requests \cup {NULL}, c \in Caps \cup {NULL} :
        RecordEvent(t, r, c)
  \/ \E a \in Approvals, r \in Requests : InsertApproval(a, r)
  \/ \E a \in Approvals, d \in Decisions : UpdateApproval(a, d)
  \/ \E c \in Caps, r \in Requests, p \in Policies, t \in MintEvents :
        InsertCapability(c, r, p, t)
  \/ \E c \in Caps, e \in Execs, s \in TotpSteps \cup {NULL} : ConsumeCapability(c, e, s)
  \/ \E c \in Caps : ConsumeOAuthCapability(c)
  \/ \E e \in Execs, o \in {"completed", "failed"} : FinishExecution(e, o)
  \/ \E c \in Caps : RevokeCapability(c)
  \/ \E p \in Policies : RevokeNotPolicy(p)
  \/ Recover

StoreSpec == StoreInit /\ [][StoreNext]_storeVars

(***************************************************************************)
(* Properties.                                                             *)
(***************************************************************************)
StoreTypeOK ==
  /\ apprRow \in [Approvals -> ApprRow \cup {NULL}]
  /\ capRow  \in [Caps -> CapRow \cup {NULL}]
  /\ execRow \in [Execs -> ExecRow \cup {NULL}]
  /\ totpRow \in [TotpSteps -> Execs \cup {NULL}]
  /\ ledger  \in Seq(Event)

\* One capability releases a credential through at most one execution, however many
\* consumes of it race: consume_capability_with_execution_and_audit is a test-and-set.
SingleRelease ==
  \A e, f \in Execs :
     (/\ execRow[e] # NULL
      /\ execRow[f] # NULL
      /\ execRow[e].cap = execRow[f].cap) => e = f

EventsOf(T, c) == {i \in DOMAIN ledger : ledger[i].type \in T /\ ledger[i].cap = c}

ExecutedCap(c) == \E e \in Execs : execRow[e] # NULL /\ execRow[e].cap = c

\* The ledger and the tables tell the same story: a capability row exists exactly when it
\* has a minting event and then it has one, it was executed exactly when it has one
\* consumption event, that event comes after the minting one, and the row says consumed.
LedgerAgrees ==
  \A c \in Caps :
     /\ capRow[c] # NULL <=> EventsOf(MintEvents, c) # {}
     /\ \A i, j \in EventsOf(MintEvents, c) : i = j
     /\ ExecutedCap(c) <=> EventsOf({"capability.consumed"}, c) # {}
     /\ \A i, j \in EventsOf({"capability.consumed"}, c) : i = j
     /\ \A i \in EventsOf({"capability.consumed"}, c) :
           /\ \E j \in EventsOf(MintEvents, c) : j < i
           /\ capRow[c].state = "consumed"

\* An administrator's revocation is final: a capability whose revocation was recorded is
\* never executed, whether the consume came before or after it in any interleaving.
RevokedNeverExecuted ==
  \A c \in Caps :
     EventsOf({"capability.revoked"}, c) # {} =>
        ~ ExecutedCap(c) /\ capRow[c] # NULL /\ capRow[c].state = "revoked"

Stage(c) ==
  IF capRow[c] = NULL THEN "unminted"
  ELSE IF Live(c) THEN "live"
  ELSE IF capRow[c].state = "consumed" THEN "used" ELSE "withdrawn"

Promise == INSTANCE SingleUse WITH status <- [c \in Caps |-> Stage(c)]

\* The capabilities table implements the single-use promise, across revocation, policy
\* reload and recovery.
ImplementsSingleUse == Promise!Spec
============================================================================
