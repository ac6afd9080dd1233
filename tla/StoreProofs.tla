---------------------------- MODULE StoreProofs ----------------------------
(***************************************************************************)
(* Proofs about CapabilityStore, for any sets of requests, approvals,      *)
(* capabilities, executions, policies and time steps.                      *)
(***************************************************************************)
EXTENDS CapabilityStore, TLAPS

\* What single release rests on: an execution row only exists for a row that is consumed,
\* and a consumed row never becomes live again.
ExecutedIsConsumed ==
  \A e \in Execs : execRow[e] # NULL =>
     capRow[execRow[e].cap] # NULL /\ capRow[execRow[e].cap].state = "consumed"

StoreInv == StoreTypeOK /\ ExecutedIsConsumed /\ SingleRelease

\* Appending an event keeps the ledger a sequence of events.
LEMMA AppendTyped ==
  ASSUME ledger \in Seq(Event), NEW t \in EventTypes,
         NEW r \in Requests \cup {NULL}, NEW c \in Caps \cup {NULL}, Append1(t, r, c)
  PROVE  ledger' \in Seq(Event)
BY DEF Append1, Event

\* Consuming a live unused row gives a consumed row that was used once.
LEMMA UsedTyped ==
  ASSUME NEW row \in CapRow, row.used < 1
  PROVE  /\ Used(row) \in CapRow
         /\ Used(row).state = "consumed"
         /\ Used(row).req = row.req
<1>1. row.used = 0
  BY DEF CapRow
<1> DEFINE done == [row EXCEPT !.state = "consumed"]
<1>2. done \in CapRow /\ done.used = 0 /\ done.state = "consumed" /\ done.req = row.req
  BY <1>1 DEF CapRow, CapStates
<1>3. Used(row) = [done EXCEPT !.used = 1]
  BY <1>1, <1>2 DEF Used
<1> HIDE DEF done
<1>4. [done EXCEPT !.used = 1] \in CapRow
  BY <1>2 DEF CapRow
<1> QED BY <1>2, <1>3, <1>4 DEF CapRow

\* Withdrawing rows keeps the table's type, and only live rows change.
LEMMA WithdrawnRows ==
  ASSUME capRow \in [Caps -> CapRow \cup {NULL}], NEW S, NEW st \in CapStates
  PROVE  /\ Withdrawn(S, st) \in [Caps -> CapRow \cup {NULL}]
         /\ \A c \in Caps : ~ Live(c) \/ c \notin S => Withdrawn(S, st)[c] = capRow[c]
         /\ \A c \in Caps : Live(c) /\ c \in S => Withdrawn(S, st)[c].state = st
         /\ \A c \in Caps : capRow[c] = NULL <=> Withdrawn(S, st)[c] = NULL
<1>1. \A c \in Caps : Live(c) => /\ [capRow[c] EXCEPT !.state = st] \in CapRow
                                 /\ [capRow[c] EXCEPT !.state = st].state = st
  BY DEF Live, CapRow
<1> QED BY <1>1, NullAssumption DEF Withdrawn, Live

\* Rows that change only by withdrawal keep what StoreInv says of executions.
LEMMA WithdrawKeepsExecutions ==
  ASSUME StoreInv, NEW S, NEW st \in CapStates, capRow' = Withdrawn(S, st),
         \A e \in Execs : /\ execRow'[e] = NULL <=> execRow[e] = NULL
                          /\ execRow[e] # NULL => execRow'[e].cap = execRow[e].cap
  PROVE  ExecutedIsConsumed' /\ SingleRelease'
<1>1. \A e \in Execs : execRow[e] # NULL =>
         execRow[e].cap \in Caps /\ ~ Live(execRow[e].cap)
  BY DEF StoreInv, StoreTypeOK, ExecutedIsConsumed, Live, LiveStates, ExecRow
<1>2. \A e \in Execs : execRow[e] # NULL => capRow'[execRow[e].cap] = capRow[execRow[e].cap]
  BY <1>1, WithdrawnRows DEF StoreInv, StoreTypeOK
<1> QED BY <1>1, <1>2 DEF StoreInv, ExecutedIsConsumed, SingleRelease

\* Every transaction of secretctl-store keeps the inductive invariant.
LEMMA StoreStep == StoreInv /\ [StoreNext]_storeVars => StoreInv'
<1> SUFFICES ASSUME StoreInv, [StoreNext]_storeVars PROVE StoreInv'
  OBVIOUS
<1>t. /\ apprRow \in [Approvals -> ApprRow \cup {NULL}]
      /\ capRow  \in [Caps -> CapRow \cup {NULL}]
      /\ execRow \in [Execs -> ExecRow \cup {NULL}]
      /\ totpRow \in [TotpSteps -> Execs \cup {NULL}]
      /\ ledger  \in Seq(Event)
  BY DEF StoreInv, StoreTypeOK
<1>n. /\ NULL \notin ApprRow /\ NULL \notin CapRow /\ NULL \notin ExecRow
  BY NullAssumption
<1>e. \A e \in Execs : execRow[e] # NULL =>
         /\ execRow[e] \in ExecRow
         /\ execRow[e].cap \in Caps
         /\ capRow[execRow[e].cap] \in CapRow
         /\ capRow[execRow[e].cap].state = "consumed"
  BY <1>t, <1>n DEF StoreInv, ExecutedIsConsumed, ExecRow
\* A step that leaves capabilities and executions alone.
<1>same. ASSUME UNCHANGED <<capRow, execRow>>
         PROVE  ExecutedIsConsumed' /\ SingleRelease'
  BY <1>same DEF StoreInv, ExecutedIsConsumed, SingleRelease
<1>1. ASSUME NEW t \in LooseEvents, NEW r \in Requests \cup {NULL}, NEW c \in Caps \cup {NULL},
             RecordEvent(t, r, c)
      PROVE  StoreInv'
  <2>1. ledger' \in Seq(Event)
    BY <1>1, <1>t, AppendTyped DEF RecordEvent, EventTypes
  <2> QED BY <1>1, <2>1, <1>t, <1>same DEF RecordEvent, StoreInv, StoreTypeOK
<1>2. ASSUME NEW a \in Approvals, NEW r \in Requests, InsertApproval(a, r)
      PROVE  StoreInv'
  <2>1. ledger' \in Seq(Event)
    BY <1>2, <1>t, AppendTyped DEF InsertApproval, EventTypes, TableEvents
  <2>2. apprRow' \in [Approvals -> ApprRow \cup {NULL}]
    BY <1>2, <1>t DEF InsertApproval, ApprRow
  <2> QED BY <1>2, <2>1, <2>2, <1>t, <1>same DEF InsertApproval, StoreInv, StoreTypeOK
<1>3. ASSUME NEW a \in Approvals, NEW d \in Decisions, UpdateApproval(a, d)
      PROVE  StoreInv'
  <2>1. apprRow[a] \in ApprRow
    BY <1>3, <1>t DEF UpdateApproval, Pending
  <2>2. DecisionEvent[d] \in EventTypes
    BY DEF DecisionEvent, Decisions, EventTypes, TableEvents
  <2>3. ledger' \in Seq(Event)
    BY <1>3, <1>t, <2>1, <2>2, AppendTyped DEF UpdateApproval, ApprRow
  <2>4. apprRow' \in [Approvals -> ApprRow \cup {NULL}]
    BY <1>3, <1>t, <2>1 DEF UpdateApproval, ApprRow
  <2> QED BY <1>3, <2>3, <2>4, <1>t, <1>same DEF UpdateApproval, StoreInv, StoreTypeOK
<1>4. ASSUME NEW c \in Caps, NEW r \in Requests, NEW p \in Policies, NEW t \in MintEvents,
             InsertCapability(c, r, p, t)
      PROVE  StoreInv'
  <2>1. ledger' \in Seq(Event)
    BY <1>4, <1>t, AppendTyped DEF InsertCapability, EventTypes, TableEvents
  <2>2. capRow' \in [Caps -> CapRow \cup {NULL}]
    BY <1>4, <1>t DEF InsertCapability, CapRow, CapStates, LiveStates
  <2>3. \A e \in Execs : execRow[e] # NULL => execRow[e].cap # c
    BY <1>4, <1>e, <1>n DEF InsertCapability
  <2>4. ExecutedIsConsumed' /\ SingleRelease'
    BY <1>4, <1>t, <1>e, <1>n, <2>3
       DEF InsertCapability, StoreInv, ExecutedIsConsumed, SingleRelease
  <2> QED BY <1>4, <2>1, <2>2, <2>4, <1>t DEF InsertCapability, StoreInv, StoreTypeOK
<1>5. ASSUME NEW c \in Caps, NEW e \in Execs, NEW s \in TotpSteps \cup {NULL},
             ConsumeCapability(c, e, s)
      PROVE  StoreInv'
  <2>1. capRow[c] \in CapRow /\ capRow[c].used < 1 /\ capRow[c].state # "consumed"
    BY <1>5, <1>t DEF ConsumeCapability, CanConsume, Live, LiveStates
  <2>2. /\ Used(capRow[c]) \in CapRow /\ Used(capRow[c]).state = "consumed"
        /\ capRow' = [capRow EXCEPT ![c] = Used(capRow[c])]
    BY <1>5, <2>1, UsedTyped DEF ConsumeCapability
  <2>3. capRow' \in [Caps -> CapRow \cup {NULL}]
    BY <2>2, <1>t
  <2>4. ledger' \in Seq(Event)
    BY <1>5, <1>t, <2>1, AppendTyped DEF ConsumeCapability, EventTypes, TableEvents, CapRow
  <2>5. execRow' \in [Execs -> ExecRow \cup {NULL}]
    BY <1>5, <1>t DEF ConsumeCapability, ExecRow, ExecStates
  <2>6. totpRow' \in [TotpSteps -> Execs \cup {NULL}]
    BY <1>5, <1>t DEF ConsumeCapability
  <2>7. \A f \in Execs : execRow[f] # NULL => execRow[f].cap # c /\ f # e
    BY <1>5, <1>e, <2>1 DEF ConsumeCapability
  <2>8. execRow'[e].cap = c /\ \A f \in Execs : f # e => execRow'[f] = execRow[f]
    BY <1>5, <1>t DEF ConsumeCapability
  <2>9. ExecutedIsConsumed'
    BY <2>2, <2>7, <2>8, <1>t, <1>e, <1>n DEF ExecutedIsConsumed
  <2>10. SingleRelease'
    BY <2>7, <2>8 DEF StoreInv, SingleRelease
  <2> QED BY <1>5, <2>3, <2>4, <2>5, <2>6, <2>9, <2>10, <1>t
          DEF ConsumeCapability, StoreInv, StoreTypeOK
<1>6. ASSUME NEW c \in Caps, ConsumeOAuthCapability(c)
      PROVE  StoreInv'
  <2>1. capRow[c] \in CapRow /\ capRow[c].used < 1
    BY <1>6, <1>t DEF ConsumeOAuthCapability, Live
  <2>2. /\ Used(capRow[c]) \in CapRow /\ Used(capRow[c]).state = "consumed"
        /\ capRow' = [capRow EXCEPT ![c] = Used(capRow[c])]
    BY <1>6, <2>1, UsedTyped DEF ConsumeOAuthCapability
  <2>3. capRow' \in [Caps -> CapRow \cup {NULL}]
    BY <2>2, <1>t
  <2>4. ExecutedIsConsumed' /\ SingleRelease'
    BY <1>6, <2>2, <1>t, <1>e, <1>n
       DEF ConsumeOAuthCapability, StoreInv, ExecutedIsConsumed, SingleRelease
  <2> QED BY <1>6, <2>3, <2>4, <1>t DEF ConsumeOAuthCapability, StoreInv, StoreTypeOK
<1>7. ASSUME NEW e \in Execs, NEW o \in {"completed", "failed"}, FinishExecution(e, o)
      PROVE  StoreInv'
  <2>1. execRow[e] \in ExecRow /\ execRow[e].cap \in Caps
        /\ capRow[execRow[e].cap].req \in Requests
    BY <1>7, <1>e DEF FinishExecution, CanFinish, CapRow
  <2>2. FinishEvent[o] \in EventTypes
    BY DEF FinishEvent, EventTypes, TableEvents
  <2>3. ledger' \in Seq(Event)
    BY <1>7, <1>t, <2>1, <2>2, AppendTyped DEF FinishExecution
  <2>4. execRow' \in [Execs -> ExecRow \cup {NULL}]
    BY <1>7, <1>t, <2>1 DEF FinishExecution, ExecRow, ExecStates
  <2>5. \A f \in Execs : /\ execRow'[f] = NULL <=> execRow[f] = NULL
                         /\ execRow[f] # NULL => execRow'[f].cap = execRow[f].cap
    <3>1. \A f \in Execs : f # e => execRow'[f] = execRow[f]
      BY <1>7, <1>t DEF FinishExecution
    <3>2. execRow'[e] = [execRow[e] EXCEPT !.state = o]
      BY <1>7, <1>t DEF FinishExecution
    <3>3. execRow'[e].cap = execRow[e].cap /\ execRow'[e] # NULL
      BY <3>2, <2>1, <1>n DEF ExecRow, ExecStates
    <3> QED BY <3>1, <3>3, <2>1, <1>n
  <2>6. ExecutedIsConsumed' /\ SingleRelease'
    BY <1>7, <2>5 DEF FinishExecution, StoreInv, ExecutedIsConsumed, SingleRelease
  <2> QED BY <1>7, <2>3, <2>4, <2>6, <1>t DEF FinishExecution, StoreInv, StoreTypeOK
<1>8. ASSUME NEW c \in Caps, RevokeCapability(c)
      PROVE  StoreInv'
  <2>1. ledger' \in Seq(Event)
    BY <1>8, <1>t, AppendTyped DEF RevokeCapability, EventTypes, TableEvents
  <2>2. capRow' \in [Caps -> CapRow \cup {NULL}]
    BY <1>8, <1>t, WithdrawnRows DEF RevokeCapability, CapStates
  <2>3. ExecutedIsConsumed' /\ SingleRelease'
    BY <1>8, WithdrawKeepsExecutions DEF RevokeCapability, CapStates
  <2> QED BY <1>8, <2>1, <2>2, <2>3, <1>t DEF RevokeCapability, StoreInv, StoreTypeOK
<1>9. ASSUME NEW p \in Policies, RevokeNotPolicy(p)
      PROVE  StoreInv'
  <2>1. ledger' \in Seq(Event)
    BY <1>9, <1>t, AppendTyped DEF RevokeNotPolicy, EventTypes, TableEvents
  <2>2. capRow' \in [Caps -> CapRow \cup {NULL}]
    BY <1>9, <1>t, WithdrawnRows DEF RevokeNotPolicy, CapStates
  <2>3. ExecutedIsConsumed' /\ SingleRelease'
    BY <1>9, WithdrawKeepsExecutions DEF RevokeNotPolicy, CapStates
  <2> QED BY <1>9, <2>1, <2>2, <2>3, <1>t DEF RevokeNotPolicy, StoreInv, StoreTypeOK
<1>10. ASSUME Recover
       PROVE  StoreInv'
  <2>1. \A e \in Execs : CanFinish(e) =>
           /\ [execRow[e] EXCEPT !.state = "indeterminate"] \in ExecRow
           /\ [execRow[e] EXCEPT !.state = "indeterminate"].cap = execRow[e].cap
    BY <1>t DEF CanFinish, ExecRow, ExecStates
  <2>2. execRow' \in [Execs -> ExecRow \cup {NULL}]
    BY <1>10, <1>t, <2>1 DEF Recover
  <2>3. \A e \in Execs : /\ execRow'[e] = NULL <=> execRow[e] = NULL
                         /\ execRow[e] # NULL => execRow'[e].cap = execRow[e].cap
    BY <1>10, <1>t, <1>n, <2>1 DEF Recover, CanFinish
  <2>4. capRow' \in [Caps -> CapRow \cup {NULL}]
    BY <1>10, <1>t, WithdrawnRows DEF Recover, CapStates
  <2>5. ExecutedIsConsumed' /\ SingleRelease'
    BY <1>10, <2>3, WithdrawKeepsExecutions DEF Recover, CapStates
  <2> QED BY <1>10, <2>2, <2>4, <2>5, <1>t DEF Recover, StoreInv, StoreTypeOK
<1>11. CASE UNCHANGED storeVars
  BY <1>11, <1>t, <1>same DEF storeVars, StoreInv, StoreTypeOK
<1> QED
  BY <1>1, <1>2, <1>3, <1>4, <1>5, <1>6, <1>7, <1>8, <1>9, <1>10, <1>11 DEF StoreNext

\* The empty tables that apply_migrations creates satisfy the inductive invariant.
LEMMA StoreStart == StoreInit => StoreInv
BY DEF StoreInit, StoreInv, StoreTypeOK, ExecutedIsConsumed, SingleRelease

\* The inductive invariant holds throughout.
THEOREM StoreInvariant == StoreSpec => []StoreInv
BY StoreStart, StoreStep, PTL DEF StoreSpec

\* Type correctness: every transaction of secretctl-store keeps the tables well formed.
THEOREM StoreTypeCorrect == StoreSpec => []StoreTypeOK
BY StoreInvariant, PTL DEF StoreInv

\* However many consumes of a capability race, at most one execution of it ever exists.
THEOREM StoreSingleRelease == StoreSpec => []SingleRelease
BY StoreInvariant, PTL DEF StoreInv

(***************************************************************************)
(* The ledger agrees with the tables.                                      *)
(***************************************************************************)
\* An appended event joins exactly the events of its own type and capability, after them.
LEMMA EventsAppended ==
  ASSUME ledger \in Seq(Event), NEW t, NEW r, NEW c, Append1(t, r, c), NEW T, NEW d
  PROVE  /\ t \in T /\ c = d => EventsOf(T, d)' = EventsOf(T, d) \cup {Len(ledger) + 1}
         /\ ~ (t \in T /\ c = d) => EventsOf(T, d)' = EventsOf(T, d)
         /\ \A i \in EventsOf(T, d) : i \in Nat /\ i < Len(ledger) + 1
<1> DEFINE ev == [type |-> t, req |-> r, cap |-> c]
<1>1. /\ DOMAIN ledger = 1..Len(ledger) /\ Len(ledger) \in Nat
      /\ DOMAIN ledger' = 1..(Len(ledger) + 1)
      /\ \A i \in 1..Len(ledger) : ledger'[i] = ledger[i]
      /\ ledger'[Len(ledger) + 1] = ev
  BY DEF Append1
<1>2. ev.type = t /\ ev.cap = c
  OBVIOUS
<1> HIDE DEF ev
<1>3. EventsOf(T, d)' = {i \in DOMAIN ledger' : ledger'[i].type \in T /\ ledger'[i].cap = d}
  BY DEF EventsOf
<1>4. EventsOf(T, d) = {i \in DOMAIN ledger : ledger[i].type \in T /\ ledger[i].cap = d}
  BY DEF EventsOf
<1> QED BY <1>1, <1>2, <1>3, <1>4

Quiet(T) == \A d \in Caps : EventsOf(T, d)' = EventsOf(T, d)
Consumed == {"capability.consumed"}
Revoked == {"capability.revoked"}

\* A step that adds no minting, consumption or revocation, starts no execution, and keeps
\* the rows that are consumed or revoked, keeps the agreement.
LEMMA LedgerFrame ==
  ASSUME LedgerAgrees, RevokedNeverExecuted, Quiet(MintEvents), Quiet(Consumed), Quiet(Revoked),
         \A c \in Caps : /\ capRow'[c] = NULL <=> capRow[c] = NULL
                         /\ capRow[c] # NULL /\ capRow[c].state \in {"consumed", "revoked"} =>
                               capRow'[c].state = capRow[c].state
                         /\ ExecutedCap(c)' <=> ExecutedCap(c)
  PROVE  LedgerAgrees' /\ RevokedNeverExecuted'
<1>1. \A c \in Caps : EventsOf(Consumed, c) # {} => capRow[c] # NULL /\ capRow[c].state = "consumed"
  BY DEF LedgerAgrees, Consumed
<1>2. LedgerAgrees'
  BY <1>1 DEF LedgerAgrees, Quiet, Consumed
<1>3. RevokedNeverExecuted'
  BY DEF RevokedNeverExecuted, Quiet, Revoked
<1> QED BY <1>2, <1>3

LedgerInv == StoreInv /\ LedgerAgrees /\ RevokedNeverExecuted

\* Every transaction keeps tables and ledger in agreement: rows and event commit together.
LEMMA LedgerStep == LedgerInv /\ [StoreNext]_storeVars => LedgerInv'
<1> SUFFICES ASSUME LedgerInv, [StoreNext]_storeVars PROVE LedgerAgrees' /\ RevokedNeverExecuted'
  BY StoreStep DEF LedgerInv
<1>t. /\ capRow  \in [Caps -> CapRow \cup {NULL}]
      /\ execRow \in [Execs -> ExecRow \cup {NULL}]
      /\ ledger  \in Seq(Event)
      /\ NULL \notin CapRow /\ NULL \notin ExecRow /\ NULL \notin Caps
  BY NullAssumption DEF LedgerInv, StoreInv, StoreTypeOK
<1>i. LedgerAgrees /\ RevokedNeverExecuted
  BY DEF LedgerInv
\* Events that say nothing of minting, consumption or revocation.
<1>q. ASSUME NEW t, NEW r, NEW c, Append1(t, r, c), t \notin MintEvents \cup Consumed \cup Revoked
      PROVE  Quiet(MintEvents) /\ Quiet(Consumed) /\ Quiet(Revoked)
  BY <1>q, <1>t, EventsAppended DEF Quiet
<1>x. ASSUME UNCHANGED execRow
      PROVE  \A c \in Caps : ExecutedCap(c)' <=> ExecutedCap(c)
  BY <1>x DEF ExecutedCap
<1>1. ASSUME NEW t \in LooseEvents, NEW r \in Requests \cup {NULL}, NEW c \in Caps \cup {NULL},
             RecordEvent(t, r, c)
      PROVE  LedgerAgrees' /\ RevokedNeverExecuted'
  <2>1. t \notin MintEvents \cup Consumed \cup Revoked
    BY LooseAssumption DEF TableEvents, Consumed, Revoked
  <2>2. Quiet(MintEvents) /\ Quiet(Consumed) /\ Quiet(Revoked)
    BY <1>1, <1>q, <2>1 DEF RecordEvent
  <2> QED BY <1>1, <2>2, <1>i, <1>x, LedgerFrame DEF RecordEvent
<1>2. ASSUME NEW a \in Approvals, NEW r \in Requests, InsertApproval(a, r)
      PROVE  LedgerAgrees' /\ RevokedNeverExecuted'
  <2>2. Quiet(MintEvents) /\ Quiet(Consumed) /\ Quiet(Revoked)
    BY <1>2, <1>q DEF InsertApproval, MintEvents, Consumed, Revoked
  <2> QED BY <1>2, <2>2, <1>i, <1>x, LedgerFrame DEF InsertApproval
<1>3. ASSUME NEW a \in Approvals, NEW d \in Decisions, UpdateApproval(a, d)
      PROVE  LedgerAgrees' /\ RevokedNeverExecuted'
  <2>1. DecisionEvent[d] \notin MintEvents \cup Consumed \cup Revoked
    BY DEF DecisionEvent, Decisions, MintEvents, Consumed, Revoked
  <2>2. Quiet(MintEvents) /\ Quiet(Consumed) /\ Quiet(Revoked)
    BY <1>3, <1>q, <2>1 DEF UpdateApproval
  <2> QED BY <1>3, <2>2, <1>i, <1>x, LedgerFrame DEF UpdateApproval
<1>7. ASSUME NEW e \in Execs, NEW o \in {"completed", "failed"}, FinishExecution(e, o)
      PROVE  LedgerAgrees' /\ RevokedNeverExecuted'
  <2>1. FinishEvent[o] \notin MintEvents \cup Consumed \cup Revoked
    BY DEF FinishEvent, MintEvents, Consumed, Revoked
  <2>2. Quiet(MintEvents) /\ Quiet(Consumed) /\ Quiet(Revoked)
    BY <1>7, <1>q, <2>1 DEF FinishExecution
  <2>3. execRow[e] \in ExecRow /\ execRow'[e] = [execRow[e] EXCEPT !.state = o]
        /\ \A f \in Execs : f # e => execRow'[f] = execRow[f]
    BY <1>7, <1>t DEF FinishExecution, CanFinish
  <2>4. execRow'[e].cap = execRow[e].cap /\ execRow'[e] # NULL
    BY <2>3, <1>t DEF ExecRow, ExecStates
  <2>5. \A c \in Caps : ExecutedCap(c)' <=> ExecutedCap(c)
    BY <2>3, <2>4, <1>t DEF ExecutedCap
  <2> QED BY <1>7, <2>2, <2>5, <1>i, LedgerFrame DEF FinishExecution
<1>4. ASSUME NEW c \in Caps, NEW r \in Requests, NEW p \in Policies, NEW t \in MintEvents,
             InsertCapability(c, r, p, t)
      PROVE  LedgerAgrees' /\ RevokedNeverExecuted'
  <2>1. /\ EventsOf(MintEvents, c)' = EventsOf(MintEvents, c) \cup {Len(ledger) + 1}
        /\ \A d \in Caps : d # c => EventsOf(MintEvents, d)' = EventsOf(MintEvents, d)
    BY <1>4, <1>t, EventsAppended DEF InsertCapability
  <2>2. Quiet(Consumed) /\ Quiet(Revoked)
    <3>1. t \notin Consumed /\ t \notin Revoked
      BY DEF MintEvents, Consumed, Revoked
    <3> QED BY <1>4, <1>t, <3>1, EventsAppended DEF InsertCapability, Quiet
  <2>3. /\ capRow[c] = NULL /\ capRow'[c] # NULL
        /\ \A d \in Caps : d # c => capRow'[d] = capRow[d]
    <3>1. [req |-> r, policy |-> p, state |-> "issued", used |-> 0] \in CapRow
      BY DEF CapRow, CapStates, LiveStates
    <3> QED BY <1>4, <1>t, <3>1 DEF InsertCapability
  <2>4. /\ EventsOf(MintEvents, c) = {} /\ EventsOf(Consumed, c) = {}
        /\ EventsOf(Revoked, c) = {}
    BY <2>3, <1>i DEF LedgerAgrees, RevokedNeverExecuted, Consumed, Revoked
  <2>5. \A d \in Caps : ExecutedCap(d)' <=> ExecutedCap(d)
    BY <1>4, <1>x DEF InsertCapability
  <2>6. LedgerAgrees'
    BY <2>1, <2>2, <2>3, <2>4, <2>5, <1>i DEF LedgerAgrees, Quiet, Consumed
  <2>7. RevokedNeverExecuted'
    BY <2>2, <2>3, <2>4, <2>5, <1>i DEF RevokedNeverExecuted, Quiet, Revoked
  <2> QED BY <2>6, <2>7
<1>5. ASSUME NEW c \in Caps, NEW e \in Execs, NEW s \in TotpSteps \cup {NULL},
             ConsumeCapability(c, e, s)
      PROVE  LedgerAgrees' /\ RevokedNeverExecuted'
  <2>1. capRow[c] \in CapRow /\ capRow[c].used < 1 /\ capRow[c] # NULL
        /\ capRow[c].state \notin {"consumed", "revoked"}
    BY <1>5, <1>t DEF ConsumeCapability, CanConsume, Live, LiveStates
  <2>2. capRow'[c] # NULL /\ capRow'[c].state = "consumed"
        /\ \A d \in Caps : d # c => capRow'[d] = capRow[d]
    BY <1>5, <1>t, <2>1, UsedTyped DEF ConsumeCapability
  <2>3. /\ EventsOf(Consumed, c)' = EventsOf(Consumed, c) \cup {Len(ledger) + 1}
        /\ \A d \in Caps : d # c => EventsOf(Consumed, d)' = EventsOf(Consumed, d)
        /\ \A i \in EventsOf(MintEvents, c) : i < Len(ledger) + 1
    BY <1>5, <1>t, EventsAppended DEF ConsumeCapability, Consumed
  <2>4. Quiet(MintEvents) /\ Quiet(Revoked)
    <3>1. "capability.consumed" \notin MintEvents /\ "capability.consumed" \notin Revoked
      BY DEF MintEvents, Revoked
    <3> QED BY <1>5, <1>t, <3>1, EventsAppended DEF ConsumeCapability, Quiet
  <2>5. /\ execRow[e] = NULL /\ execRow'[e] = [cap |-> c, state |-> "consuming"]
        /\ \A f \in Execs : f # e => execRow'[f] = execRow[f]
    BY <1>5, <1>t DEF ConsumeCapability
  <2>6. execRow'[e] # NULL /\ execRow'[e].cap = c
    BY <2>5, <1>t DEF ExecRow, ExecStates
  <2>7. ExecutedCap(c)' /\ \A d \in Caps : d # c => (ExecutedCap(d)' <=> ExecutedCap(d))
    BY <2>5, <2>6 DEF ExecutedCap
  <2>8. /\ EventsOf(Consumed, c) = {} /\ EventsOf(Revoked, c) = {}
        /\ EventsOf(MintEvents, c) # {}
    BY <2>1, <1>i DEF LedgerAgrees, RevokedNeverExecuted, Consumed, Revoked
  <2>9. LedgerAgrees'
    <3> SUFFICES ASSUME NEW d \in Caps
                 PROVE  /\ capRow'[d] # NULL <=> EventsOf(MintEvents, d)' # {}
                        /\ \A i, j \in EventsOf(MintEvents, d)' : i = j
                        /\ ExecutedCap(d)' <=> EventsOf(Consumed, d)' # {}
                        /\ \A i, j \in EventsOf(Consumed, d)' : i = j
                        /\ \A i \in EventsOf(Consumed, d)' :
                              /\ \E j \in EventsOf(MintEvents, d)' : j < i
                              /\ capRow'[d].state = "consumed"
      BY DEF LedgerAgrees, Consumed
    <3>1. CASE d = c
      BY <3>1, <2>1, <2>2, <2>3, <2>4, <2>7, <2>8, <1>i DEF LedgerAgrees, Quiet
    <3>2. CASE d # c
      BY <3>2, <2>2, <2>3, <2>4, <2>7, <1>i DEF LedgerAgrees, Quiet, Consumed
    <3> QED BY <3>1, <3>2
  <2>10. RevokedNeverExecuted'
    BY <2>2, <2>4, <2>7, <2>8, <1>i DEF RevokedNeverExecuted, Quiet, Revoked
  <2> QED BY <2>9, <2>10
<1>6. ASSUME NEW c \in Caps, ConsumeOAuthCapability(c)
      PROVE  LedgerAgrees' /\ RevokedNeverExecuted'
  <2>1. capRow[c] \in CapRow /\ capRow[c].used < 1
        /\ capRow[c].state \notin {"consumed", "revoked"}
    BY <1>6, <1>t DEF ConsumeOAuthCapability, Live, LiveStates
  <2>2. capRow'[c] # NULL /\ \A d \in Caps : d # c => capRow'[d] = capRow[d]
    BY <1>6, <1>t, <2>1, UsedTyped DEF ConsumeOAuthCapability
  <2>3. Quiet(MintEvents) /\ Quiet(Consumed) /\ Quiet(Revoked)
    BY <1>6 DEF ConsumeOAuthCapability, Quiet, EventsOf
  <2> QED BY <1>6, <2>1, <2>2, <2>3, <1>t, <1>i, <1>x, LedgerFrame DEF ConsumeOAuthCapability
<1>8. ASSUME NEW c \in Caps, RevokeCapability(c)
      PROVE  LedgerAgrees' /\ RevokedNeverExecuted'
  <2>1. /\ capRow[c] # NULL /\ capRow[c].state \notin {"consumed", "revoked"}
        /\ capRow'[c] # NULL /\ capRow'[c].state = "revoked"
        /\ \A d \in Caps : d # c => capRow'[d] = capRow[d]
    <3>1. Live(c) /\ capRow' = Withdrawn({c}, "revoked") /\ "revoked" \in CapStates
      BY <1>8 DEF RevokeCapability, CapStates
    <3>2. capRow[c] # NULL /\ capRow[c].state \notin {"consumed", "revoked"}
      BY <3>1 DEF Live, LiveStates
    <3> QED BY <3>1, <3>2, <1>t, WithdrawnRows
  <2>2. /\ EventsOf(Revoked, c)' = EventsOf(Revoked, c) \cup {Len(ledger) + 1}
        /\ \A d \in Caps : d # c => EventsOf(Revoked, d)' = EventsOf(Revoked, d)
    BY <1>8, <1>t, EventsAppended DEF RevokeCapability, Revoked
  <2>3. Quiet(MintEvents) /\ Quiet(Consumed)
    <3>1. "capability.revoked" \notin MintEvents /\ "capability.revoked" \notin Consumed
      BY DEF MintEvents, Consumed
    <3> QED BY <1>8, <1>t, <3>1, EventsAppended DEF RevokeCapability, Quiet
  <2>4. \A d \in Caps : ExecutedCap(d)' <=> ExecutedCap(d)
    BY <1>8, <1>x DEF RevokeCapability
  <2>5. EventsOf(Consumed, c) = {} /\ ~ ExecutedCap(c)
    BY <2>1, <1>i DEF LedgerAgrees, Consumed
  <2>6. LedgerAgrees'
    BY <2>1, <2>3, <2>4, <2>5, <1>i DEF LedgerAgrees, Quiet, Consumed
  <2>7. RevokedNeverExecuted'
    BY <2>1, <2>2, <2>4, <2>5, <1>i DEF RevokedNeverExecuted, Revoked
  <2> QED BY <2>6, <2>7
\* Dead rows are left alone by the withdrawals that write no revocation of one capability.
<1>w. ASSUME NEW S, NEW st \in CapStates, capRow' = Withdrawn(S, st)
      PROVE  \A c \in Caps :
                /\ capRow'[c] = NULL <=> capRow[c] = NULL
                /\ capRow[c] # NULL /\ capRow[c].state \in {"consumed", "revoked"} =>
                      capRow'[c].state = capRow[c].state
  BY <1>w, <1>t, WithdrawnRows DEF Live, LiveStates
<1>9. ASSUME NEW p \in Policies, RevokeNotPolicy(p)
      PROVE  LedgerAgrees' /\ RevokedNeverExecuted'
  <2>1. Quiet(MintEvents) /\ Quiet(Consumed) /\ Quiet(Revoked)
    BY <1>9, <1>q DEF RevokeNotPolicy, MintEvents, Consumed, Revoked
  <2> QED BY <1>9, <2>1, <1>w, <1>i, <1>x, LedgerFrame DEF RevokeNotPolicy, CapStates
<1>10. ASSUME Recover
       PROVE  LedgerAgrees' /\ RevokedNeverExecuted'
  <2>1. Quiet(MintEvents) /\ Quiet(Consumed) /\ Quiet(Revoked)
    BY <1>10 DEF Recover, Quiet, EventsOf
  <2>2. \A e \in Execs : CanFinish(e) =>
           /\ [execRow[e] EXCEPT !.state = "indeterminate"] \in ExecRow
           /\ [execRow[e] EXCEPT !.state = "indeterminate"].cap = execRow[e].cap
    BY <1>t DEF CanFinish, ExecRow, ExecStates
  <2>3. \A e \in Execs : /\ execRow'[e] = NULL <=> execRow[e] = NULL
                         /\ execRow[e] # NULL => execRow'[e].cap = execRow[e].cap
    BY <1>10, <1>t, <2>2 DEF Recover, CanFinish
  <2>4. \A c \in Caps : ExecutedCap(c)' <=> ExecutedCap(c)
    BY <2>3 DEF ExecutedCap
  <2> QED BY <1>10, <2>1, <2>4, <1>w, <1>i, LedgerFrame DEF Recover, CapStates
<1>11. CASE UNCHANGED storeVars
  <2>1. Quiet(MintEvents) /\ Quiet(Consumed) /\ Quiet(Revoked)
    BY <1>11 DEF storeVars, Quiet, EventsOf
  <2> QED BY <1>11, <2>1, <1>i, <1>x, LedgerFrame DEF storeVars
<1> QED
  BY <1>1, <1>2, <1>3, <1>4, <1>5, <1>6, <1>7, <1>8, <1>9, <1>10, <1>11 DEF StoreNext

\* Empty tables and an empty ledger agree.
LEMMA LedgerStart == StoreInit => LedgerAgrees /\ RevokedNeverExecuted
BY DEF StoreInit, LedgerAgrees, RevokedNeverExecuted, EventsOf, ExecutedCap

\* Agreement of tables and ledger, with the finality of revocation, holds throughout.
THEOREM LedgerInvariant == StoreSpec => []LedgerInv
BY StoreStart, LedgerStart, LedgerStep, PTL DEF StoreSpec, LedgerInv

\* The audit ledger and the tables agree on what was minted, consumed and executed.
THEOREM StoreLedgerAgrees == StoreSpec => []LedgerAgrees
BY LedgerInvariant, PTL DEF LedgerInv

\* A capability whose revocation is on record is never executed.
THEOREM StoreRevocationFinal == StoreSpec => []RevokedNeverExecuted
BY LedgerInvariant, PTL DEF LedgerInv

(***************************************************************************)
(* The capabilities table implements the single-use promise.               *)
(***************************************************************************)
stages == [c \in Caps |-> Stage(c)]

\* Rows that stay where they are, or move from live to dead, are a withdrawal.
LEMMA WithdrawalIsPromised ==
  ASSUME StoreInv, NEW S, NEW st \in {"expired", "revoked"}, capRow' = Withdrawn(S, st)
  PROVE  Promise!Withdraw({c \in Caps : c \in S /\ Live(c)})
<1> DEFINE gone == {c \in Caps : c \in S /\ Live(c)}
<1>t. capRow \in [Caps -> CapRow \cup {NULL}] /\ NULL \notin CapRow /\ st \in CapStates
  BY NullAssumption DEF StoreInv, StoreTypeOK, CapStates
<1>1. \A c \in gone : Stage(c) = "live"
  BY DEF Stage, Live
<1>2. \A c \in gone : capRow'[c] # NULL /\ capRow'[c].state = st
  BY <1>t, WithdrawnRows DEF Live
<1>3. \A c \in gone : Stage(c)' = "withdrawn"
  BY <1>2 DEF Stage, Live, LiveStates
<1>4. \A c \in Caps \ gone : capRow'[c] = capRow[c]
  BY <1>t, WithdrawnRows
<1>5. \A c \in Caps \ gone : Stage(c)' = Stage(c)
  BY <1>4 DEF Stage, Live
<1> HIDE DEF gone
<1>6. gone \subseteq Caps
  BY DEF gone
<1>7. stages' = [c \in Caps |-> IF c \in gone THEN "withdrawn" ELSE stages[c]]
  BY <1>3, <1>5 DEF stages
<1> QED BY <1>1, <1>6, <1>7 DEF Promise!Withdraw, gone, stages

\* Consuming a live unused row is a use.
LEMMA UseIsPromised ==
  ASSUME StoreInv, NEW c \in Caps, Live(c), capRow[c].used < 1,
         capRow' = [capRow EXCEPT ![c] = Used(capRow[c])]
  PROVE  Promise!Use(c)
<1>1. /\ capRow \in [Caps -> CapRow \cup {NULL}] /\ NULL \notin CapRow
      /\ capRow[c] \in CapRow
  BY NullAssumption DEF StoreInv, StoreTypeOK, Live
<1>2. /\ capRow'[c] # NULL /\ capRow'[c].state = "consumed"
      /\ \A d \in Caps : d # c => capRow'[d] = capRow[d]
  BY <1>1, UsedTyped
<1>3. Stage(c) = "live" /\ Stage(c)' = "used" /\ \A d \in Caps : d # c => Stage(d)' = Stage(d)
  BY <1>2 DEF Stage, Live, LiveStates
<1>4. stages' = [stages EXCEPT ![c] = "used"]
  BY <1>3 DEF stages
<1> QED BY <1>3, <1>4 DEF Promise!Use, stages

\* Every transaction is a step of the promise, or leaves the stages alone.
LEMMA PromiseStep ==
  ASSUME StoreInv, [StoreNext]_storeVars
  PROVE  [Promise!Next]_stages
<1>s. ASSUME UNCHANGED capRow PROVE UNCHANGED stages
  BY <1>s DEF stages, Stage, Live
<1>1. ASSUME NEW t \in LooseEvents, NEW r \in Requests \cup {NULL}, NEW c \in Caps \cup {NULL},
             RecordEvent(t, r, c)
      PROVE  UNCHANGED stages
  BY <1>1, <1>s DEF RecordEvent
<1>2. ASSUME NEW a \in Approvals, NEW r \in Requests, InsertApproval(a, r)
      PROVE  UNCHANGED stages
  BY <1>2, <1>s DEF InsertApproval
<1>3. ASSUME NEW a \in Approvals, NEW d \in Decisions, UpdateApproval(a, d)
      PROVE  UNCHANGED stages
  BY <1>3, <1>s DEF UpdateApproval
<1>4. ASSUME NEW c \in Caps, NEW r \in Requests, NEW p \in Policies, NEW t \in MintEvents,
             InsertCapability(c, r, p, t)
      PROVE  Promise!Next
  <2>1. capRow \in [Caps -> CapRow \cup {NULL}] /\ NULL \notin CapRow
    BY NullAssumption DEF StoreInv, StoreTypeOK
  <2>2. [req |-> r, policy |-> p, state |-> "issued", used |-> 0] \in CapRow
    BY DEF CapRow, CapStates, LiveStates
  <2>3. /\ capRow[c] = NULL /\ capRow'[c] # NULL /\ capRow'[c].state = "issued"
        /\ \A d \in Caps : d # c => capRow'[d] = capRow[d]
    BY <1>4, <2>1, <2>2 DEF InsertCapability
  <2>4. Stage(c) = "unminted" /\ Stage(c)' = "live" /\ \A d \in Caps : d # c => Stage(d)' = Stage(d)
    BY <2>3 DEF Stage, Live, LiveStates
  <2>5. stages' = [stages EXCEPT ![c] = "live"]
    BY <2>4 DEF stages
  <2> QED BY <2>4, <2>5 DEF Promise!Next, Promise!Mint, stages
<1>5. ASSUME NEW c \in Caps, NEW e \in Execs, NEW s \in TotpSteps \cup {NULL},
             ConsumeCapability(c, e, s)
      PROVE  Promise!Next
  BY <1>5, UseIsPromised DEF ConsumeCapability, CanConsume, Promise!Next
<1>6. ASSUME NEW c \in Caps, ConsumeOAuthCapability(c)
      PROVE  Promise!Next
  BY <1>6, UseIsPromised DEF ConsumeOAuthCapability, Promise!Next
<1>7. ASSUME NEW e \in Execs, NEW o \in {"completed", "failed"}, FinishExecution(e, o)
      PROVE  UNCHANGED stages
  BY <1>7, <1>s DEF FinishExecution
<1>w. ASSUME NEW S, NEW st \in {"expired", "revoked"}, capRow' = Withdrawn(S, st)
      PROVE  Promise!Next
  <2>1. Promise!Withdraw({c \in Caps : c \in S /\ Live(c)})
    BY <1>w, WithdrawalIsPromised
  <2>2. {c \in Caps : c \in S /\ Live(c)} \in SUBSET Caps
    OBVIOUS
  <2> QED BY <2>1, <2>2 DEF Promise!Next
<1>8. ASSUME NEW c \in Caps, RevokeCapability(c)
      PROVE  Promise!Next
  BY <1>8, <1>w DEF RevokeCapability
<1>9. ASSUME NEW p \in Policies, RevokeNotPolicy(p)
      PROVE  Promise!Next
  BY <1>9, <1>w DEF RevokeNotPolicy
<1>10. ASSUME Recover
       PROVE  Promise!Next
  BY <1>10, <1>w DEF Recover
<1>11. CASE UNCHANGED storeVars
  BY <1>11, <1>s DEF storeVars
<1> QED
  BY <1>1, <1>2, <1>3, <1>4, <1>5, <1>6, <1>7, <1>8, <1>9, <1>10, <1>11 DEF StoreNext

\* With no capability row, every capability id is unminted.
LEMMA PromiseStart == StoreInit => Promise!Init
BY DEF StoreInit, Promise!Init, Stage

\* The transactions of the store, in any order and across restarts, only ever mint once,
\* use at most once, and never bring a used or withdrawn capability back.
THEOREM StoreImplementsSingleUse == StoreSpec => ImplementsSingleUse
<1>1. StoreInv /\ [StoreNext]_storeVars => [Promise!Next]_stages
  BY PromiseStep
<1> QED BY <1>1, StoreInvariant, PromiseStart, PTL DEF StoreSpec, ImplementsSingleUse, Promise!Spec, stages
============================================================================
