---------------------------- MODULE BrokerProofs ----------------------------
(***************************************************************************)
(* Proofs about Broker, for any number of handlers, ids, policies and      *)
(* restarts.  First what it does to the store: every step of a handler is  *)
(* one transaction or none, so what StoreProofs shows of the store holds   *)
(* of the broker, whatever its handlers do with the memory between         *)
(* transactions.  Then that memory: the maps of BrokerState and what a     *)
(* handler carries from one lock or transaction to the next, against what  *)
(* the store holds.                                                        *)
(***************************************************************************)
EXTENDS Broker, StoreProofs

(***************************************************************************)
(* The broker uses the store by its transactions.                          *)
(***************************************************************************)
\* Recording an event of one of the broker's own types is a transaction of the store.
LEMMA RecordIsTransaction ==
  ASSUME NEW t \in BrokerEvents, NEW r \in Requests \cup {NULL}, NEW c \in Caps \cup {NULL},
         RecordEvent(t, r, c)
  PROVE  StoreNext
BY BrokerAssumption DEF StoreNext

\* A step of an action.request or action.cancel handler runs one transaction or none.
LEMMA AgentStepIsTransaction ==
  ASSUME NEW r \in Requests, AgentStep(r)
  PROVE  [StoreNext]_storeVars
<1>1. ASSUME \/ \E k \in Actions : Submit(r, k)
             \/ ValidateSession(r) \/ MeasureContext(r)
             \/ \E path \in Paths : EvaluatePolicy(r, path)
             \/ AskMem(r) \/ AskReq(r) \/ RequestFails(r) \/ Cancel(r)
      PROVE  UNCHANGED storeVars
  BY <1>1 DEF Submit, ValidateSession, MeasureContext, EvaluatePolicy, AskMem, AskReq,
              RequestFails, Cancel
<1>2. ASSUME RecordRequested(r) \/ PolicyDenies(r) \/ RecordGranted(r)
      PROVE  StoreNext
  BY <1>2, RecordIsTransaction
     DEF RecordRequested, PolicyDenies, RecordGranted, BrokerEvents
<1>3. ASSUME AskDb(r) PROVE StoreNext
  BY <1>3 DEF AskDb, StoreNext
<1> QED BY <1>1, <1>2, <1>3 DEF AgentStep

\* A step of mint_authorized_capability runs one transaction or none.
LEMMA MintStepIsTransaction ==
  ASSUME NEW x, MintStep(x)
  PROVE  [StoreNext]_storeVars
<1>1. ASSUME MintMem(x) \/ MintReq(x) PROVE UNCHANGED storeVars
  BY <1>1 DEF MintMem, MintReq
<1>2. ASSUME MintDb(x) PROVE StoreNext
  BY <1>2 DEF MintDb, StoreNext
<1> QED BY <1>1, <1>2 DEF MintStep

\* A step of decide_approval_at runs one transaction or none.
LEMMA DeciderStepIsTransaction ==
  ASSUME NEW d, DeciderStep(d)
  PROVE  [StoreNext]_storeVars
<1>1. ASSUME \/ \E a \in Approvals, v \in Votes : BeginDecide(d, a, v)
             \/ DecideMem(d) \/ DecideReq(d) \/ DecideFails(d)
      PROVE  UNCHANGED storeVars
  BY <1>1 DEF BeginDecide, DecideMem, DecideReq, DecideFails
<1>2. ASSUME DecideDb(d) PROVE StoreNext
  BY <1>2 DEF DecideDb, StoreNext
<1> QED BY <1>1, <1>2 DEF DeciderStep

\* A step of revoke_capability_admin or replace_policy runs one transaction or none.
LEMMA AdminStepIsTransaction ==
  ASSUME NEW d, AdminStep(d)
  PROVE  [StoreNext]_storeVars
<1>1. ASSUME RevokeMem(d) \/ ReloadEval(d) \/ ReloadMem(d) PROVE UNCHANGED storeVars
  BY <1>1 DEF RevokeMem, ReloadEval, ReloadMem
<1>2. ASSUME (\E c \in Caps : RevokeDb(d, c)) \/ (\E p \in Policies : ReloadDb(d, p))
      PROVE  StoreNext
  BY <1>2 DEF RevokeDb, ReloadDb, StoreNext
<1> QED BY <1>1, <1>2 DEF AdminStep

\* A step of a handler of the executor socket runs one transaction or none.
LEMMA ExecutorStepIsTransaction ==
  ASSUME NEW x, ExecutorStep(x)
  PROVE  [StoreNext]_storeVars
<1>1. ASSUME \/ \E fate \in Fates : Poll(x, fate)
             \/ \E c \in Caps : BeginConsume(x, c)
             \/ ConsumeRejected(x) \/ ConsumeMem(x) \/ RetrieveFails(x)
             \/ \E e \in Execs, st \in Statuses : BeginResult(x, e, st)
             \/ ResultRejected(x) \/ ResultMem(x) \/ ResultReq(x)
      PROVE  UNCHANGED storeVars
  BY <1>1 DEF Poll, BeginConsume, ConsumeRejected, ConsumeMem, RetrieveFails, BeginResult,
              ResultRejected, ResultMem, ResultReq
<1>2. ASSUME \/ \E c \in Caps, bound \in BOOLEAN : BeginCallback(x, c, bound)
             \/ CallbackMem(x) \/ Exchange(x) \/ CallbackFails(x) \/ CallbackReq(x) \/ AuditFails(x)
      PROVE  UNCHANGED storeVars
  BY <1>2 DEF BeginCallback, CallbackMem, Exchange, CallbackFails, CallbackReq, AuditFails
<1>3. ASSUME ConsumeDb(x) PROVE StoreNext
  BY <1>3 DEF ConsumeDb, StoreNext
<1>4. ASSUME ResultDb(x) PROVE StoreNext
  BY <1>4 DEF ResultDb, StoreNext
<1>5. ASSUME CallbackDb(x) PROVE StoreNext
  BY <1>5 DEF CallbackDb, StoreNext
<1>6. ASSUME Retrieve(x) \/ CallbackAudit(x) PROVE StoreNext
  BY <1>6, RecordIsTransaction DEF Retrieve, CallbackAudit, BrokerEvents
<1> QED BY <1>1, <1>2, <1>3, <1>4, <1>5, <1>6 DEF ExecutorStep

\* The ticker, the browser, the clock and a restart run one transaction or none.
LEMMA BackgroundStepIsTransaction ==
  ASSUME TickerStep \/ EnvironmentStep \/ Restart
  PROVE  [StoreNext]_storeVars
<1>1. ASSUME \/ StaleMark \/ StaleSweep \/ AuditFails(Ticker)
             \/ Heartbeat \/ Navigate \/ Prepare \/ TotpTick
             \/ \E a \in Approvals : ApprovalLapses(a)
      PROVE  UNCHANGED storeVars
  BY <1>1 DEF StaleMark, StaleSweep, AuditFails, Heartbeat, Navigate, Prepare, TotpTick, ApprovalLapses
<1>2. ASSUME StaleAudit \/ Register PROVE StoreNext
  BY <1>2, RecordIsTransaction DEF StaleAudit, Register, BrokerEvents
<1>3. ASSUME Restart PROVE StoreNext
  BY <1>3 DEF Restart, StoreNext
<1> QED BY <1>1, <1>2, <1>3 DEF TickerStep, EnvironmentStep

\* Every step of the broker is one transaction of the store, or none.
LEMMA BrokerStepIsTransaction == [BrokerNext]_brokerVars => [StoreNext]_storeVars
<1> SUFFICES ASSUME [BrokerNext]_brokerVars PROVE [StoreNext]_storeVars
  OBVIOUS
<1>1. CASE UNCHANGED brokerVars
  BY <1>1 DEF brokerVars
<1>2. CASE BrokerNext
  BY <1>2, AgentStepIsTransaction, MintStepIsTransaction, DeciderStepIsTransaction,
     AdminStepIsTransaction, ExecutorStepIsTransaction, BackgroundStepIsTransaction
     DEF BrokerNext
<1> QED BY <1>1, <1>2

\* The broker uses the store by its transactions alone.
THEOREM BrokerUsesStore == BrokerSpec => StoreSpec
BY BrokerStepIsTransaction, PTL DEF BrokerSpec, StoreSpec, BrokerInit

\* So no interleaving of the broker's handlers, and no restart, lets a capability be
\* executed twice, nor one whose revocation is on record be executed at all.
THEOREM BrokerSingleRelease == BrokerSpec => [](SingleRelease /\ RevokedNeverExecuted)
BY BrokerUsesStore, StoreSingleRelease, StoreRevocationFinal, PTL

\* The single-use promise holds of the whole broker.
THEOREM BrokerKeepsPromise == BrokerSpec => ImplementsSingleUse
BY BrokerUsesStore, StoreImplementsSingleUse, PTL

(***************************************************************************)
(* What a handler carries at each point of its code.                       *)
(***************************************************************************)
AskPcs == {"submitted", "session", "context", "evaluate", "failing", "granted", "ask"}
DecidePcs == {"decide", "decideMem", "decideReq"}
MintPcs == {"mint", "mintMem", "mintReq"}
CallbackPcs == {"callback", "callbackMem", "exchange", "callbackReq", "callbackAudit"}
ConsumePcs == {"consume", "consumeMem", "retrieve"}
ResultPcs == {"result", "resultMem", "resultReq"}

AuthPcs == AskPcs \cup DecidePcs \cup MintPcs \cup CallbackPcs \cup ConsumePcs
           \cup {"askMem", "askReq"}
ApprPcs == DecidePcs \cup {"askMem", "askReq"}
CapPcs == ConsumePcs \cup CallbackPcs \cup {"mintMem", "mintReq", "revokeMem"}
ExecPcs == ResultPcs \cup {"consumeMem", "retrieve"}

Carrying(t) ==
  /\ t.pc \in AuthPcs => t.auth \in Auth
  /\ t.pc \in ApprPcs => t.appr \in Approvals
  /\ t.pc \in CapPcs => t.cap \in Caps
  /\ t.pc \in ExecPcs => t.exec \in Execs
  /\ t.pc \in DecidePcs => t.out \in Decisions
  /\ t.pc = "result" => t.out \in {"completed", "failed"}
  /\ t.pc \in ResultPcs => t.out \in {"completed", "failed", "completed_evidence_lost"}
  /\ t.pc \in {"callbackReq", "callbackAudit"} => t.out \in {"completed", "failed"}
  /\ t.pc \in {"reloadEval", "reloadMem"} => t.out \in Policies

\* An entry a handler is about to change is still in its map: entries leave the maps of
\* capabilities and executions only with the process.
HasEntry(t) ==
  /\ t.pc \in {"consume", "consumeMem", "callback", "callbackMem"} => memCap[t.cap] # NULL
  /\ t.pc \in ResultPcs => memExec[t.exec] # NULL

TypeInv ==
  /\ BrokerTypeOK
  /\ \A x \in Handlers : Carrying(task[x])
  /\ \A x \in Handlers : HasEntry(task[x])


MemTyped ==
  /\ reqState \in [Requests -> ReqStates]
  /\ memAppr \in [Approvals -> Auth \cup {NULL}]
  /\ memCap \in [Caps -> CapabilityEntry \cup {NULL}]
  /\ offers \in Seq(Caps)
  /\ memExec \in [Execs -> ActiveExecution \cup {NULL}]
  /\ policy \in Policies
  /\ pendingOAuth \subseteq Caps

EnvTyped ==
  /\ session \in {"absent", "active", "stale"}
  /\ ctx \in Nat \cup {NULL} /\ epoch \in Nat
  /\ due \subseteq Approvals
  /\ totpStep \in TotpSteps
  /\ tokens \subseteq Caps
  /\ released \subseteq Release
  /\ restarts \in Nat

HandlersTyped ==
  /\ task \in [Handlers -> Task]
  /\ \A x \in Handlers : Carrying(task[x])
  /\ \A x \in Handlers : HasEntry(task[x])

\* The parts of the typing invariant.
LEMMA TypeParts ==
  /\ TypeInv <=> StoreTypeOK /\ MemTyped /\ EnvTyped /\ HandlersTyped
  /\ TypeInv' <=> StoreTypeOK' /\ MemTyped' /\ EnvTyped' /\ HandlersTyped'
BY DEF TypeInv, BrokerTypeOK, MemTyped, EnvTyped, HandlersTyped

\* Entries of the maps of capabilities and executions stay.
EntriesStay ==
  /\ \A c \in Caps : memCap[c] # NULL => memCap'[c] # NULL
  /\ \A e \in Execs : memExec[e] # NULL => memExec'[e] # NULL

\* The record of a handler that moves on, and of one that is done.
LEMMA IdleTask ==
  /\ Idle \in Task /\ Idle.pc = "idle" /\ Idle.auth = NULL /\ Idle.appr = NULL
  /\ Idle.out = NULL /\ Idle.cap = NULL /\ Idle.exec = NULL /\ Idle.step = NULL
BY DEF Idle, Task, PCs, Outs

\* A handler that only moves to another step keeps what it carries.
LEMMA MovedTask ==
  ASSUME NEW t \in Task, NEW p \in PCs
  PROVE  /\ [t EXCEPT !.pc = p] \in Task
         /\ [t EXCEPT !.pc = p].pc = p
         /\ [t EXCEPT !.pc = p].auth = t.auth
         /\ [t EXCEPT !.pc = p].appr = t.appr
         /\ [t EXCEPT !.pc = p].out = t.out
         /\ [t EXCEPT !.pc = p].cap = t.cap
         /\ [t EXCEPT !.pc = p].exec = t.exec
         /\ [t EXCEPT !.pc = p].step = t.step
BY DEF Task

\* A handler may come to any record whose fields its place in the code accounts for.
LEMMA HandlerMoves ==
  ASSUME HandlersTyped, EntriesStay, NEW x \in Handlers, NEW t \in Task, Carrying(t),
         t.pc \in {"consume", "consumeMem", "callback", "callbackMem"} => memCap'[t.cap] # NULL,
         t.pc \in ResultPcs => memExec'[t.exec] # NULL,
         task' = [task EXCEPT ![x] = t]
  PROVE  HandlersTyped'
<1>1. task' \in [Handlers -> Task] /\ task'[x] = t /\ \A y \in Handlers : y # x => task'[y] = task[y]
  BY DEF HandlersTyped
<1>2. \A y \in Handlers : Carrying(task'[y])
  BY <1>1 DEF HandlersTyped
<1>3. ASSUME NEW y \in Handlers PROVE HasEntry(task[y])'
  <2>1. CASE y = x
    BY <1>1, <2>1 DEF HasEntry
  <2>2. CASE y # x
    <3>1. task'[y] = task[y] /\ Carrying(task[y]) /\ HasEntry(task[y])
      BY <1>1, <2>2 DEF HandlersTyped
    <3> QED BY <3>1 DEF HasEntry, Carrying, EntriesStay, CapPcs, ConsumePcs, CallbackPcs, ExecPcs
  <2> QED BY <2>1, <2>2
<1>4. \A y \in Handlers : Carrying(task[y])'
  BY <1>2 DEF Carrying
<1> QED BY <1>1, <1>3, <1>4 DEF HandlersTyped

\* When no handler moves, the entries they refer to are still there.
LEMMA HandlersRest ==
  ASSUME HandlersTyped, EntriesStay, UNCHANGED task
  PROVE  HandlersTyped'
<1>1. ASSUME NEW y \in Handlers PROVE HasEntry(task[y])'
  <2>1. task'[y] = task[y] /\ Carrying(task[y]) /\ HasEntry(task[y])
    BY DEF HandlersTyped
  <2> QED BY <2>1 DEF HasEntry, Carrying, EntriesStay, CapPcs, ConsumePcs, CallbackPcs, ExecPcs
<1> QED BY <1>1 DEF HandlersTyped, Carrying

\* A handler that finishes.
LEMMA HandlerDone ==
  ASSUME HandlersTyped, EntriesStay, NEW x \in Handlers, Done(x)
  PROVE  HandlersTyped'
<1>1. Carrying(Idle)
  BY IdleTask DEF Carrying, AuthPcs, AskPcs, DecidePcs, MintPcs, CallbackPcs, ConsumePcs, ApprPcs,
     CapPcs, ExecPcs, ResultPcs
<1>2. Idle.pc \notin {"consume", "consumeMem", "callback", "callbackMem"} \cup ResultPcs
  BY IdleTask DEF ResultPcs
<1> QED BY <1>1, <1>2, IdleTask, HandlerMoves DEF Done

\* A handler that only goes on to the next place, where it needs nothing more.
LEMMA HandlerGoes ==
  ASSUME HandlersTyped, EntriesStay, NEW x \in Handlers, NEW p \in PCs, Goto(x, p),
         Carrying([task[x] EXCEPT !.pc = p]),
         p \in {"consume", "consumeMem", "callback", "callbackMem"} => memCap'[task[x].cap] # NULL,
         p \in ResultPcs => memExec'[task[x].exec] # NULL
  PROVE  HandlersTyped'
<1> DEFINE t == [task[x] EXCEPT !.pc = p]
<1>1. task[x] \in Task /\ task' = [task EXCEPT ![x] = t]
  BY DEF HandlersTyped, Goto
<1>2. t \in Task /\ t.pc = p /\ t.cap = task[x].cap /\ t.exec = task[x].exec
  BY <1>1, MovedTask
<1> HIDE DEF t
<1>3. Carrying(t)
  BY DEF t
<1> QED BY <1>1, <1>2, <1>3, HandlerMoves

\* A handler that goes from p to q where q needs no field that p did not.
Onward(p, q) ==
  /\ q \in PCs
  /\ q \in AuthPcs => p \in AuthPcs
  /\ q \in ApprPcs => p \in ApprPcs
  /\ q \in CapPcs => p \in CapPcs
  /\ q \in ExecPcs => p \in ExecPcs
  /\ q \in DecidePcs => p \in DecidePcs
  /\ q \notin {"consume", "consumeMem", "callback", "callbackMem", "result"}
  /\ q \in ResultPcs => p \in ResultPcs
  /\ q \in {"callbackReq", "callbackAudit"} => p \in {"callbackReq", "callbackAudit"}
  /\ q \in {"reloadEval", "reloadMem"} => p \in {"reloadEval", "reloadMem"}

\* One handler moves on to a step that needs no more than it already carries.
LEMMA HandlerOnward ==
  ASSUME HandlersTyped, EntriesStay, NEW x \in Handlers, NEW q, Goto(x, q),
         Onward(task[x].pc, q)
  PROVE  HandlersTyped'
<1>1. task[x] \in Task /\ Carrying(task[x]) /\ HasEntry(task[x])
  BY DEF HandlersTyped
<1>2. Carrying([task[x] EXCEPT !.pc = q])
  BY <1>1, MovedTask DEF Carrying, Onward
<1>3. q \in ResultPcs => memExec'[task[x].exec] # NULL
  BY <1>1 DEF Onward, Carrying, HasEntry, EntriesStay, ExecPcs
<1> QED BY <1>2, <1>3, HandlerGoes DEF Onward

\* Memory and environment that a step leaves alone keep their types.
LEMMA SameMemory == MemTyped /\ UNCHANGED memVars => MemTyped' /\ EntriesStay
BY DEF MemTyped, memVars, EntriesStay

\* A step that leaves sessions, windows and tables alone keeps their types.
LEMMA SameEnvironment == EnvTyped /\ UNCHANGED envVars => EnvTyped'
BY DEF EnvTyped, envVars

\* The state of one request is written.
LEMMA RequestWritten ==
  ASSUME MemTyped, NEW r \in Requests, NEW st \in ReqStates, SetReq(r, st),
         UNCHANGED <<memAppr, memCap, offers, memExec, policy, pendingOAuth>>
  PROVE  MemTyped' /\ EntriesStay
BY DEF MemTyped, SetReq, EntriesStay

\* The only change to an entry of the map of capabilities is its revocation.
RevokedAtMost ==
  \A c \in Caps : \/ memCap'[c] = memCap[c]
                  \/ memCap[c] # NULL /\ memCap'[c] # NULL /\ memCap'[c].state = "revoked"

\* Entries that are revoked in memory keep their type, and none disappears.
LEMMA RevokedEntries ==
  ASSUME MemTyped, NEW S, MemRevoke(S), UNCHANGED memExec
  PROVE  /\ memCap' \in [Caps -> CapabilityEntry \cup {NULL}]
         /\ EntriesStay
         /\ RevokedAtMost
<1> DEFINE gone(c) == [memCap[c] EXCEPT !.state = "revoked"]
<1>1. \A c \in Caps : Usable(c) => gone(c) \in CapabilityEntry /\ gone(c).state = "revoked"
  BY DEF MemTyped, Usable, CapabilityEntry
<1>2. memCap' = [c \in Caps |-> IF c \in S /\ Usable(c) THEN gone(c) ELSE memCap[c]]
  BY DEF MemRevoke
<1> HIDE DEF gone
<1>3. memCap' \in [Caps -> CapabilityEntry \cup {NULL}]
  BY <1>1, <1>2 DEF MemTyped
<1>4. RevokedAtMost
  BY <1>1, <1>2, EntriesAssumption DEF Usable, RevokedAtMost
<1> QED BY <1>3, <1>4 DEF EntriesStay, RevokedAtMost

\* The entry revoked by an administrator keeps its type.
LEMMA AdminRevokes ==
  ASSUME MemTyped, NEW d, RevokeMem(d)
  PROVE  /\ memCap' \in [Caps -> CapabilityEntry \cup {NULL}]
         /\ EntriesStay
         /\ RevokedAtMost
<1> DEFINE gone(c) == [memCap[c] EXCEPT !.state = "revoked"]
<1>1. \A c \in Caps : memCap[c] # NULL => gone(c) \in CapabilityEntry /\ gone(c).state = "revoked"
  BY DEF MemTyped, CapabilityEntry
<1>2. memCap' = [c \in Caps |-> IF c = task[d].cap /\ memCap[c] # NULL THEN gone(c) ELSE memCap[c]]
  BY DEF RevokeMem
<1> HIDE DEF gone
<1>3. memCap' \in [Caps -> CapabilityEntry \cup {NULL}]
  BY <1>1, <1>2 DEF MemTyped
<1>4. RevokedAtMost
  BY <1>1, <1>2, EntriesAssumption DEF RevokedAtMost
<1> QED BY <1>3, <1>4 DEF EntriesStay, RevokedAtMost, RevokeMem

\* Agents, deciders, administrators, executors and the ticker are all handlers.
LEMMA RequestHandlers == Requests \subseteq Handlers /\ Deciders \subseteq Handlers
                         /\ Admins \subseteq Handlers /\ Executors \subseteq Handlers
                         /\ Ticker \in Handlers
BY DEF Handlers, Deciders

\* The steps of an action.request handler keep the types.
LEMMA AgentTyped ==
  ASSUME MemTyped, EnvTyped, HandlersTyped, NEW r \in Requests, AgentStep(r)
  PROVE  MemTyped' /\ EnvTyped' /\ HandlersTyped'
<1>h. r \in Handlers /\ task[r] \in Task /\ Carrying(task[r])
  BY RequestHandlers DEF HandlersTyped
<1>1. ASSUME NEW k \in Actions, Submit(r, k)
      PROVE  MemTyped' /\ EnvTyped' /\ HandlersTyped'
  <2> DEFINE auth == [req |-> r, action |-> k, policy |-> NULL, epoch |-> NULL]
             t == [Idle EXCEPT !.pc = "submitted", !.auth = auth]
  <2>1. auth \in Auth
    BY DEF Auth
  <2> HIDE DEF auth
  <2>2. t \in Task /\ t.pc = "submitted" /\ t.auth = auth
    BY <2>1 DEF Idle, Task, PCs, Outs
  <2>3. task' = [task EXCEPT ![r] = t]
    BY <1>1 DEF Submit, auth
  <2> HIDE DEF t
  <2>4. Carrying(t) /\ t.pc \notin ResultPcs
    BY <2>1, <2>2 DEF Carrying, AskPcs, AuthPcs, DecidePcs, MintPcs, CallbackPcs, ConsumePcs,
       ApprPcs,
       CapPcs, ExecPcs, ResultPcs
  <2>5. MemTyped' /\ EntriesStay
    BY <1>1, RequestWritten DEF Submit, ReqStates
  <2>6. EnvTyped'
    BY <1>1, SameEnvironment DEF Submit
  <2> QED BY <1>h, <2>2, <2>3, <2>4, <2>5, <2>6, HandlerMoves
<1>2. ASSUME RecordRequested(r) \/ ValidateSession(r) \/ PolicyDenies(r) \/ RecordGranted(r)
      PROVE  MemTyped' /\ EnvTyped' /\ HandlersTyped'
  <2>1. MemTyped' /\ EntriesStay /\ EnvTyped'
    BY <1>2, SameMemory, SameEnvironment
       DEF RecordRequested, ValidateSession, PolicyDenies, RecordGranted
  <2>2. \E q : Goto(r, q) /\ Onward(task[r].pc, q)
    BY <1>2 DEF RecordRequested, ValidateSession, PolicyDenies, RecordGranted, At, Onward, PCs,
       AskPcs, AuthPcs, DecidePcs, MintPcs, CallbackPcs, ConsumePcs, ApprPcs, CapPcs, ExecPcs,
       ResultPcs
  <2> QED BY <1>h, <2>1, <2>2, HandlerOnward
<1>3. ASSUME MeasureContext(r)
      PROVE  MemTyped' /\ EnvTyped' /\ HandlersTyped'
  <2> DEFINE auth == [task[r].auth EXCEPT !.epoch = ctx]
             t == [task[r] EXCEPT !.auth = auth, !.pc = "evaluate"]
  <2>1. task[r].auth \in Auth /\ ctx \in Nat \cup {NULL}
    BY <1>3, <1>h DEF MeasureContext, At, Carrying, EnvTyped, AuthPcs, AskPcs
  <2>2. auth \in Auth
    BY <2>1 DEF Auth
  <2>3. task' = [task EXCEPT ![r] = t]
    BY <1>3, <1>h DEF MeasureContext, HandlersTyped, Task
  <2> HIDE DEF auth
  <2>4. t \in Task /\ t.pc = "evaluate" /\ t.auth = auth
    BY <1>h, <2>2 DEF Task, PCs
  <2> HIDE DEF t
  <2>5. Carrying(t) /\ t.pc \notin ResultPcs
    BY <2>2, <2>4 DEF Carrying, AskPcs, AuthPcs, DecidePcs, MintPcs, CallbackPcs, ConsumePcs,
       ApprPcs,
       CapPcs, ExecPcs, ResultPcs
  <2>6. MemTyped' /\ EntriesStay /\ EnvTyped'
    BY <1>3, SameMemory, SameEnvironment DEF MeasureContext
  <2> QED BY <1>h, <2>3, <2>4, <2>5, <2>6, HandlerMoves
<1>4. ASSUME NEW path \in Paths, EvaluatePolicy(r, path)
      PROVE  MemTyped' /\ EnvTyped' /\ HandlersTyped'
  <2> DEFINE auth == [task[r].auth EXCEPT !.policy = policy]
             q == CASE path = "auto" -> "mint" [] path = "grant" -> "granted" [] path = "presence" -> "ask"
             t == [task[r] EXCEPT !.auth = auth, !.pc = q]
  <2>1. task[r].auth \in Auth /\ policy \in Policies
    BY <1>4, <1>h DEF EvaluatePolicy, At, Carrying, MemTyped, AuthPcs, AskPcs
  <2>2. auth \in Auth
    BY <2>1 DEF Auth
  <2>4. q \in {"mint", "granted", "ask"}
    BY BrokerAssumption
  <2>8. task' = [task EXCEPT ![r].auth.policy = policy, ![r].pc = q]
    BY <1>4 DEF EvaluatePolicy
  <2> HIDE DEF q
  <2>3. task' = [task EXCEPT ![r] = t]
    BY <2>8, <1>h DEF HandlersTyped, Task
  <2> HIDE DEF auth
  <2>5. t \in Task /\ t.pc \in {"mint", "granted", "ask"} /\ t.auth = auth
    BY <1>h, <2>2, <2>4 DEF Task, PCs
  <2> HIDE DEF t
  <2>6. Carrying(t) /\ t.pc \notin ResultPcs
    BY <2>2, <2>5 DEF Carrying, AskPcs, AuthPcs, DecidePcs, MintPcs, CallbackPcs, ConsumePcs,
       ApprPcs,
       CapPcs, ExecPcs, ResultPcs
  <2>7. MemTyped' /\ EntriesStay /\ EnvTyped'
    BY <1>4, SameMemory, SameEnvironment DEF EvaluatePolicy
  <2> QED BY <1>h, <2>3, <2>5, <2>6, <2>7, HandlerMoves
<1>5. ASSUME AskDb(r)
      PROVE  MemTyped' /\ EnvTyped' /\ HandlersTyped'
  <2>1. PICK a \in Approvals : task' = [task EXCEPT ![r].appr = a, ![r].pc = "askMem"]
    BY <1>5 DEF AskDb
  <2> DEFINE t == [task[r] EXCEPT !.appr = a, !.pc = "askMem"]
  <2>2. task' = [task EXCEPT ![r] = t]
    BY <2>1, <1>h DEF HandlersTyped, Task
  <2>3. t \in Task /\ t.pc = "askMem" /\ t.auth = task[r].auth /\ t.appr = a
    BY <1>h DEF Task, PCs
  <2> HIDE DEF t
  <2>4. Carrying(t) /\ t.pc \notin ResultPcs
    BY <1>5, <1>h, <2>3 DEF AskDb, At, Carrying, AskPcs, AuthPcs, DecidePcs, MintPcs, CallbackPcs,
       ConsumePcs, ApprPcs, CapPcs, ExecPcs, ResultPcs
  <2>5. MemTyped' /\ EntriesStay /\ EnvTyped'
    BY <1>5, SameMemory, SameEnvironment DEF AskDb
  <2> QED BY <1>h, <2>2, <2>3, <2>4, <2>5, HandlerMoves
<1>6. ASSUME AskMem(r)
      PROVE  MemTyped' /\ EnvTyped' /\ HandlersTyped'
  <2>1. task[r].auth \in Auth /\ task[r].appr \in Approvals
    BY <1>6, <1>h DEF AskMem, At, Carrying, AuthPcs, ApprPcs
  <2>2. MemTyped' /\ EntriesStay
    BY <1>6, <2>1 DEF AskMem, MemTyped, EntriesStay
  <2>3. EnvTyped'
    BY <1>6, SameEnvironment DEF AskMem
  <2>4. Goto(r, "askReq") /\ Onward(task[r].pc, "askReq")
    BY <1>6 DEF AskMem, At, Onward, PCs,
       AskPcs, AuthPcs, DecidePcs, MintPcs, CallbackPcs, ConsumePcs, ApprPcs, CapPcs, ExecPcs,
       ResultPcs
  <2> QED BY <1>h, <2>2, <2>3, <2>4, HandlerOnward
<1>7. ASSUME AskReq(r) \/ RequestFails(r)
      PROVE  MemTyped' /\ EnvTyped' /\ HandlersTyped'
  <2>1. MemTyped' /\ EntriesStay /\ EnvTyped'
    BY <1>7, RequestWritten, SameEnvironment DEF AskReq, RequestFails, ReqStates, TerminalReq
  <2> QED BY <1>7, <1>h, <2>1, HandlerDone DEF AskReq, RequestFails
<1>8. ASSUME Cancel(r)
      PROVE  MemTyped' /\ EnvTyped' /\ HandlersTyped'
  <2>1. reqState' \in [Requests -> ReqStates]
    BY <1>8 DEF Cancel, SetReq, MemTyped, ReqStates, TerminalReq
  <2>2. memCap' \in [Caps -> CapabilityEntry \cup {NULL}] /\ EntriesStay
    BY <1>8, RevokedEntries DEF Cancel
  <2>3. MemTyped' /\ EnvTyped'
    BY <1>8, <2>1, <2>2, SameEnvironment DEF Cancel, MemTyped
  <2> QED BY <1>8, <2>2, <2>3, HandlersRest DEF Cancel
<1> QED BY <1>1, <1>2, <1>3, <1>4, <1>5, <1>6, <1>7, <1>8 DEF AgentStep

\* The steps of mint_authorized_capability keep the types.
LEMMA MintTyped ==
  ASSUME MemTyped, EnvTyped, HandlersTyped, NEW x \in Handlers, MintStep(x)
  PROVE  MemTyped' /\ EnvTyped' /\ HandlersTyped'
<1>h. task[x] \in Task /\ Carrying(task[x])
  BY DEF HandlersTyped
<1>1. ASSUME MintDb(x)
      PROVE  MemTyped' /\ EnvTyped' /\ HandlersTyped'
  <2>1. PICK c \in Caps : task' = [task EXCEPT ![x].cap = c, ![x].pc = "mintMem"]
    BY <1>1 DEF MintDb
  <2> DEFINE t == [task[x] EXCEPT !.cap = c, !.pc = "mintMem"]
  <2>2. task' = [task EXCEPT ![x] = t]
    BY <2>1, <1>h DEF HandlersTyped, Task
  <2>3. t \in Task /\ t.pc = "mintMem" /\ t.auth = task[x].auth /\ t.cap = c
    BY <1>h DEF Task, PCs
  <2> HIDE DEF t
  <2>4. Carrying(t) /\ t.pc \notin ResultPcs
    BY <1>1, <1>h, <2>3 DEF MintDb, At, Carrying, AskPcs, AuthPcs, DecidePcs, MintPcs, CallbackPcs,
       ConsumePcs, ApprPcs, CapPcs, ExecPcs, ResultPcs
  <2>5. MemTyped' /\ EntriesStay /\ EnvTyped'
    BY <1>1, SameMemory, SameEnvironment DEF MintDb
  <2> QED BY <1>h, <2>2, <2>3, <2>4, <2>5, HandlerMoves
<1>2. ASSUME MintMem(x)
      PROVE  MemTyped' /\ EnvTyped' /\ HandlersTyped'
  <2> DEFINE entry == [auth |-> task[x].auth, state |-> "issued"]
  <2>1. task[x].auth \in Auth /\ task[x].cap \in Caps
    BY <1>2, <1>h DEF MintMem, At, Carrying, AuthPcs, MintPcs, CapPcs
  <2>2. entry \in CapabilityEntry /\ entry # NULL
    BY <2>1, EntriesAssumption DEF CapabilityEntry
  <2>3. memCap' = [memCap EXCEPT ![task[x].cap] = entry]
    BY <1>2 DEF MintMem
  <2> HIDE DEF entry
  <2>4. memCap' \in [Caps -> CapabilityEntry \cup {NULL}] /\ EntriesStay
    BY <1>2, <2>1, <2>2, <2>3 DEF MintMem, MemTyped, EntriesStay
  <2>5. offers' \in Seq(Caps)
    BY <1>2, <2>1 DEF MintMem, MemTyped
  <2>6. MemTyped' /\ EnvTyped'
    BY <1>2, <2>4, <2>5, SameEnvironment DEF MintMem, MemTyped
  <2>7. Goto(x, "mintReq") /\ Onward(task[x].pc, "mintReq")
    BY <1>2 DEF MintMem, At, Onward, PCs,
       AskPcs, AuthPcs, DecidePcs, MintPcs, CallbackPcs, ConsumePcs, ApprPcs, CapPcs, ExecPcs,
       ResultPcs
  <2> QED BY <2>4, <2>6, <2>7, HandlerOnward
<1>3. ASSUME MintReq(x)
      PROVE  MemTyped' /\ EnvTyped' /\ HandlersTyped'
  <2>1. task[x].auth.req \in Requests
    BY <1>3, <1>h DEF MintReq, At, Carrying, AuthPcs, MintPcs, Auth
  <2>2. MemTyped' /\ EntriesStay /\ EnvTyped'
    BY <1>3, <2>1, RequestWritten, SameEnvironment DEF MintReq, ReqStates
  <2> QED BY <1>3, <2>2, HandlerDone DEF MintReq
<1> QED BY <1>1, <1>2, <1>3 DEF MintStep

\* The steps of decide_approval_at keep the types.
LEMMA DeciderTyped ==
  ASSUME MemTyped, EnvTyped, HandlersTyped, NEW d \in Handlers, DeciderStep(d)
  PROVE  MemTyped' /\ EnvTyped' /\ HandlersTyped'
<1>h. task[d] \in Task /\ Carrying(task[d])
  BY DEF HandlersTyped
<1>1. ASSUME NEW a \in Approvals, NEW v \in Votes, BeginDecide(d, a, v)
      PROVE  MemTyped' /\ EnvTyped' /\ HandlersTyped'
  <2> DEFINE o == Outcome(a, v)
             t == [Idle EXCEPT !.pc = "decide", !.appr = a, !.auth = memAppr[a], !.out = o]
  <2>1. memAppr[a] \in Auth /\ o \in Decisions
    BY <1>1 DEF BeginDecide, MemTyped, Outcome, Decisions
  <2>2. task' = [task EXCEPT ![d] = t]
    BY <1>1 DEF BeginDecide
  <2> HIDE DEF o
  <2>3. t \in Task /\ t.pc = "decide" /\ t.auth \in Auth /\ t.appr = a /\ t.out = o
    BY <2>1 DEF Idle, Task, PCs, Outs
  <2> HIDE DEF t
  <2>4. Carrying(t) /\ t.pc \notin ResultPcs
    BY <2>1, <2>3 DEF Carrying, AskPcs, AuthPcs, DecidePcs, MintPcs, CallbackPcs,
       ConsumePcs, ApprPcs, CapPcs, ExecPcs, ResultPcs
  <2>5. MemTyped' /\ EntriesStay /\ EnvTyped'
    BY <1>1, SameMemory, SameEnvironment DEF BeginDecide
  <2> QED BY <2>2, <2>3, <2>4, <2>5, HandlerMoves
<1>2. ASSUME DecideDb(d)
      PROVE  MemTyped' /\ EnvTyped' /\ HandlersTyped'
  <2>1. MemTyped' /\ EntriesStay /\ EnvTyped'
    BY <1>2, SameMemory, SameEnvironment DEF DecideDb
  <2>2. Goto(d, "decideMem") /\ Onward(task[d].pc, "decideMem")
    BY <1>2 DEF DecideDb, At, Onward, PCs,
       AskPcs, AuthPcs, DecidePcs, MintPcs, CallbackPcs, ConsumePcs, ApprPcs, CapPcs, ExecPcs,
       ResultPcs
  <2> QED BY <2>1, <2>2, HandlerOnward
<1>3. ASSUME DecideMem(d)
      PROVE  MemTyped' /\ EnvTyped' /\ HandlersTyped'
  <2> DEFINE q == IF task[d].out = "approved" THEN "mint" ELSE "decideReq"
  <2>1. MemTyped' /\ EntriesStay
    BY <1>3 DEF DecideMem, MemTyped, EntriesStay
  <2>2. EnvTyped'
    BY <1>3, SameEnvironment DEF DecideMem
  <2>3. Goto(d, q) /\ Onward(task[d].pc, q)
    BY <1>3 DEF DecideMem, At, Onward, PCs,
       AskPcs, AuthPcs, DecidePcs, MintPcs, CallbackPcs, ConsumePcs, ApprPcs, CapPcs, ExecPcs,
       ResultPcs
  <2> HIDE DEF q
  <2> QED BY <2>1, <2>2, <2>3, HandlerOnward
<1>4. ASSUME DecideReq(d)
      PROVE  MemTyped' /\ EnvTyped' /\ HandlersTyped'
  <2> DEFINE st == IF task[d].out = "expired" THEN "expired" ELSE "denied"
  <2>1. task[d].auth.req \in Requests /\ st \in ReqStates
    BY <1>4, <1>h DEF DecideReq, At, Carrying, AuthPcs, DecidePcs, Auth, ReqStates, TerminalReq
  <2>2. MemTyped' /\ EntriesStay /\ EnvTyped'
    BY <1>4, <2>1, RequestWritten, SameEnvironment DEF DecideReq
  <2> QED BY <1>4, <2>2, HandlerDone DEF DecideReq
<1>5. ASSUME DecideFails(d)
      PROVE  MemTyped' /\ EnvTyped' /\ HandlersTyped'
  BY <1>5, SameMemory, SameEnvironment, HandlerDone DEF DecideFails
<1> QED BY <1>1, <1>2, <1>3, <1>4, <1>5 DEF DeciderStep

\* The steps of revoke_capability_admin and replace_policy keep the types.
LEMMA AdminTyped ==
  ASSUME MemTyped, EnvTyped, HandlersTyped, NEW d \in Handlers, AdminStep(d)
  PROVE  MemTyped' /\ EnvTyped' /\ HandlersTyped'
<1>h. task[d] \in Task /\ Carrying(task[d])
  BY DEF HandlersTyped
<1>1. ASSUME NEW c \in Caps, RevokeDb(d, c)
      PROVE  MemTyped' /\ EnvTyped' /\ HandlersTyped'
  <2> DEFINE t == [Idle EXCEPT !.pc = "revokeMem", !.cap = c]
  <2>1. t \in Task /\ t.pc = "revokeMem" /\ t.cap = c
    BY DEF Idle, Task, PCs, Outs
  <2>2. task' = [task EXCEPT ![d] = t]
    BY <1>1 DEF RevokeDb
  <2> HIDE DEF t
  <2>3. Carrying(t) /\ t.pc \notin ResultPcs
    BY <2>1 DEF Carrying, AskPcs, AuthPcs, DecidePcs, MintPcs, CallbackPcs,
       ConsumePcs, ApprPcs, CapPcs, ExecPcs, ResultPcs
  <2>4. MemTyped' /\ EntriesStay /\ EnvTyped'
    BY <1>1, SameMemory, SameEnvironment DEF RevokeDb
  <2> QED BY <2>1, <2>2, <2>3, <2>4, HandlerMoves
<1>2. ASSUME RevokeMem(d)
      PROVE  MemTyped' /\ EnvTyped' /\ HandlersTyped'
  <2>1. memCap' \in [Caps -> CapabilityEntry \cup {NULL}] /\ EntriesStay
    BY <1>2, AdminRevokes
  <2>2. MemTyped' /\ EnvTyped'
    BY <1>2, <2>1, SameEnvironment DEF RevokeMem, MemTyped
  <2> QED BY <1>2, <2>1, <2>2, HandlerDone DEF RevokeMem
<1>3. ASSUME NEW p \in Policies, ReloadDb(d, p)
      PROVE  MemTyped' /\ EnvTyped' /\ HandlersTyped'
  <2> DEFINE t == [Idle EXCEPT !.pc = "reloadEval", !.out = p]
  <2>1. t \in Task /\ t.pc = "reloadEval" /\ t.out = p
    BY DEF Idle, Task, PCs, Outs
  <2>2. task' = [task EXCEPT ![d] = t]
    BY <1>3 DEF ReloadDb
  <2> HIDE DEF t
  <2>3. Carrying(t) /\ t.pc \notin ResultPcs
    BY <2>1 DEF Carrying, AskPcs, AuthPcs, DecidePcs, MintPcs, CallbackPcs,
       ConsumePcs, ApprPcs, CapPcs, ExecPcs, ResultPcs
  <2>4. MemTyped' /\ EntriesStay /\ EnvTyped'
    BY <1>3, SameMemory, SameEnvironment DEF ReloadDb
  <2> QED BY <2>1, <2>2, <2>3, <2>4, HandlerMoves
<1>4. ASSUME ReloadEval(d)
      PROVE  MemTyped' /\ EnvTyped' /\ HandlersTyped'
  <2>1. task[d].out \in Policies
    BY <1>4, <1>h DEF ReloadEval, At, Carrying
  <2>2. MemTyped' /\ EntriesStay
    BY <1>4, <2>1 DEF ReloadEval, MemTyped, EntriesStay
  <2>3. EnvTyped'
    BY <1>4, SameEnvironment DEF ReloadEval
  <2>4. Goto(d, "reloadMem") /\ Onward(task[d].pc, "reloadMem")
    BY <1>4 DEF ReloadEval, At, Onward, PCs,
       AskPcs, AuthPcs, DecidePcs, MintPcs, CallbackPcs, ConsumePcs, ApprPcs, CapPcs, ExecPcs,
       ResultPcs
  <2> QED BY <2>2, <2>3, <2>4, HandlerOnward
<1>5. ASSUME ReloadMem(d)
      PROVE  MemTyped' /\ EnvTyped' /\ HandlersTyped'
  <2>1. memCap' \in [Caps -> CapabilityEntry \cup {NULL}] /\ EntriesStay
    BY <1>5, RevokedEntries DEF ReloadMem
  <2>2. MemTyped' /\ EnvTyped'
    BY <1>5, <2>1, SameEnvironment DEF ReloadMem, MemTyped
  <2> QED BY <1>5, <2>1, <2>2, HandlerDone DEF ReloadMem
<1> QED BY <1>1, <1>2, <1>3, <1>4, <1>5 DEF AdminStep

\* The steps of the ticker, of the browser and of the clock keep the types.
LEMMA BackgroundTyped ==
  ASSUME MemTyped, EnvTyped, HandlersTyped, TickerStep \/ EnvironmentStep
  PROVE  MemTyped' /\ EnvTyped' /\ HandlersTyped'
<1>h. Ticker \in Handlers /\ task[Ticker] \in Task
  BY RequestHandlers DEF HandlersTyped
<1>1. ASSUME StaleMark
      PROVE  MemTyped' /\ EnvTyped' /\ HandlersTyped'
  <2>1. MemTyped' /\ EntriesStay
    BY <1>1, SameMemory DEF StaleMark
  <2>2. EnvTyped'
    BY <1>1 DEF StaleMark, EnvTyped
  <2>3. Goto(Ticker, "sweep") /\ Onward(task[Ticker].pc, "sweep")
    BY <1>1 DEF StaleMark, At, Onward, PCs,
       AskPcs, AuthPcs, DecidePcs, MintPcs, CallbackPcs, ConsumePcs, ApprPcs, CapPcs, ExecPcs,
       ResultPcs
  <2> QED BY <1>h, <2>1, <2>2, <2>3, HandlerOnward
<1>2. ASSUME StaleSweep
      PROVE  MemTyped' /\ EnvTyped' /\ HandlersTyped'
  <2>1. memCap' \in [Caps -> CapabilityEntry \cup {NULL}] /\ EntriesStay
    BY <1>2, RevokedEntries DEF StaleSweep
  <2>2. MemTyped' /\ EnvTyped'
    BY <1>2, <2>1, SameEnvironment DEF StaleSweep, MemTyped
  <2>3. Goto(Ticker, "staleAudit") /\ Onward(task[Ticker].pc, "staleAudit")
    BY <1>2 DEF StaleSweep, At, Onward, PCs,
       AskPcs, AuthPcs, DecidePcs, MintPcs, CallbackPcs, ConsumePcs, ApprPcs, CapPcs, ExecPcs,
       ResultPcs
  <2> QED BY <1>h, <2>1, <2>2, <2>3, HandlerOnward
<1>3. ASSUME StaleAudit \/ AuditFails(Ticker)
      PROVE  MemTyped' /\ EnvTyped' /\ HandlersTyped'
  BY <1>3, <1>h, SameMemory, SameEnvironment, HandlerDone DEF StaleAudit, AuditFails
<1>4. ASSUME EnvironmentStep
      PROVE  MemTyped' /\ EnvTyped' /\ HandlersTyped'
  <2>1. UNCHANGED memVars /\ UNCHANGED task
    BY <1>4 DEF EnvironmentStep, Register, Heartbeat, Navigate, Prepare, ApprovalLapses, TotpTick
  <2>2. ASSUME Register \/ Heartbeat \/ Prepare \/ TotpTick \/ (\E a \in Approvals : ApprovalLapses(a))
        PROVE  EnvTyped'
    BY <2>2 DEF Register, Heartbeat, Prepare, ApprovalLapses, TotpTick, EnvTyped
  <2>3. ASSUME Navigate PROVE EnvTyped'
    BY <2>3 DEF Navigate, EnvTyped
  <2>4. EnvTyped'
    BY <1>4, <2>2, <2>3 DEF EnvironmentStep
  <2> QED BY <2>1, <2>4, SameMemory, HandlersRest
<1> QED BY <1>1, <1>2, <1>3, <1>4 DEF TickerStep

\* A restarted daemon starts from empty maps and idle handlers.
LEMMA RestartTyped ==
  ASSUME EnvTyped, Restart
  PROVE  MemTyped' /\ EnvTyped' /\ HandlersTyped'
<1>1. MemTyped'
  BY DEF Restart, EmptyMemory, MemTyped, ReqStates
<1>2. EnvTyped'
  BY DEF Restart, EnvTyped
<1>3. task' \in [Handlers -> Task] /\ \A x \in Handlers : task'[x] = Idle
  BY IdleTask DEF Restart, EmptyMemory
<1>4. \A x \in Handlers : Carrying(task[x])' /\ HasEntry(task[x])'
  BY <1>3, IdleTask DEF Carrying, HasEntry, AuthPcs, AskPcs, DecidePcs, MintPcs, CallbackPcs,
     ConsumePcs,
     ApprPcs, CapPcs, ExecPcs, ResultPcs
<1> QED BY <1>1, <1>2, <1>3, <1>4 DEF HandlersTyped

\* An entry that is marked consumed keeps its type.
LEMMA ConsumedEntry ==
  ASSUME MemTyped, NEW c \in Caps, memCap[c] # NULL,
         memCap' = [memCap EXCEPT ![c].state = "consumed"]
  PROVE  /\ memCap' \in [Caps -> CapabilityEntry \cup {NULL}]
         /\ memCap'[c] # NULL /\ memCap'[c].state = "consumed" /\ memCap'[c].auth = memCap[c].auth
         /\ \A d \in Caps : d # c => memCap'[d] = memCap[d]
<1> DEFINE spent == [memCap[c] EXCEPT !.state = "consumed"]
<1>1. memCap[c] \in CapabilityEntry
  BY DEF MemTyped
<1>2. spent \in CapabilityEntry /\ spent.state = "consumed" /\ spent.auth = memCap[c].auth
  BY <1>1 DEF CapabilityEntry
<1>3. memCap' = [memCap EXCEPT ![c] = spent]
  BY DEF MemTyped
<1> HIDE DEF spent
<1> QED BY <1>2, <1>3, EntriesAssumption DEF MemTyped

\* The steps of the executor socket's handlers keep the types.
LEMMA ExecutorTyped ==
  ASSUME MemTyped, EnvTyped, HandlersTyped, NEW x \in Handlers, ExecutorStep(x)
  PROVE  MemTyped' /\ EnvTyped' /\ HandlersTyped'
<1>h. task[x] \in Task /\ Carrying(task[x]) /\ HasEntry(task[x])
  BY DEF HandlersTyped
<1>1. ASSUME NEW fate \in Fates, Poll(x, fate)
      PROVE  MemTyped' /\ EnvTyped' /\ HandlersTyped'
  <2>1. offers # << >> /\ offers \in Seq(Caps) /\ Head(offers) \in Caps /\ Tail(offers) \in Seq(Caps)
    BY <1>1 DEF Poll, MemTyped
  <2>2. tokens' \subseteq Caps /\ pendingOAuth' \subseteq Caps /\ offers' \in Seq(Caps)
    BY <1>1, <2>1 DEF Poll, MemTyped, EnvTyped
  <2>3. MemTyped' /\ EnvTyped' /\ EntriesStay
    BY <1>1, <2>2 DEF Poll, MemTyped, EnvTyped, EntriesStay
  <2> QED BY <1>1, <2>3, HandlersRest DEF Poll
<1>2. ASSUME NEW c \in Caps, BeginConsume(x, c)
      PROVE  MemTyped' /\ EnvTyped' /\ HandlersTyped'
  <2> DEFINE s == IF memCap[c].auth.action = "totp" THEN totpStep ELSE NULL
             t == [Idle EXCEPT !.pc = "consume", !.cap = c, !.auth = memCap[c].auth, !.step = s]
  <2>1. memCap[c] # NULL /\ memCap[c].auth \in Auth /\ s \in TotpSteps \cup {NULL}
    BY <1>2 DEF BeginConsume, Verifies, Usable, MemTyped, CapabilityEntry, EnvTyped
  <2>2. task' = [task EXCEPT ![x] = t]
    BY <1>2 DEF BeginConsume
  <2> HIDE DEF s
  <2>3. t \in Task /\ t.pc = "consume" /\ t.auth \in Auth /\ t.cap = c
    BY <2>1 DEF Idle, Task, PCs, Outs
  <2> HIDE DEF t
  <2>4. Carrying(t) /\ t.pc \notin ResultPcs
    BY <2>3 DEF Carrying, AskPcs, AuthPcs, DecidePcs, MintPcs, CallbackPcs,
       ConsumePcs, ApprPcs, CapPcs, ExecPcs, ResultPcs
  <2>5. MemTyped' /\ EntriesStay /\ EnvTyped'
    BY <1>2, SameMemory, SameEnvironment DEF BeginConsume
  <2> QED BY <2>1, <2>2, <2>3, <2>4, <2>5, HandlerMoves DEF EntriesStay
<1>3. ASSUME ConsumeDb(x)
      PROVE  MemTyped' /\ EnvTyped' /\ HandlersTyped'
  <2>1. PICK e \in Execs : task' = [task EXCEPT ![x].exec = e, ![x].pc = "consumeMem"]
    BY <1>3 DEF ConsumeDb
  <2> DEFINE t == [task[x] EXCEPT !.exec = e, !.pc = "consumeMem"]
  <2>2. task' = [task EXCEPT ![x] = t]
    BY <2>1, <1>h DEF HandlersTyped, Task
  <2>3. t \in Task /\ t.pc = "consumeMem" /\ t.auth = task[x].auth /\ t.cap = task[x].cap /\ t.exec = e
    BY <1>h DEF Task, PCs
  <2> HIDE DEF t
  <2>4. Carrying(t) /\ t.pc \notin ResultPcs
    BY <1>3, <1>h, <2>3 DEF ConsumeDb, At, Carrying, AskPcs, AuthPcs, DecidePcs, MintPcs,
       CallbackPcs,
       ConsumePcs, ApprPcs, CapPcs, ExecPcs, ResultPcs
  <2>5. MemTyped' /\ EntriesStay /\ EnvTyped'
    BY <1>3, SameMemory, SameEnvironment DEF ConsumeDb
  <2>6. memCap[task[x].cap] # NULL /\ memCap' = memCap
    BY <1>3, <1>h DEF ConsumeDb, At, HasEntry, memVars
  <2> QED BY <2>2, <2>3, <2>4, <2>5, <2>6, HandlerMoves
<1>4. ASSUME ConsumeRejected(x) \/ RetrieveFails(x) \/ AuditFails(x)
      PROVE  MemTyped' /\ EnvTyped' /\ HandlersTyped'
  BY <1>4, SameMemory, SameEnvironment, HandlerDone DEF ConsumeRejected, RetrieveFails, AuditFails
<1>5. ASSUME ConsumeMem(x)
      PROVE  MemTyped' /\ EnvTyped' /\ HandlersTyped'
  <2> DEFINE entry == [cap |-> task[x].cap, req |-> task[x].auth.req, state |-> "consuming"]
  <2>1. task[x].auth \in Auth /\ task[x].cap \in Caps /\ task[x].exec \in Execs
        /\ memCap[task[x].cap] # NULL
    BY <1>5, <1>h DEF ConsumeMem, At, Carrying, HasEntry, AuthPcs, ConsumePcs, CapPcs, ExecPcs
  <2>2. entry \in ActiveExecution /\ entry # NULL
    BY <2>1, EntriesAssumption DEF ActiveExecution, MemExecStates, ExecStates, Auth
  <2>3. memExec' = [memExec EXCEPT ![task[x].exec] = entry]
    BY <1>5 DEF ConsumeMem
  <2> HIDE DEF entry
  <2>4. /\ memCap' \in [Caps -> CapabilityEntry \cup {NULL}]
        /\ \A c \in Caps : memCap[c] # NULL => memCap'[c] # NULL
    BY <1>5, <2>1, ConsumedEntry DEF ConsumeMem
  <2>5. memExec' \in [Execs -> ActiveExecution \cup {NULL}] /\ EntriesStay
    BY <2>1, <2>2, <2>3, <2>4 DEF MemTyped, EntriesStay
  <2>6. MemTyped' /\ EnvTyped'
    BY <1>5, <2>4, <2>5, SameEnvironment DEF ConsumeMem, MemTyped
  <2>7. Goto(x, "retrieve") /\ Onward(task[x].pc, "retrieve")
    BY <1>5 DEF ConsumeMem, At, Onward, PCs,
       AskPcs, AuthPcs, DecidePcs, MintPcs, CallbackPcs, ConsumePcs, ApprPcs, CapPcs, ExecPcs,
       ResultPcs
  <2> QED BY <2>5, <2>6, <2>7, HandlerOnward
<1>6. ASSUME Retrieve(x)
      PROVE  MemTyped' /\ EnvTyped' /\ HandlersTyped'
  <2> DEFINE rel == [exec |-> task[x].exec, cap |-> task[x].cap, step |-> task[x].step]
  <2>1. task[x].cap \in Caps /\ task[x].exec \in Execs /\ task[x].step \in TotpSteps \cup {NULL}
    BY <1>6, <1>h DEF Retrieve, At, Carrying, ConsumePcs, CapPcs, ExecPcs, Task
  <2>2. rel \in Release
    BY <2>1 DEF Release
  <2>3. released' = released \cup {rel}
    BY <1>6 DEF Retrieve
  <2> HIDE DEF rel
  <2>4. released' \subseteq Release
    BY <2>2, <2>3 DEF EnvTyped
  <2>5. EnvTyped'
    BY <1>6, <2>4 DEF Retrieve, EnvTyped
  <2>6. MemTyped' /\ EntriesStay
    BY <1>6, SameMemory DEF Retrieve
  <2> QED BY <1>6, <2>5, <2>6, HandlerDone DEF Retrieve
<1>7. ASSUME NEW e \in Execs, NEW st \in Statuses, BeginResult(x, e, st)
      PROVE  MemTyped' /\ EnvTyped' /\ HandlersTyped'
  <2> DEFINE t == [Idle EXCEPT !.pc = "result", !.exec = e, !.out = st]
  <2>1. st \in {"completed", "failed"} /\ memExec[e] # NULL
    BY <1>7, BrokerAssumption DEF BeginResult
  <2>2. t \in Task /\ t.pc = "result" /\ t.exec = e /\ t.out = st
    BY <2>1 DEF Idle, Task, PCs, Outs, MemExecStates, ExecStates
  <2>3. task' = [task EXCEPT ![x] = t]
    BY <1>7 DEF BeginResult
  <2> HIDE DEF t
  <2>4. Carrying(t)
    BY <2>1, <2>2 DEF Carrying, AskPcs, AuthPcs, DecidePcs, MintPcs, CallbackPcs,
       ConsumePcs, ApprPcs, CapPcs, ExecPcs, ResultPcs
  <2>5. MemTyped' /\ EntriesStay /\ EnvTyped'
    BY <1>7, SameMemory, SameEnvironment DEF BeginResult
  <2>6. t.pc \notin {"consume", "consumeMem", "callback", "callbackMem"} /\ memExec'[t.exec] # NULL
    BY <2>1, <2>2, <2>5 DEF EntriesStay
  <2> QED BY <2>2, <2>3, <2>4, <2>5, <2>6, HandlerMoves
<1>8. ASSUME ResultDb(x)
      PROVE  MemTyped' /\ EnvTyped' /\ HandlersTyped'
  <2>1. MemTyped' /\ EntriesStay /\ EnvTyped'
    BY <1>8, SameMemory, SameEnvironment DEF ResultDb
  <2>2. Goto(x, "resultMem") /\ Onward(task[x].pc, "resultMem")
    BY <1>8 DEF ResultDb, At, Onward, PCs,
       AskPcs, AuthPcs, DecidePcs, MintPcs, CallbackPcs, ConsumePcs, ApprPcs, CapPcs, ExecPcs,
       ResultPcs
  <2> QED BY <2>1, <2>2, HandlerOnward
<1>9. ASSUME ResultRejected(x)
      PROVE  MemTyped' /\ EnvTyped' /\ HandlersTyped'
  <2>1. MemTyped' /\ EntriesStay /\ EnvTyped'
    BY <1>9, SameMemory, SameEnvironment DEF ResultRejected
  <2>2. CASE Done(x)
    BY <2>1, <2>2, HandlerDone
  <2>3. CASE task' = [task EXCEPT ![x].out = "completed_evidence_lost", ![x].pc = "resultMem"]
    <3> DEFINE t == [task[x] EXCEPT !.out = "completed_evidence_lost", !.pc = "resultMem"]
    <3>1. task' = [task EXCEPT ![x] = t]
      BY <2>3, <1>h DEF HandlersTyped, Task
    <3>2. t \in Task /\ t.pc = "resultMem" /\ t.exec = task[x].exec /\ t.out = "completed_evidence_lost"
      BY <1>h DEF Task, PCs, Outs, MemExecStates
    <3>3. task[x].exec \in Execs /\ memExec[task[x].exec] # NULL
      BY <1>9, <1>h DEF ResultRejected, At, Carrying, HasEntry, ExecPcs, ResultPcs
    <3> HIDE DEF t
    <3>4. Carrying(t) /\ t.pc \notin {"consume", "consumeMem", "callback", "callbackMem"}
      BY <3>2, <3>3 DEF Carrying, AskPcs, AuthPcs, DecidePcs, MintPcs, CallbackPcs,
         ConsumePcs, ApprPcs, CapPcs, ExecPcs, ResultPcs
    <3>5. memExec'[t.exec] # NULL
      BY <3>2, <3>3, <2>1 DEF EntriesStay
    <3> QED BY <3>1, <3>2, <3>4, <3>5, <2>1, HandlerMoves
  <2> QED BY <1>9, <2>2, <2>3 DEF ResultRejected
<1>10. ASSUME ResultMem(x)
       PROVE  MemTyped' /\ EnvTyped' /\ HandlersTyped'
  <2> DEFINE entry == [memExec[task[x].exec] EXCEPT !.state = task[x].out]
  <2>1. /\ task[x].exec \in Execs /\ memExec[task[x].exec] \in ActiveExecution
        /\ task[x].out \in MemExecStates
    BY <1>10, <1>h DEF ResultMem, At, Carrying, HasEntry, ExecPcs, ResultPcs, MemTyped,
       MemExecStates,
       ExecStates
  <2>2. entry \in ActiveExecution /\ entry # NULL
    BY <2>1, EntriesAssumption DEF ActiveExecution
  <2>3. memExec' = [memExec EXCEPT ![task[x].exec] = entry]
    BY <1>10 DEF ResultMem, MemTyped
  <2> HIDE DEF entry
  <2>4. memExec' \in [Execs -> ActiveExecution \cup {NULL}] /\ EntriesStay
    BY <1>10, <2>1, <2>2, <2>3 DEF ResultMem, MemTyped, EntriesStay
  <2>5. MemTyped' /\ EnvTyped'
    BY <1>10, <2>4, SameEnvironment DEF ResultMem, MemTyped
  <2>6. Goto(x, "resultReq") /\ Onward(task[x].pc, "resultReq")
    BY <1>10 DEF ResultMem, At, Onward, PCs,
       AskPcs, AuthPcs, DecidePcs, MintPcs, CallbackPcs, ConsumePcs, ApprPcs, CapPcs, ExecPcs,
       ResultPcs
  <2> QED BY <2>4, <2>5, <2>6, HandlerOnward
<1>11. ASSUME ResultReq(x)
       PROVE  MemTyped' /\ EnvTyped' /\ HandlersTyped'
  <2>1. /\ task[x].exec \in Execs /\ memExec[task[x].exec] \in ActiveExecution
        /\ task[x].out \in ReqStates
    BY <1>11, <1>h DEF ResultReq, At, Carrying, HasEntry, ExecPcs, ResultPcs, MemTyped, ReqStates,
       TerminalReq
  <2>2. memExec[task[x].exec].req \in Requests
    BY <2>1 DEF ActiveExecution
  <2>3. MemTyped' /\ EntriesStay /\ EnvTyped'
    BY <1>11, <2>1, <2>2, RequestWritten, SameEnvironment DEF ResultReq
  <2> QED BY <1>11, <2>3, HandlerDone DEF ResultReq
<1>12. ASSUME NEW c \in Caps, NEW bound \in BOOLEAN, BeginCallback(x, c, bound)
       PROVE  MemTyped' /\ EnvTyped' /\ HandlersTyped'
  <2> DEFINE q == IF bound THEN "callback" ELSE "callbackReq"
             o == IF bound THEN NULL ELSE "failed"
             t == [Idle EXCEPT !.cap = c, !.auth = memCap[c].auth, !.pc = q, !.out = o]
  <2>1. memCap[c] # NULL /\ memCap[c].auth \in Auth
    BY <1>12 DEF BeginCallback, MemTyped, CapabilityEntry
  <2>2. q \in {"callback", "callbackReq"} /\ o \in Outs /\ (q = "callbackReq" => o = "failed")
    BY DEF Outs, MemExecStates, ExecStates
  <2>3. task' = [task EXCEPT ![x] = t]
    BY <1>12 DEF BeginCallback
  <2> HIDE DEF q, o
  <2>4. t \in Task /\ t.pc = q /\ t.auth \in Auth /\ t.cap = c /\ t.out = o
    BY <2>1, <2>2 DEF Idle, Task, PCs
  <2> HIDE DEF t
  <2>5. Carrying(t) /\ t.pc \notin ResultPcs
    BY <2>2, <2>4 DEF Carrying, AskPcs, AuthPcs, DecidePcs, MintPcs, CallbackPcs,
       ConsumePcs, ApprPcs, CapPcs, ExecPcs, ResultPcs
  <2>6. MemTyped' /\ EntriesStay
    BY <1>12 DEF BeginCallback, MemTyped, EntriesStay
  <2>7. EnvTyped'
    BY <1>12, SameEnvironment DEF BeginCallback
  <2> QED BY <2>1, <2>3, <2>4, <2>5, <2>6, <2>7, HandlerMoves DEF EntriesStay
<1>13. ASSUME CallbackDb(x)
       PROVE  MemTyped' /\ EnvTyped' /\ HandlersTyped'
  <2>1. MemTyped' /\ EntriesStay /\ EnvTyped'
    BY <1>13, SameMemory, SameEnvironment DEF CallbackDb
  <2>2. Carrying([task[x] EXCEPT !.pc = "callbackMem"])
    BY <1>13, <1>h, MovedTask DEF CallbackDb, At, PCs, Carrying, AskPcs, AuthPcs, DecidePcs,
       MintPcs,
       CallbackPcs, ConsumePcs, ApprPcs, CapPcs, ExecPcs, ResultPcs
  <2>3. task[x].cap \in Caps /\ memCap[task[x].cap] # NULL
    BY <1>13, <1>h DEF CallbackDb, At, Carrying, HasEntry, CapPcs, CallbackPcs
  <2>4. memCap'[task[x].cap] # NULL /\ "callbackMem" \notin ResultPcs /\ "callbackMem" \in PCs
    BY <2>1, <2>3 DEF EntriesStay, ResultPcs, PCs
  <2> QED BY <1>13, <2>1, <2>2, <2>4, HandlerGoes DEF CallbackDb
<1>14. ASSUME CallbackMem(x)
       PROVE  MemTyped' /\ EnvTyped' /\ HandlersTyped'
  <2>1. task[x].cap \in Caps /\ memCap[task[x].cap] # NULL
    BY <1>14, <1>h DEF CallbackMem, At, Carrying, HasEntry, CapPcs, CallbackPcs
  <2>2. memCap' \in [Caps -> CapabilityEntry \cup {NULL}] /\ EntriesStay
    BY <1>14, <2>1, ConsumedEntry DEF CallbackMem, EntriesStay
  <2>3. MemTyped' /\ EnvTyped'
    BY <1>14, <2>2, SameEnvironment DEF CallbackMem, MemTyped
  <2>4. Goto(x, "exchange") /\ Onward(task[x].pc, "exchange")
    BY <1>14 DEF CallbackMem, At, Onward, PCs,
       AskPcs, AuthPcs, DecidePcs, MintPcs, CallbackPcs, ConsumePcs, ApprPcs, CapPcs, ExecPcs,
       ResultPcs
  <2> QED BY <2>2, <2>3, <2>4, HandlerOnward
<1>15. ASSUME Exchange(x) \/ CallbackFails(x)
       PROVE  MemTyped' /\ EnvTyped' /\ HandlersTyped'
  <2>1. PICK o \in {"completed", "failed"} : task' = [task EXCEPT ![x].out = o, ![x].pc = "callbackReq"]
    BY <1>15 DEF Exchange, CallbackFails
  <2> DEFINE t == [task[x] EXCEPT !.out = o, !.pc = "callbackReq"]
  <2>2. task' = [task EXCEPT ![x] = t]
    BY <2>1, <1>h DEF HandlersTyped, Task
  <2>3. t \in Task /\ t.pc = "callbackReq" /\ t.auth = task[x].auth /\ t.cap = task[x].cap /\ t.out = o
    BY <1>h DEF Task, PCs, Outs, MemExecStates, ExecStates
  <2> HIDE DEF t
  <2>4. Carrying(t) /\ t.pc \notin ResultPcs
    BY <1>15, <1>h, <2>3 DEF Exchange, CallbackFails, At, Carrying, AskPcs, AuthPcs, DecidePcs,
       MintPcs,
       CallbackPcs, ConsumePcs, ApprPcs, CapPcs, ExecPcs, ResultPcs
  <2>5. MemTyped' /\ EntriesStay /\ EnvTyped'
    BY <1>15, SameMemory, SameEnvironment DEF Exchange, CallbackFails
  <2> QED BY <2>2, <2>3, <2>4, <2>5, HandlerMoves
<1>16. ASSUME CallbackReq(x)
       PROVE  MemTyped' /\ EnvTyped' /\ HandlersTyped'
  <2>1. task[x].auth.req \in Requests /\ task[x].out \in ReqStates
    BY <1>16, <1>h DEF CallbackReq, At, Carrying, AuthPcs, CallbackPcs, Auth, ReqStates, TerminalReq
  <2>2. MemTyped' /\ EntriesStay /\ EnvTyped'
    BY <1>16, <2>1, RequestWritten, SameEnvironment DEF CallbackReq
  <2>3. Goto(x, "callbackAudit") /\ Onward(task[x].pc, "callbackAudit")
    BY <1>16 DEF CallbackReq, At, Onward, PCs,
       AskPcs, AuthPcs, DecidePcs, MintPcs, CallbackPcs, ConsumePcs, ApprPcs, CapPcs, ExecPcs,
       ResultPcs
  <2> QED BY <2>2, <2>3, HandlerOnward
<1>17. ASSUME CallbackAudit(x)
       PROVE  MemTyped' /\ EnvTyped' /\ HandlersTyped'
  BY <1>17, SameMemory, SameEnvironment, HandlerDone DEF CallbackAudit
<1> QED BY <1>1, <1>2, <1>3, <1>4, <1>5, <1>6, <1>7, <1>8, <1>9, <1>10, <1>11, <1>12, <1>13, <1>14,
           <1>15, <1>16, <1>17 DEF ExecutorStep

\* Every step of the broker keeps the types.
LEMMA TypeStep ==
  ASSUME StoreInv, TypeInv, [BrokerNext]_brokerVars
  PROVE  TypeInv'
<1>t. StoreTypeOK /\ MemTyped /\ EnvTyped /\ HandlersTyped
  BY TypeParts
<1>s. StoreTypeOK'
  BY BrokerStepIsTransaction, StoreStep DEF StoreInv
<1>1. CASE UNCHANGED brokerVars
  <2>1. UNCHANGED memVars /\ UNCHANGED envVars /\ UNCHANGED task
    BY <1>1 DEF brokerVars
  <2> QED BY <1>t, <1>s, <2>1, SameMemory, SameEnvironment, HandlersRest, TypeParts
<1>2. CASE BrokerNext
  <2>1. MemTyped' /\ EnvTyped' /\ HandlersTyped'
    BY <1>2, <1>t, RequestHandlers, AgentTyped, MintTyped, DeciderTyped, AdminTyped, ExecutorTyped,
       BackgroundTyped, RestartTyped DEF BrokerNext
  <2> QED BY <1>s, <2>1, TypeParts
<1> QED BY <1>1, <1>2

\* The daemon starts with empty maps and idle handlers.
LEMMA TypeStart == BrokerInit => TypeInv
<1> SUFFICES ASSUME BrokerInit PROVE TypeInv
  OBVIOUS
<1>1. MemTyped
  BY DEF BrokerInit, MemTyped, ReqStates
<1>2. EnvTyped
  BY DEF BrokerInit, EnvTyped
<1>3. task \in [Handlers -> Task] /\ \A x \in Handlers : task[x] = Idle
  BY IdleTask DEF BrokerInit
<1>4. \A x \in Handlers : Carrying(task[x]) /\ HasEntry(task[x])
  BY <1>3, IdleTask DEF Carrying, HasEntry, AuthPcs, AskPcs, DecidePcs, MintPcs, CallbackPcs,
     ConsumePcs,
     ApprPcs, CapPcs, ExecPcs, ResultPcs
<1>5. StoreTypeOK
  BY StoreStart DEF BrokerInit, StoreInv
<1> QED BY <1>1, <1>2, <1>3, <1>4, <1>5, TypeParts DEF HandlersTyped

\* Type correctness of the broker: no interleaving of its handlers and no restart lets a
\* handler reach into a map for an entry that is not there, or store a malformed one.
THEOREM BrokerTypeCorrect == BrokerSpec => []BrokerTypeOK
<1>1. BrokerSpec => []StoreInv
  BY BrokerUsesStore, StoreInvariant, PTL
<1>2. StoreInv /\ TypeInv /\ [BrokerNext]_brokerVars => TypeInv'
  BY TypeStep
<1>3. TypeInv => BrokerTypeOK
  BY DEF TypeInv
<1> QED BY <1>1, <1>2, <1>3, TypeStart, PTL DEF BrokerSpec

(***************************************************************************)
(* What the store holds for a handler between two of its steps.            *)
(***************************************************************************)
\* Rows are never deleted, and what is decided stays decided.
StoreGrows ==
  /\ \A c \in Caps : capRow[c] # NULL =>
        capRow'[c] # NULL /\ (capRow[c].state \notin LiveStates => capRow'[c] = capRow[c])
  /\ \A e \in Execs : execRow[e] # NULL =>
        /\ execRow'[e] # NULL /\ execRow'[e].cap = execRow[e].cap
        /\ execRow[e].state # "consuming" => execRow'[e] = execRow[e]
  /\ \A s \in TotpSteps : totpRow[s] # NULL => totpRow'[s] = totpRow[s]

\* No transaction of the store removes a row or brings a finished one back.
LEMMA StoreOnlyGrows ==
  ASSUME StoreInv, [StoreNext]_storeVars
  PROVE  StoreGrows
<1>t. /\ capRow \in [Caps -> CapRow \cup {NULL}] /\ NULL \notin CapRow
      /\ execRow \in [Execs -> ExecRow \cup {NULL}] /\ NULL \notin ExecRow
      /\ totpRow \in [TotpSteps -> Execs \cup {NULL}] /\ NULL \notin TotpSteps
  BY NullAssumption DEF StoreInv, StoreTypeOK
<1>s. ASSUME UNCHANGED <<capRow, execRow, totpRow>> PROVE StoreGrows
  BY <1>s DEF StoreGrows
<1>w. ASSUME NEW S, NEW st \in CapStates, capRow' = Withdrawn(S, st)
      PROVE  \A c \in Caps : capRow[c] # NULL =>
                capRow'[c] # NULL /\ (capRow[c].state \notin LiveStates => capRow'[c] = capRow[c])
  BY <1>w, <1>t, WithdrawnRows DEF Live
<1>1. ASSUME \/ \E t \in LooseEvents, r \in Requests \cup {NULL}, c \in Caps \cup {NULL} :
                   RecordEvent(t, r, c)
             \/ \E a \in Approvals, r \in Requests : InsertApproval(a, r)
             \/ \E a \in Approvals, d \in Decisions : UpdateApproval(a, d)
             \/ UNCHANGED storeVars
      PROVE  StoreGrows
  BY <1>1, <1>s DEF RecordEvent, InsertApproval, UpdateApproval, storeVars
<1>2. ASSUME NEW c \in Caps, NEW r \in Requests, NEW p \in Policies, NEW t \in MintEvents,
             InsertCapability(c, r, p, t)
      PROVE  StoreGrows
  BY <1>2, <1>t DEF InsertCapability, StoreGrows
<1>3. ASSUME NEW c \in Caps, NEW e \in Execs, NEW s \in TotpSteps \cup {NULL},
             ConsumeCapability(c, e, s)
      PROVE  StoreGrows
  <2>1. capRow[c] \in CapRow /\ capRow[c].used < 1 /\ capRow[c].state \in LiveStates
    BY <1>3, <1>t DEF ConsumeCapability, CanConsume, Live
  <2>2. capRow'[c] # NULL /\ \A d \in Caps : d # c => capRow'[d] = capRow[d]
    BY <1>3, <1>t, <2>1, UsedTyped DEF ConsumeCapability
  <2>3. \A f \in Execs : execRow[f] # NULL => execRow'[f] = execRow[f]
    BY <1>3, <1>t DEF ConsumeCapability
  <2>4. \A u \in TotpSteps : totpRow[u] # NULL => totpRow'[u] = totpRow[u]
    BY <1>3, <1>t DEF ConsumeCapability, CanConsume
  <2> QED BY <2>1, <2>2, <2>3, <2>4 DEF StoreGrows
<1>4. ASSUME NEW c \in Caps, ConsumeOAuthCapability(c)
      PROVE  StoreGrows
  <2>1. capRow[c] \in CapRow /\ capRow[c].used < 1 /\ capRow[c].state \in LiveStates
    BY <1>4, <1>t DEF ConsumeOAuthCapability, Live
  <2>2. capRow'[c] # NULL /\ \A d \in Caps : d # c => capRow'[d] = capRow[d]
    BY <1>4, <1>t, <2>1, UsedTyped DEF ConsumeOAuthCapability
  <2> QED BY <1>4, <2>1, <2>2 DEF ConsumeOAuthCapability, StoreGrows
<1>5. ASSUME NEW e \in Execs, NEW o \in {"completed", "failed"}, FinishExecution(e, o)
      PROVE  StoreGrows
  <2>1. execRow[e] \in ExecRow /\ execRow[e].state = "consuming"
    BY <1>5, <1>t DEF FinishExecution, CanFinish
  <2>2. /\ execRow'[e] = [execRow[e] EXCEPT !.state = o]
        /\ \A f \in Execs : f # e => execRow'[f] = execRow[f]
    BY <1>5, <1>t DEF FinishExecution
  <2>3. execRow'[e] \in ExecRow /\ execRow'[e].cap = execRow[e].cap
    BY <2>1, <2>2 DEF ExecRow, ExecStates
  <2> QED BY <1>5, <1>t, <2>1, <2>2, <2>3 DEF FinishExecution, StoreGrows
<1>6. ASSUME (\E c \in Caps : RevokeCapability(c)) \/ (\E p \in Policies : RevokeNotPolicy(p))
      PROVE  StoreGrows
  <2>1. /\ \E S : capRow' = Withdrawn(S, "revoked")
        /\ UNCHANGED <<execRow, totpRow>>
    BY <1>6 DEF RevokeCapability, RevokeNotPolicy
  <2>2. "revoked" \in CapStates
    BY DEF CapStates
  <2> QED BY <2>1, <2>2, <1>w DEF StoreGrows
<1>7. ASSUME Recover PROVE StoreGrows
  <2>1. \A e \in Execs : CanFinish(e) =>
           /\ [execRow[e] EXCEPT !.state = "indeterminate"] \in ExecRow
           /\ [execRow[e] EXCEPT !.state = "indeterminate"].cap = execRow[e].cap
    BY <1>t DEF CanFinish, ExecRow, ExecStates
  <2>2. \A e \in Execs : execRow[e] # NULL =>
           /\ execRow'[e] # NULL /\ execRow'[e].cap = execRow[e].cap
           /\ execRow[e].state # "consuming" => execRow'[e] = execRow[e]
    BY <1>7, <1>t, <2>1 DEF Recover, CanFinish
  <2>3. "expired" \in CapStates
    BY DEF CapStates
  <2> QED BY <1>7, <1>w, <2>2, <2>3 DEF Recover, StoreGrows
<1> QED BY <1>1, <1>2, <1>3, <1>4, <1>5, <1>6, <1>7 DEF StoreNext

\* The places between a transaction and what the handler owes memory, the ledger or the
\* browser for it.
MayRelease(t) ==
  \/ t.pc \in {"consumeMem", "retrieve", "callbackMem", "exchange"}
  \/ t.pc \in {"callbackReq", "callbackAudit"} /\ t.out = "completed"

Critical == {"mintMem", "consumeMem", "retrieve", "callbackMem", "exchange", "resultMem",
             "callbackReq", "callbackAudit"}

\* A handler that stays, or moves without having put anything in the store.
Calm(x) ==
  \/ task'[x] = task[x]
  \/ /\ task[x].pc \notin {"mintMem", "consumeMem"}
     /\ \/ task'[x].pc \notin Critical
        \/ /\ task'[x].pc \in {"callbackReq", "callbackAudit"}
           /\ MayRelease(task'[x]) => MayRelease(task[x]) /\ task'[x].cap = task[x].cap

\* The steps that neither insert a row nor follow up on one: they may revoke.
Undisturbed ==
  /\ UNCHANGED <<memExec, released, restarts, execRow, totpRow>>
  /\ UNCHANGED capRow \/ \E S : capRow' = Withdrawn(S, "revoked")
  /\ RevokedAtMost
  /\ \A x \in Handlers : Calm(x)

PlainStep == Undisturbed /\ Quiet(ReleaseEvents)

\* One handler moves outside the steps that come between a transaction and its memory.
LEMMA CalmMove ==
  ASSUME NEW x, \A y \in Handlers : y # x => task'[y] = task[y],
         task[x].pc \notin {"mintMem", "consumeMem"}, task'[x].pc \notin Critical
  PROVE  \A y \in Handlers : Calm(y)
BY DEF Calm

\* What a handler that only changes its step keeps.
LEMMA CalmGoto ==
  ASSUME HandlersTyped, NEW x \in Handlers, NEW p \in PCs, Goto(x, p)
  PROVE  /\ \A y \in Handlers : y # x => task'[y] = task[y]
         /\ task'[x].pc = p /\ task'[x].auth = task[x].auth /\ task'[x].appr = task[x].appr
         /\ task'[x].out = task[x].out /\ task'[x].cap = task[x].cap
         /\ task'[x].exec = task[x].exec /\ task'[x].step = task[x].step
BY MovedTask DEF HandlersTyped, Goto

\* A handler that finishes is idle; the others have not moved.
LEMMA CalmDone ==
  ASSUME HandlersTyped, NEW x \in Handlers, Done(x)
  PROVE  /\ \A y \in Handlers : y # x => task'[y] = task[y]
         /\ task'[x] = Idle /\ task'[x].pc = "idle"
BY IdleTask DEF HandlersTyped, Done

\* No event, or an event of another kind, adds no release.
LEMMA QuietStep ==
  ASSUME StoreInv, NEW t, NEW r, NEW c, t \notin ReleaseEvents, Append1(t, r, c)
  PROVE  Quiet(ReleaseEvents)
BY EventsAppended DEF Quiet, StoreInv, StoreTypeOK

\* A step that writes nothing to the store records no release.
LEMMA SilentStep == UNCHANGED storeVars => Quiet(ReleaseEvents)
BY DEF storeVars, Quiet, EventsOf

\* Every event the transactions of the tables write is of another kind.
LEMMA TableEventsQuiet == TableEvents \cap ReleaseEvents = {}
BY DEF TableEvents, MintEvents, ReleaseEvents

\* The steps of an action.request handler before minting disturb no entry, row or release.
LEMMA AgentPlain ==
  ASSUME StoreInv, TypeInv, NEW r \in Requests, AgentStep(r)
  PROVE  PlainStep
<1>t. HandlersTyped /\ MemTyped /\ r \in Handlers /\ task[r] \in Task
  BY TypeParts, RequestHandlers DEF HandlersTyped
<1>1. UNCHANGED <<memExec, released, restarts, execRow, totpRow, capRow>>
  BY DEF AgentStep, Submit, RecordRequested, ValidateSession, MeasureContext, EvaluatePolicy,
     PolicyDenies, RecordGranted, AskDb, AskMem, AskReq, RequestFails, Cancel, RecordEvent,
     InsertApproval, storeVars, memVars, envVars
<1>2. RevokedAtMost
  <2>1. ASSUME Cancel(r)
        PROVE  RevokedAtMost
    <3>1. (\E S : MemRevoke(S)) /\ UNCHANGED memExec
      BY <2>1 DEF Cancel
    <3> QED BY <1>t, <3>1, RevokedEntries
  <2>2. Cancel(r) \/ UNCHANGED memCap
    BY DEF AgentStep, Submit, RecordRequested, ValidateSession, MeasureContext, EvaluatePolicy,
       PolicyDenies, RecordGranted, AskDb, AskMem, AskReq, RequestFails, memVars
  <2> QED BY <2>1, <2>2 DEF RevokedAtMost
<1>3. \A x \in Handlers : Calm(x)
  <2>1. ASSUME RecordRequested(r) \/ ValidateSession(r) \/ PolicyDenies(r) \/ RecordGranted(r) \/ AskMem(r)
        PROVE  \A x \in Handlers : Calm(x)
    <3>1. \E p \in PCs \ Critical : Goto(r, p) /\ task[r].pc \notin {"mintMem", "consumeMem"}
      BY <2>1 DEF RecordRequested, ValidateSession, PolicyDenies, RecordGranted, AskMem, At, PCs,
         Critical
    <3> QED BY <1>t, <3>1, CalmGoto, CalmMove
  <2>2. ASSUME AskReq(r) \/ RequestFails(r)
        PROVE  \A x \in Handlers : Calm(x)
    <3>1. Done(r) /\ task[r].pc \notin {"mintMem", "consumeMem"} /\ "idle" \notin Critical
      BY <2>2 DEF AskReq, RequestFails, At, Critical
    <3> QED BY <1>t, <3>1, CalmDone, CalmMove
  <2>3. ASSUME NEW k \in Actions, Submit(r, k)
        PROVE  \A x \in Handlers : Calm(x)
    <3>1. /\ task'[r].pc = "submitted" /\ task[r].pc = "idle"
          /\ \A y \in Handlers : y # r => task'[y] = task[y]
      BY <2>3, <1>t DEF Submit, HandlersTyped, Idle, At
    <3> QED BY <3>1, CalmMove DEF Critical
  <2>4. ASSUME MeasureContext(r)
        PROVE  \A x \in Handlers : Calm(x)
    <3>1. /\ task'[r].pc = "evaluate" /\ task[r].pc = "context"
          /\ \A y \in Handlers : y # r => task'[y] = task[y]
      BY <2>4, <1>t DEF MeasureContext, HandlersTyped, At, Task
    <3> QED BY <3>1, CalmMove DEF Critical
  <2>5. ASSUME NEW path \in Paths, EvaluatePolicy(r, path)
        PROVE  \A x \in Handlers : Calm(x)
    <3> DEFINE q == CASE path = "auto" -> "mint" [] path = "grant" -> "granted"
                      [] path = "presence" -> "ask"
    <3>1. q \in {"mint", "granted", "ask"}
      BY BrokerAssumption
    <3>2. task' = [task EXCEPT ![r].auth.policy = policy, ![r].pc = q] /\ task[r].pc = "evaluate"
      BY <2>5 DEF EvaluatePolicy, At
    <3> HIDE DEF q
    <3>3. task'[r].pc = q /\ \A y \in Handlers : y # r => task'[y] = task[y]
      BY <3>2, <1>t DEF HandlersTyped, Task
    <3> QED BY <3>1, <3>2, <3>3, CalmMove DEF Critical
  <2>6. ASSUME AskDb(r)
        PROVE  \A x \in Handlers : Calm(x)
    <3>1. PICK a \in Approvals : task' = [task EXCEPT ![r].appr = a, ![r].pc = "askMem"]
      BY <2>6 DEF AskDb
    <3>2. /\ task'[r].pc = "askMem" /\ task[r].pc = "ask"
          /\ \A y \in Handlers : y # r => task'[y] = task[y]
      BY <2>6, <3>1, <1>t DEF AskDb, HandlersTyped, At, Task
    <3> QED BY <3>2, CalmMove DEF Critical
  <2>7. ASSUME Cancel(r)
        PROVE  \A x \in Handlers : Calm(x)
    BY <2>7 DEF Cancel, Calm
  <2> QED BY <2>1, <2>2, <2>3, <2>4, <2>5, <2>6, <2>7 DEF AgentStep
<1>4. Quiet(ReleaseEvents)
  <2>1. ASSUME RecordRequested(r) \/ PolicyDenies(r) \/ RecordGranted(r) \/ AskDb(r)
        PROVE  Quiet(ReleaseEvents)
    <3>1. \E t \in {"action.requested", "policy.evaluated", "approval.auto_granted", "approval.requested"} :
             Append1(t, r, NULL)
      BY <2>1 DEF RecordRequested, PolicyDenies, RecordGranted, AskDb, RecordEvent, InsertApproval
    <3> QED BY <3>1, QuietStep DEF ReleaseEvents
  <2>2. ASSUME \/ \E k \in Actions : Submit(r, k)
               \/ ValidateSession(r) \/ MeasureContext(r)
               \/ \E path \in Paths : EvaluatePolicy(r, path)
               \/ AskMem(r) \/ AskReq(r) \/ RequestFails(r) \/ Cancel(r)
        PROVE  Quiet(ReleaseEvents)
    BY <2>2, SilentStep DEF Submit, ValidateSession, MeasureContext, EvaluatePolicy, AskMem, AskReq,
              RequestFails, Cancel
  <2> QED BY <2>1, <2>2 DEF AgentStep
<1> QED BY <1>1, <1>2, <1>3, <1>4 DEF PlainStep, Undisturbed

\* Deciding an approval, and noting the minted request, disturb no entry, row or release.
LEMMA DeciderPlain ==
  ASSUME StoreInv, TypeInv, NEW d \in Handlers, DeciderStep(d) \/ MintReq(d)
  PROVE  PlainStep
<1>t. HandlersTyped /\ task[d] \in Task
  BY TypeParts DEF HandlersTyped
<1>1. UNCHANGED <<memExec, memCap, released, restarts, execRow, totpRow, capRow>>
  BY DEF DeciderStep, BeginDecide, DecideDb, DecideMem, DecideReq, DecideFails, MintReq,
     UpdateApproval, storeVars, memVars, envVars
<1>2. \A x \in Handlers : Calm(x)
  <2>1. ASSUME DecideDb(d) \/ DecideMem(d)
        PROVE  \A x \in Handlers : Calm(x)
    <3>1. \E p \in PCs \ Critical : Goto(d, p) /\ task[d].pc \notin {"mintMem", "consumeMem"}
      BY <2>1 DEF DecideDb, DecideMem, At, PCs, Critical
    <3> QED BY <1>t, <3>1, CalmGoto, CalmMove
  <2>2. ASSUME DecideReq(d) \/ DecideFails(d) \/ MintReq(d)
        PROVE  \A x \in Handlers : Calm(x)
    <3>1. Done(d) /\ task[d].pc \notin {"mintMem", "consumeMem"} /\ "idle" \notin Critical
      BY <2>2 DEF DecideReq, DecideFails, MintReq, At, Critical
    <3> QED BY <1>t, <3>1, CalmDone, CalmMove
  <2>3. ASSUME NEW a \in Approvals, NEW v \in Votes, BeginDecide(d, a, v)
        PROVE  \A x \in Handlers : Calm(x)
    <3>1. /\ task'[d].pc = "decide" /\ task[d].pc = "idle"
          /\ \A y \in Handlers : y # d => task'[y] = task[y]
      BY <2>3, <1>t DEF BeginDecide, HandlersTyped, Idle, At
    <3> QED BY <3>1, CalmMove DEF Critical
  <2> QED BY <2>1, <2>2, <2>3 DEF DeciderStep
<1>3. Quiet(ReleaseEvents)
  <2>1. ASSUME DecideDb(d) PROVE Quiet(ReleaseEvents)
    <3>1. PICK a \in Approvals, o \in Decisions : UpdateApproval(a, o)
      BY <2>1 DEF DecideDb
    <3>2. DecisionEvent[o] \notin ReleaseEvents
      BY DEF DecisionEvent, Decisions, ReleaseEvents
    <3>3. Append1(DecisionEvent[o], apprRow[a].req, NULL)
      BY <3>1 DEF UpdateApproval
    <3> QED BY <3>2, <3>3, QuietStep
  <2>2. DecideDb(d) \/ UNCHANGED storeVars
    BY DEF DeciderStep, BeginDecide, DecideMem, DecideReq, DecideFails, MintReq
  <2> QED BY <2>1, <2>2, SilentStep
<1> QED BY <1>1, <1>2, <1>3 DEF PlainStep, Undisturbed, RevokedAtMost

\* Revoking and reloading the policy withdraw live rows and entries, nothing else.
LEMMA AdminPlain ==
  ASSUME StoreInv, TypeInv, NEW d \in Handlers, AdminStep(d)
  PROVE  PlainStep
<1>t. HandlersTyped /\ MemTyped /\ task[d] \in Task
  BY TypeParts DEF HandlersTyped
<1>1. UNCHANGED <<memExec, released, restarts, execRow, totpRow>>
  BY DEF AdminStep, RevokeDb, RevokeMem, ReloadDb, ReloadEval, ReloadMem, RevokeCapability,
     RevokeNotPolicy, storeVars, memVars, envVars
<1>2. UNCHANGED capRow \/ \E S : capRow' = Withdrawn(S, "revoked")
  <2>1. ASSUME NEW c \in Caps, RevokeDb(d, c) PROVE \E S : capRow' = Withdrawn(S, "revoked")
    BY <2>1 DEF RevokeDb, RevokeCapability
  <2>2. ASSUME NEW p \in Policies, ReloadDb(d, p) PROVE \E S : capRow' = Withdrawn(S, "revoked")
    BY <2>2 DEF ReloadDb, RevokeNotPolicy
  <2>3. ASSUME RevokeMem(d) \/ ReloadEval(d) \/ ReloadMem(d) PROVE UNCHANGED capRow
    BY <2>3 DEF RevokeMem, ReloadEval, ReloadMem, storeVars
  <2> QED BY <2>1, <2>2, <2>3 DEF AdminStep
<1>3. RevokedAtMost
  <2>1. ASSUME RevokeMem(d) PROVE RevokedAtMost
    BY <2>1, <1>t, AdminRevokes
  <2>2. ASSUME ReloadMem(d) PROVE RevokedAtMost
    BY <2>2, <1>t, RevokedEntries DEF ReloadMem
  <2>3. RevokeMem(d) \/ ReloadMem(d) \/ UNCHANGED memCap
    BY DEF AdminStep, RevokeDb, ReloadDb, ReloadEval, memVars
  <2> QED BY <2>1, <2>2, <2>3 DEF RevokedAtMost
<1>4. \A x \in Handlers : Calm(x)
  <2>1. ASSUME ReloadEval(d)
        PROVE  \A x \in Handlers : Calm(x)
    <3>1. \E p \in PCs \ Critical : Goto(d, p) /\ task[d].pc \notin {"mintMem", "consumeMem"}
      BY <2>1 DEF ReloadEval, At, PCs, Critical
    <3> QED BY <1>t, <3>1, CalmGoto, CalmMove
  <2>2. ASSUME RevokeMem(d) \/ ReloadMem(d)
        PROVE  \A x \in Handlers : Calm(x)
    <3>1. Done(d) /\ task[d].pc \notin {"mintMem", "consumeMem"} /\ "idle" \notin Critical
      BY <2>2 DEF RevokeMem, ReloadMem, At, Critical
    <3> QED BY <1>t, <3>1, CalmDone, CalmMove
  <2>3. ASSUME NEW c \in Caps, RevokeDb(d, c)
        PROVE  \A x \in Handlers : Calm(x)
    <3>1. /\ task'[d].pc = "revokeMem" /\ task[d].pc = "idle"
          /\ \A y \in Handlers : y # d => task'[y] = task[y]
      BY <2>3, <1>t DEF RevokeDb, HandlersTyped, Idle, At
    <3> QED BY <3>1, CalmMove DEF Critical
  <2>4. ASSUME NEW p \in Policies, ReloadDb(d, p)
        PROVE  \A x \in Handlers : Calm(x)
    <3>1. /\ task'[d].pc = "reloadEval" /\ task[d].pc = "idle"
          /\ \A y \in Handlers : y # d => task'[y] = task[y]
      BY <2>4, <1>t DEF ReloadDb, HandlersTyped, Idle, At
    <3> QED BY <3>1, CalmMove DEF Critical
  <2> QED BY <2>1, <2>2, <2>3, <2>4 DEF AdminStep
<1>5. Quiet(ReleaseEvents)
  <2>1. ASSUME (\E c \in Caps : RevokeDb(d, c)) \/ (\E p \in Policies : ReloadDb(d, p))
        PROVE  Quiet(ReleaseEvents)
    <3>1. \E t \in {"capability.revoked", "policy.reloaded"}, c \in Caps \cup {NULL} : Append1(t, NULL, c)
      BY <2>1 DEF RevokeDb, ReloadDb, RevokeCapability, RevokeNotPolicy
    <3> QED BY <3>1, QuietStep DEF ReleaseEvents
  <2>2. ASSUME RevokeMem(d) \/ ReloadEval(d) \/ ReloadMem(d) PROVE Quiet(ReleaseEvents)
    BY <2>2, SilentStep DEF RevokeMem, ReloadEval, ReloadMem
  <2> QED BY <2>1, <2>2 DEF AdminStep
<1> QED BY <1>1, <1>2, <1>3, <1>4, <1>5 DEF PlainStep, Undisturbed

\* The ticker and the browser sessions disturb no entry, row or release.
LEMMA BackgroundPlain ==
  ASSUME StoreInv, TypeInv, TickerStep \/ EnvironmentStep
  PROVE  PlainStep
<1>t. HandlersTyped /\ MemTyped /\ Ticker \in Handlers /\ task[Ticker] \in Task
  BY TypeParts, RequestHandlers DEF HandlersTyped
<1>1. UNCHANGED <<memExec, released, restarts, execRow, totpRow, capRow>>
  BY DEF TickerStep, EnvironmentStep, StaleMark, StaleSweep, StaleAudit, AuditFails, Register,
     Heartbeat, Navigate, Prepare, ApprovalLapses, TotpTick, RecordEvent, storeVars, memVars,
     envVars
<1>2. RevokedAtMost
  <2>1. ASSUME StaleSweep PROVE RevokedAtMost
    BY <2>1, <1>t, RevokedEntries DEF StaleSweep
  <2>2. StaleSweep \/ UNCHANGED memCap
    BY DEF TickerStep, EnvironmentStep, StaleMark, StaleAudit, AuditFails, Register,
       Heartbeat, Navigate, Prepare, ApprovalLapses, TotpTick, memVars
  <2> QED BY <2>1, <2>2 DEF RevokedAtMost
<1>3. \A x \in Handlers : Calm(x)
  <2>1. ASSUME StaleMark \/ StaleSweep
        PROVE  \A x \in Handlers : Calm(x)
    <3>1. \E p \in PCs \ Critical : Goto(Ticker, p) /\ task[Ticker].pc \notin {"mintMem", "consumeMem"}
      BY <2>1 DEF StaleMark, StaleSweep, At, PCs, Critical
    <3> QED BY <1>t, <3>1, CalmGoto, CalmMove
  <2>2. ASSUME StaleAudit \/ AuditFails(Ticker)
        PROVE  \A x \in Handlers : Calm(x)
    <3>1. Done(Ticker) /\ task[Ticker].pc \notin {"mintMem", "consumeMem"} /\ "idle" \notin Critical
      BY <2>2 DEF StaleAudit, AuditFails, At, Critical
    <3> QED BY <1>t, <3>1, CalmDone, CalmMove
  <2>3. ASSUME EnvironmentStep PROVE UNCHANGED task
    BY <2>3 DEF EnvironmentStep, Register, Heartbeat, Navigate, Prepare, ApprovalLapses, TotpTick
  <2> QED BY <2>1, <2>2, <2>3 DEF TickerStep, Calm
<1>4. Quiet(ReleaseEvents)
  <2>1. ASSUME StaleAudit \/ Register PROVE Quiet(ReleaseEvents)
    <3>1. \E t \in {"browser.stale", "browser.registered"} : Append1(t, NULL, NULL)
      BY <2>1 DEF StaleAudit, Register, RecordEvent
    <3> QED BY <3>1, QuietStep DEF ReleaseEvents
  <2>2. StaleAudit \/ Register \/ UNCHANGED storeVars
    BY DEF TickerStep, EnvironmentStep, StaleMark, StaleSweep, AuditFails,
       Heartbeat, Navigate, Prepare, ApprovalLapses, TotpTick
  <2> QED BY <2>1, <2>2, SilentStep
<1> QED BY <1>1, <1>2, <1>3, <1>4 DEF PlainStep, Undisturbed

ExecutorPlainStep(x) ==
  \/ \E fate \in Fates : Poll(x, fate)
  \/ \E c \in Caps : BeginConsume(x, c)
  \/ ConsumeRejected(x) \/ RetrieveFails(x)
  \/ \E e \in Execs, status \in Statuses : BeginResult(x, e, status)
  \/ ResultReq(x)
  \/ \E c \in Caps, bound \in BOOLEAN : BeginCallback(x, c, bound)
  \/ Exchange(x) \/ CallbackFails(x) \/ CallbackReq(x) \/ AuditFails(x)

\* The steps of an executor outside its transactions and their memory disturb nothing.
LEMMA ExecutorPlain ==
  ASSUME StoreInv, TypeInv, NEW x \in Handlers, ExecutorPlainStep(x)
  PROVE  PlainStep
<1>t. HandlersTyped /\ task[x] \in Task
  BY TypeParts DEF HandlersTyped
<1>1. UNCHANGED <<memExec, memCap, released, restarts, storeVars>>
  BY DEF ExecutorPlainStep, Poll, BeginConsume, ConsumeRejected, RetrieveFails, BeginResult,
     ResultReq,
     BeginCallback, Exchange, CallbackFails, CallbackReq, AuditFails, memVars, envVars
<1>2. \A y \in Handlers : Calm(y)
  <2>1. ASSUME NEW fate \in Fates, Poll(x, fate)
        PROVE  \A y \in Handlers : Calm(y)
    BY <2>1 DEF Poll, Calm
  <2>2. ASSUME ConsumeRejected(x) \/ RetrieveFails(x) \/ ResultReq(x) \/ AuditFails(x)
        PROVE  \A y \in Handlers : Calm(y)
    <3>1. Done(x) /\ task[x].pc \notin {"mintMem", "consumeMem"} /\ "idle" \notin Critical
      BY <2>2 DEF ConsumeRejected, RetrieveFails, ResultReq, AuditFails, At, Critical
    <3> QED BY <1>t, <3>1, CalmDone, CalmMove
  <2>3. ASSUME NEW c \in Caps, BeginConsume(x, c)
        PROVE  \A y \in Handlers : Calm(y)
    <3>1. /\ task'[x].pc = "consume" /\ task[x].pc = "idle"
          /\ \A y \in Handlers : y # x => task'[y] = task[y]
      BY <2>3, <1>t DEF BeginConsume, HandlersTyped, Idle, At
    <3> QED BY <3>1, CalmMove DEF Critical
  <2>4. ASSUME NEW e \in Execs, NEW st \in Statuses, BeginResult(x, e, st)
        PROVE  \A y \in Handlers : Calm(y)
    <3>1. /\ task'[x].pc = "result" /\ task[x].pc = "idle"
          /\ \A y \in Handlers : y # x => task'[y] = task[y]
      BY <2>4, <1>t DEF BeginResult, HandlersTyped, Idle, At
    <3> QED BY <3>1, CalmMove DEF Critical
  <2>5. ASSUME NEW c \in Caps, NEW bound \in BOOLEAN, BeginCallback(x, c, bound)
        PROVE  \A y \in Handlers : Calm(y)
    <3>1. /\ task'[x].pc \in {"callback", "callbackReq"} /\ task[x].pc = "idle"
          /\ task'[x].pc = "callbackReq" => task'[x].out = "failed"
          /\ \A y \in Handlers : y # x => task'[y] = task[y]
      BY <2>5, <1>t DEF BeginCallback, HandlersTyped, Idle, At
    <3> QED BY <3>1 DEF Calm, Critical, MayRelease
  <2>6. ASSUME Exchange(x) \/ CallbackFails(x)
        PROVE  \A y \in Handlers : Calm(y)
    <3>1. PICK o \in {"completed", "failed"} :
             /\ task' = [task EXCEPT ![x].out = o, ![x].pc = "callbackReq"]
             /\ o = "completed" => task[x].pc = "exchange"
             /\ task[x].pc \in {"exchange", "callback"}
      BY <2>6 DEF Exchange, CallbackFails, At
    <3>2. /\ task'[x].pc = "callbackReq" /\ task'[x].out = o /\ task'[x].cap = task[x].cap
          /\ \A y \in Handlers : y # x => task'[y] = task[y]
      BY <3>1, <1>t DEF HandlersTyped, Task
    <3> QED BY <3>1, <3>2 DEF Calm, MayRelease
  <2>7. ASSUME CallbackReq(x)
        PROVE  \A y \in Handlers : Calm(y)
    <3>1. Goto(x, "callbackAudit") /\ "callbackAudit" \in PCs /\ task[x].pc = "callbackReq"
      BY <2>7 DEF CallbackReq, At, PCs
    <3>2. /\ task'[x].pc = "callbackAudit" /\ task'[x].out = task[x].out /\ task'[x].cap = task[x].cap
          /\ \A y \in Handlers : y # x => task'[y] = task[y]
      BY <3>1, <1>t, CalmGoto
    <3> QED BY <3>1, <3>2 DEF Calm, MayRelease
  <2> QED BY <2>1, <2>2, <2>3, <2>4, <2>5, <2>6, <2>7 DEF ExecutorPlainStep
<1> QED BY <1>1, <1>2, SilentStep DEF PlainStep, Undisturbed, RevokedAtMost, storeVars

\* The steps that put a row in the store, or follow up on one.
OwnStep(x) ==
  \/ MintDb(x) \/ MintMem(x) \/ ConsumeMem(x) \/ Retrieve(x)
  \/ x \in Executors /\ ConsumeDb(x)
  \/ ResultDb(x) \/ ResultRejected(x) \/ ResultMem(x)
  \/ CallbackDb(x) \/ CallbackMem(x) \/ CallbackAudit(x)

\* Every step of the broker is a plain one, a restart, or one of those that write a row,
\* the memory entry that goes with it, or what is released under it.
LEMMA StepKinds ==
  ASSUME StoreInv, TypeInv, [BrokerNext]_brokerVars
  PROVE  PlainStep \/ Restart \/ \E x \in Handlers : OwnStep(x)
<1>1. CASE UNCHANGED brokerVars
  BY <1>1, SilentStep DEF brokerVars, PlainStep, Undisturbed, memVars, envVars, storeVars, Calm,
     RevokedAtMost
<1>2. ASSUME NEW x \in Requests \cup Deciders, MintStep(x) PROVE PlainStep \/ OwnStep(x)
  BY <1>2, DeciderPlain, RequestHandlers DEF MintStep, OwnStep
<1>3. ASSUME NEW x \in Executors, ExecutorStep(x) PROVE PlainStep \/ OwnStep(x)
  BY <1>3, ExecutorPlain, RequestHandlers DEF ExecutorStep, ExecutorPlainStep, OwnStep
<1>4. CASE BrokerNext
  <2>1. Requests \cup Deciders \subseteq Handlers /\ Executors \subseteq Handlers
    BY RequestHandlers
  <2> QED BY <1>4, <1>2, <1>3, <2>1, RequestHandlers, AgentPlain, DeciderPlain, AdminPlain,
             BackgroundPlain
     DEF BrokerNext
<1> QED BY <1>1, <1>4

Holds(e, c, s) ==
  /\ execRow[e] # NULL /\ execRow[e].cap = c
  /\ s # NULL => totpRow[s] = e

Backed(t) ==
  /\ t.pc = "mintMem" => capRow[t.cap] # NULL /\ memCap[t.cap] = NULL
  /\ t.pc \in {"consumeMem", "retrieve"} => Holds(t.exec, t.cap, t.step)
  /\ t.pc = "callbackMem" => capRow[t.cap] # NULL /\ capRow[t.cap].state = "consumed"
  /\ t.pc = "resultMem" /\ t.out \in {"completed", "failed"} =>
        execRow[t.exec] # NULL /\ execRow[t.exec].state = t.out

AllBacked == \A x \in Handlers : Backed(task[x])

MintersApart ==
  \A x, y \in Handlers :
     At(x, "mintMem") /\ At(y, "mintMem") /\ task[x].cap = task[y].cap => x = y

EntriesHaveRows == \A c \in Caps : memCap[c] # NULL => capRow[c] # NULL

ReleasesBacked == \A rel \in released : Holds(rel.exec, rel.cap, rel.step)

\* The parts of NoOrphanRows.
LiveOwned == \A c \in Caps : Live(c) => memCap[c] # NULL \/ Carries("mintMem", c)
OpenOwned ==
  \A e \in Execs : CanFinish(e) =>
     memExec[e] # NULL \/ \E x \in Executors : At(x, "consumeMem") /\ task[x].exec = e
ConsumedAgrees ==
  \A c \in Caps : memCap[c] # NULL /\ memCap[c].state = "consumed" => capRow[c].state = "consumed"

MemoryInv ==
  /\ LedgerInv /\ TypeInv /\ AllBacked
  /\ MintersApart /\ EntriesHaveRows /\ ReleasesBacked
  /\ LiveOwned /\ OpenOwned /\ ConsumedAgrees /\ ResultsAgree

\* What the store holds for a handler it goes on holding.
LEMMA HoldsStays ==
  ASSUME StoreGrows, NEW e \in Execs, NEW c, NEW s \in TotpSteps \cup {NULL}, Holds(e, c, s)
  PROVE  Holds(e, c, s)'
BY NullAssumption DEF StoreGrows, Holds

\* A handler that does not move stays backed by its rows.
LEMMA OtherBacked ==
  ASSUME TypeInv, AllBacked, StoreGrows, NEW y \in Handlers, task'[y] = task[y],
         task[y].pc = "mintMem" => memCap'[task[y].cap] = NULL
  PROVE  Backed(task[y])'
<1>1. task[y] \in Task /\ Carrying(task[y]) /\ Backed(task[y])
  BY DEF TypeInv, BrokerTypeOK, AllBacked
<1>2. task[y].pc = "mintMem" => capRow'[task[y].cap] # NULL /\ memCap'[task[y].cap] = NULL
  BY <1>1 DEF Carrying, CapPcs, Backed, StoreGrows
<1>3. task[y].pc \in {"consumeMem", "retrieve"} => Holds(task[y].exec, task[y].cap, task[y].step)'
  BY <1>1, HoldsStays DEF Carrying, ExecPcs, Backed, Task, Holds
<1>4. task[y].pc = "callbackMem" => capRow'[task[y].cap] # NULL /\ capRow'[task[y].cap].state = "consumed"
  BY <1>1 DEF Carrying, CapPcs, CallbackPcs, Backed, StoreGrows, LiveStates
<1>5. task[y].pc = "resultMem" /\ task[y].out \in {"completed", "failed"} =>
         execRow'[task[y].exec] # NULL /\ execRow'[task[y].exec].state = task[y].out
  BY <1>1 DEF Carrying, ExecPcs, ResultPcs, Backed, StoreGrows
<1>6. Holds(task[y].exec, task[y].cap, task[y].step)' <=>
        /\ execRow'[task'[y].exec] # NULL /\ execRow'[task'[y].exec].cap = task'[y].cap
        /\ task'[y].step # NULL => totpRow'[task'[y].step] = task'[y].exec
  BY DEF Holds
<1> QED BY <1>2, <1>3, <1>4, <1>5, <1>6 DEF Backed, Holds

\* What backs a release stays: rows only grow.
LEMMA ReleasesStay ==
  ASSUME TypeInv, StoreGrows, ReleasesBacked
  PROVE  \A rel \in released : Holds(rel.exec, rel.cap, rel.step)'
<1> SUFFICES ASSUME NEW rel \in released PROVE Holds(rel.exec, rel.cap, rel.step)'
  OBVIOUS
<1>1. rel.exec \in Execs /\ rel.step \in TotpSteps \cup {NULL}
  BY DEF TypeInv, BrokerTypeOK, Release
<1>2. Holds(rel.exec, rel.cap, rel.step)
  BY DEF ReleasesBacked
<1> QED BY <1>1, <1>2, HoldsStays

\* Executions that memory leaves alone go on agreeing with their rows.
LEMMA ResultsStay ==
  ASSUME StoreGrows, ResultsAgree, NEW e \in Execs, memExec'[e] = memExec[e], memExec[e] # NULL
  PROVE  /\ execRow'[e] # NULL /\ execRow'[e].cap = memExec'[e].cap
         /\ memExec'[e].state \in {"completed", "failed"} => execRow'[e].state = memExec'[e].state
BY DEF StoreGrows, ResultsAgree

\* An untouched entry that reads consumed stays over a consumed row.
LEMMA ConsumedStays ==
  ASSUME StoreGrows, EntriesHaveRows, ConsumedAgrees, NEW c \in Caps, memCap'[c] = memCap[c]
  PROVE  memCap'[c] # NULL /\ memCap'[c].state = "consumed" => capRow'[c].state = "consumed"
BY DEF StoreGrows, EntriesHaveRows, ConsumedAgrees, LiveStates

\* A step that neither inserts a row nor follows up on one.
LEMMA MemoryFrame ==
  ASSUME MemoryInv, LedgerInv', TypeInv', StoreGrows, Undisturbed
  PROVE  MemoryInv'
<1>i. /\ TypeInv /\ AllBacked /\ MintersApart /\ EntriesHaveRows /\ ReleasesBacked
      /\ LiveOwned /\ OpenOwned /\ ConsumedAgrees /\ ResultsAgree
  BY DEF MemoryInv
<1>u. /\ UNCHANGED <<memExec, released, restarts, execRow, totpRow>>
      /\ RevokedAtMost /\ \A x \in Handlers : Calm(x)
  BY DEF Undisturbed
<1>c. \A c \in Caps : memCap'[c] = NULL <=> memCap[c] = NULL
  BY <1>u DEF RevokedAtMost
<1>r. \A c \in Caps : Live(c)' => Live(c)
  <2>1. CASE UNCHANGED capRow
    BY <2>1 DEF Live
  <2>2. ASSUME NEW S, capRow' = Withdrawn(S, "revoked") PROVE \A c \in Caps : Live(c)' => Live(c)
    <3>1. capRow \in [Caps -> CapRow \cup {NULL}] /\ "revoked" \in CapStates
      BY <1>i DEF TypeInv, BrokerTypeOK, StoreTypeOK, CapStates
    <3> QED BY <2>2, <3>1, WithdrawnRows DEF Live, LiveStates
  <2> QED BY <2>1, <2>2 DEF Undisturbed
<1>1. AllBacked'
  <2> SUFFICES ASSUME NEW y \in Handlers PROVE Backed(task[y])'
    BY DEF AllBacked
  <2>1. CASE task'[y] = task[y]
    <3>1. task[y].pc = "mintMem" => memCap'[task[y].cap] = NULL
      BY <1>i, <1>c DEF AllBacked, Backed, TypeInv, Carrying, CapPcs
    <3> QED BY <2>1, <3>1, <1>i, OtherBacked
  <2>2. CASE task'[y].pc \notin Critical
    BY <2>2 DEF Backed, Critical
  <2>3. CASE task'[y].pc \in {"callbackReq", "callbackAudit"}
    BY <2>3 DEF Backed
  <2> QED BY <1>u, <2>1, <2>2, <2>3 DEF Calm
<1>2. MintersApart'
  <2>1. \A x \in Handlers : At(x, "mintMem")' => task'[x] = task[x]
    BY <1>u DEF Calm, Critical, At
  <2> QED BY <2>1, <1>i DEF MintersApart, At
<1>3. EntriesHaveRows'
  BY <1>i, <1>c DEF EntriesHaveRows, StoreGrows
<1>4. ReleasesBacked'
  BY <1>i, <1>u, ReleasesStay DEF ReleasesBacked
<1>5. LiveOwned'
  <2>1. \A x \in Handlers : At(x, "mintMem") => task'[x] = task[x]
    BY <1>u DEF Calm, At
  <2>2. \A c \in Caps : Carries("mintMem", c) => Carries("mintMem", c)'
    BY <2>1 DEF Carries, At
  <2> QED BY <1>i, <1>c, <1>r, <2>2 DEF LiveOwned
<1>6. OpenOwned'
  <2>1. \A x \in Executors : At(x, "consumeMem") => task'[x] = task[x]
    BY <1>u, RequestHandlers DEF Calm, At
  <2> QED BY <1>i, <1>u, <2>1 DEF OpenOwned, CanFinish, At
<1>7. ConsumedAgrees'
  <2> SUFFICES ASSUME NEW c \in Caps, memCap'[c] # NULL, memCap'[c].state = "consumed"
               PROVE  capRow'[c].state = "consumed"
    BY DEF ConsumedAgrees
  <2>1. memCap'[c] = memCap[c]
    BY <1>u DEF RevokedAtMost
  <2> QED BY <1>i, <2>1, ConsumedStays
<1>8. ResultsAgree'
  BY <1>i, <1>u, ResultsStay DEF ResultsAgree
<1> QED BY <1>1, <1>2, <1>3, <1>4, <1>5, <1>6, <1>7, <1>8 DEF MemoryInv

\* A handler's own step: the others stay, and keep what backs them.
LEMMA OthersBacked ==
  ASSUME MemoryInv, StoreGrows, NEW x \in Handlers,
         \A y \in Handlers : y # x => task'[y] = task[y],
         \A y \in Handlers : y # x /\ At(y, "mintMem") => memCap'[task[y].cap] = NULL,
         Backed(task[x])'
  PROVE  AllBacked'
<1> SUFFICES ASSUME NEW y \in Handlers, y # x PROVE Backed(task[y])'
  BY DEF AllBacked
<1>1. task'[y] = task[y] /\ (task[y].pc = "mintMem" => memCap'[task[y].cap] = NULL)
  BY DEF At
<1> QED BY <1>1, OtherBacked DEF MemoryInv

\* What a handler in the middle of its own step relies on.
LEMMA OwnFacts ==
  ASSUME MemoryInv, NEW x \in Handlers
  PROVE  /\ task \in [Handlers -> Task] /\ task[x] \in Task
         /\ Carrying(task[x]) /\ HasEntry(task[x]) /\ Backed(task[x])
         /\ HandlersTyped /\ MemTyped /\ EnvTyped /\ StoreInv /\ StoreTypeOK
         /\ \A y \in Handlers : At(y, "mintMem") => task[y].cap \in Caps /\ memCap[task[y].cap] = NULL
                                                    /\ capRow[task[y].cap] # NULL
<1>1. HandlersTyped /\ MemTyped /\ EnvTyped /\ StoreTypeOK /\ StoreInv
  BY TypeParts DEF MemoryInv, LedgerInv
<1>2. \A y \in Handlers : At(y, "mintMem") => task[y].cap \in Caps
  BY <1>1 DEF HandlersTyped, Carrying, At, CapPcs
<1> QED BY <1>1, <1>2 DEF MemoryInv, AllBacked, Backed, HandlersTyped, At

\* generate_capability inserts the row of a capability nobody knows yet.
LEMMA MemoryMintDb ==
  ASSUME MemoryInv, LedgerInv', TypeInv', StoreGrows, NEW x \in Handlers, MintDb(x)
  PROVE  MemoryInv'
<1>i. /\ TypeInv /\ AllBacked /\ MintersApart /\ EntriesHaveRows /\ ReleasesBacked
      /\ LiveOwned /\ OpenOwned /\ ConsumedAgrees /\ ResultsAgree
  BY DEF MemoryInv
<1>f. /\ task \in [Handlers -> Task] /\ task[x] \in Task /\ StoreTypeOK
      /\ \A y \in Handlers : At(y, "mintMem") => task[y].cap \in Caps /\ memCap[task[y].cap] = NULL
                                                 /\ capRow[task[y].cap] # NULL
  BY OwnFacts
<1>1. PICK c \in Caps, r \in Requests, p \in Policies, t \in MintEvents :
         InsertCapability(c, r, p, t) /\ task' = [task EXCEPT ![x].cap = c, ![x].pc = "mintMem"]
  BY DEF MintDb
<1>2. /\ task'[x].pc = "mintMem" /\ task'[x].cap = c /\ task[x].pc = "mint"
      /\ \A y \in Handlers : y # x => task'[y] = task[y]
  BY <1>1, <1>f DEF MintDb, At, Task
<1>3. UNCHANGED <<memCap, memExec, released>>
  BY DEF MintDb, memVars, envVars
<1>4. /\ capRow[c] = NULL /\ capRow'[c] # NULL /\ UNCHANGED <<execRow, totpRow>>
      /\ \A d \in Caps : d # c => capRow'[d] = capRow[d]
  <2>1. [req |-> r, policy |-> p, state |-> "issued", used |-> 0] \in CapRow
    BY DEF CapRow, CapStates, LiveStates
  <2> QED BY <1>1, <1>f, <2>1, NullAssumption DEF InsertCapability, StoreTypeOK
<1>5. memCap[c] = NULL
  BY <1>i, <1>4 DEF EntriesHaveRows
<1>6. AllBacked'
  <2>1. Backed(task[x])'
    BY <1>2, <1>3, <1>4, <1>5 DEF Backed
  <2> QED BY <1>2, <1>3, <1>f, <2>1, OthersBacked
<1>7. MintersApart'
  BY <1>i, <1>2, <1>4, <1>f DEF MintersApart, At
<1>8. EntriesHaveRows'
  BY <1>i, <1>3 DEF EntriesHaveRows, StoreGrows
<1>9. ReleasesBacked'
  BY <1>i, <1>3, ReleasesStay DEF ReleasesBacked
<1>10. LiveOwned'
  <2> SUFFICES ASSUME NEW d \in Caps, Live(d)' PROVE memCap'[d] # NULL \/ Carries("mintMem", d)'
    BY DEF LiveOwned
  <2>1. CASE d = c
    BY <1>2, <2>1 DEF Carries, At
  <2>2. CASE d # c
    <3>1. Live(d)
      BY <1>4, <2>2 DEF Live
    <3>2. Carries("mintMem", d) => Carries("mintMem", d)'
      BY <1>2 DEF Carries, At
    <3> QED BY <1>i, <1>3, <3>1, <3>2 DEF LiveOwned
  <2> QED BY <2>1, <2>2
<1>11. OpenOwned'
  BY <1>i, <1>2, <1>3, <1>4, RequestHandlers DEF OpenOwned, CanFinish, At
<1>12. ConsumedAgrees'
  BY <1>i, <1>3, ConsumedStays DEF ConsumedAgrees
<1>13. ResultsAgree'
  BY <1>i, <1>3, ResultsStay DEF ResultsAgree
<1> QED BY <1>6, <1>7, <1>8, <1>9, <1>10, <1>11, <1>12, <1>13 DEF MemoryInv

\* generate_capability adds the entry of the row it has inserted.
LEMMA MemoryMintMem ==
  ASSUME MemoryInv, LedgerInv', TypeInv', StoreGrows, NEW x \in Handlers, MintMem(x)
  PROVE  MemoryInv'
<1>i. /\ TypeInv /\ AllBacked /\ MintersApart /\ EntriesHaveRows /\ ReleasesBacked
      /\ LiveOwned /\ OpenOwned /\ ConsumedAgrees /\ ResultsAgree
  BY DEF MemoryInv
<1>f. /\ HandlersTyped /\ MemTyped
      /\ \A y \in Handlers : At(y, "mintMem") => task[y].cap \in Caps /\ memCap[task[y].cap] = NULL
                                                 /\ capRow[task[y].cap] # NULL
  BY OwnFacts
<1> DEFINE c == task[x].cap
           entry == [auth |-> task[x].auth, state |-> "issued"]
<1>1. /\ task'[x].pc = "mintReq" /\ task[x].pc = "mintMem"
      /\ \A y \in Handlers : y # x => task'[y] = task[y]
  BY <1>f, CalmGoto DEF MintMem, At, PCs
<1>2. c \in Caps /\ capRow[c] # NULL /\ memCap[c] = NULL
  BY <1>f, <1>1 DEF At
<1>3. entry.state = "issued" /\ entry # NULL /\ memCap' = [memCap EXCEPT ![c] = entry]
  <2>1. task[x].auth \in Auth
    BY <1>f, <1>1 DEF HandlersTyped, Carrying, AuthPcs, MintPcs
  <2> QED BY <2>1, EntriesAssumption DEF MintMem, CapabilityEntry
<1> HIDE DEF c, entry
<1>4. memCap'[c] = entry /\ \A d \in Caps : d # c => memCap'[d] = memCap[d]
  BY <1>2, <1>3, <1>f DEF MemTyped
<1>5. UNCHANGED <<capRow, execRow, totpRow, memExec, released>>
  BY DEF MintMem, storeVars, envVars
<1>6. AllBacked'
  <2>1. Backed(task[x])'
    BY <1>1 DEF Backed
  <2>2. \A y \in Handlers : y # x /\ At(y, "mintMem") => memCap'[task[y].cap] = NULL
    BY <1>f, <1>i, <1>1, <1>4 DEF MintersApart, At, c
  <2> QED BY <1>1, <2>1, <2>2, OthersBacked
<1>7. MintersApart'
  BY <1>i, <1>1 DEF MintersApart, At
<1>8. EntriesHaveRows'
  BY <1>i, <1>2, <1>4, <1>5 DEF EntriesHaveRows
<1>9. ReleasesBacked'
  BY <1>i, <1>5, ReleasesStay DEF ReleasesBacked
<1>10. LiveOwned'
  <2> SUFFICES ASSUME NEW d \in Caps, Live(d)', d # c PROVE memCap'[d] # NULL \/ Carries("mintMem", d)'
    BY <1>3, <1>4 DEF LiveOwned
  <2>1. Live(d)
    BY <1>5 DEF Live
  <2>2. Carries("mintMem", d) => Carries("mintMem", d)'
    BY <1>1 DEF Carries, At, c
  <2> QED BY <1>i, <1>4, <2>1, <2>2 DEF LiveOwned
<1>11. OpenOwned'
  BY <1>i, <1>1, <1>5, RequestHandlers DEF OpenOwned, CanFinish, At
<1>12. ConsumedAgrees'
  BY <1>i, <1>3, <1>4, ConsumedStays DEF ConsumedAgrees
<1>13. ResultsAgree'
  BY <1>i, <1>5, ResultsStay DEF ResultsAgree
<1> QED BY <1>6, <1>7, <1>8, <1>9, <1>10, <1>11, <1>12, <1>13 DEF MemoryInv

\* prepare_execution consumes the row, claims the TOTP step and opens an execution.
LEMMA MemoryConsumeDb ==
  ASSUME MemoryInv, LedgerInv', TypeInv', StoreGrows, NEW x \in Executors, ConsumeDb(x)
  PROVE  MemoryInv'
<1>i. /\ TypeInv /\ AllBacked /\ MintersApart /\ EntriesHaveRows /\ ReleasesBacked
      /\ LiveOwned /\ OpenOwned /\ ConsumedAgrees /\ ResultsAgree
  BY DEF MemoryInv
<1>h. x \in Handlers
  BY RequestHandlers
<1>f. /\ task \in [Handlers -> Task] /\ task[x] \in Task /\ StoreTypeOK
      /\ \A y \in Handlers : At(y, "mintMem") => task[y].cap \in Caps /\ memCap[task[y].cap] = NULL
                                                 /\ capRow[task[y].cap] # NULL
  BY <1>h, OwnFacts
<1>1. PICK c \in Caps, e \in Execs, s \in TotpSteps \cup {NULL} :
         /\ c = task[x].cap /\ s = task[x].step
         /\ ConsumeCapability(c, e, s) /\ task' = [task EXCEPT ![x].exec = e, ![x].pc = "consumeMem"]
  BY DEF ConsumeDb
<1>2. /\ task'[x].pc = "consumeMem" /\ task'[x].cap = c /\ task'[x].exec = e /\ task'[x].step = s
      /\ task[x].pc = "consume"
      /\ \A y \in Handlers : y # x => task'[y] = task[y]
  BY <1>1, <1>f, <1>h DEF ConsumeDb, At, Task
<1>3. UNCHANGED <<memCap, memExec, released>>
  BY DEF ConsumeDb, memVars, envVars
<1>4. /\ execRow'[e] # NULL /\ execRow'[e].cap = c
      /\ \A f \in Execs : f # e => execRow'[f] = execRow[f]
  <2>1. [cap |-> c, state |-> "consuming"] \in ExecRow
    BY DEF ExecRow, ExecStates
  <2> QED BY <1>1, <1>f, <2>1, NullAssumption DEF ConsumeCapability, StoreTypeOK
<1>5. s # NULL => totpRow'[s] = e
  BY <1>1 DEF ConsumeCapability
<1>6. Live(c) /\ \A d \in Caps : d # c => capRow'[d] = capRow[d]
  BY <1>1, <1>f DEF ConsumeCapability, CanConsume, StoreTypeOK
<1>7. AllBacked'
  <2>1. Backed(task[x])'
    BY <1>2, <1>4, <1>5 DEF Backed, Holds
  <2> QED BY <1>2, <1>3, <1>f, <1>h, <2>1, OthersBacked
<1>8. MintersApart'
  BY <1>i, <1>2 DEF MintersApart, At
<1>9. EntriesHaveRows'
  BY <1>i, <1>3 DEF EntriesHaveRows, StoreGrows
<1>10. ReleasesBacked'
  BY <1>i, <1>3, ReleasesStay DEF ReleasesBacked
<1>11. LiveOwned'
  <2> SUFFICES ASSUME NEW d \in Caps, Live(d)' PROVE memCap'[d] # NULL \/ Carries("mintMem", d)'
    BY DEF LiveOwned
  <2>1. Live(d)
    BY <1>6 DEF Live
  <2>2. Carries("mintMem", d) => Carries("mintMem", d)'
    BY <1>2 DEF Carries, At
  <2> QED BY <1>i, <1>3, <2>1, <2>2 DEF LiveOwned
<1>12. OpenOwned'
  <2> SUFFICES ASSUME NEW f \in Execs, CanFinish(f)', f # e
               PROVE  memExec'[f] # NULL \/ \E y \in Executors : At(y, "consumeMem")' /\ task'[y].exec = f
    BY <1>2 DEF OpenOwned, At
  <2>1. CanFinish(f)
    BY <1>4 DEF CanFinish
  <2> QED BY <1>i, <1>2, <1>3, <2>1, RequestHandlers DEF OpenOwned, At
<1>13. ConsumedAgrees'
  BY <1>i, <1>3, ConsumedStays DEF ConsumedAgrees
<1>14. ResultsAgree'
  BY <1>i, <1>3, ResultsStay DEF ResultsAgree
<1> QED BY <1>7, <1>8, <1>9, <1>10, <1>11, <1>12, <1>13, <1>14 DEF MemoryInv

\* A handler marks the entry of the capability whose row it consumed.
LEMMA MemoryConsumed ==
  ASSUME MemoryInv, LedgerInv', TypeInv', StoreGrows, NEW x \in Handlers, ConsumeMem(x) \/ CallbackMem(x)
  PROVE  MemoryInv'
<1>i. /\ TypeInv /\ AllBacked /\ MintersApart /\ EntriesHaveRows /\ ReleasesBacked
      /\ LiveOwned /\ OpenOwned /\ ConsumedAgrees /\ ResultsAgree
  BY DEF MemoryInv
<1>f. /\ HandlersTyped /\ MemTyped /\ StoreInv
      /\ task[x] \in Task /\ Carrying(task[x]) /\ HasEntry(task[x]) /\ Backed(task[x])
      /\ \A y \in Handlers : At(y, "mintMem") => task[y].cap \in Caps /\ memCap[task[y].cap] = NULL
                                                 /\ capRow[task[y].cap] # NULL
  BY OwnFacts
<1> DEFINE c == task[x].cap
           e == task[x].exec
<1>1. /\ task[x].pc \in {"consumeMem", "callbackMem"}
      /\ \E p \in {"retrieve", "exchange"} : Goto(x, p) /\ (p = "retrieve" <=> task[x].pc = "consumeMem")
  BY DEF ConsumeMem, CallbackMem, At
<1>2. /\ task'[x].pc \in {"retrieve", "exchange"}
      /\ task'[x].pc = "retrieve" => task[x].pc = "consumeMem"
      /\ task'[x].exec = e /\ task'[x].cap = c /\ task'[x].step = task[x].step
      /\ \A y \in Handlers : y # x => task'[y] = task[y]
  BY <1>1, <1>f, CalmGoto DEF PCs
<1>3. c \in Caps /\ memCap[c] # NULL
  BY <1>f, <1>1 DEF Carrying, HasEntry, CapPcs, ConsumePcs, CallbackPcs
<1>4. capRow[c] # NULL /\ capRow[c].state = "consumed"
  <2>1. CASE task[x].pc = "callbackMem"
    BY <2>1, <1>f DEF Backed
  <2>2. CASE task[x].pc = "consumeMem"
    <3>1. e \in Execs /\ execRow[e] # NULL /\ execRow[e].cap = c
      BY <2>2, <1>f DEF Backed, Holds, Carrying, ExecPcs
    <3> QED BY <3>1, <1>f DEF StoreInv, ExecutedIsConsumed
  <2> QED BY <1>1, <2>1, <2>2
<1>5. /\ memCap'[c] # NULL /\ memCap'[c].state = "consumed"
      /\ \A d \in Caps : d # c => memCap'[d] = memCap[d]
  BY <1>3, <1>f, ConsumedEntry DEF ConsumeMem, CallbackMem
<1>6. UNCHANGED <<capRow, execRow, totpRow, released>>
  BY DEF ConsumeMem, CallbackMem, storeVars, envVars
<1>7. \A f \in Execs :
         \/ memExec'[f] = memExec[f]
         \/ /\ f = e /\ task[x].pc = "consumeMem"
            /\ memExec'[f] # NULL /\ memExec'[f].cap = c /\ memExec'[f].state = "consuming"
  <2>1. ASSUME CallbackMem(x) PROVE UNCHANGED memExec
    BY <2>1 DEF CallbackMem
  <2>2. ASSUME ConsumeMem(x), NEW f \in Execs
        PROVE  \/ memExec'[f] = memExec[f]
               \/ /\ f = e /\ task[x].pc = "consumeMem"
                  /\ memExec'[f] # NULL /\ memExec'[f].cap = c /\ memExec'[f].state = "consuming"
    <3> DEFINE entry == [cap |-> c, req |-> task[x].auth.req, state |-> "consuming"]
    <3>1. entry \in ActiveExecution
      BY <1>3, <1>f, <2>2 DEF ConsumeMem, At, Carrying, AuthPcs, ConsumePcs, Auth, ActiveExecution,
         MemExecStates, ExecStates
    <3>2. entry # NULL /\ entry.cap = c /\ entry.state = "consuming"
      BY <3>1, EntriesAssumption
    <3>3. memExec' = [memExec EXCEPT ![e] = entry] /\ task[x].pc = "consumeMem"
      BY <2>2 DEF ConsumeMem, At
    <3> HIDE DEF entry, c, e
    <3> QED BY <3>2, <3>3, <1>f DEF MemTyped
  <2> QED BY <2>1, <2>2
<1> HIDE DEF c, e
<1>8. AllBacked'
  <2>1. Backed(task[x])'
    BY <1>2, <1>6, <1>f DEF Backed, Holds, c, e
  <2>2. \A y \in Handlers : y # x /\ At(y, "mintMem") => memCap'[task[y].cap] = NULL
    BY <1>f, <1>3, <1>5
  <2> QED BY <1>2, <2>1, <2>2, OthersBacked
<1>9. MintersApart'
  BY <1>i, <1>2 DEF MintersApart, At
<1>10. EntriesHaveRows'
  BY <1>i, <1>4, <1>5, <1>6 DEF EntriesHaveRows
<1>11. ReleasesBacked'
  BY <1>i, <1>6, ReleasesStay DEF ReleasesBacked
<1>12. LiveOwned'
  <2> SUFFICES ASSUME NEW d \in Caps, Live(d)', d # c PROVE memCap'[d] # NULL \/ Carries("mintMem", d)'
    BY <1>5 DEF LiveOwned
  <2>1. Live(d)
    BY <1>6 DEF Live
  <2>2. Carries("mintMem", d) => Carries("mintMem", d)'
    BY <1>1, <1>2 DEF Carries, At
  <2> QED BY <1>i, <1>5, <2>1, <2>2 DEF LiveOwned
<1>13. OpenOwned'
  <2> SUFFICES ASSUME NEW f \in Execs, CanFinish(f)', memExec'[f] = NULL
               PROVE  \E y \in Executors : At(y, "consumeMem")' /\ task'[y].exec = f
    BY DEF OpenOwned
  <2>1. CanFinish(f) /\ memExec[f] = NULL
    BY <1>6, <1>7 DEF CanFinish
  <2>2. PICK y \in Executors : At(y, "consumeMem") /\ task[y].exec = f
    BY <1>i, <2>1 DEF OpenOwned
  <2>3. y # x
    <3>1. ASSUME y = x PROVE FALSE
      <4>1. task[x].pc = "consumeMem" /\ f = e
        BY <2>2, <3>1 DEF At, e
      <4>2. ConsumeMem(x)
        BY <4>1 DEF CallbackMem, At
      <4>3. memExec'[e] # NULL
        <5>1. memExec \in [Execs -> ActiveExecution \cup {NULL}] /\ e \in Execs
          BY <1>f, <4>1 DEF MemTyped
        <5>2. [cap |-> task[x].cap, req |-> task[x].auth.req, state |-> "consuming"] \in ActiveExecution
          BY <4>2, <1>3, <1>f DEF ConsumeMem, At, Carrying, AuthPcs, ConsumePcs, Auth,
             ActiveExecution,
             MemExecStates, ExecStates, c
        <5> QED BY <4>2, <5>1, <5>2, EntriesAssumption DEF ConsumeMem, e
      <4> QED BY <4>1, <4>3
    <3> QED BY <3>1
  <2> QED BY <2>2, <2>3, <1>2, RequestHandlers DEF At
<1>14. ConsumedAgrees'
  BY <1>i, <1>4, <1>5, <1>6, ConsumedStays DEF ConsumedAgrees
<1>15. ResultsAgree'
  <2> SUFFICES ASSUME NEW f \in Execs, memExec'[f] # NULL
               PROVE  /\ execRow'[f] # NULL /\ execRow'[f].cap = memExec'[f].cap
                      /\ memExec'[f].state \in {"completed", "failed"} =>
                            execRow'[f].state = memExec'[f].state
    BY DEF ResultsAgree
  <2>1. CASE memExec'[f] = memExec[f]
    BY <1>i, <2>1, ResultsStay
  <2>2. CASE memExec'[f] # memExec[f]
    BY <1>6, <1>7, <1>f, <2>2 DEF Backed, Holds, c, e
  <2> QED BY <2>1, <2>2
<1> QED BY <1>8, <1>9, <1>10, <1>11, <1>12, <1>13, <1>14, <1>15 DEF MemoryInv

\* A step of one handler that leaves the maps of capabilities and executions alone, inserts
\* no row, and neither starts nor ends the ownership of one.
LEMMA MemoryQuiet ==
  ASSUME MemoryInv, LedgerInv', TypeInv', StoreGrows, NEW x \in Handlers,
         UNCHANGED <<memCap, memExec>>, ReleasesBacked',
         \A y \in Handlers : y # x => task'[y] = task[y],
         task[x].pc \notin {"mintMem", "consumeMem"}, task'[x].pc # "mintMem", Backed(task[x])',
         \A c \in Caps : Live(c)' => Live(c),
         \A e \in Execs : CanFinish(e)' => CanFinish(e)
  PROVE  MemoryInv'
<1>i. /\ TypeInv /\ AllBacked /\ MintersApart /\ EntriesHaveRows
      /\ LiveOwned /\ OpenOwned /\ ConsumedAgrees /\ ResultsAgree
  BY DEF MemoryInv
<1>f. \A y \in Handlers : At(y, "mintMem") => task[y].cap \in Caps /\ memCap[task[y].cap] = NULL
                                              /\ capRow[task[y].cap] # NULL
  BY OwnFacts
<1>1. AllBacked'
  BY <1>f, OthersBacked
<1>2. MintersApart'
  BY <1>i DEF MintersApart, At
<1>3. EntriesHaveRows'
  BY <1>i DEF EntriesHaveRows, StoreGrows
<1>4. LiveOwned'
  <2>1. \A c \in Caps : Carries("mintMem", c) => Carries("mintMem", c)'
    BY DEF Carries, At
  <2> QED BY <1>i, <2>1 DEF LiveOwned
<1>5. OpenOwned'
  BY <1>i, RequestHandlers DEF OpenOwned, At
<1>6. ConsumedAgrees'
  BY <1>i, ConsumedStays DEF ConsumedAgrees
<1>7. ResultsAgree'
  BY <1>i, ResultsStay DEF ResultsAgree
<1> QED BY <1>1, <1>2, <1>3, <1>4, <1>5, <1>6, <1>7 DEF MemoryInv

\* The secret leaves for the execution its handler opened.
LEMMA MemoryRetrieve ==
  ASSUME MemoryInv, LedgerInv', TypeInv', StoreGrows, NEW x \in Handlers, Retrieve(x)
  PROVE  MemoryInv'
<1>f. HandlersTyped /\ task[x] \in Task /\ Backed(task[x]) /\ ReleasesBacked /\ TypeInv
  BY OwnFacts DEF MemoryInv
<1>1. /\ task[x].pc = "retrieve" /\ task'[x].pc = "idle"
      /\ \A y \in Handlers : y # x => task'[y] = task[y]
  BY <1>f, CalmDone DEF Retrieve, At
<1>2. UNCHANGED <<memCap, memExec, capRow, execRow, totpRow>>
  BY DEF Retrieve, memVars, RecordEvent
<1>3. Backed(task[x])'
  BY <1>1 DEF Backed
<1>4. ReleasesBacked'
  <2> DEFINE rel == [exec |-> task[x].exec, cap |-> task[x].cap, step |-> task[x].step]
  <2>1. Holds(task[x].exec, task[x].cap, task[x].step)
    BY <1>1, <1>f DEF Backed
  <2>2. rel.exec = task[x].exec /\ rel.cap = task[x].cap /\ rel.step = task[x].step
    OBVIOUS
  <2>3. released' = released \cup {rel}
    BY DEF Retrieve
  <2> HIDE DEF rel
  <2>4. Holds(rel.exec, rel.cap, rel.step)
    BY <2>1, <2>2
  <2> SUFFICES ASSUME NEW q \in released' PROVE Holds(q.exec, q.cap, q.step)'
    BY DEF ReleasesBacked
  <2>5. Holds(q.exec, q.cap, q.step)
    BY <2>3, <2>4, <1>f DEF ReleasesBacked
  <2> QED BY <2>5, <1>2 DEF Holds
<1> QED BY <1>1, <1>2, <1>3, <1>4, MemoryQuiet DEF Live, CanFinish

\* executor.result closes the execution row, or finds it closed.
LEMMA MemoryResult ==
  ASSUME MemoryInv, LedgerInv', TypeInv', StoreGrows, NEW x \in Handlers, ResultDb(x) \/ ResultRejected(x)
  PROVE  MemoryInv'
<1>f. HandlersTyped /\ task[x] \in Task /\ ReleasesBacked /\ TypeInv /\ StoreTypeOK
  BY OwnFacts DEF MemoryInv
<1>m. UNCHANGED <<memCap, memExec, released, capRow, totpRow>> /\ task[x].pc = "result"
  BY DEF ResultDb, ResultRejected, memVars, envVars, storeVars, FinishExecution, At
<1>r. ReleasesBacked'
  BY <1>m, <1>f, ReleasesStay DEF ReleasesBacked
<1>1. ASSUME ResultDb(x) PROVE MemoryInv'
  <2>1. PICK e \in Execs, o \in {"completed", "failed"} :
           e = task[x].exec /\ o = task[x].out /\ FinishExecution(e, o)
    BY <1>1 DEF ResultDb
  <2>2. /\ task'[x].pc = "resultMem" /\ task'[x].exec = e /\ task'[x].out = o
        /\ \A y \in Handlers : y # x => task'[y] = task[y]
    BY <1>1, <1>f, <2>1, CalmGoto DEF ResultDb, PCs
  <2>3. /\ execRow[e] \in ExecRow /\ execRow'[e] = [execRow[e] EXCEPT !.state = o]
        /\ \A f \in Execs : f # e => execRow'[f] = execRow[f]
    BY <2>1, <1>f DEF FinishExecution, CanFinish, StoreTypeOK
  <2>4. execRow'[e] \in ExecRow /\ execRow'[e].state = o
    BY <2>3 DEF ExecRow, ExecStates
  <2>5. Backed(task[x])'
    BY <2>2, <2>4, NullAssumption DEF Backed
  <2>6. \A f \in Execs : CanFinish(f)' => CanFinish(f)
    BY <2>3, <2>4 DEF CanFinish
  <2> QED BY <1>m, <1>r, <2>2, <2>5, <2>6, MemoryQuiet DEF Live
<1>2. ASSUME ResultRejected(x) PROVE MemoryInv'
  <2>1. /\ task'[x].pc \in {"resultMem", "idle"}
        /\ task'[x].pc = "resultMem" => task'[x].out = "completed_evidence_lost"
        /\ \A y \in Handlers : y # x => task'[y] = task[y]
    <3>1. CASE Done(x)
      BY <3>1, <1>f, CalmDone
    <3>2. CASE task' = [task EXCEPT ![x].out = "completed_evidence_lost", ![x].pc = "resultMem"]
      BY <3>2, <1>f DEF HandlersTyped, Task
    <3> QED BY <1>2, <3>1, <3>2 DEF ResultRejected
  <2>2. Backed(task[x])'
    BY <2>1 DEF Backed
  <2>3. UNCHANGED execRow
    BY <1>2 DEF ResultRejected, storeVars
  <2> QED BY <1>m, <1>r, <2>1, <2>2, <2>3, MemoryQuiet DEF Live, CanFinish
<1> QED BY <1>1, <1>2

\* executor.result copies the outcome it has written into the memory entry.
LEMMA MemoryResultMem ==
  ASSUME MemoryInv, LedgerInv', TypeInv', StoreGrows, NEW x \in Handlers, ResultMem(x)
  PROVE  MemoryInv'
<1>i. /\ TypeInv /\ AllBacked /\ MintersApart /\ EntriesHaveRows /\ ReleasesBacked
      /\ LiveOwned /\ OpenOwned /\ ConsumedAgrees /\ ResultsAgree
  BY DEF MemoryInv
<1>f. /\ HandlersTyped /\ MemTyped
      /\ task[x] \in Task /\ Carrying(task[x]) /\ HasEntry(task[x]) /\ Backed(task[x])
      /\ \A y \in Handlers : At(y, "mintMem") => task[y].cap \in Caps /\ memCap[task[y].cap] = NULL
                                                 /\ capRow[task[y].cap] # NULL
  BY OwnFacts
<1> DEFINE e == task[x].exec
           entry == [memExec[e] EXCEPT !.state = task[x].out]
<1>1. /\ task[x].pc = "resultMem" /\ task'[x].pc = "resultReq"
      /\ \A y \in Handlers : y # x => task'[y] = task[y]
  BY <1>f, CalmGoto DEF ResultMem, At, PCs
<1>2. e \in Execs /\ memExec[e] \in ActiveExecution /\ memExec[e] # NULL /\ task[x].out \in MemExecStates
  BY <1>f, <1>1 DEF Carrying, HasEntry, ExecPcs, ResultPcs, MemTyped, MemExecStates, ExecStates
<1>3. entry # NULL /\ entry.cap = memExec[e].cap /\ entry.state = task[x].out
  BY <1>2, EntriesAssumption DEF ActiveExecution
<1>4. memExec' = [memExec EXCEPT ![e] = entry]
  BY <1>f DEF ResultMem, MemTyped
<1> HIDE DEF e, entry
<1>5. memExec'[e] = entry /\ \A f \in Execs : f # e => memExec'[f] = memExec[f]
  BY <1>2, <1>4, <1>f DEF MemTyped
<1>6. UNCHANGED <<memCap, released, capRow, execRow, totpRow>>
  BY DEF ResultMem, storeVars, envVars
<1>7. AllBacked'
  <2>1. Backed(task[x])'
    BY <1>1 DEF Backed
  <2> QED BY <1>1, <1>6, <1>f, <2>1, OthersBacked
<1>8. MintersApart'
  BY <1>i, <1>1 DEF MintersApart, At
<1>9. EntriesHaveRows'
  BY <1>i, <1>6 DEF EntriesHaveRows
<1>10. ReleasesBacked'
  BY <1>i, <1>6, ReleasesStay DEF ReleasesBacked
<1>11. LiveOwned'
  <2>1. \A c \in Caps : Carries("mintMem", c) => Carries("mintMem", c)'
    BY <1>1 DEF Carries, At
  <2> QED BY <1>i, <1>6, <2>1 DEF LiveOwned, Live
<1>12. OpenOwned'
  BY <1>i, <1>1, <1>3, <1>5, <1>6, RequestHandlers DEF OpenOwned, CanFinish, At
<1>13. ConsumedAgrees'
  BY <1>i, <1>6, ConsumedStays DEF ConsumedAgrees
<1>14. ResultsAgree'
  <2> SUFFICES ASSUME NEW f \in Execs, memExec'[f] # NULL
               PROVE  /\ execRow'[f] # NULL /\ execRow'[f].cap = memExec'[f].cap
                      /\ memExec'[f].state \in {"completed", "failed"} =>
                            execRow'[f].state = memExec'[f].state
    BY DEF ResultsAgree
  <2>1. CASE f # e
    BY <1>i, <1>5, <2>1, ResultsStay
  <2>2. CASE f = e
    <3>1. execRow[e] # NULL /\ execRow[e].cap = memExec[e].cap
      BY <1>i, <1>2 DEF ResultsAgree
    <3>2. task[x].out \in {"completed", "failed"} => execRow[e].state = task[x].out
      BY <1>1, <1>f DEF Backed, e
    <3> QED BY <1>3, <1>5, <1>6, <2>2, <3>1, <3>2
  <2> QED BY <2>1, <2>2
<1> QED BY <1>7, <1>8, <1>9, <1>10, <1>11, <1>12, <1>13, <1>14 DEF MemoryInv

\* The OAuth callback consumes the row of its capability.
LEMMA MemoryCallbackDb ==
  ASSUME MemoryInv, LedgerInv', TypeInv', StoreGrows, NEW x \in Handlers, CallbackDb(x)
  PROVE  MemoryInv'
<1>f. HandlersTyped /\ task[x] \in Task /\ ReleasesBacked /\ TypeInv /\ StoreTypeOK
  BY OwnFacts DEF MemoryInv
<1>1. PICK c \in Caps : c = task[x].cap /\ ConsumeOAuthCapability(c)
  BY DEF CallbackDb
<1>2. /\ task[x].pc = "callback" /\ task'[x].pc = "callbackMem" /\ task'[x].cap = c
      /\ \A y \in Handlers : y # x => task'[y] = task[y]
  BY <1>1, <1>f, CalmGoto DEF CallbackDb, At, PCs
<1>3. UNCHANGED <<memCap, memExec, released, execRow, totpRow>>
  BY <1>1 DEF CallbackDb, memVars, envVars, ConsumeOAuthCapability
<1>4. /\ capRow'[c] # NULL /\ capRow'[c].state = "consumed" /\ Live(c)
      /\ \A d \in Caps : d # c => capRow'[d] = capRow[d]
  <2>1. capRow[c] \in CapRow /\ capRow[c].used < 1
    BY <1>1, <1>f DEF ConsumeOAuthCapability, Live, StoreTypeOK
  <2> QED BY <1>1, <1>f, <2>1, UsedTyped, NullAssumption DEF ConsumeOAuthCapability, StoreTypeOK
<1>5. Backed(task[x])'
  BY <1>2, <1>4 DEF Backed
<1>6. ReleasesBacked'
  BY <1>3, <1>f, ReleasesStay DEF ReleasesBacked
<1> QED BY <1>2, <1>3, <1>4, <1>5, <1>6, MemoryQuiet DEF Live, CanFinish

\* The OAuth callback records the release it has made.
LEMMA MemoryCallbackAudit ==
  ASSUME MemoryInv, LedgerInv', TypeInv', StoreGrows, NEW x \in Handlers, CallbackAudit(x)
  PROVE  MemoryInv'
<1>f. HandlersTyped /\ ReleasesBacked /\ TypeInv
  BY OwnFacts DEF MemoryInv
<1>1. /\ task[x].pc = "callbackAudit" /\ task'[x].pc = "idle"
      /\ \A y \in Handlers : y # x => task'[y] = task[y]
  BY <1>f, CalmDone DEF CallbackAudit, At
<1>2. UNCHANGED <<memCap, memExec, released, capRow, execRow, totpRow>>
  BY DEF CallbackAudit, memVars, envVars, RecordEvent
<1>3. Backed(task[x])'
  BY <1>1 DEF Backed
<1>4. ReleasesBacked'
  BY <1>2, <1>f, ReleasesStay DEF ReleasesBacked
<1> QED BY <1>1, <1>2, <1>3, <1>4, MemoryQuiet DEF Live, CanFinish

\* After a restart nothing in the store is open any more, and nothing in memory claims it is.
LEMMA MemoryRestart ==
  ASSUME MemoryInv, LedgerInv', TypeInv', StoreGrows, Restart
  PROVE  MemoryInv'
<1>i. TypeInv /\ ReleasesBacked /\ StoreTypeOK
  BY DEF MemoryInv, TypeInv, BrokerTypeOK
<1>1. /\ \A x \in Handlers : task'[x] = Idle
      /\ \A c \in Caps : memCap'[c] = NULL
      /\ \A e \in Execs : memExec'[e] = NULL
      /\ UNCHANGED released
  BY DEF Restart, EmptyMemory
<1>2. \A c \in Caps : ~ Live(c)'
  <2>1. capRow' = Withdrawn(Caps, "expired") /\ "expired" \in CapStates
    BY DEF Restart, Recover, CapStates
  <2>2. \A c \in Caps : Live(c) => capRow'[c].state = "expired"
    BY <1>i, <2>1, WithdrawnRows DEF StoreTypeOK
  <2>3. \A c \in Caps : ~ Live(c) => capRow'[c] = capRow[c]
    BY <1>i, <2>1, WithdrawnRows DEF StoreTypeOK
  <2> QED BY <2>2, <2>3 DEF Live, LiveStates
<1>3. \A e \in Execs : ~ CanFinish(e)'
  <2> SUFFICES ASSUME NEW e \in Execs PROVE ~ CanFinish(e)'
    OBVIOUS
  <2>1. CASE CanFinish(e)
    <3>1. execRow[e] \in ExecRow /\ execRow'[e] = [execRow[e] EXCEPT !.state = "indeterminate"]
      BY <1>i, <2>1 DEF Restart, Recover, CanFinish, StoreTypeOK
    <3>2. execRow'[e].state = "indeterminate"
      BY <3>1 DEF ExecRow
    <3> QED BY <3>2 DEF CanFinish
  <2>2. CASE ~ CanFinish(e)
    BY <2>2 DEF Restart, Recover, CanFinish
  <2> QED BY <2>1, <2>2
<1>4. AllBacked' /\ MintersApart'
  BY <1>1, IdleTask DEF AllBacked, Backed, MintersApart, At
<1>5. ReleasesBacked'
  BY <1>i, <1>1, ReleasesStay DEF ReleasesBacked
<1>6. EntriesHaveRows' /\ ConsumedAgrees' /\ ResultsAgree'
  BY <1>1 DEF EntriesHaveRows, ConsumedAgrees, ResultsAgree
<1>7. LiveOwned' /\ OpenOwned'
  BY <1>2, <1>3 DEF LiveOwned, OpenOwned
<1> QED BY <1>4, <1>5, <1>6, <1>7 DEF MemoryInv

\* Every step keeps memory and store in step.
LEMMA MemoryStep == MemoryInv /\ [BrokerNext]_brokerVars => MemoryInv'
<1> SUFFICES ASSUME MemoryInv, [BrokerNext]_brokerVars PROVE MemoryInv'
  OBVIOUS
<1>1. StoreInv /\ TypeInv /\ LedgerInv
  BY DEF MemoryInv, LedgerInv
<1>2. LedgerInv' /\ StoreGrows
  BY <1>1, BrokerStepIsTransaction, LedgerStep, StoreOnlyGrows
<1>3. TypeInv'
  BY <1>1, TypeStep
<1>4. ASSUME NEW x \in Handlers, OwnStep(x) PROVE MemoryInv'
  BY <1>2, <1>3, <1>4, MemoryMintDb, MemoryMintMem, MemoryConsumeDb, MemoryConsumed, MemoryRetrieve,
     MemoryResult, MemoryResultMem, MemoryCallbackDb, MemoryCallbackAudit DEF OwnStep
<1> QED BY <1>1, <1>2, <1>3, <1>4, StepKinds, MemoryFrame, MemoryRestart DEF PlainStep

\* Empty maps and empty tables agree.
LEMMA MemoryStart == BrokerInit => MemoryInv
<1> SUFFICES ASSUME BrokerInit PROVE MemoryInv
  OBVIOUS
<1>1. LedgerInv /\ TypeInv
  BY TypeStart, StoreStart, LedgerStart DEF BrokerInit, LedgerInv
<1>2. /\ \A x \in Handlers : task[x] = Idle
      /\ \A c \in Caps : memCap[c] = NULL /\ capRow[c] = NULL
      /\ \A e \in Execs : memExec[e] = NULL /\ execRow[e] = NULL
      /\ released = {}
  BY DEF BrokerInit, StoreInit
<1>3. AllBacked /\ MintersApart
  BY <1>2, IdleTask DEF AllBacked, Backed, MintersApart, At
<1> QED BY <1>1, <1>2, <1>3 DEF MemoryInv, ReleasesBacked, EntriesHaveRows, ConsumedAgrees,
           ResultsAgree,
           LiveOwned, OpenOwned, Live, CanFinish

\* Memory and tables agree as MemoryInv says in every reachable state: entries, handlers and
\* releases rest on rows that generate_capability and prepare_execution wrote.
THEOREM MemoryInvariant == BrokerSpec => []MemoryInv
BY MemoryStart, MemoryStep, PTL DEF BrokerSpec

\* Whatever is live or under way in the store is known to this process, or in the hands of
\* the handler that just wrote it, in every interleaving and after any number of restarts.
THEOREM BrokerNoOrphanRows == BrokerSpec => []NoOrphanRows
<1>1. MemoryInv => NoOrphanRows
  BY DEF MemoryInv, LiveOwned, OpenOwned, ConsumedAgrees, NoOrphanRows
<1> QED BY <1>1, MemoryInvariant, PTL

\* What the broker reports of an execution is what the store recorded of it.
THEOREM BrokerResultsAgree == BrokerSpec => []ResultsAgree
<1>1. MemoryInv => ResultsAgree
  BY DEF MemoryInv
<1> QED BY <1>1, MemoryInvariant, PTL

\* No TOTP code is released twice, however many consumes read the same time step.
THEOREM BrokerTotpCodeOnce == BrokerSpec => []TotpCodeOnce
<1>1. ASSUME MemoryInv PROVE TotpCodeOnce
  <2> SUFFICES ASSUME NEW p \in released, NEW q \in released, p.step # NULL, p.step = q.step
               PROVE  p = q
    BY DEF TotpCodeOnce
  <2>1. p \in Release /\ q \in Release
    BY <1>1 DEF MemoryInv, TypeInv, BrokerTypeOK
  <2>2. p.exec = q.exec /\ p.cap = q.cap
    BY <1>1 DEF MemoryInv, ReleasesBacked, Holds
  <2> QED BY <2>1, <2>2 DEF Release
<1> QED BY <1>1, MemoryInvariant, PTL

\* A revocation in memory is never undone by a handler that was already past its check:
\* the only writer that makes an entry usable is the minting that creates it.
THEOREM BrokerRevocationSticks == BrokerSpec => RevocationSticks
<1> DEFINE Dead(c) == memCap[c] # NULL /\ memCap[c].state # "issued"
           Sticks == \A c \in Caps : Dead(c) /\ restarts' = restarts => Dead(c)'
<1>1. ASSUME MemoryInv, [BrokerNext]_brokerVars PROVE Sticks
  <2>i. StoreInv /\ TypeInv /\ MemTyped
    BY <1>1, TypeParts DEF MemoryInv, LedgerInv
  <2>1. ASSUME PlainStep PROVE Sticks
    BY <2>1 DEF PlainStep, Undisturbed, RevokedAtMost
  <2>2. ASSUME Restart PROVE Sticks
    BY <2>2, <2>i DEF Restart, TypeInv, BrokerTypeOK
  <2>3. ASSUME NEW x \in Handlers, MintMem(x) PROVE Sticks
    <3>1. /\ task[x].cap \in Caps /\ memCap[task[x].cap] = NULL
      BY <1>1, <2>3, OwnFacts DEF MintMem
    <3> QED BY <2>3, <2>i, <3>1 DEF MintMem, MemTyped
  <2>4. ASSUME NEW x \in Handlers, ConsumeMem(x) \/ CallbackMem(x) PROVE Sticks
    <3>1. task[x].cap \in Caps /\ memCap[task[x].cap] # NULL
      BY <1>1, <2>4, OwnFacts DEF ConsumeMem, CallbackMem, At, Carrying, HasEntry, CapPcs,
         ConsumePcs,
         CallbackPcs
    <3>2. /\ memCap'[task[x].cap] # NULL /\ memCap'[task[x].cap].state = "consumed"
          /\ \A d \in Caps : d # task[x].cap => memCap'[d] = memCap[d]
      BY <2>4, <2>i, <3>1, ConsumedEntry DEF ConsumeMem, CallbackMem
    <3> QED BY <3>2
  <2>5. ASSUME NEW x \in Handlers, OwnStep(x)
        PROVE  MintMem(x) \/ ConsumeMem(x) \/ CallbackMem(x) \/ UNCHANGED memCap
    BY <2>5 DEF OwnStep, MintDb, Retrieve, ConsumeDb, ResultDb, ResultRejected, ResultMem,
       CallbackDb,
       CallbackAudit, memVars
  <2>6. ASSUME UNCHANGED memCap PROVE Sticks
    BY <2>6
  <2> QED BY <1>1, <2>i, <2>1, <2>2, <2>3, <2>4, <2>5, <2>6, StepKinds
<1>2. Sticks => [\A c \in Caps :
                  memCap[c] # NULL /\ memCap[c].state # "issued" /\ restarts' = restarts
                    => memCap'[c] # NULL /\ memCap'[c].state # "issued"]_brokerVars
  OBVIOUS
<1> HIDE DEF Sticks
<1> QED BY <1>1, <1>2, MemoryInvariant, PTL DEF BrokerSpec, RevocationSticks
============================================================================
