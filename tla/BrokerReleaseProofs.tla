------------------------ MODULE BrokerReleaseProofs ------------------------
(***************************************************************************)
(* Proofs about what the broker releases and about the trail of events     *)
(* behind it: who may still release a capability, which approval pays for  *)
(* which minting, and how often a submission is minted.                    *)
(***************************************************************************)
EXTENDS BrokerProofs, FiniteSetTheorems

(***************************************************************************)
(* One release per capability.                                             *)
(***************************************************************************)
ConsumedRow(c) == capRow[c] # NULL /\ capRow[c].state = "consumed"

\* No two handlers may still release the same capability, and the one that may comes first.
HoldersApart ==
  \A x, y \in Handlers :
     MayRelease(task[x]) /\ MayRelease(task[y]) /\ task[x].cap = task[y].cap => x = y

HoldersFirst ==
  \A x \in Handlers : MayRelease(task[x]) =>
     ConsumedRow(task[x].cap) /\ EventsOf(ReleaseEvents, task[x].cap) = {}

ReleasedOnce ==
  \A c \in Caps :
     /\ EventsOf(ReleaseEvents, c) # {} => ConsumedRow(c)
     /\ \A i, j \in EventsOf(ReleaseEvents, c) : i = j

ReleaseInv == HoldersApart /\ HoldersFirst /\ ReleasedOnce

\* A consumed row stays consumed.
LEMMA ConsumedRowStays ==
  ASSUME StoreGrows, NEW c \in Caps, ConsumedRow(c)
  PROVE  ConsumedRow(c)'
BY DEF StoreGrows, ConsumedRow, LiveStates

\* A handler that may release names a capability.
LEMMA HolderCap ==
  ASSUME TypeInv, NEW x \in Handlers, MayRelease(task[x])
  PROVE  task[x].cap \in Caps
BY DEF TypeInv, MayRelease, Carrying, CapPcs, ConsumePcs, CallbackPcs

\* Only handlers that might have released still may, and nothing was released.
LEMMA ReleaseFrame ==
  ASSUME TypeInv, ReleaseInv, StoreGrows, Quiet(ReleaseEvents),
         \A x \in Handlers : MayRelease(task'[x]) => MayRelease(task[x]) /\ task'[x].cap = task[x].cap
  PROVE  ReleaseInv'
<1>m. \A x \in Handlers : MayRelease(task[x])' <=> MayRelease(task'[x])
  BY DEF MayRelease
<1>1. HoldersApart'
  BY <1>m DEF ReleaseInv, HoldersApart
<1>2. HoldersFirst'
  <2> SUFFICES ASSUME NEW x \in Handlers, MayRelease(task'[x])
               PROVE  ConsumedRow(task[x].cap)' /\ EventsOf(ReleaseEvents, task[x].cap)' = {}
    BY <1>m DEF HoldersFirst
  <2> DEFINE c == task[x].cap
  <2>1. c \in Caps /\ task'[x].cap = c /\ ConsumedRow(c) /\ EventsOf(ReleaseEvents, c) = {}
    BY HolderCap DEF ReleaseInv, HoldersFirst
  <2> HIDE DEF c
  <2>2. capRow'[c] # NULL /\ capRow'[c].state = "consumed"
    BY <2>1, ConsumedRowStays DEF ConsumedRow, StoreGrows, LiveStates
  <2>3. {i \in DOMAIN ledger' : ledger'[i].type \in ReleaseEvents /\ ledger'[i].cap = c} = {}
    <3>1. \A d \in Caps : EventsOf(ReleaseEvents, d)'
                            = {i \in DOMAIN ledger' : ledger'[i].type \in ReleaseEvents /\ ledger'[i].cap = d}
      BY DEF EventsOf
    <3> QED BY <2>1, <3>1 DEF Quiet, EventsOf
  <2> QED BY <2>1, <2>2, <2>3 DEF ConsumedRow, EventsOf
<1>3. ReleasedOnce'
  BY ConsumedRowStays DEF ReleaseInv, ReleasedOnce, Quiet
<1> QED BY <1>1, <1>2, <1>3 DEF ReleaseInv

\* A step of one handler that ends with nothing it may release, or with what it might have.
LEMMA ReleaseMove ==
  ASSUME TypeInv, ReleaseInv, StoreGrows, Quiet(ReleaseEvents), NEW x \in Handlers,
         \A y \in Handlers : y # x => task'[y] = task[y],
         MayRelease(task'[x]) => MayRelease(task[x]) /\ task'[x].cap = task[x].cap
  PROVE  ReleaseInv'
<1>1. \A y \in Handlers : MayRelease(task'[y]) => MayRelease(task[y]) /\ task'[y].cap = task[y].cap
  OBVIOUS
<1> QED BY <1>1, ReleaseFrame

\* A plain step makes no new holder and records no release.
LEMMA ReleasePlain ==
  ASSUME TypeInv, ReleaseInv, StoreGrows, PlainStep
  PROVE  ReleaseInv'
<1>1. \A x \in Handlers : MayRelease(task'[x]) => MayRelease(task[x]) /\ task'[x].cap = task[x].cap
  <2> SUFFICES ASSUME NEW x \in Handlers, MayRelease(task'[x])
               PROVE  MayRelease(task[x]) /\ task'[x].cap = task[x].cap
    OBVIOUS
  <2>1. Calm(x)
    BY DEF PlainStep, Undisturbed
  <2>2. task'[x].pc \in Critical
    BY DEF MayRelease, Critical
  <2> QED BY <2>1, <2>2 DEF Calm
<1> QED BY <1>1, ReleaseFrame DEF PlainStep

\* The handler that consumes a live row becomes its one holder: nobody held it before.
LEMMA ReleaseGained ==
  ASSUME TypeInv, ReleaseInv, StoreGrows, Quiet(ReleaseEvents), NEW x \in Handlers,
         NEW c \in Caps, Live(c), ConsumedRow(c)', task'[x].cap = c,
         \A y \in Handlers : y # x => task'[y] = task[y]
  PROVE  ReleaseInv'
<1>m. \A y \in Handlers : MayRelease(task[y])' <=> MayRelease(task'[y])
  BY DEF MayRelease
<1>n. ~ ConsumedRow(c)
  BY DEF Live, LiveStates, ConsumedRow
<1>o. \A y \in Handlers : MayRelease(task[y]) => task[y].cap # c
  BY <1>n DEF ReleaseInv, HoldersFirst
<1>e. EventsOf(ReleaseEvents, c) = {}
  BY <1>n DEF ReleaseInv, ReleasedOnce
<1>1. HoldersApart'
  <2> SUFFICES ASSUME NEW y \in Handlers, NEW z \in Handlers, MayRelease(task'[y]),
                      MayRelease(task'[z]), task'[y].cap = task'[z].cap
               PROVE  y = z
    BY <1>m DEF HoldersApart
  <2>1. CASE y = x \/ z = x
    BY <2>1, <1>o
  <2>2. CASE y # x /\ z # x
    BY <2>2 DEF ReleaseInv, HoldersApart
  <2> QED BY <2>1, <2>2
<1>2. HoldersFirst'
  <2> SUFFICES ASSUME NEW y \in Handlers, MayRelease(task'[y]), NEW d, d = task'[y].cap
               PROVE  ConsumedRow(d)' /\ EventsOf(ReleaseEvents, d)' = {}
    BY <1>m DEF HoldersFirst, ConsumedRow, EventsOf
  <2>1. CASE y = x
    BY <2>1, <1>e DEF Quiet
  <2>2. CASE y # x
    <3>1. d \in Caps /\ ConsumedRow(d) /\ EventsOf(ReleaseEvents, d) = {}
      BY <2>2, HolderCap DEF ReleaseInv, HoldersFirst
    <3> QED BY <3>1, ConsumedRowStays DEF Quiet
  <2> QED BY <2>1, <2>2
<1>3. ReleasedOnce'
  BY ConsumedRowStays DEF ReleaseInv, ReleasedOnce, Quiet
<1> QED BY <1>1, <1>2, <1>3 DEF ReleaseInv

\* The holder of a capability records its release, once, and holds it no longer.
LEMMA ReleaseRecorded ==
  ASSUME StoreInv, TypeInv, ReleaseInv, StoreGrows, NEW x \in Handlers, MayRelease(task[x]),
         NEW t \in ReleaseEvents, NEW r, NEW c, c = task[x].cap, Append1(t, r, c),
         task'[x] = Idle, \A y \in Handlers : y # x => task'[y] = task[y]
  PROVE  ReleaseInv'
<1>m. \A y \in Handlers : MayRelease(task[y])' <=> MayRelease(task'[y])
  BY DEF MayRelease
<1>n. ~ MayRelease(task'[x])
  BY IdleTask DEF MayRelease
<1>c. c \in Caps /\ ConsumedRow(c) /\ EventsOf(ReleaseEvents, c) = {}
  BY HolderCap DEF ReleaseInv, HoldersFirst
<1>l. ledger \in Seq(Event)
  BY DEF StoreInv, StoreTypeOK
<1>o. \A d \in Caps : d # c => EventsOf(ReleaseEvents, d)' = EventsOf(ReleaseEvents, d)
  BY <1>l, EventsAppended
<1>p. EventsOf(ReleaseEvents, c)' = {Len(ledger) + 1}
  BY <1>l, <1>c, EventsAppended
<1>1. HoldersApart'
  BY <1>m, <1>n DEF ReleaseInv, HoldersApart
<1>2. HoldersFirst'
  <2> SUFFICES ASSUME NEW y \in Handlers, MayRelease(task'[y]), NEW d, d = task'[y].cap
               PROVE  ConsumedRow(d)' /\ EventsOf(ReleaseEvents, d)' = {}
    BY <1>m DEF HoldersFirst, ConsumedRow, EventsOf
  <2>1. y # x /\ MayRelease(task[y]) /\ d = task[y].cap
    BY <1>n
  <2>2. d \in Caps /\ ConsumedRow(d) /\ EventsOf(ReleaseEvents, d) = {} /\ d # c
    BY <2>1, HolderCap DEF ReleaseInv, HoldersFirst, HoldersApart
  <2> QED BY <2>2, <1>o, ConsumedRowStays
<1>3. ReleasedOnce'
  <2> SUFFICES ASSUME NEW d \in Caps
               PROVE  /\ EventsOf(ReleaseEvents, d)' # {} => ConsumedRow(d)'
                      /\ \A i, j \in EventsOf(ReleaseEvents, d)' : i = j
    BY DEF ReleasedOnce
  <2>1. CASE d = c
    BY <2>1, <1>p, <1>c, ConsumedRowStays
  <2>2. CASE d # c
    BY <2>2, <1>o, ConsumedRowStays DEF ReleaseInv, ReleasedOnce
  <2> QED BY <2>1, <2>2
<1> QED BY <1>1, <1>2, <1>3 DEF ReleaseInv

\* The handlers' own steps that neither consume nor release.
LEMMA ReleaseOwnQuiet ==
  ASSUME MemoryInv, ReleaseInv, StoreGrows, NEW x \in Handlers,
         \/ MintDb(x) \/ MintMem(x) \/ ConsumeMem(x) \/ CallbackMem(x)
         \/ ResultDb(x) \/ ResultRejected(x) \/ ResultMem(x)
  PROVE  ReleaseInv'
<1>f. HandlersTyped /\ task[x] \in Task /\ TypeInv /\ StoreInv
  BY OwnFacts DEF MemoryInv
<1>1. ASSUME MintDb(x) PROVE ReleaseInv'
  <2>1. PICK c \in Caps, r \in Requests, p \in Policies, t \in MintEvents :
           InsertCapability(c, r, p, t) /\ task' = [task EXCEPT ![x].cap = c, ![x].pc = "mintMem"]
    BY <1>1 DEF MintDb
  <2>2. task'[x].pc = "mintMem" /\ \A y \in Handlers : y # x => task'[y] = task[y]
    BY <2>1, <1>f DEF HandlersTyped, Task
  <2>3. Quiet(ReleaseEvents)
    BY <2>1, <1>f, QuietStep DEF InsertCapability, MintEvents, ReleaseEvents
  <2> QED BY <2>2, <2>3, <1>f, ReleaseMove DEF MayRelease
<1>2. ASSUME MintMem(x) \/ ResultMem(x) PROVE ReleaseInv'
  <2>1. \E p \in {"mintReq", "resultReq"} : Goto(x, p)
    BY <1>2 DEF MintMem, ResultMem
  <2>2. task'[x].pc \in {"mintReq", "resultReq"} /\ \A y \in Handlers : y # x => task'[y] = task[y]
    BY <2>1, <1>f, CalmGoto DEF PCs
  <2>3. Quiet(ReleaseEvents)
    BY <1>2, SilentStep DEF MintMem, ResultMem
  <2> QED BY <2>2, <2>3, <1>f, ReleaseMove DEF MayRelease
<1>3. ASSUME ConsumeMem(x) \/ CallbackMem(x) PROVE ReleaseInv'
  <2>1. /\ task[x].pc \in {"consumeMem", "callbackMem"}
        /\ \E p \in {"retrieve", "exchange"} : Goto(x, p)
    BY <1>3 DEF ConsumeMem, CallbackMem, At
  <2>2. task'[x].cap = task[x].cap /\ \A y \in Handlers : y # x => task'[y] = task[y]
    BY <2>1, <1>f, CalmGoto DEF PCs
  <2>3. Quiet(ReleaseEvents)
    BY <1>3, SilentStep DEF ConsumeMem, CallbackMem
  <2>4. MayRelease(task[x])
    BY <2>1 DEF MayRelease
  <2> QED BY <2>2, <2>3, <2>4, <1>f, ReleaseMove
<1>4. ASSUME ResultDb(x) PROVE ReleaseInv'
  <2>1. PICK e \in Execs, o \in {"completed", "failed"} : FinishExecution(e, o)
    BY <1>4 DEF ResultDb
  <2>2. task'[x].pc = "resultMem" /\ \A y \in Handlers : y # x => task'[y] = task[y]
    BY <1>4, <1>f, CalmGoto DEF ResultDb, PCs
  <2>3. Quiet(ReleaseEvents)
    <3>1. FinishEvent[o] \notin ReleaseEvents
      BY DEF FinishEvent, ReleaseEvents
    <3> QED BY <2>1, <3>1, <1>f, QuietStep DEF FinishExecution
  <2> QED BY <2>2, <2>3, <1>f, ReleaseMove DEF MayRelease
<1>5. ASSUME ResultRejected(x) PROVE ReleaseInv'
  <2>1. task'[x].pc \in {"resultMem", "idle"} /\ \A y \in Handlers : y # x => task'[y] = task[y]
    <3>1. CASE task[x].out = "completed"
      BY <1>5, <1>f, <3>1 DEF ResultRejected, HandlersTyped, Task
    <3>2. CASE task[x].out # "completed"
      BY <1>5, <1>f, <3>2, CalmDone DEF ResultRejected
    <3> QED BY <3>1, <3>2
  <2>2. Quiet(ReleaseEvents)
    BY <1>5, SilentStep DEF ResultRejected
  <2> QED BY <2>1, <2>2, <1>f, ReleaseMove DEF MayRelease
<1> QED BY <1>1, <1>2, <1>3, <1>4, <1>5

\* The consumes of both paths, and the two releases.
LEMMA ReleaseOwn ==
  ASSUME MemoryInv, ReleaseInv, StoreGrows, NEW x \in Handlers,
         ConsumeDb(x) \/ CallbackDb(x) \/ Retrieve(x) \/ CallbackAudit(x)
  PROVE  ReleaseInv'
<1>f. HandlersTyped /\ task[x] \in Task /\ TypeInv /\ StoreInv /\ StoreTypeOK /\ Carrying(task[x])
  BY OwnFacts DEF MemoryInv
<1>r. ASSUME NEW c \in Caps, Live(c), capRow[c].used < 1, capRow' = [capRow EXCEPT ![c] = Used(@)]
      PROVE  ConsumedRow(c)'
  <2>1. capRow[c] \in CapRow
    BY <1>r, <1>f DEF Live, StoreTypeOK
  <2> QED BY <1>r, <1>f, <2>1, UsedTyped, NullAssumption DEF ConsumedRow, StoreTypeOK
<1>1. ASSUME ConsumeDb(x) PROVE ReleaseInv'
  <2>1. PICK c \in Caps, e \in Execs, s \in TotpSteps \cup {NULL} :
           /\ c = task[x].cap /\ ConsumeCapability(c, e, s)
           /\ task' = [task EXCEPT ![x].exec = e, ![x].pc = "consumeMem"]
    BY <1>1 DEF ConsumeDb
  <2>2. task'[x].cap = c /\ \A y \in Handlers : y # x => task'[y] = task[y]
    BY <2>1, <1>f DEF HandlersTyped, Task
  <2>3. Live(c) /\ ConsumedRow(c)'
    BY <2>1, <1>r DEF ConsumeCapability, CanConsume
  <2>4. Quiet(ReleaseEvents)
    <3>1. "capability.consumed" \notin ReleaseEvents
      BY DEF ReleaseEvents
    <3> QED BY <3>1, <2>1, <1>f, QuietStep DEF ConsumeCapability
  <2> QED BY <2>2, <2>3, <2>4, <1>f, ReleaseGained
<1>2. ASSUME CallbackDb(x) PROVE ReleaseInv'
  <2>1. PICK c \in Caps : c = task[x].cap /\ ConsumeOAuthCapability(c)
    BY <1>2 DEF CallbackDb
  <2>2. task'[x].cap = c /\ \A y \in Handlers : y # x => task'[y] = task[y]
    BY <1>2, <2>1, <1>f, CalmGoto DEF CallbackDb, PCs
  <2>3. Live(c) /\ ConsumedRow(c)'
    BY <2>1, <1>r DEF ConsumeOAuthCapability
  <2>4. Quiet(ReleaseEvents)
    BY <2>1 DEF ConsumeOAuthCapability, Quiet, EventsOf
  <2> QED BY <2>2, <2>3, <2>4, <1>f, ReleaseGained
<1>3. ASSUME Retrieve(x) PROVE ReleaseInv'
  <2>1. PICK r \in Requests, c \in Caps :
           c = task[x].cap /\ Append1("secret.retrieve_succeeded", r, c)
    BY <1>3 DEF Retrieve, RecordEvent
  <2>2. task'[x] = Idle /\ \A y \in Handlers : y # x => task'[y] = task[y]
    BY <1>3, <1>f, CalmDone DEF Retrieve
  <2>3. MayRelease(task[x]) /\ "secret.retrieve_succeeded" \in ReleaseEvents
    BY <1>3 DEF Retrieve, At, MayRelease, ReleaseEvents
  <2> QED BY <2>1, <2>2, <2>3, <1>f, ReleaseRecorded
<1>4. ASSUME CallbackAudit(x) PROVE ReleaseInv'
  <2>1. PICK r \in Requests, c \in Caps :
           /\ c = task[x].cap
           /\ Append1(IF task[x].out = "completed" THEN "oauth.token_stored"
                      ELSE "oauth.callback_failed", r, c)
    BY <1>4 DEF CallbackAudit, RecordEvent
  <2>2. task'[x] = Idle /\ \A y \in Handlers : y # x => task'[y] = task[y]
    BY <1>4, <1>f, CalmDone DEF CallbackAudit
  <2>3. CASE task[x].out = "completed"
    <3>1. MayRelease(task[x]) /\ "oauth.token_stored" \in ReleaseEvents
      BY <1>4, <2>3 DEF CallbackAudit, At, MayRelease, ReleaseEvents
    <3>2. Append1("oauth.token_stored", r, c)
      BY <2>1, <2>3
    <3> QED BY <2>1, <2>2, <3>1, <3>2, <1>f, ReleaseRecorded
  <2>4. CASE task[x].out # "completed"
    <3>1. Append1("oauth.callback_failed", r, c)
      BY <2>1, <2>4
    <3>2. Quiet(ReleaseEvents)
      BY <3>1, <1>f, QuietStep DEF ReleaseEvents
    <3>3. ~ MayRelease(task'[x])
      BY <2>2, IdleTask DEF MayRelease
    <3> QED BY <2>2, <3>2, <3>3, <1>f, ReleaseMove
  <2> QED BY <2>3, <2>4
<1> QED BY <1>1, <1>2, <1>3, <1>4

\* Every step of the broker keeps the holders apart and the releases single.
LEMMA ReleaseStep == MemoryInv /\ ReleaseInv /\ [BrokerNext]_brokerVars => ReleaseInv'
<1> SUFFICES ASSUME MemoryInv, ReleaseInv, [BrokerNext]_brokerVars PROVE ReleaseInv'
  OBVIOUS
<1>1. StoreInv /\ TypeInv
  BY DEF MemoryInv, LedgerInv
<1>2. StoreGrows
  BY <1>1, BrokerStepIsTransaction, StoreOnlyGrows
<1>3. ASSUME NEW x \in Handlers, OwnStep(x) PROVE ReleaseInv'
  BY <1>2, <1>3, ReleaseOwn, ReleaseOwnQuiet DEF OwnStep
<1>4. ASSUME Restart PROVE ReleaseInv'
  <2>1. \A x \in Handlers : task'[x] = Idle
    BY <1>4 DEF Restart, EmptyMemory
  <2>2. \A x \in Handlers : ~ MayRelease(task'[x])
    BY <2>1, IdleTask DEF MayRelease
  <2>3. Quiet(ReleaseEvents)
    BY <1>4 DEF Restart, Recover, Quiet, EventsOf
  <2> QED BY <2>2, <2>3, <1>1, <1>2, ReleaseFrame
<1>5. ASSUME PlainStep PROVE ReleaseInv'
  BY <1>1, <1>2, <1>5, ReleasePlain
<1> QED BY <1>1, <1>3, <1>4, <1>5, StepKinds

\* At first nobody holds a capability and nothing is released.
LEMMA ReleaseStart == BrokerInit => ReleaseInv
<1> SUFFICES ASSUME BrokerInit PROVE ReleaseInv
  OBVIOUS
<1>1. (\A x \in Handlers : task[x] = Idle) /\ ledger = << >>
  BY DEF BrokerInit, StoreInit
<1>2. \A x \in Handlers : ~ MayRelease(task[x])
  BY <1>1, IdleTask DEF MayRelease
<1>3. \A c \in Caps : EventsOf(ReleaseEvents, c) = {}
  BY <1>1 DEF EventsOf
<1> QED BY <1>2, <1>3 DEF ReleaseInv, HoldersApart, HoldersFirst, ReleasedOnce

\* A capability yields one secret or one token grant, by whichever path wins the row, and
\* none once its revocation is on record.
THEOREM BrokerReleaseOnce == BrokerSpec => []ReleaseOnce
<1>1. MemoryInv /\ ReleaseInv => ReleaseOnce
  BY DEF MemoryInv, LedgerInv, RevokedNeverExecuted, ReleaseInv, ReleasedOnce, ReleaseOnce,
     ConsumedRow
<1>2. BrokerSpec => []ReleaseInv
  BY MemoryInvariant, ReleaseStart, ReleaseStep, PTL DEF BrokerSpec
<1> QED BY <1>1, <1>2, MemoryInvariant, PTL

(***************************************************************************)
(* The trail of events behind a minting.                                   *)
(***************************************************************************)
Recorded(T, r) == {i \in DOMAIN ledger : ledger[i].type \in T /\ ledger[i].req = r}

Asked(r) == Recorded({"action.requested"}, r) # {}
Approved == {"approval.approved"}
ByHand == {"capability.minted:user_approved"}

\* The places on the way from a submission to its minting.
TrailPcs == AskPcs \cup {"askMem", "decide", "decideMem", "mint"}

\* A handler on that way has the request's event behind it and stays with the request's own
\* approval; a decider that still can win the row finds it in the map, one that won it
\* leaves it decided, and one that goes on to mint was told to.
OnTrail(x) ==
  /\ task[x].pc \in TrailPcs \ {"submitted"} => Asked(task[x].auth.req)
  /\ task[x].pc \in AskPcs => task[x].auth.req = x /\ task[x].appr = NULL
  /\ task[x].pc \in {"askMem", "decide", "decideMem"} =>
        apprRow[task[x].appr] # NULL /\ apprRow[task[x].appr].req = task[x].auth.req
  /\ task[x].pc = "decide" /\ Pending(task[x].appr) => memAppr[task[x].appr] # NULL
  /\ task[x].pc = "decideMem" => ~ Pending(task[x].appr)
  /\ task[x].pc = "mint" /\ task[x].appr # NULL => task[x].out = "approved"

HandlersOnTrail == \A x \in Handlers : OnTrail(x)

\* So does an approval that is queued for a decision.
QueuedOnTrail ==
  \A a \in Approvals : memAppr[a] # NULL =>
     Asked(memAppr[a].req) /\ apprRow[a] # NULL /\ apprRow[a].req = memAppr[a].req

\* The deciders on their way from an approval to its minting.
Underway(r) ==
  {x \in Handlers : /\ task[x].pc \in {"decideMem", "mint"}
                    /\ task[x].appr # NULL /\ task[x].out = "approved"
                    /\ task[x].auth.req = r}

\* Every approval on record pays for at most one minting, done or under way.
PaidFor(r) ==
  /\ IsFiniteSet(Underway(r))
  /\ Cardinality(Recorded(ByHand, r)) + Cardinality(Underway(r))
       <= Cardinality(Recorded(Approved, r))

Paid == \A r \in Requests : PaidFor(r)

\* The parts of ReleaseTraced.
ReleasesTraced ==
  \A rel \in released :
     \E i \in EventsOf(MintEvents, rel.cap),
        j \in EventsOf({"capability.consumed"}, rel.cap),
        k \in EventsOf({"secret.retrieve_succeeded"}, rel.cap) : i < j /\ j < k
MintTraced(i) ==
  /\ ledger[i].type \in MintEvents => Before({"action.requested"}, ledger[i].req, i) # {}
  /\ ledger[i].type = "capability.minted:user_approved" =>
        Cardinality(Before({"capability.minted:user_approved"}, ledger[i].req, i))
          < Cardinality(Before({"approval.approved"}, ledger[i].req, i))
MintsTraced == \A i \in DOMAIN ledger : MintTraced(i)

\* The right to mint for a request is with its handler until it asks, then with the
\* pending approval, then with the decider that won the row.
RightWith(x, r) ==
  /\ \/ task[x].pc \in AskPcs \cup {"askMem"}
     \/ task[x].pc \in {"decideMem", "mint"} /\ (task[x].appr # NULL => task[x].out = "approved")
  /\ task[x].auth.req = r

RightIn(a, r) == memAppr[a] # NULL /\ memAppr[a].req = r /\ Pending(a)

Free(r) == (\A x \in Handlers : ~ RightWith(x, r)) /\ (\A a \in Approvals : ~ RightIn(a, r))

OneRight(r) ==
  /\ \A x, y \in Handlers : RightWith(x, r) /\ RightWith(y, r) => x = y
  /\ \A a, b \in Approvals : RightIn(a, r) /\ RightIn(b, r) => a = b
  /\ \A x \in Handlers, a \in Approvals : ~ (RightWith(x, r) /\ RightIn(a, r))

\* A request that may still be minted has a minting to spare.
Spent(r) ==
  /\ Cardinality(Mints(r)) <= restarts + 1
  /\ reqState[r] = "none" \/ ~ Free(r) => Cardinality(Mints(r)) <= restarts
  /\ reqState[r] = "none" => Free(r)

MintRights == \A r \in Requests : OneRight(r) /\ Spent(r)

TraceInv ==
  /\ HandlersOnTrail /\ QueuedOnTrail /\ Paid /\ MintRights
  /\ ReleasesTraced /\ MintsTraced

(***************************************************************************)
(* How a step extends the ledger and the approvals table.                  *)
(***************************************************************************)
\* An appended event comes after all others and leaves them where they were.
LEMMA LedgerAppended ==
  ASSUME ledger \in Seq(Event), NEW t, NEW r, NEW c, Append1(t, r, c), NEW n, n = Len(ledger) + 1
  PROVE  /\ DOMAIN ledger' = DOMAIN ledger \cup {n} /\ n \notin DOMAIN ledger
         /\ \A i \in DOMAIN ledger : ledger'[i] = ledger[i]
         /\ ledger'[n].type = t /\ ledger'[n].req = r /\ ledger'[n].cap = c
<1> DEFINE ev == [type |-> t, req |-> r, cap |-> c]
<1>0. ev.type = t /\ ev.req = r /\ ev.cap = c
  OBVIOUS
<1>1. ledger' = Append(ledger, ev)
  BY DEF Append1
<1>2. Len(ledger) \in Nat /\ DOMAIN ledger = 1..Len(ledger)
  OBVIOUS
<1>3. DOMAIN ledger' = 1..n /\ ledger'[n] = ev /\ \A i \in 1..Len(ledger) : ledger'[i] = ledger[i]
  <2> HIDE DEF ev
  <2> QED BY <1>1, <1>2
<1> HIDE DEF ev
<1>4. n \notin DOMAIN ledger /\ 1..n = DOMAIN ledger \cup {n}
  BY <1>2
<1> QED BY <1>0, <1>2, <1>3, <1>4

\* An appended event joins exactly the events of its own type and request.
LEMMA RecordedAppended ==
  ASSUME ledger \in Seq(Event), NEW t, NEW r, NEW c, Append1(t, r, c), NEW T, NEW q
  PROVE  /\ t \in T /\ r = q => Recorded(T, q)' = Recorded(T, q) \cup {Len(ledger) + 1}
         /\ ~ (t \in T /\ r = q) => Recorded(T, q)' = Recorded(T, q)
         /\ Len(ledger) + 1 \notin Recorded(T, q)
<1>0. PICK n : n = Len(ledger) + 1
  OBVIOUS
<1>a. DOMAIN ledger' = DOMAIN ledger \cup {n} /\ n \notin DOMAIN ledger
  BY <1>0, LedgerAppended
<1>b. \A i \in DOMAIN ledger : ledger'[i] = ledger[i]
  BY LedgerAppended
<1>c. ledger'[n].type = t /\ ledger'[n].req = r
  <2> DEFINE ev == [type |-> t, req |-> r, cap |-> c]
  <2>1. ledger' = Append(ledger, ev) /\ ev.type = t /\ ev.req = r
    BY DEF Append1
  <2> HIDE DEF ev
  <2>2. ledger'[n] = ev
    BY <1>0, <2>1
  <2> QED BY <2>1, <2>2
<1>2. Recorded(T, q)' = {i \in DOMAIN ledger' : ledger'[i].type \in T /\ ledger'[i].req = q}
  BY DEF Recorded
<1>3. /\ t \in T /\ r = q => Recorded(T, q)' = Recorded(T, q) \cup {n}
      /\ ~ (t \in T /\ r = q) => Recorded(T, q)' = Recorded(T, q)
  BY <1>a, <1>b, <1>c, <1>2 DEF Recorded
<1>4. n \notin Recorded(T, q)
  BY <1>a DEF Recorded
<1> QED BY <1>0, <1>3, <1>4

\* The events before one that is on record stay; before the new one are all the others.
LEMMA BeforeAppended ==
  ASSUME ledger \in Seq(Event), NEW t, NEW r, NEW c, Append1(t, r, c), NEW T, NEW q, NEW i
  PROVE  /\ i \in DOMAIN ledger => Before(T, q, i)' = Before(T, q, i)
         /\ i = Len(ledger) + 1 => Before(T, q, i)' = Recorded(T, q)
<1>0. \A j \in DOMAIN ledger : ledger'[j] = ledger[j]
  BY LedgerAppended
<1>1. CASE i \in DOMAIN ledger
  <2>1. 1..(i - 1) \subseteq DOMAIN ledger
    BY <1>1
  <2>2. i # Len(ledger) + 1
    BY <1>1
  <2> QED BY <1>0, <2>1, <2>2 DEF Before
<1>2. CASE i = Len(ledger) + 1
  <2>1. 1..(i - 1) = DOMAIN ledger /\ i \notin DOMAIN ledger
    BY <1>2
  <2> QED BY <1>0, <2>1 DEF Before, Recorded
<1> QED BY <1>1, <1>2

\* The events of a kind about a request can be counted.
LEMMA RecordedFinite ==
  ASSUME ledger \in Seq(Event), NEW T, NEW r
  PROVE  IsFiniteSet(Recorded(T, r)) /\ Cardinality(Recorded(T, r)) \in Nat
<1>1. DOMAIN ledger = 1..Len(ledger) /\ Len(ledger) \in Nat
  OBVIOUS
<1>2. IsFiniteSet(DOMAIN ledger)
  BY <1>1, FS_Interval
<1>3. Recorded(T, r) \subseteq DOMAIN ledger
  BY DEF Recorded
<1>4. IsFiniteSet(Recorded(T, r))
  BY <1>2, <1>3, FS_Subset
<1> QED BY <1>4, FS_CardinalityType

\* A step that writes no event, or one that neither mints nor approves.
TrailQuiet ==
  \/ UNCHANGED ledger
  \/ \E t, r, c : t \notin MintEvents \cup Approved /\ Append1(t, r, c)

\* Events that are not mintings leave the mintings traced.
LEMMA MintsTracedStay ==
  ASSUME ledger \in Seq(Event), NEW t, NEW r, NEW c, t \notin MintEvents, Append1(t, r, c), MintsTraced
  PROVE  MintsTraced'
<1> SUFFICES ASSUME NEW i \in DOMAIN ledger' PROVE MintTraced(i)'
  BY DEF MintsTraced
<1>1. CASE i \in DOMAIN ledger
  <2>1. ledger'[i] = ledger[i]
    BY <1>1, LedgerAppended
  <2>2. \A T, q : Before(T, q, i)' = Before(T, q, i)
    BY <1>1, BeforeAppended
  <2>3. MintTraced(i)
    BY <1>1 DEF MintsTraced
  <2> QED BY <2>1, <2>2, <2>3 DEF MintTraced
<1>2. CASE i = Len(ledger) + 1
  <2>1. ledger'[i].type = t
    BY <1>2, LedgerAppended
  <2> QED BY <2>1 DEF MintTraced, MintEvents
<1> QED BY <1>1, <1>2, LedgerAppended

\* What the ledger says of a request only grows, and by nothing that counts.
LEMMA TrailQuietly ==
  ASSUME ledger \in Seq(Event), TrailQuiet
  PROVE  /\ \A r : Recorded(MintEvents, r)' = Recorded(MintEvents, r)
         /\ \A r : Recorded(ByHand, r)' = Recorded(ByHand, r)
         /\ \A r : Recorded(Approved, r)' = Recorded(Approved, r)
         /\ \A r : Asked(r) => Asked(r)'
         /\ MintsTraced => MintsTraced'
<1>1. CASE UNCHANGED ledger
  BY <1>1 DEF Recorded, Asked, MintsTraced, MintTraced, Before
<1>2. CASE \E t, r, c : t \notin MintEvents \cup Approved /\ Append1(t, r, c)
  <2>1. PICK t, r, c : t \notin MintEvents \cup Approved /\ Append1(t, r, c)
    BY <1>2
  <2>2. t \notin ByHand
    BY <2>1 DEF ByHand, MintEvents
  <2>a. t \notin MintEvents /\ t \notin Approved
    BY <2>1
  <2>b. Append1(t, r, c)
    BY <2>1
  <2>3. /\ \A q : Recorded(MintEvents, q)' = Recorded(MintEvents, q)
        /\ \A q : Recorded(ByHand, q)' = Recorded(ByHand, q)
        /\ \A q : Recorded(Approved, q)' = Recorded(Approved, q)
    <3> SUFFICES ASSUME NEW q, NEW T, t \notin T PROVE Recorded(T, q)' = Recorded(T, q)
      BY <2>2, <2>a
    <3> QED BY <2>b, RecordedAppended
  <2>4. ASSUME NEW q, Asked(q) PROVE Asked(q)'
    <3> DEFINE T == {"action.requested"}
    <3>1. Recorded(T, q) \subseteq Recorded(T, q)'
      <4> HIDE DEF T
      <4>1. CASE t \in T /\ r = q
        BY <4>1, <2>b, RecordedAppended
      <4>2. CASE ~ (t \in T /\ r = q)
        BY <4>2, <2>b, RecordedAppended
      <4> QED BY <4>1, <4>2
    <3> QED BY <2>4, <3>1 DEF Asked
  <2>5. ASSUME MintsTraced PROVE MintsTraced'
    BY <2>a, <2>b, <2>5, MintsTracedStay
  <2> QED BY <2>3, <2>4, <2>5
<1> QED BY <1>1, <1>2 DEF TrailQuiet

\* Approvals keep their request, and one that is decided stays decided.
ApprovalsGrow ==
  \A a \in Approvals : apprRow[a] # NULL =>
     apprRow'[a] # NULL /\ apprRow'[a].req = apprRow[a].req /\ (Pending(a)' => Pending(a))

\* No transaction of the store removes an approval or reopens a decided one.
LEMMA ApprovalsOnlyGrow ==
  ASSUME StoreInv, [StoreNext]_storeVars
  PROVE  ApprovalsGrow
<1>t. apprRow \in [Approvals -> ApprRow \cup {NULL}]
  BY DEF StoreInv, StoreTypeOK
<1>1. CASE UNCHANGED apprRow
  BY <1>1 DEF ApprovalsGrow, Pending
<1>2. ASSUME NEW b \in Approvals, NEW r \in Requests, InsertApproval(b, r) PROVE ApprovalsGrow
  <2>1. \A a \in Approvals : apprRow[a] # NULL => apprRow'[a] = apprRow[a]
    BY <1>2, <1>t DEF InsertApproval
  <2> QED BY <2>1 DEF ApprovalsGrow, Pending
<1>3. ASSUME NEW b \in Approvals, NEW o \in Decisions, UpdateApproval(b, o) PROVE ApprovalsGrow
  <2>1. Pending(b) /\ apprRow[b] \in ApprRow
    BY <1>3, <1>t DEF UpdateApproval, Pending
  <2>2. apprRow'[b] = [apprRow[b] EXCEPT !.decision = o]
    BY <1>3, <1>t DEF UpdateApproval
  <2>3. apprRow'[b] \in ApprRow /\ apprRow'[b].req = apprRow[b].req
    BY <2>1, <2>2 DEF ApprRow
  <2>4. \A a \in Approvals : a # b => apprRow'[a] = apprRow[a]
    BY <1>3, <1>t DEF UpdateApproval
  <2> QED BY <2>1, <2>3, <2>4, NullAssumption DEF ApprovalsGrow, Pending
<1>4. \/ UNCHANGED apprRow
      \/ \E b \in Approvals, r \in Requests : InsertApproval(b, r)
      \/ \E b \in Approvals, o \in Decisions : UpdateApproval(b, o)
  BY DEF StoreNext, storeVars, RecordEvent, InsertCapability, ConsumeCapability,
     ConsumeOAuthCapability, FinishExecution, RevokeCapability, RevokeNotPolicy, Recover
<1> QED BY <1>1, <1>2, <1>3, <1>4

(***************************************************************************)
(* What a step that leaves a part of the trail alone preserves.            *)
(***************************************************************************)
\* Whoever is under way was so before, and nothing that counts was recorded.
LEMMA PaidFrame ==
  ASSUME ledger \in Seq(Event), NEW r, PaidFor(r), Underway(r)' \subseteq Underway(r),
         Recorded(ByHand, r)' = Recorded(ByHand, r), Recorded(Approved, r)' = Recorded(Approved, r)
  PROVE  PaidFor(r)'
<1> SUFFICES /\ IsFiniteSet(Underway(r)')
             /\ Cardinality(Recorded(ByHand, r)) + Cardinality(Underway(r)')
                  <= Cardinality(Recorded(Approved, r))
  BY DEF PaidFor
<1>1. /\ IsFiniteSet(Underway(r))
      /\ Cardinality(Recorded(ByHand, r)) + Cardinality(Underway(r)) <= Cardinality(Recorded(Approved, r))
  BY DEF PaidFor
<1>2. IsFiniteSet(Underway(r)') /\ Cardinality(Underway(r)') <= Cardinality(Underway(r))
  BY <1>1, FS_Subset
<1>3. Cardinality(Underway(r)) \in Nat /\ Cardinality(Underway(r)') \in Nat
  BY <1>1, <1>2, FS_CardinalityType
<1>4. Cardinality(Recorded(ByHand, r)) \in Nat /\ Cardinality(Recorded(Approved, r)) \in Nat
  BY RecordedFinite
<1> QED BY <1>1, <1>2, <1>3, <1>4

\* Whoever has the right to mint for a request had it before.
Shrinks(r) ==
  /\ \A x \in Handlers : RightWith(x, r)' => RightWith(x, r)
  /\ \A a \in Approvals : RightIn(a, r)' => RightIn(a, r)

\* Where no right to mint is gained, none is used and nothing restarts, the count holds.
LEMMA RightsFrame ==
  ASSUME NEW r \in Requests, OneRight(r), Spent(r), Shrinks(r),
         Recorded(MintEvents, r)' = Recorded(MintEvents, r), restarts' = restarts,
         reqState'[r] = "none" => reqState[r] = "none"
  PROVE  OneRight(r)' /\ Spent(r)'
<1>1. OneRight(r)'
  BY DEF OneRight, Shrinks
<1>2. Free(r) => Free(r)'
  BY DEF Free, Shrinks
<1>3. Mints(r)' = Mints(r)
  BY DEF Mints, Recorded
<1> QED BY <1>1, <1>2, <1>3 DEF Spent

\* The queue of a step: approvals leave it only once they are decided.
QueueStays == \A a \in Approvals : memAppr[a] # NULL /\ memAppr'[a] = NULL => ~ Pending(a)'
AskedStays == \A r : Asked(r) => Asked(r)'

\* A handler that stays where it is stays on the trail.
LEMMA StaysOnTrail ==
  ASSUME TypeInv, ApprovalsGrow, QueueStays, AskedStays, NEW x \in Handlers, OnTrail(x),
         task'[x] = task[x]
  PROVE  OnTrail(x)'
<1>c. task[x].pc \in {"askMem", "decide", "decideMem"} => task[x].appr \in Approvals
  BY DEF TypeInv, Carrying, ApprPcs, DecidePcs
<1>1. task[x].pc \in TrailPcs \ {"submitted"} => Asked(task[x].auth.req)'
  <2> DEFINE q == task[x].auth.req
  <2> SUFFICES ASSUME task[x].pc \in TrailPcs \ {"submitted"}, NEW r, r = q PROVE Asked(r)'
    BY DEF Asked, Recorded
  <2> QED BY DEF OnTrail, AskedStays
<1>2. ASSUME NEW a \in Approvals, a = task[x].appr, task[x].pc \in {"askMem", "decide", "decideMem"}
      PROVE  apprRow'[a] # NULL /\ apprRow'[a].req = task[x].auth.req /\ (Pending(a)' => Pending(a))
  BY <1>2 DEF OnTrail, ApprovalsGrow
<1>3. ASSUME NEW a \in Approvals, a = task[x].appr, task[x].pc = "decide", Pending(a)'
      PROVE  memAppr'[a] # NULL
  BY <1>2, <1>3 DEF OnTrail, QueueStays
<1>4. ASSUME NEW a \in Approvals, a = task[x].appr, task[x].pc = "decideMem"
      PROVE  ~ Pending(a)'
  BY <1>2, <1>4 DEF OnTrail
<1> QED BY <1>c, <1>1, <1>2, <1>3, <1>4 DEF OnTrail, Pending

(***************************************************************************)
(* The steps that only follow the trail, or leave it.                      *)
(***************************************************************************)
TrailMove(x) ==
  \/ task'[x] = task[x]
  \/ task'[x].pc \notin TrailPcs
  \/ /\ task[x].pc \in AskPcs \ {"submitted"}
     /\ task'[x].pc \in (AskPcs \ {"submitted"}) \cup {"mint"}
     /\ task'[x].auth.req = task[x].auth.req /\ task'[x].appr = task[x].appr
  \/ /\ task[x].pc = "decideMem" /\ task'[x].pc = "mint" /\ task[x].out = "approved"
     /\ task'[x].auth = task[x].auth /\ task'[x].appr = task[x].appr /\ task'[x].out = task[x].out

TrailPlain ==
  /\ TrailQuiet
  /\ UNCHANGED <<restarts, apprRow>>
  /\ \A x \in Handlers : TrailMove(x)
  /\ \A a \in Approvals :
        \/ memAppr'[a] = memAppr[a]
        \/ memAppr'[a] = NULL /\ \E x \in Handlers : task[x].pc = "decideMem" /\ task[x].appr = a
  /\ \A r \in Requests : reqState'[r] = "none" => reqState[r] = "none"

\* A step that writes nothing on the trail leaves every handler on it.
LEMMA TrailPlainHandlers ==
  ASSUME TypeInv, TraceInv, TrailPlain, ApprovalsGrow, QueueStays, AskedStays
  PROVE  HandlersOnTrail'
<1> SUFFICES ASSUME NEW x \in Handlers PROVE OnTrail(x)'
  BY DEF HandlersOnTrail
<1>o. OnTrail(x) /\ TrailMove(x)
  BY DEF TraceInv, HandlersOnTrail, TrailPlain
<1>a. \A r : r = task[x].auth.req /\ Asked(r) => Asked(r)'
  BY DEF AskedStays
<1>1. CASE task'[x] = task[x]
  BY <1>1, <1>o, StaysOnTrail
<1>2. CASE task'[x].pc \notin TrailPcs
  BY <1>2 DEF OnTrail, TrailPcs
<1>3. CASE /\ task[x].pc \in AskPcs \ {"submitted"}
           /\ task'[x].pc \in (AskPcs \ {"submitted"}) \cup {"mint"}
           /\ task'[x].auth.req = task[x].auth.req /\ task'[x].appr = task[x].appr
  <2>1. PICK r : r = task[x].auth.req
    OBVIOUS
  <2>2. Asked(r)' /\ task'[x].auth.req = r /\ r = x /\ task'[x].appr = NULL
    BY <2>1, <1>3, <1>o, <1>a DEF OnTrail, TrailPcs
  <2>3. task'[x].pc \notin {"askMem", "decide", "decideMem"}
    BY <1>3 DEF AskPcs
  <2>4. Asked(task[x].auth.req)'
    BY <2>2 DEF Asked, Recorded
  <2> QED BY <2>2, <2>3, <2>4 DEF OnTrail
<1>4. CASE /\ task[x].pc = "decideMem" /\ task'[x].pc = "mint" /\ task[x].out = "approved"
           /\ task'[x].auth = task[x].auth /\ task'[x].appr = task[x].appr /\ task'[x].out = task[x].out
  <2>1. PICK r : r = task[x].auth.req
    OBVIOUS
  <2>2. Asked(r)' /\ task'[x].auth.req = r
    BY <2>1, <1>4, <1>o, <1>a DEF OnTrail, TrailPcs
  <2>4. Asked(task[x].auth.req)'
    BY <2>2 DEF Asked, Recorded
  <2> QED BY <1>4, <2>4 DEF OnTrail, AskPcs
<1> QED BY <1>o, <1>1, <1>2, <1>3, <1>4 DEF TrailMove

\* Approvals that stay in the queue stay with their request.
LEMMA QueuedStays ==
  ASSUME QueuedOnTrail, ApprovalsGrow, AskedStays,
         \A a \in Approvals : memAppr'[a] = memAppr[a] \/ memAppr'[a] = NULL
  PROVE  QueuedOnTrail'
<1> SUFFICES ASSUME NEW a \in Approvals, memAppr'[a] # NULL
             PROVE  /\ Asked(memAppr[a].req)'
                    /\ apprRow'[a] # NULL /\ apprRow'[a].req = memAppr'[a].req
  BY DEF QueuedOnTrail
<1>1. PICK r : r = memAppr[a].req
  OBVIOUS
<1>2. memAppr'[a] = memAppr[a]
  OBVIOUS
<1>3. Asked(r)' /\ apprRow[a] # NULL /\ apprRow[a].req = r
  BY <1>1, <1>2 DEF QueuedOnTrail, AskedStays
<1> QED BY <1>1, <1>2, <1>3 DEF ApprovalsGrow, Asked, Recorded

\* A step that writes nothing on the trail gives nobody a right to mint.
LEMMA TrailPlainRights ==
  ASSUME TypeInv, TraceInv, TrailPlain, NEW r \in Requests
  PROVE  Underway(r)' \subseteq Underway(r) /\ Shrinks(r)
<1>1. ASSUME NEW x \in Handlers, x \in Underway(r)' PROVE x \in Underway(r)
  <2>1. /\ task'[x].pc \in {"decideMem", "mint"} /\ task'[x].appr # NULL
        /\ task'[x].out = "approved" /\ task'[x].auth.req = r
    BY <1>1 DEF Underway
  <2>2. OnTrail(x) /\ TrailMove(x)
    BY DEF TraceInv, HandlersOnTrail, TrailPlain
  <2>3. task'[x].pc \in TrailPcs
    BY <2>1 DEF TrailPcs
  <2> QED BY <2>1, <2>2, <2>3 DEF TrailMove, OnTrail, Underway
<1>2. ASSUME NEW x \in Handlers, RightWith(x, r)' PROVE RightWith(x, r)
  <2>1. /\ \/ task'[x].pc \in AskPcs \cup {"askMem"}
           \/ task'[x].pc \in {"decideMem", "mint"} /\ (task'[x].appr # NULL => task'[x].out = "approved")
        /\ task'[x].auth.req = r
    BY <1>2 DEF RightWith
  <2>2. TrailMove(x)
    BY DEF TrailPlain
  <2>3. task'[x].pc \in TrailPcs
    BY <2>1 DEF TrailPcs
  <2> QED BY <2>1, <2>2, <2>3 DEF TrailMove, RightWith
<1>3. ASSUME NEW a \in Approvals, RightIn(a, r)' PROVE RightIn(a, r)
  BY <1>3 DEF TrailPlain, RightIn, Pending
<1>4. Underway(r)' \subseteq Handlers
  BY DEF Underway
<1> QED BY <1>1, <1>2, <1>3, <1>4 DEF Shrinks

\* Everything but the releases themselves, which only Retrieve adds to.
MintTrail ==
  HandlersOnTrail /\ QueuedOnTrail /\ Paid /\ MintRights /\ MintsTraced

\* A step that writes nothing on the trail keeps all of it.
LEMMA TracePlain ==
  ASSUME StoreInv, TypeInv, TraceInv, TrailPlain, ApprovalsGrow
  PROVE  MintTrail'
<1>l. ledger \in Seq(Event)
  BY DEF StoreInv, StoreTypeOK
<1>q. TrailQuiet
  BY DEF TrailPlain
<1>1. AskedStays
  BY <1>l, <1>q, TrailQuietly DEF AskedStays
<1>2. QueueStays
  <2> SUFFICES ASSUME NEW a \in Approvals, memAppr[a] # NULL, memAppr'[a] = NULL PROVE ~ Pending(a)'
    BY DEF QueueStays
  <2>1. PICK x \in Handlers : task[x].pc = "decideMem" /\ task[x].appr = a
    BY DEF TrailPlain
  <2>2. ~ Pending(a)
    BY <2>1 DEF TraceInv, HandlersOnTrail, OnTrail
  <2> QED BY <2>2 DEF TrailPlain, Pending
<1>3. HandlersOnTrail'
  BY <1>1, <1>2, TrailPlainHandlers
<1>4. QueuedOnTrail'
  BY <1>1, QueuedStays DEF TraceInv, TrailPlain
<1>5. Paid'
  <2>1. \A r \in Requests : Underway(r)' \subseteq Underway(r)
    BY TrailPlainRights
  <2>2. \A r : Recorded(ByHand, r)' = Recorded(ByHand, r) /\ Recorded(Approved, r)' = Recorded(Approved, r)
    BY <1>l, <1>q, TrailQuietly
  <2> QED BY <1>l, <2>1, <2>2, PaidFrame DEF TraceInv, Paid
<1>6. MintRights'
  <2> SUFFICES ASSUME NEW r \in Requests PROVE OneRight(r)' /\ Spent(r)'
    BY DEF MintRights
  <2>1. Recorded(MintEvents, r)' = Recorded(MintEvents, r)
    BY <1>l, <1>q, TrailQuietly
  <2>2. Shrinks(r)
    BY TrailPlainRights
  <2>3. restarts' = restarts /\ (reqState'[r] = "none" => reqState[r] = "none")
    BY DEF TrailPlain
  <2> QED BY <2>1, <2>2, <2>3, RightsFrame DEF TraceInv, MintRights
<1>7. MintsTraced'
  BY <1>l, <1>q, TrailQuietly DEF TraceInv
<1> QED BY <1>3, <1>4, <1>5, <1>6, <1>7 DEF MintTrail

(***************************************************************************)
(* The steps that begin the trail, or hand the right to mint on.           *)
(***************************************************************************)
LEMMA OneOnTrail ==
  ASSUME TypeInv, TraceInv, ApprovalsGrow, QueueStays, AskedStays, NEW x \in Handlers,
         \A y \in Handlers : y # x => task'[y] = task[y], OnTrail(x)'
  PROVE  HandlersOnTrail'
<1> SUFFICES ASSUME NEW y \in Handlers, y # x PROVE OnTrail(y)'
  BY DEF HandlersOnTrail
<1> QED BY StaysOnTrail DEF TraceInv, HandlersOnTrail

\* Handlers that stay are under way, or have a right, as before.
LEMMA OtherRights ==
  ASSUME NEW y \in Handlers, task'[y] = task[y], NEW r
  PROVE  (y \in Underway(r)' <=> y \in Underway(r)) /\ (RightWith(y, r)' <=> RightWith(y, r))
BY DEF Underway, RightWith

\* Steps that hand nothing on: the one handler that moves ends with no more than it had.
LEMMA TraceMove ==
  ASSUME StoreInv, TypeInv, TraceInv, ApprovalsGrow, TrailQuiet, UNCHANGED <<restarts, reqState>>,
         UNCHANGED memAppr, NEW x \in Handlers, \A y \in Handlers : y # x => task'[y] = task[y],
         OnTrail(x)', \A r \in Requests : x \notin Underway(r)',
         \A r \in Requests : RightWith(x, r)' => RightWith(x, r),
         \A a \in Approvals : memAppr[a] # NULL /\ Pending(a)' => Pending(a)
  PROVE  MintTrail'
<1>l. ledger \in Seq(Event)
  BY DEF StoreInv, StoreTypeOK
<1>1. AskedStays
  BY <1>l, TrailQuietly DEF AskedStays
<1>2. QueueStays
  BY DEF QueueStays
<1>3. HandlersOnTrail'
  BY <1>1, <1>2, OneOnTrail
<1>4. QueuedOnTrail'
  BY <1>1, QueuedStays DEF TraceInv
<1>5. Paid'
  <2>1. ASSUME NEW r \in Requests PROVE Underway(r)' \subseteq Underway(r)
    <3>1. Underway(r)' \subseteq Handlers
      BY DEF Underway
    <3> QED BY <3>1, OtherRights
  <2>2. \A r : Recorded(ByHand, r)' = Recorded(ByHand, r) /\ Recorded(Approved, r)' = Recorded(Approved, r)
    BY <1>l, TrailQuietly
  <2> QED BY <1>l, <2>1, <2>2, PaidFrame DEF TraceInv, Paid
<1>6. MintRights'
  <2> SUFFICES ASSUME NEW r \in Requests PROVE OneRight(r)' /\ Spent(r)'
    BY DEF MintRights
  <2>1. Recorded(MintEvents, r)' = Recorded(MintEvents, r)
    BY <1>l, TrailQuietly
  <2>2. \A y \in Handlers : RightWith(y, r)' => RightWith(y, r)
    BY OtherRights
  <2>3. \A a \in Approvals : RightIn(a, r)' => RightIn(a, r)
    BY DEF RightIn
  <2> QED BY <2>1, <2>2, <2>3, RightsFrame DEF TraceInv, MintRights, Shrinks
<1>7. MintsTraced'
  BY <1>l, TrailQuietly DEF TraceInv
<1> QED BY <1>3, <1>4, <1>5, <1>6, <1>7 DEF MintTrail

\* The request's event is on record when its handler goes on.
LEMMA TraceRecordRequested ==
  ASSUME StoreInv, TypeInv, TraceInv, ApprovalsGrow, NEW x \in Requests, RecordRequested(x)
  PROVE  MintTrail'
<1>h. x \in Handlers
  BY RequestHandlers
<1>l. ledger \in Seq(Event)
  BY DEF StoreInv, StoreTypeOK
<1>t. HandlersTyped
  BY TypeParts
<1>1. Append1("action.requested", x, NULL) /\ UNCHANGED <<restarts, reqState, memAppr, apprRow>>
  BY DEF RecordRequested, RecordEvent, memVars, envVars
<1>2. TrailQuiet
  BY <1>1 DEF TrailQuiet, MintEvents, Approved
<1>3. /\ task[x].pc = "submitted" /\ task'[x].pc = "session" /\ task'[x].auth = task[x].auth
      /\ task'[x].appr = task[x].appr /\ \A y \in Handlers : y # x => task'[y] = task[y]
  BY <1>h, <1>t, CalmGoto DEF RecordRequested, At, PCs
<1>4. task[x].auth.req = x /\ task[x].appr = NULL
  BY <1>h, <1>3 DEF TraceInv, HandlersOnTrail, OnTrail, AskPcs
<1>5. Asked(x)'
  <2> DEFINE T == {"action.requested"}
  <2>1. "action.requested" \in T
    OBVIOUS
  <2> HIDE DEF T
  <2>2. Recorded(T, x)' = Recorded(T, x) \cup {Len(ledger) + 1}
    BY <1>1, <1>l, <2>1, RecordedAppended
  <2> QED BY <2>2 DEF Asked, T
<1>6. OnTrail(x)'
  <2>1. Asked(task[x].auth.req)'
    BY <1>3, <1>4, <1>5 DEF Asked, Recorded
  <2> QED BY <1>3, <1>4, <2>1 DEF OnTrail
<1>7. \A r \in Requests : x \notin Underway(r)'
  BY <1>3 DEF Underway
<1>8. \A r \in Requests : RightWith(x, r)' => RightWith(x, r)
  BY <1>3 DEF RightWith, AskPcs
<1> QED BY <1>h, <1>1, <1>2, <1>3, <1>6, <1>7, <1>8, TraceMove DEF Pending

\* The row of a new approval waits for its entry in the queue.
LEMMA TraceAskDb ==
  ASSUME StoreInv, TypeInv, TraceInv, ApprovalsGrow, NEW x \in Requests, AskDb(x)
  PROVE  MintTrail'
<1>h. x \in Handlers
  BY RequestHandlers
<1>l. ledger \in Seq(Event) /\ apprRow \in [Approvals -> ApprRow \cup {NULL}]
  BY DEF StoreInv, StoreTypeOK
<1>t. HandlersTyped /\ task[x] \in Task
  BY <1>h, TypeParts DEF HandlersTyped
<1>1. PICK a \in Approvals :
         InsertApproval(a, x) /\ task' = [task EXCEPT ![x].appr = a, ![x].pc = "askMem"]
  BY DEF AskDb
<1>2. UNCHANGED <<restarts, reqState, memAppr>>
  BY DEF AskDb, memVars, envVars
<1>3. TrailQuiet
  BY <1>1 DEF InsertApproval, TrailQuiet, MintEvents, Approved
<1>4. /\ task[x].pc = "ask" /\ task'[x].pc = "askMem" /\ task'[x].auth = task[x].auth
      /\ task'[x].appr = a /\ \A y \in Handlers : y # x => task'[y] = task[y]
  BY <1>h, <1>t, <1>1 DEF AskDb, At, HandlersTyped, Task
<1>5. task[x].auth.req = x /\ Asked(task[x].auth.req)
  BY <1>h, <1>4 DEF TraceInv, HandlersOnTrail, OnTrail, AskPcs, TrailPcs
<1>6. /\ apprRow[a] = NULL /\ apprRow'[a] # NULL /\ apprRow'[a].req = x
      /\ \A b \in Approvals : b # a => apprRow'[b] = apprRow[b]
  <2> DEFINE row == [req |-> x, decision |-> "pending"]
  <2>1. row \in ApprRow /\ row.req = x
    BY DEF ApprRow
  <2>2. apprRow' = [apprRow EXCEPT ![a] = row] /\ apprRow[a] = NULL
    BY <1>1 DEF InsertApproval
  <2> HIDE DEF row
  <2> QED BY <1>l, <2>1, <2>2, NullAssumption
<1>7. OnTrail(x)'
  <2>1. PICK r : r = task[x].auth.req
    OBVIOUS
  <2>2. Asked(r)'
    BY <1>3, <1>5, <1>l, <2>1, TrailQuietly
  <2>3. Asked(task[x].auth.req)'
    BY <1>4, <2>1, <2>2 DEF Asked, Recorded
  <2> QED BY <1>4, <1>5, <1>6, <2>3 DEF OnTrail, AskPcs
<1>8. \A r \in Requests : x \notin Underway(r)'
  BY <1>4 DEF Underway
<1>9. \A r \in Requests : RightWith(x, r)' => RightWith(x, r)
  BY <1>4 DEF RightWith, AskPcs
<1>10. \A b \in Approvals : memAppr[b] # NULL /\ Pending(b)' => Pending(b)
  BY <1>6 DEF TraceInv, QueuedOnTrail, Pending
<1> QED BY <1>h, <1>2, <1>3, <1>4, <1>7, <1>8, <1>9, <1>10, TraceMove

\* A decider takes up an approval that is queued, with what the queue says of it.
LEMMA TraceBeginDecide ==
  ASSUME StoreInv, TypeInv, TraceInv, ApprovalsGrow, NEW x \in Handlers, NEW a \in Approvals,
         NEW v, BeginDecide(x, a, v)
  PROVE  MintTrail'
<1>t. HandlersTyped /\ task[x] \in Task
  BY TypeParts DEF HandlersTyped
<1>1. UNCHANGED <<restarts, reqState, memAppr, ledger, apprRow>> /\ memAppr[a] # NULL
  BY DEF BeginDecide, memVars, envVars, storeVars
<1>2. TrailQuiet
  BY <1>1 DEF TrailQuiet
<1>3. /\ task'[x].pc = "decide" /\ task'[x].auth = memAppr[a] /\ task'[x].appr = a
      /\ \A y \in Handlers : y # x => task'[y] = task[y]
  BY <1>t DEF BeginDecide, HandlersTyped, Idle
<1>4. Asked(memAppr[a].req) /\ apprRow[a] # NULL /\ apprRow[a].req = memAppr[a].req
  BY <1>1 DEF TraceInv, QueuedOnTrail
<1>5. OnTrail(x)'
  <2>1. Asked(task[x].auth.req)'
    BY <1>1, <1>3, <1>4 DEF Asked, Recorded
  <2> QED BY <1>1, <1>3, <1>4, <2>1 DEF OnTrail, AskPcs
<1>6. \A r \in Requests : x \notin Underway(r)'
  BY <1>3 DEF Underway
<1>7. \A r \in Requests : ~ RightWith(x, r)'
  BY <1>3 DEF RightWith, AskPcs
<1> QED BY <1>1, <1>2, <1>3, <1>5, <1>6, <1>7, TraceMove DEF Pending

\* A submission gains the right to mint for a request nobody had one for.
LEMMA TraceSubmit ==
  ASSUME StoreInv, TypeInv, TraceInv, ApprovalsGrow, NEW x \in Requests, NEW k, Submit(x, k)
  PROVE  MintTrail'
<1>h. x \in Handlers
  BY RequestHandlers
<1>l. ledger \in Seq(Event)
  BY DEF StoreInv, StoreTypeOK
<1>t. HandlersTyped /\ task[x] \in Task /\ reqState \in [Requests -> ReqStates]
  BY <1>h, TypeParts DEF HandlersTyped, MemTyped
<1>1. UNCHANGED <<restarts, memAppr, ledger, apprRow>>
  BY DEF Submit, envVars, storeVars
<1>2. TrailQuiet
  BY <1>1 DEF TrailQuiet
<1>3. /\ task'[x].pc = "submitted" /\ task'[x].auth.req = x /\ task'[x].appr = NULL
      /\ \A y \in Handlers : y # x => task'[y] = task[y]
  <2> DEFINE au == [req |-> x, action |-> k, policy |-> NULL, epoch |-> NULL]
  <2>1. au.req = x
    OBVIOUS
  <2>2. task' = [task EXCEPT ![x] = [Idle EXCEPT !.pc = "submitted", !.auth = au]]
    BY DEF Submit
  <2> HIDE DEF au
  <2> QED BY <1>h, <1>t, <2>1, <2>2 DEF HandlersTyped, Idle
<1>4. /\ reqState[x] = "none" /\ reqState'[x] # "none"
      /\ \A r \in Requests : r # x => reqState'[r] = reqState[r]
  BY <1>t DEF Submit, SetReq
<1>5. AskedStays /\ QueueStays
  BY <1>1 DEF AskedStays, QueueStays, Asked, Recorded
<1>6. HandlersOnTrail'
  <2>1. OnTrail(x)'
    BY <1>3 DEF OnTrail
  <2> QED BY <1>h, <1>3, <1>5, <2>1, OneOnTrail
<1>7. QueuedOnTrail'
  BY <1>1, <1>5, QueuedStays DEF TraceInv
<1>8. Paid'
  <2> SUFFICES ASSUME NEW r \in Requests PROVE PaidFor(r)'
    BY DEF Paid
  <2>1. Underway(r)' \subseteq Handlers /\ x \notin Underway(r)'
    BY <1>3 DEF Underway
  <2>2. Underway(r)' \subseteq Underway(r)
    BY <1>3, <2>1, OtherRights
  <2>3. Recorded(ByHand, r)' = Recorded(ByHand, r) /\ Recorded(Approved, r)' = Recorded(Approved, r)
    BY <1>l, <1>2, TrailQuietly
  <2> QED BY <1>l, <2>2, <2>3, PaidFrame DEF TraceInv, Paid
<1>9. MintRights'
  <2> SUFFICES ASSUME NEW r \in Requests PROVE OneRight(r)' /\ Spent(r)'
    BY DEF MintRights
  <2>i. OneRight(r) /\ Spent(r)
    BY DEF TraceInv, MintRights
  <2>1. Recorded(MintEvents, r)' = Recorded(MintEvents, r)
    BY <1>l, <1>2, TrailQuietly
  <2>2. \A a \in Approvals : RightIn(a, r)' <=> RightIn(a, r)
    BY <1>1 DEF RightIn, Pending
  <2>3. \A y \in Handlers : y # x => (RightWith(y, r)' <=> RightWith(y, r))
    BY <1>3, OtherRights
  <2>4. CASE r # x
    <3>1. ~ RightWith(x, r)'
      BY <1>3, <2>4 DEF RightWith
    <3>2. Shrinks(r)
      BY <2>2, <2>3, <3>1 DEF Shrinks
    <3> QED BY <1>1, <1>4, <2>i, <2>1, <2>4, <3>2, RightsFrame
  <2>5. CASE r = x
    <3>1. Free(r) /\ Cardinality(Mints(r)) <= restarts
      BY <1>4, <2>i, <2>5 DEF Spent
    <3>2. (\A y \in Handlers : RightWith(y, r)' => y = x) /\ (\A a \in Approvals : ~ RightIn(a, r)')
      BY <2>2, <2>3, <3>1 DEF Free
    <3>3. OneRight(r)'
      BY <3>2 DEF OneRight
    <3>4. Mints(r)' = Mints(r)
      BY <2>1 DEF Mints, Recorded
    <3> QED BY <1>1, <1>4, <2>i, <2>5, <3>1, <3>3, <3>4 DEF Spent
  <2> QED BY <2>4, <2>5
<1>10. MintsTraced'
  BY <1>l, <1>2, TrailQuietly DEF TraceInv
<1> QED BY <1>6, <1>7, <1>8, <1>9, <1>10 DEF MintTrail

\* The asker's right goes to the approval it puts in the queue.
LEMMA TraceAskMem ==
  ASSUME StoreInv, TypeInv, TraceInv, ApprovalsGrow, NEW x \in Handlers, AskMem(x)
  PROVE  MintTrail'
<1>l. ledger \in Seq(Event)
  BY DEF StoreInv, StoreTypeOK
<1>t. HandlersTyped /\ task[x] \in Task /\ Carrying(task[x]) /\ memAppr \in [Approvals -> Auth \cup {NULL}]
  BY TypeParts DEF HandlersTyped, MemTyped
<1>1. UNCHANGED <<restarts, reqState, ledger, apprRow>> /\ task[x].pc = "askMem"
  BY DEF AskMem, envVars, storeVars, At
<1>2. TrailQuiet
  BY <1>1 DEF TrailQuiet
<1>3. task'[x].pc = "askReq" /\ \A y \in Handlers : y # x => task'[y] = task[y]
  BY <1>t, CalmGoto DEF AskMem, PCs
<1>4. PICK a \in Approvals, q \in Requests :
         a = task[x].appr /\ q = task[x].auth.req /\ task[x].auth \in Auth
  BY <1>t, <1>1 DEF Carrying, AuthPcs, ApprPcs, Auth
<1>5. /\ memAppr'[a] # NULL /\ memAppr'[a].req = q
      /\ \A b \in Approvals : b # a => memAppr'[b] = memAppr[b]
  BY <1>t, <1>4, EntriesAssumption DEF AskMem
<1>6. /\ Asked(task[x].auth.req) /\ apprRow[a] # NULL /\ apprRow[a].req = q
  BY <1>1, <1>4 DEF TraceInv, HandlersOnTrail, OnTrail, TrailPcs
<1>7. AskedStays /\ QueueStays
  BY <1>1, <1>5 DEF AskedStays, QueueStays, Asked, Recorded
<1>8. HandlersOnTrail'
  <2>1. OnTrail(x)'
    BY <1>3 DEF OnTrail, TrailPcs, AskPcs
  <2> QED BY <1>3, <1>7, <2>1, OneOnTrail
<1>9. QueuedOnTrail'
  <2> SUFFICES ASSUME NEW b \in Approvals, memAppr'[b] # NULL
               PROVE  /\ Asked(memAppr[b].req)'
                      /\ apprRow'[b] # NULL /\ apprRow'[b].req = memAppr'[b].req
    BY DEF QueuedOnTrail
  <2>1. CASE b = a
    <3>1. Asked(q)
      BY <1>4, <1>6
    <3>2. ledger' = ledger /\ memAppr'[b].req = q
      BY <1>1, <1>5, <2>1
    <3>3. Asked(memAppr[b].req)'
      BY <3>1, <3>2 DEF Asked, Recorded
    <3> QED BY <1>1, <1>5, <1>6, <2>1, <3>3
  <2>2. CASE b # a
    <3>1. memAppr'[b] = memAppr[b] /\ ledger' = ledger /\ apprRow' = apprRow
      BY <1>1, <1>5, <2>2
    <3>2. Asked(memAppr[b].req) /\ apprRow[b] # NULL /\ apprRow[b].req = memAppr[b].req
      BY <3>1 DEF TraceInv, QueuedOnTrail
    <3> QED BY <3>1, <3>2 DEF Asked, Recorded
  <2> QED BY <2>1, <2>2
<1>10. Paid'
  <2> SUFFICES ASSUME NEW r \in Requests PROVE PaidFor(r)'
    BY DEF Paid
  <2>1. Underway(r)' \subseteq Handlers /\ x \notin Underway(r)'
    BY <1>3 DEF Underway
  <2>2. Underway(r)' \subseteq Underway(r)
    BY <1>3, <2>1, OtherRights
  <2>3. Recorded(ByHand, r)' = Recorded(ByHand, r) /\ Recorded(Approved, r)' = Recorded(Approved, r)
    BY <1>l, <1>2, TrailQuietly
  <2> QED BY <1>l, <2>2, <2>3, PaidFrame DEF TraceInv, Paid
<1>11. MintRights'
  <2> SUFFICES ASSUME NEW r \in Requests PROVE OneRight(r)' /\ Spent(r)'
    BY DEF MintRights
  <2>i. OneRight(r) /\ Spent(r)
    BY DEF TraceInv, MintRights
  <2>1. Recorded(MintEvents, r)' = Recorded(MintEvents, r)
    BY <1>l, <1>2, TrailQuietly
  <2>2. ~ RightWith(x, r)'
    BY <1>3 DEF RightWith, AskPcs
  <2>3. \A y \in Handlers : RightWith(y, r)' => y # x /\ RightWith(y, r)
    BY <1>3, <2>2, OtherRights
  <2>4. \A b \in Approvals : b # a => (RightIn(b, r)' <=> RightIn(b, r))
    BY <1>1, <1>5 DEF RightIn, Pending
  <2>5. CASE r # q
    <3>1. ~ RightIn(a, r)'
      BY <1>5, <2>5 DEF RightIn
    <3>2. Shrinks(r)
      BY <2>3, <2>4, <3>1 DEF Shrinks
    <3> QED BY <1>1, <2>i, <2>1, <3>2, RightsFrame
  <2>6. CASE r = q
    <3>1. RightWith(x, r)
      BY <1>1, <1>4, <2>6 DEF RightWith
    <3>2. \A y \in Handlers : ~ RightWith(y, r)'
      BY <2>i, <2>3, <3>1 DEF OneRight
    <3>3. \A b \in Approvals : RightIn(b, r)' => b = a
      BY <2>i, <2>4, <3>1 DEF OneRight
    <3>4. OneRight(r)'
      BY <3>2, <3>3 DEF OneRight
    <3>5. Cardinality(Mints(r)) <= restarts /\ reqState[r] # "none"
      BY <2>i, <3>1 DEF Spent, Free
    <3>6. Mints(r)' = Mints(r)
      BY <2>1 DEF Mints, Recorded
    <3> QED BY <1>1, <2>i, <3>4, <3>5, <3>6 DEF Spent
  <2> QED BY <2>5, <2>6
<1>12. MintsTraced'
  BY <1>l, <1>2, TrailQuietly DEF TraceInv
<1> QED BY <1>8, <1>9, <1>10, <1>11, <1>12 DEF MintTrail

\* Adding an event, a handler or a minting adds one.
LEMMA OneMore ==
  ASSUME NEW S, IsFiniteSet(S), NEW e, e \notin S
  PROVE  Cardinality(S \cup {e}) = Cardinality(S) + 1 /\ Cardinality(S) \in Nat /\ IsFiniteSet(S \cup {e})
BY FS_AddElement, FS_CardinalityType

\* The right of the approval goes to the decider that won its row, when it is to mint, and
\* its approval is on record.
LEMMA TraceDecideDb ==
  ASSUME StoreInv, TypeInv, TraceInv, ApprovalsGrow, NEW x \in Handlers, DecideDb(x)
  PROVE  MintTrail'
<1>l. ledger \in Seq(Event) /\ apprRow \in [Approvals -> ApprRow \cup {NULL}]
  BY DEF StoreInv, StoreTypeOK
<1>t. HandlersTyped /\ task[x] \in Task /\ Carrying(task[x])
  BY TypeParts DEF HandlersTyped
<1>1. UNCHANGED <<restarts, reqState, memAppr>> /\ task[x].pc = "decide"
  BY DEF DecideDb, envVars, memVars, At
<1>2. PICK a \in Approvals, o \in Decisions :
         a = task[x].appr /\ o = task[x].out /\ UpdateApproval(a, o)
  BY DEF DecideDb
<1>3. /\ task'[x].pc = "decideMem" /\ task'[x].auth = task[x].auth /\ task'[x].appr = a
      /\ task'[x].out = o /\ \A y \in Handlers : y # x => task'[y] = task[y]
  BY <1>t, <1>2, CalmGoto DEF DecideDb, PCs
<1>4. PICK q \in Requests : q = task[x].auth.req
  BY <1>t, <1>1 DEF Carrying, AuthPcs, DecidePcs, Auth
<1>5. /\ Asked(q) /\ apprRow[a] # NULL /\ apprRow[a].req = q
      /\ Pending(a) /\ memAppr[a] # NULL
  BY <1>1, <1>2, <1>4 DEF TraceInv, HandlersOnTrail, OnTrail, TrailPcs, UpdateApproval
<1>6. /\ apprRow'[a] # NULL /\ apprRow'[a].req = q /\ apprRow'[a].decision = o /\ ~ Pending(a)'
      /\ \A b \in Approvals : b # a => apprRow'[b] = apprRow[b]
  <2>1. apprRow[a] \in ApprRow
    BY <1>5, <1>l
  <2>2. apprRow'[a] = [apprRow[a] EXCEPT !.decision = o] /\ \A b \in Approvals : b # a => apprRow'[b] = apprRow[b]
    BY <1>2, <1>l DEF UpdateApproval
  <2>3. apprRow'[a].decision = o /\ apprRow'[a].req = q
    BY <1>5, <2>1, <2>2 DEF ApprRow
  <2>4. apprRow'[a] # NULL
    BY <1>5 DEF ApprovalsGrow
  <2> QED BY <2>2, <2>3, <2>4 DEF Pending, Decisions
<1>e. PICK t : t = DecisionEvent[o]
  OBVIOUS
<1>7. Append1(t, q, NULL)
  BY <1>2, <1>5, <1>e DEF UpdateApproval
<1>8. t \notin MintEvents /\ t \notin ByHand /\ (t \in Approved <=> o = "approved")
  BY <1>e DEF DecisionEvent, Decisions, MintEvents, ByHand, Approved
<1>9. AskedStays
  <2> SUFFICES ASSUME NEW r, Asked(r) PROVE Asked(r)'
    BY DEF AskedStays
  <2> DEFINE T == {"action.requested"}
  <2> HIDE DEF T
  <2>1. Recorded(T, r) \subseteq Recorded(T, r)'
    BY <1>l, <1>7, RecordedAppended
  <2> QED BY <2>1 DEF Asked, T
<1>10. QueueStays
  BY <1>1 DEF QueueStays
<1>11. HandlersOnTrail'
  <2>1. Asked(q)'
    BY <1>5, <1>9 DEF AskedStays
  <2>2. Asked(task[x].auth.req)'
    BY <1>3, <1>4, <2>1 DEF Asked, Recorded
  <2>3. OnTrail(x)'
    BY <1>3, <1>4, <1>6, <2>2 DEF OnTrail, AskPcs
  <2> QED BY <1>3, <1>9, <1>10, <2>3, OneOnTrail
<1>12. QueuedOnTrail'
  BY <1>1, <1>9, QueuedStays DEF TraceInv
<1>13. Paid'
  <2> SUFFICES ASSUME NEW r \in Requests PROVE PaidFor(r)'
    BY DEF Paid
  <2>i. PaidFor(r)
    BY DEF TraceInv, Paid
  <2>1. Underway(r)' \subseteq Handlers /\ x \notin Underway(r)
    BY <1>1 DEF Underway
  <2>2. x \in Underway(r)' <=> o = "approved" /\ r = q
    BY <1>2, <1>3, <1>4, NullAssumption DEF Underway
  <2>3. \A y \in Handlers : y # x => (y \in Underway(r)' <=> y \in Underway(r))
    BY <1>3, OtherRights
  <2>4. Recorded(ByHand, r)' = Recorded(ByHand, r)
    BY <1>l, <1>7, <1>8, RecordedAppended
  <2>5. CASE ~ (o = "approved" /\ r = q)
    <3>1. Underway(r)' \subseteq Underway(r)
      BY <2>1, <2>2, <2>3, <2>5
    <3>2. Recorded(Approved, r)' = Recorded(Approved, r)
      BY <1>l, <1>7, <1>8, <2>5, RecordedAppended
    <3> QED BY <1>l, <2>i, <2>4, <3>1, <3>2, PaidFrame
  <2>6. CASE o = "approved" /\ r = q
    <3>1. Underway(r)' = Underway(r) \cup {x}
      <4>1. Underway(r) \subseteq Handlers
        BY DEF Underway
      <4> QED BY <2>1, <2>2, <2>3, <2>6, <4>1
    <3>2. /\ Recorded(Approved, r)' = Recorded(Approved, r) \cup {Len(ledger) + 1}
          /\ Len(ledger) + 1 \notin Recorded(Approved, r)
      BY <1>l, <1>7, <1>8, <2>6, RecordedAppended
    <3>3. /\ IsFiniteSet(Underway(r))
          /\ Cardinality(Recorded(ByHand, r)) + Cardinality(Underway(r))
               <= Cardinality(Recorded(Approved, r))
      BY <2>i DEF PaidFor
    <3>4. /\ Cardinality(Underway(r)') = Cardinality(Underway(r)) + 1
          /\ IsFiniteSet(Underway(r)') /\ Cardinality(Underway(r)) \in Nat
      BY <2>1, <3>1, <3>3, OneMore
    <3>5. Cardinality(Recorded(Approved, r)') = Cardinality(Recorded(Approved, r)) + 1
      BY <1>l, <3>2, OneMore, RecordedFinite
    <3>6. Cardinality(Recorded(ByHand, r)) \in Nat /\ Cardinality(Recorded(Approved, r)) \in Nat
      BY <1>l, RecordedFinite
    <3>7. Cardinality(Recorded(ByHand, r)') + Cardinality(Underway(r)') <= Cardinality(Recorded(Approved, r)')
      BY <2>4, <3>3, <3>4, <3>5, <3>6
    <3> QED BY <3>4, <3>7 DEF PaidFor
  <2> QED BY <2>5, <2>6
<1>14. MintRights'
  <2> SUFFICES ASSUME NEW r \in Requests PROVE OneRight(r)' /\ Spent(r)'
    BY DEF MintRights
  <2>i. OneRight(r) /\ Spent(r)
    BY DEF TraceInv, MintRights
  <2>1. Recorded(MintEvents, r)' = Recorded(MintEvents, r)
    BY <1>l, <1>7, <1>8, RecordedAppended
  <2>2. ~ RightIn(a, r)'
    BY <1>6 DEF RightIn
  <2>3. \A b \in Approvals : RightIn(b, r)' => b # a /\ RightIn(b, r)
    BY <1>1, <1>6, <2>2 DEF RightIn, Pending
  <2>4. \A y \in Handlers : y # x => (RightWith(y, r)' <=> RightWith(y, r))
    BY <1>3, OtherRights
  <2>5. CASE r # q
    <3>1. ~ RightWith(x, r)'
      BY <1>3, <1>4, <2>5 DEF RightWith
    <3>2. Shrinks(r)
      BY <2>3, <2>4, <3>1 DEF Shrinks
    <3> QED BY <1>1, <2>i, <2>1, <3>2, RightsFrame
  <2>6. CASE r = q
    <3>1. RightIn(a, r)
      BY <1>5, <2>6 DEF RightIn, TraceInv, QueuedOnTrail
    <3>2. \A y \in Handlers : RightWith(y, r)' => y = x
      BY <2>i, <2>4, <3>1 DEF OneRight
    <3>3. \A b \in Approvals : ~ RightIn(b, r)'
      BY <2>i, <2>3, <3>1 DEF OneRight
    <3>4. OneRight(r)'
      BY <3>2, <3>3 DEF OneRight
    <3>5. Cardinality(Mints(r)) <= restarts /\ reqState[r] # "none"
      BY <2>i, <3>1 DEF Spent, Free
    <3>6. Mints(r)' = Mints(r)
      BY <2>1 DEF Mints, Recorded
    <3> QED BY <1>1, <2>i, <3>4, <3>5, <3>6 DEF Spent
  <2> QED BY <2>5, <2>6
<1>15. MintsTraced'
  BY <1>l, <1>7, <1>8, MintsTracedStay DEF TraceInv
<1> QED BY <1>11, <1>12, <1>13, <1>14, <1>15 DEF MintTrail

\* A minting spends its handler's right, and the approval behind it when there is one.
LEMMA TraceMintDb ==
  ASSUME StoreInv, TypeInv, TraceInv, ApprovalsGrow, NEW x \in Handlers, MintDb(x)
  PROVE  MintTrail'
<1>l. ledger \in Seq(Event)
  BY DEF StoreInv, StoreTypeOK
<1>t. HandlersTyped /\ task[x] \in Task /\ restarts \in Nat
  BY TypeParts DEF HandlersTyped, EnvTyped
<1>1. UNCHANGED <<restarts, reqState, memAppr>> /\ task[x].pc = "mint"
  BY DEF MintDb, envVars, memVars, At
<1>2. PICK c \in Caps, q \in Requests, p \in Policies, t \in MintEvents :
         /\ q = task[x].auth.req /\ t = MintKind(x) /\ InsertCapability(c, q, p, t)
         /\ task' = [task EXCEPT ![x].cap = c, ![x].pc = "mintMem"]
  BY DEF MintDb
<1>3. task'[x].pc = "mintMem" /\ \A y \in Handlers : y # x => task'[y] = task[y]
  BY <1>t, <1>2 DEF HandlersTyped, Task
<1>4. Append1(t, q, c) /\ apprRow' = apprRow
  BY <1>2 DEF InsertCapability
<1>5. t \notin Approved /\ (t \in ByHand <=> task[x].appr # NULL)
  BY <1>2 DEF MintKind, MintEvents, ByHand, Approved
<1>6. Asked(q) /\ (task[x].appr # NULL => task[x].out = "approved")
  BY <1>1, <1>2 DEF TraceInv, HandlersOnTrail, OnTrail, TrailPcs
<1>7. AskedStays /\ QueueStays
  <2>1. ASSUME NEW r, Asked(r) PROVE Asked(r)'
    <3> DEFINE T == {"action.requested"}
    <3> HIDE DEF T
    <3>1. Recorded(T, r) \subseteq Recorded(T, r)'
      BY <1>l, <1>4, RecordedAppended
    <3> QED BY <2>1, <3>1 DEF Asked, T
  <2> QED BY <1>1, <2>1 DEF AskedStays, QueueStays
<1>8. HandlersOnTrail'
  <2>1. OnTrail(x)'
    BY <1>3 DEF OnTrail, TrailPcs, AskPcs
  <2> QED BY <1>3, <1>7, <2>1, OneOnTrail
<1>9. QueuedOnTrail'
  BY <1>1, <1>7, QueuedStays DEF TraceInv
<1>u. t \in ByHand => x \in Underway(q)
  BY <1>1, <1>2, <1>5, <1>6 DEF Underway
<1>10. Paid'
  <2> SUFFICES ASSUME NEW r \in Requests PROVE PaidFor(r)'
    BY DEF Paid
  <2>i. PaidFor(r)
    BY DEF TraceInv, Paid
  <2>1. Underway(r)' \subseteq Handlers /\ x \notin Underway(r)' /\ Underway(r) \subseteq Handlers
    BY <1>3 DEF Underway
  <2>3. \A y \in Handlers : y # x => (y \in Underway(r)' <=> y \in Underway(r))
    BY <1>3, OtherRights
  <2>4. Recorded(Approved, r)' = Recorded(Approved, r)
    BY <1>l, <1>4, <1>5, RecordedAppended
  <2>5. CASE ~ (t \in ByHand /\ r = q)
    <3>1. Underway(r)' \subseteq Underway(r)
      BY <2>1, <2>3
    <3>2. Recorded(ByHand, r)' = Recorded(ByHand, r)
      BY <1>l, <1>4, <2>5, RecordedAppended
    <3> QED BY <1>l, <2>i, <2>4, <3>1, <3>2, PaidFrame
  <2>6. CASE t \in ByHand /\ r = q
    <3>1. Underway(r) = Underway(r)' \cup {x} /\ Underway(r)' \subseteq Underway(r)
      BY <1>u, <2>1, <2>3, <2>6
    <3>2. /\ Recorded(ByHand, r)' = Recorded(ByHand, r) \cup {Len(ledger) + 1}
          /\ Len(ledger) + 1 \notin Recorded(ByHand, r)
      BY <1>l, <1>4, <2>6, RecordedAppended
    <3>3. /\ IsFiniteSet(Underway(r))
          /\ Cardinality(Recorded(ByHand, r)) + Cardinality(Underway(r))
               <= Cardinality(Recorded(Approved, r))
      BY <2>i DEF PaidFor
    <3>a. IsFiniteSet(Underway(r)')
      BY <3>1, <3>3, FS_Subset
    <3>4. /\ Cardinality(Underway(r)) = Cardinality(Underway(r)') + 1
          /\ Cardinality(Underway(r)') \in Nat
      BY <2>1, <3>1, <3>a, OneMore
    <3>5. Cardinality(Recorded(ByHand, r)') = Cardinality(Recorded(ByHand, r)) + 1
      BY <1>l, <3>2, OneMore, RecordedFinite
    <3>6. Cardinality(Recorded(ByHand, r)) \in Nat /\ Cardinality(Recorded(Approved, r)) \in Nat
      BY <1>l, RecordedFinite
    <3>7. Cardinality(Recorded(ByHand, r)') + Cardinality(Underway(r)') <= Cardinality(Recorded(Approved, r)')
      BY <2>4, <3>3, <3>4, <3>5, <3>6
    <3> QED BY <3>a, <3>7 DEF PaidFor
  <2> QED BY <2>5, <2>6
<1>11. MintRights'
  <2> SUFFICES ASSUME NEW r \in Requests PROVE OneRight(r)' /\ Spent(r)'
    BY DEF MintRights
  <2>i. OneRight(r) /\ Spent(r)
    BY DEF TraceInv, MintRights
  <2>1. ~ RightWith(x, r)'
    BY <1>3 DEF RightWith, AskPcs
  <2>2. \A a \in Approvals : RightIn(a, r)' <=> RightIn(a, r)
    BY <1>1, <1>4 DEF RightIn, Pending
  <2>3. \A y \in Handlers : RightWith(y, r)' => y # x /\ RightWith(y, r)
    BY <1>3, <2>1, OtherRights
  <2>4. CASE r # q
    <3>1. Recorded(MintEvents, r)' = Recorded(MintEvents, r)
      BY <1>l, <1>4, <2>4, RecordedAppended
    <3>2. Shrinks(r)
      BY <2>2, <2>3 DEF Shrinks
    <3> QED BY <1>1, <2>i, <3>1, <3>2, RightsFrame
  <2>5. CASE r = q
    <3>1. RightWith(x, r)
      BY <1>1, <1>2, <1>6, <2>5 DEF RightWith
    <3>2. Free(r)'
      BY <2>i, <2>2, <2>3, <3>1 DEF OneRight, Free
    <3>3. OneRight(r)'
      BY <3>2 DEF OneRight, Free
    <3>4. Cardinality(Mints(r)) <= restarts /\ reqState[r] # "none"
      BY <2>i, <3>1 DEF Spent, Free
    <3>5. Mints(r) = Recorded(MintEvents, r) /\ Mints(r)' = Recorded(MintEvents, r)'
      BY DEF Mints, Recorded
    <3>6. /\ Recorded(MintEvents, r)' = Recorded(MintEvents, r) \cup {Len(ledger) + 1}
          /\ Len(ledger) + 1 \notin Recorded(MintEvents, r)
      BY <1>l, <1>4, <2>5, RecordedAppended
    <3>7. Cardinality(Mints(r)') = Cardinality(Mints(r)) + 1 /\ Cardinality(Mints(r)) \in Nat
      BY <1>l, <3>5, <3>6, OneMore, RecordedFinite
    <3>8. Cardinality(Mints(r)') <= restarts' + 1
      BY <1>1, <1>t, <3>4, <3>7
    <3> QED BY <1>1, <3>2, <3>3, <3>4, <3>8 DEF Spent
  <2> QED BY <2>4, <2>5
<1>12. MintsTraced'
  <2> SUFFICES ASSUME NEW i \in DOMAIN ledger' PROVE MintTraced(i)'
    BY DEF MintsTraced
  <2>1. CASE i \in DOMAIN ledger
    <3>1. ledger'[i] = ledger[i]
      BY <1>l, <1>4, <2>1, LedgerAppended
    <3>2. \A T, r : Before(T, r, i)' = Before(T, r, i)
      BY <1>l, <1>4, <2>1, BeforeAppended
    <3>3. MintTraced(i)
      BY <2>1 DEF TraceInv, MintsTraced
    <3> QED BY <3>1, <3>2, <3>3 DEF MintTraced
  <2>2. CASE i = Len(ledger) + 1
    <3>1. ledger'[i].type = t /\ ledger'[i].req = q
      <4> DEFINE ev == [type |-> t, req |-> q, cap |-> c]
      <4>1. ledger' = Append(ledger, ev) /\ ev.type = t /\ ev.req = q
        BY <1>4 DEF Append1
      <4> HIDE DEF ev
      <4>2. ledger'[i] = ev
        BY <1>l, <2>2, <4>1
      <4> QED BY <4>1, <4>2
    <3>2. ASSUME NEW T PROVE Before(T, q, i)' = Recorded(T, q)
      BY <1>l, <1>4, <2>2, BeforeAppended
    <3>3. Before({"action.requested"}, q, i)' # {}
      BY <1>6, <3>2 DEF Asked
    <3>4. ASSUME t = "capability.minted:user_approved"
          PROVE  Cardinality(Before(ByHand, q, i)') < Cardinality(Before(Approved, q, i)')
      <4>1. x \in Underway(q)
        BY <1>u, <3>4 DEF ByHand
      <4>2. /\ IsFiniteSet(Underway(q))
            /\ Cardinality(Recorded(ByHand, q)) + Cardinality(Underway(q))
                 <= Cardinality(Recorded(Approved, q))
        BY DEF TraceInv, Paid, PaidFor
      <4>3. Cardinality(Underway(q)) \in Nat /\ Cardinality(Underway(q)) # 0
        BY <4>1, <4>2, FS_EmptySet, FS_CardinalityType
      <4>4. Cardinality(Recorded(ByHand, q)) \in Nat /\ Cardinality(Recorded(Approved, q)) \in Nat
        BY <1>l, RecordedFinite
      <4>5. Cardinality(Recorded(ByHand, q)) < Cardinality(Recorded(Approved, q))
        BY <4>2, <4>3, <4>4
      <4> QED BY <3>2, <4>5
    <3>5. \A T : Before(T, ledger[i].req, i)' = {j \in 1..(i - 1) : ledger'[j].type \in T /\ ledger'[j].req = q}
      BY <3>1 DEF Before
    <3>6. \A T : Before(T, q, i)' = {j \in 1..(i - 1) : ledger'[j].type \in T /\ ledger'[j].req = q}
      BY DEF Before
    <3>7. \A T : Before(T, ledger[i].req, i)' = Before(T, q, i)'
      BY <3>5, <3>6
    <3> QED BY <3>1, <3>3, <3>4, <3>7 DEF MintTraced, ByHand, Approved
  <2> QED BY <1>l, <1>4, <2>1, <2>2, LedgerAppended
<1> QED BY <1>8, <1>9, <1>10, <1>11, <1>12 DEF MintTrail

\* A restart forgets every right and every request, and allows one more minting of each.
LEMMA TraceRestart ==
  ASSUME StoreInv, TypeInv, TraceInv, ApprovalsGrow, Restart
  PROVE  MintTrail'
<1>l. ledger \in Seq(Event) /\ restarts \in Nat
  BY TypeParts DEF StoreInv, StoreTypeOK, EnvTyped
<1>1. /\ \A x \in Handlers : task'[x] = Idle
      /\ \A a \in Approvals : memAppr'[a] = NULL
      /\ \A r \in Requests : reqState'[r] = "none"
      /\ ledger' = ledger /\ restarts' = restarts + 1
  BY DEF Restart, EmptyMemory, Recover
<1>2. TrailQuiet
  BY <1>1 DEF TrailQuiet
<1>3. HandlersOnTrail' /\ QueuedOnTrail'
  BY <1>1, IdleTask DEF HandlersOnTrail, QueuedOnTrail, OnTrail, TrailPcs, AskPcs
<1>4. Paid'
  <2> SUFFICES ASSUME NEW r \in Requests PROVE PaidFor(r)'
    BY DEF Paid
  <2>1. Underway(r)' \subseteq Underway(r)
    BY <1>1, IdleTask DEF Underway
  <2>3. Recorded(ByHand, r)' = Recorded(ByHand, r) /\ Recorded(Approved, r)' = Recorded(Approved, r)
    BY <1>l, <1>2, TrailQuietly
  <2> QED BY <1>l, <2>1, <2>3, PaidFrame DEF TraceInv, Paid
<1>5. MintRights'
  <2> SUFFICES ASSUME NEW r \in Requests PROVE OneRight(r)' /\ Spent(r)'
    BY DEF MintRights
  <2>1. (\A x \in Handlers : ~ RightWith(x, r)') /\ (\A a \in Approvals : ~ RightIn(a, r)')
    BY <1>1, IdleTask DEF RightWith, RightIn, AskPcs
  <2>2. Mints(r)' = Mints(r) /\ Mints(r) = Recorded(MintEvents, r)
    BY <1>1 DEF Mints, Recorded
  <2>3. Cardinality(Mints(r)) <= restarts + 1 /\ Cardinality(Mints(r)) \in Nat
    BY <1>l, <2>2, RecordedFinite DEF TraceInv, MintRights, Spent
  <2>4. Cardinality(Mints(r)') <= restarts' /\ Cardinality(Mints(r)') <= restarts' + 1
    BY <1>1, <1>l, <2>2, <2>3
  <2> QED BY <2>1, <2>4 DEF OneRight, Spent, Free
<1>6. MintsTraced'
  BY <1>l, <1>2, TrailQuietly DEF TraceInv
<1> QED BY <1>3, <1>4, <1>5, <1>6 DEF MintTrail

(***************************************************************************)
(* Every other step only follows the trail, or leaves it.                  *)
(***************************************************************************)
\* A transaction that touches no approval and mints nothing.
LEMMA QuietTransaction ==
  ASSUME StoreInv, [StoreNext]_storeVars, UNCHANGED apprRow,
         \A c \in Caps : capRow[c] = NULL => capRow'[c] = NULL
  PROVE  TrailQuiet
<1>t. apprRow \in [Approvals -> ApprRow \cup {NULL}] /\ capRow \in [Caps -> CapRow \cup {NULL}]
  BY DEF StoreInv, StoreTypeOK
<1>0. LooseEvents \cap (MintEvents \cup Approved) = {}
  BY LooseAssumption DEF TableEvents, MintEvents, Approved
<1>1. ASSUME NEW t \in LooseEvents, NEW r, NEW c, RecordEvent(t, r, c) PROVE TrailQuiet
  BY <1>0, <1>1 DEF RecordEvent, TrailQuiet
<1>2. ASSUME NEW a \in Approvals, NEW r \in Requests, InsertApproval(a, r) PROVE FALSE
  <2>1. [req |-> r, decision |-> "pending"] \in ApprRow
    BY DEF ApprRow
  <2> QED BY <1>2, <1>t, <2>1, NullAssumption DEF InsertApproval
<1>3. ASSUME NEW a \in Approvals, NEW o \in Decisions, UpdateApproval(a, o) PROVE FALSE
  <2>1. apprRow[a] \in ApprRow /\ apprRow[a].decision = "pending"
    BY <1>3, <1>t DEF UpdateApproval, Pending
  <2>2. apprRow'[a] = [apprRow[a] EXCEPT !.decision = o]
    BY <1>3, <1>t DEF UpdateApproval
  <2>3. apprRow'[a].decision = o /\ o # "pending"
    BY <2>1, <2>2 DEF ApprRow, Decisions
  <2> QED BY <2>1, <2>3
<1>4. ASSUME NEW c \in Caps, NEW r \in Requests, NEW p \in Policies, NEW t \in MintEvents,
             InsertCapability(c, r, p, t)
      PROVE  FALSE
  <2>1. [req |-> r, policy |-> p, state |-> "issued", used |-> 0] \in CapRow
    BY DEF CapRow, CapStates, LiveStates
  <2> QED BY <1>4, <1>t, <2>1, NullAssumption DEF InsertCapability
<1>5. ASSUME NEW c, NEW e, NEW s, ConsumeCapability(c, e, s) PROVE TrailQuiet
  BY <1>5 DEF ConsumeCapability, TrailQuiet, MintEvents, Approved
<1>6. ASSUME NEW c, ConsumeOAuthCapability(c) PROVE TrailQuiet
  BY <1>6 DEF ConsumeOAuthCapability, TrailQuiet
<1>7. ASSUME NEW e \in Execs, NEW o \in {"completed", "failed"}, FinishExecution(e, o) PROVE TrailQuiet
  <2>1. FinishEvent[o] \notin MintEvents \cup Approved
    BY DEF FinishEvent, MintEvents, Approved
  <2>2. Append1(FinishEvent[o], capRow[execRow[e].cap].req, execRow[e].cap)
    BY <1>7 DEF FinishExecution
  <2> QED BY <2>1, <2>2 DEF TrailQuiet
<1>8. ASSUME NEW c, RevokeCapability(c) PROVE TrailQuiet
  BY <1>8 DEF RevokeCapability, TrailQuiet, MintEvents, Approved
<1>9. ASSUME NEW p, RevokeNotPolicy(p) PROVE TrailQuiet
  BY <1>9 DEF RevokeNotPolicy, TrailQuiet, MintEvents, Approved
<1>10. ASSUME Recover PROVE TrailQuiet
  BY <1>10 DEF Recover, TrailQuiet
<1>11. ASSUME UNCHANGED storeVars PROVE TrailQuiet
  BY <1>11 DEF storeVars, TrailQuiet
<1> QED BY <1>1, <1>2, <1>3, <1>4, <1>5, <1>6, <1>7, <1>8, <1>9, <1>10, <1>11 DEF StoreNext

\* A plain step that leaves the approvals alone writes nothing on the trail.
LEMMA PlainTransaction ==
  ASSUME StoreInv, [StoreNext]_storeVars, UNCHANGED apprRow, PlainStep
  PROVE  TrailQuiet
<1>1. \A c \in Caps : capRow[c] = NULL => capRow'[c] = NULL
  <2>1. ASSUME NEW S, capRow' = Withdrawn(S, "revoked"), NEW c \in Caps, capRow[c] = NULL
        PROVE  capRow'[c] = NULL
    BY <2>1 DEF Withdrawn, Live
  <2> QED BY <2>1 DEF PlainStep, Undisturbed
<1> QED BY <1>1, QuietTransaction

\* The state of a request is written, never back to none.
ReqForward == \A r \in Requests : reqState'[r] = "none" => reqState[r] = "none"

\* A request that has been submitted is never again one that has not.
LEMMA RequestForward ==
  ASSUME MemTyped, NEW r, NEW st, st # "none", SetReq(r, st)
  PROVE  ReqForward
BY DEF MemTyped, SetReq, ReqForward

\* One handler leaves the trail, or was not on it.
LEMMA TrailLeft ==
  ASSUME TrailQuiet, UNCHANGED <<restarts, apprRow, memAppr>>, ReqForward,
         NEW x, task'[x].pc \notin TrailPcs,
         \A y \in Handlers : y # x => task'[y] = task[y]
  PROVE  TrailPlain
<1>1. \A y \in Handlers : TrailMove(y)
  BY DEF TrailMove
<1> QED BY <1>1 DEF TrailPlain, ReqForward

\* Nobody moves.
LEMMA TrailRests ==
  ASSUME TrailQuiet, UNCHANGED <<restarts, apprRow, memAppr, task>>, ReqForward
  PROVE  TrailPlain
BY DEF TrailPlain, ReqForward, TrailMove

\* The action.request handler on its way, and action.cancel.
LEMMA AgentTrail ==
  ASSUME StoreInv, TypeInv, NEW r \in Requests,
         \/ ValidateSession(r) \/ MeasureContext(r) \/ \E path \in Paths : EvaluatePolicy(r, path)
         \/ PolicyDenies(r) \/ RecordGranted(r) \/ AskReq(r) \/ RequestFails(r) \/ Cancel(r)
  PROVE  TrailPlain
<1>h. r \in Handlers
  BY RequestHandlers
<1>t. HandlersTyped /\ MemTyped /\ task[r] \in Task /\ Carrying(task[r])
  BY <1>h, TypeParts DEF HandlersTyped
<1>1. UNCHANGED <<restarts, apprRow, memAppr>>
  BY DEF ValidateSession, MeasureContext, EvaluatePolicy, PolicyDenies, RecordGranted, AskReq,
     RequestFails, Cancel, RecordEvent, storeVars, memVars, envVars
<1>2. TrailQuiet
  BY DEF ValidateSession, MeasureContext, EvaluatePolicy, PolicyDenies, RecordGranted, AskReq,
     RequestFails, Cancel, RecordEvent, storeVars, TrailQuiet, MintEvents, Approved
<1>3. ASSUME AskReq(r) \/ RequestFails(r) PROVE TrailPlain
  <2>1. ReqForward
    BY <1>3, <1>t, RequestForward DEF AskReq, RequestFails
  <2>2. task'[r].pc \notin TrailPcs /\ \A y \in Handlers : y # r => task'[y] = task[y]
    BY <1>3, <1>h, <1>t, CalmDone DEF AskReq, RequestFails, TrailPcs, AskPcs
  <2> QED BY <1>1, <1>2, <2>1, <2>2, TrailLeft
<1>4. ASSUME Cancel(r) PROVE TrailPlain
  <2>1. ReqForward /\ UNCHANGED task
    BY <1>4, <1>t, RequestForward DEF Cancel
  <2> QED BY <1>1, <1>2, <2>1, TrailRests
<1>5. ASSUME task[r].pc \in AskPcs \ {"submitted"}, task'[r].pc \in (AskPcs \ {"submitted"}) \cup {"mint"},
             task'[r].auth.req = task[r].auth.req, task'[r].appr = task[r].appr,
             \A y \in Handlers : y # r => task'[y] = task[y], UNCHANGED reqState
      PROVE  TrailPlain
  <2>1. \A y \in Handlers : TrailMove(y)
    BY <1>5 DEF TrailMove
  <2> QED BY <1>1, <1>2, <1>5, <2>1 DEF TrailPlain
<1>6. ASSUME ValidateSession(r) \/ PolicyDenies(r) \/ RecordGranted(r) PROVE TrailPlain
  <2>1. task[r].pc \in {"session", "evaluate", "granted"} /\ UNCHANGED reqState
        /\ \E p \in {"context", "failing", "mint"} : Goto(r, p)
    BY <1>6 DEF ValidateSession, PolicyDenies, RecordGranted, At, memVars
  <2>2. /\ task'[r].pc \in {"context", "failing", "mint"} /\ task'[r].auth = task[r].auth
        /\ task'[r].appr = task[r].appr /\ \A y \in Handlers : y # r => task'[y] = task[y]
    BY <1>h, <1>t, <2>1, CalmGoto DEF PCs
  <2> QED BY <1>5, <2>1, <2>2 DEF AskPcs
<1>7. ASSUME MeasureContext(r) PROVE TrailPlain
  <2>1. task[r].pc = "context" /\ task[r].auth \in Auth /\ UNCHANGED reqState
    BY <1>7, <1>t DEF MeasureContext, At, memVars, Carrying, AuthPcs, AskPcs
  <2>2. task' = [task EXCEPT ![r] = [[task[r] EXCEPT !.auth = [task[r].auth EXCEPT !.epoch = ctx]] EXCEPT !.pc = "evaluate"]]
    BY <1>7, <1>t, <1>h, <2>1 DEF MeasureContext, HandlersTyped, Task
  <2> DEFINE au == [task[r].auth EXCEPT !.epoch = ctx]
  <2>3. au.req = task[r].auth.req
    BY <2>1 DEF Auth
  <2>4. task' = [task EXCEPT ![r] = [[task[r] EXCEPT !.auth = au] EXCEPT !.pc = "evaluate"]]
    BY <2>2
  <2> HIDE DEF au
  <2>5. /\ task'[r].pc = "evaluate" /\ task'[r].auth = au
        /\ task'[r].appr = task[r].appr /\ \A y \in Handlers : y # r => task'[y] = task[y]
    BY <1>h, <1>t, <2>4 DEF HandlersTyped, Task
  <2> QED BY <1>5, <2>1, <2>3, <2>5 DEF AskPcs
<1>8. ASSUME NEW path \in Paths, EvaluatePolicy(r, path) PROVE TrailPlain
  <2>1. task[r].pc = "evaluate" /\ task[r].auth \in Auth /\ UNCHANGED reqState
    BY <1>8, <1>t DEF EvaluatePolicy, At, memVars, Carrying, AuthPcs, AskPcs
  <2> DEFINE au == [task[r].auth EXCEPT !.policy = policy]
             q == CASE path = "auto" -> "mint"
                    [] path = "grant" -> "granted"
                    [] path = "presence" -> "ask"
  <2>3. au.req = task[r].auth.req
    BY <2>1 DEF Auth
  <2>4. q \in {"mint", "granted", "ask"}
    BY BrokerAssumption
  <2>6. task' = [task EXCEPT ![r].auth.policy = policy, ![r].pc = q]
    BY <1>8 DEF EvaluatePolicy
  <2> HIDE DEF q
  <2>2. task' = [task EXCEPT ![r] = [[task[r] EXCEPT !.auth = au] EXCEPT !.pc = q]]
    BY <2>6, <1>t, <1>h DEF HandlersTyped, Task
  <2> HIDE DEF au
  <2>5. /\ task'[r].pc = q /\ task'[r].auth = au
        /\ task'[r].appr = task[r].appr /\ \A y \in Handlers : y # r => task'[y] = task[y]
    BY <1>h, <1>t, <2>2 DEF HandlersTyped, Task
  <2> QED BY <1>5, <2>1, <2>3, <2>4, <2>5 DEF AskPcs
<1> QED BY <1>3, <1>4, <1>6, <1>7, <1>8

\* Minting after its transaction, and deciding after the row was won or lost.
LEMMA DeciderTrail ==
  ASSUME StoreInv, TypeInv, NEW d \in Handlers,
         MintMem(d) \/ MintReq(d) \/ DecideMem(d) \/ DecideReq(d) \/ DecideFails(d)
  PROVE  TrailPlain
<1>t. HandlersTyped /\ MemTyped /\ task[d] \in Task /\ Carrying(task[d])
  BY TypeParts DEF HandlersTyped
<1>1. UNCHANGED <<restarts, apprRow>> /\ UNCHANGED ledger
  BY DEF MintMem, MintReq, DecideMem, DecideReq, DecideFails, storeVars, memVars, envVars
<1>2. TrailQuiet
  BY <1>1 DEF TrailQuiet
<1>3. ASSUME MintMem(d) PROVE TrailPlain
  <2>1. task'[d].pc = "mintReq" /\ \A y \in Handlers : y # d => task'[y] = task[y]
    BY <1>3, <1>t, CalmGoto DEF MintMem, PCs
  <2>2. UNCHANGED <<reqState, memAppr>>
    BY <1>3 DEF MintMem
  <2>3. task'[d].pc \notin TrailPcs
    BY <2>1 DEF TrailPcs, AskPcs
  <2> QED BY <1>1, <1>2, <2>1, <2>2, <2>3, TrailLeft DEF ReqForward
<1>4. ASSUME MintReq(d) \/ DecideReq(d) \/ DecideFails(d) PROVE TrailPlain
  <2>1. task'[d].pc = "idle" /\ \A y \in Handlers : y # d => task'[y] = task[y]
    BY <1>4, <1>t, CalmDone DEF MintReq, DecideReq, DecideFails
  <2>2. UNCHANGED memAppr
    BY <1>4 DEF MintReq, DecideReq, DecideFails, memVars
  <2>3. task'[d].pc \notin TrailPcs
    BY <2>1 DEF TrailPcs, AskPcs
  <2>4. ReqForward
    <3>1. ASSUME MintReq(d) \/ DecideReq(d) PROVE ReqForward
      <4>1. \E r, st : st # "none" /\ SetReq(r, st)
        BY <3>1 DEF MintReq, DecideReq
      <4> QED BY <1>t, <4>1, RequestForward
    <3>2. ASSUME DecideFails(d) PROVE ReqForward
      BY <3>2 DEF DecideFails, memVars, ReqForward
    <3> QED BY <1>4, <3>1, <3>2
  <2> QED BY <1>1, <1>2, <2>1, <2>2, <2>3, <2>4, TrailLeft
<1>5. ASSUME DecideMem(d) PROVE TrailPlain
  <2>1. task[d].pc = "decideMem" /\ task[d].appr \in Approvals /\ UNCHANGED reqState
        /\ memAppr' = [memAppr EXCEPT ![task[d].appr] = NULL]
    BY <1>5, <1>t DEF DecideMem, At, Carrying, ApprPcs, DecidePcs
  <2>2. \E p \in {"mint", "decideReq"} : Goto(d, p) /\ (p = "mint" => task[d].out = "approved")
    BY <1>5 DEF DecideMem
  <2>3. /\ task'[d].pc \in {"mint", "decideReq"} /\ (task'[d].pc = "mint" => task[d].out = "approved")
        /\ task'[d].auth = task[d].auth /\ task'[d].appr = task[d].appr /\ task'[d].out = task[d].out
        /\ \A y \in Handlers : y # d => task'[y] = task[y]
    BY <1>t, <2>2, CalmGoto DEF PCs
  <2>4. \A y \in Handlers : TrailMove(y)
    BY <2>1, <2>3 DEF TrailMove, TrailPcs, AskPcs
  <2>5. \A a \in Approvals :
           \/ memAppr'[a] = memAppr[a]
           \/ memAppr'[a] = NULL /\ \E x \in Handlers : task[x].pc = "decideMem" /\ task[x].appr = a
    BY <1>t, <2>1 DEF MemTyped
  <2> QED BY <1>1, <1>2, <2>1, <2>4, <2>5 DEF TrailPlain
<1> QED BY <1>3, <1>4, <1>5

\* Revocation and policy replacement.
LEMMA AdminTrail ==
  ASSUME StoreInv, TypeInv, [StoreNext]_storeVars, NEW d \in Handlers, AdminStep(d)
  PROVE  TrailPlain
<1>t. HandlersTyped /\ task[d] \in Task
  BY TypeParts DEF HandlersTyped
<1>1. UNCHANGED <<restarts, apprRow, memAppr, reqState>>
  BY DEF AdminStep, RevokeDb, RevokeMem, ReloadDb, ReloadEval, ReloadMem, RevokeCapability,
     RevokeNotPolicy, storeVars, memVars, envVars
<1>2. TrailQuiet
  BY <1>1, AdminPlain, PlainTransaction
<1>3. /\ task'[d].pc \in {"idle", "revokeMem", "reloadEval", "reloadMem"}
      /\ \A y \in Handlers : y # d => task'[y] = task[y]
  <2>1. ASSUME NEW c \in Caps, RevokeDb(d, c)
        PROVE  task'[d].pc = "revokeMem" /\ \A y \in Handlers : y # d => task'[y] = task[y]
    BY <2>1, <1>t DEF RevokeDb, HandlersTyped, Idle
  <2>2. ASSUME NEW p \in Policies, ReloadDb(d, p)
        PROVE  task'[d].pc = "reloadEval" /\ \A y \in Handlers : y # d => task'[y] = task[y]
    BY <2>2, <1>t DEF ReloadDb, HandlersTyped, Idle
  <2>3. ASSUME ReloadEval(d)
        PROVE  task'[d].pc = "reloadMem" /\ \A y \in Handlers : y # d => task'[y] = task[y]
    BY <2>3, <1>t, CalmGoto DEF ReloadEval, PCs
  <2>4. ASSUME RevokeMem(d) \/ ReloadMem(d)
        PROVE  task'[d].pc = "idle" /\ \A y \in Handlers : y # d => task'[y] = task[y]
    BY <2>4, <1>t, CalmDone DEF RevokeMem, ReloadMem
  <2> QED BY <2>1, <2>2, <2>3, <2>4 DEF AdminStep
<1>4. task'[d].pc \notin TrailPcs
  BY <1>3 DEF TrailPcs, AskPcs
<1> QED BY <1>1, <1>2, <1>3, <1>4, TrailLeft DEF ReqForward

\* The ticker's sweep, the browser and the clock.
LEMMA BackgroundTrail ==
  ASSUME StoreInv, TypeInv, [StoreNext]_storeVars, TickerStep \/ EnvironmentStep
  PROVE  TrailPlain
<1>t. HandlersTyped /\ Ticker \in Handlers
  BY TypeParts, RequestHandlers
<1>1. UNCHANGED <<restarts, apprRow, memAppr, reqState>>
  BY DEF TickerStep, EnvironmentStep, StaleMark, StaleSweep, StaleAudit, AuditFails, Register,
     Heartbeat, Navigate, Prepare, ApprovalLapses, TotpTick, RecordEvent, storeVars, memVars,
     envVars
<1>2. TrailQuiet
  BY <1>1, BackgroundPlain, PlainTransaction
<1>3. ASSUME TickerStep PROVE TrailPlain
  <2>1. \/ \E p \in {"sweep", "staleAudit"} : Goto(Ticker, p)
        \/ Done(Ticker)
    BY <1>3 DEF TickerStep, StaleMark, StaleSweep, StaleAudit, AuditFails
  <2>2. /\ task'[Ticker].pc \in {"sweep", "staleAudit", "idle"}
        /\ \A y \in Handlers : y # Ticker => task'[y] = task[y]
    BY <1>t, <2>1, CalmGoto, CalmDone DEF PCs
  <2>3. task'[Ticker].pc \notin TrailPcs
    BY <2>2 DEF TrailPcs, AskPcs
  <2> QED BY <1>1, <1>2, <2>2, <2>3, TrailLeft DEF ReqForward
<1>4. ASSUME EnvironmentStep PROVE TrailPlain
  <2>1. UNCHANGED task
    BY <1>4 DEF EnvironmentStep, Register, Heartbeat, Navigate, Prepare, ApprovalLapses, TotpTick
  <2> QED BY <1>1, <1>2, <2>1, TrailRests DEF ReqForward
<1> QED BY <1>3, <1>4

\* The handlers of the executor socket.
LEMMA ExecutorTrail ==
  ASSUME StoreInv, TypeInv, [StoreNext]_storeVars, NEW x \in Handlers, ExecutorStep(x)
  PROVE  TrailPlain
<1>t. HandlersTyped /\ MemTyped /\ task[x] \in Task /\ Carrying(task[x])
  BY TypeParts DEF HandlersTyped
<1>r. capRow \in [Caps -> CapRow \cup {NULL}]
  BY DEF StoreInv, StoreTypeOK
<1>1. UNCHANGED <<restarts, apprRow, memAppr>>
  BY DEF ExecutorStep, Poll, BeginConsume, ConsumeDb, ConsumeRejected, ConsumeMem, Retrieve,
     RetrieveFails, BeginResult, ResultDb, ResultRejected, ResultMem, ResultReq, BeginCallback,
     CallbackDb, CallbackMem, Exchange, CallbackFails, CallbackReq, CallbackAudit, AuditFails,
     ConsumeCapability, ConsumeOAuthCapability, FinishExecution, RecordEvent,
     storeVars, memVars, envVars
<1>2. TrailQuiet
  <2>1. ASSUME ExecutorPlainStep(x) PROVE TrailQuiet
    BY <1>1, <2>1, ExecutorPlain, PlainTransaction
  <2>2. ASSUME ConsumeDb(x) \/ CallbackDb(x) PROVE TrailQuiet
    <3>1. PICK c \in Caps : Live(c) /\ capRow' = [capRow EXCEPT ![c] = Used(@)]
      BY <2>2 DEF ConsumeDb, CallbackDb, ConsumeCapability, ConsumeOAuthCapability, CanConsume
    <3>2. \A d \in Caps : capRow[d] = NULL => capRow'[d] = NULL
      BY <1>r, <3>1 DEF Live
    <3> QED BY <1>1, <3>2, QuietTransaction
  <2>3. ASSUME ConsumeMem(x) \/ Retrieve(x) \/ ResultDb(x) \/ ResultRejected(x) \/ ResultMem(x)
               \/ CallbackMem(x) \/ CallbackAudit(x)
        PROVE  TrailQuiet
    <3>1. UNCHANGED capRow
      BY <2>3 DEF ConsumeMem, Retrieve, ResultDb, ResultRejected, ResultMem, CallbackMem,
         CallbackAudit, FinishExecution, RecordEvent, storeVars
    <3> QED BY <1>1, <3>1, QuietTransaction
  <2> QED BY <2>1, <2>2, <2>3 DEF ExecutorStep, ExecutorPlainStep
<1>3. ReqForward
  <2>1. ASSUME ResultReq(x) \/ CallbackReq(x) PROVE ReqForward
    <3>1. task[x].out # "none"
      BY <1>t, <2>1 DEF ResultReq, CallbackReq, At, Carrying, ResultPcs
    <3>2. \E r : SetReq(r, task[x].out)
      BY <2>1 DEF ResultReq, CallbackReq
    <3> QED BY <1>t, <3>1, <3>2, RequestForward
  <2>2. ResultReq(x) \/ CallbackReq(x) \/ UNCHANGED reqState
    BY DEF ExecutorStep, Poll, BeginConsume, ConsumeDb, ConsumeRejected, ConsumeMem, Retrieve,
       RetrieveFails, BeginResult, ResultDb, ResultRejected, ResultMem, BeginCallback,
       CallbackDb, CallbackMem, Exchange, CallbackFails, CallbackAudit, AuditFails, memVars
  <2> QED BY <2>1, <2>2 DEF ReqForward
<1> DEFINE Moved(P) == task'[x].pc \in P /\ \A y \in Handlers : y # x => task'[y] = task[y]
           Places == ConsumePcs \cup ResultPcs \cup CallbackPcs \cup {"idle"}
<1>4. UNCHANGED task \/ Moved(Places)
  <2>1. ASSUME NEW fate \in Fates, Poll(x, fate) PROVE UNCHANGED task
    BY <2>1 DEF Poll
  <2>2. ASSUME NEW c \in Caps, BeginConsume(x, c) PROVE Moved({"consume"})
    <3> DEFINE s == IF memCap[c].auth.action = "totp" THEN totpStep ELSE NULL
    <3>1. task' = [task EXCEPT ![x] = [Idle EXCEPT !.pc = "consume", !.cap = c, !.auth = memCap[c].auth, !.step = s]]
      BY <2>2 DEF BeginConsume
    <3> HIDE DEF s
    <3> QED BY <1>t, <3>1 DEF HandlersTyped, Idle
  <2>3. ASSUME ConsumeDb(x) PROVE Moved({"consumeMem"})
    <3>1. PICK e \in Execs : task' = [task EXCEPT ![x].exec = e, ![x].pc = "consumeMem"]
      BY <2>3 DEF ConsumeDb
    <3> QED BY <1>t, <3>1 DEF HandlersTyped, Task
  <2>4. ASSUME NEW e \in Execs, NEW st \in Statuses, BeginResult(x, e, st) PROVE Moved({"result"})
    BY <1>t, <2>4 DEF BeginResult, HandlersTyped, Idle
  <2>5. ASSUME ResultRejected(x) PROVE Moved({"resultMem", "idle"})
    <3>1. CASE task[x].out = "completed"
      BY <1>t, <2>5, <3>1 DEF ResultRejected, HandlersTyped, Task
    <3>2. CASE task[x].out # "completed"
      BY <1>t, <2>5, <3>2, CalmDone DEF ResultRejected
    <3> QED BY <3>1, <3>2
  <2>6. ASSUME NEW c \in Caps, NEW bound \in BOOLEAN, BeginCallback(x, c, bound)
        PROVE  Moved({"callback", "callbackReq"})
    <3> DEFINE p == IF bound THEN "callback" ELSE "callbackReq"
               o == IF bound THEN NULL ELSE "failed"
    <3>1. task' = [task EXCEPT ![x] = [Idle EXCEPT !.cap = c, !.auth = memCap[c].auth, !.pc = p, !.out = o]]
      BY <2>6 DEF BeginCallback
    <3>2. p \in {"callback", "callbackReq"}
      OBVIOUS
    <3> HIDE DEF p, o
    <3> QED BY <1>t, <3>1, <3>2 DEF HandlersTyped, Idle
  <2>7. ASSUME Exchange(x) \/ CallbackFails(x) PROVE Moved({"callbackReq"})
    <3>1. \E o : task' = [task EXCEPT ![x].out = o, ![x].pc = "callbackReq"]
      BY <2>7 DEF Exchange, CallbackFails
    <3> QED BY <1>t, <3>1 DEF HandlersTyped, Task
  <2>8. ASSUME ConsumeMem(x) \/ ResultDb(x) \/ ResultMem(x) \/ CallbackDb(x) \/ CallbackMem(x) \/ CallbackReq(x)
        PROVE  Moved({"retrieve", "resultMem", "resultReq", "callbackMem", "exchange", "callbackAudit"})
    <3>1. \E p \in {"retrieve", "resultMem", "resultReq", "callbackMem", "exchange", "callbackAudit"} : Goto(x, p)
      BY <2>8 DEF ConsumeMem, ResultDb, ResultMem, CallbackDb, CallbackMem, CallbackReq
    <3> QED BY <1>t, <3>1, CalmGoto DEF PCs
  <2>9. ASSUME ConsumeRejected(x) \/ Retrieve(x) \/ RetrieveFails(x) \/ ResultReq(x) \/ CallbackAudit(x)
               \/ AuditFails(x)
        PROVE  Moved({"idle"})
    BY <1>t, <2>9, CalmDone DEF ConsumeRejected, Retrieve, RetrieveFails, ResultReq,
       CallbackAudit, AuditFails
  <2> QED BY <2>1, <2>2, <2>3, <2>4, <2>5, <2>6, <2>7, <2>8, <2>9
          DEF ExecutorStep, ConsumePcs, ResultPcs, CallbackPcs
<1>5. Places \cap TrailPcs = {}
  BY DEF ConsumePcs, ResultPcs, CallbackPcs, TrailPcs, AskPcs
<1>6. CASE UNCHANGED task
  BY <1>1, <1>2, <1>3, <1>6, TrailRests
<1>7. CASE Moved(Places)
  BY <1>1, <1>2, <1>3, <1>5, <1>7, TrailLeft
<1> QED BY <1>4, <1>6, <1>7

\* Every step keeps what the mintings rest on.
LEMMA TraceStep ==
  ASSUME StoreInv, TypeInv, TraceInv, [BrokerNext]_brokerVars
  PROVE  MintTrail'
<1>1. [StoreNext]_storeVars
  BY BrokerStepIsTransaction
<1>2. ApprovalsGrow
  BY <1>1, ApprovalsOnlyGrow
<1>3. ASSUME TrailPlain PROVE MintTrail'
  BY <1>2, <1>3, TracePlain
<1>4. ASSUME NEW r \in Requests, AgentStep(r) PROVE MintTrail'
  <2>h. r \in Handlers
    BY RequestHandlers
  <2> QED BY <1>2, <1>3, <1>4, <2>h, TraceSubmit, TraceRecordRequested, TraceAskDb, TraceAskMem,
             AgentTrail
          DEF AgentStep
<1>5. ASSUME NEW x \in Handlers, MintStep(x) PROVE MintTrail'
  BY <1>2, <1>3, <1>5, TraceMintDb, DeciderTrail DEF MintStep
<1>6. ASSUME NEW d \in Handlers, DeciderStep(d) PROVE MintTrail'
  BY <1>2, <1>3, <1>6, TraceBeginDecide, TraceDecideDb, DeciderTrail DEF DeciderStep
<1>7. ASSUME NEW d \in Handlers, AdminStep(d) PROVE MintTrail'
  BY <1>1, <1>3, <1>7, AdminTrail
<1>8. ASSUME NEW x \in Handlers, ExecutorStep(x) PROVE MintTrail'
  BY <1>1, <1>3, <1>8, ExecutorTrail
<1>9. ASSUME TickerStep \/ EnvironmentStep PROVE MintTrail'
  BY <1>1, <1>3, <1>9, BackgroundTrail
<1>10. ASSUME Restart PROVE MintTrail'
  BY <1>2, <1>10, TraceRestart
<1>11. ASSUME UNCHANGED brokerVars PROVE MintTrail'
  <2>1. UNCHANGED <<storeVars, restarts, apprRow, memAppr, task, reqState, ledger>>
    BY <1>11 DEF brokerVars, storeVars, memVars, envVars
  <2>2. TrailQuiet /\ ReqForward
    BY <2>1 DEF TrailQuiet, ReqForward
  <2>3. TrailPlain
    BY <2>1, <2>2, TrailRests
  <2> QED BY <1>3, <2>3
<1> QED BY <1>4, <1>5, <1>6, <1>7, <1>8, <1>9, <1>10, <1>11, RequestHandlers DEF BrokerNext,
           Deciders, Handlers

(***************************************************************************)
(* The releases and their trail.                                           *)
(***************************************************************************)
\* Events are never removed or renumbered.
LEMMA EventsGrow ==
  ASSUME StoreInv, [StoreNext]_storeVars, NEW T, NEW c
  PROVE  EventsOf(T, c) \subseteq EventsOf(T, c)'
<1>l. ledger \in Seq(Event)
  BY DEF StoreInv, StoreTypeOK
<1>1. UNCHANGED ledger \/ \E t, r, d : Append1(t, r, d)
  BY DEF StoreNext, storeVars, RecordEvent, InsertApproval, UpdateApproval, InsertCapability,
     ConsumeCapability, ConsumeOAuthCapability, FinishExecution, RevokeCapability,
     RevokeNotPolicy, Recover
<1>2. CASE UNCHANGED ledger
  BY <1>2 DEF EventsOf
<1>3. ASSUME NEW t, NEW r, NEW d, Append1(t, r, d) PROVE EventsOf(T, c) \subseteq EventsOf(T, c)'
  BY <1>l, <1>3, EventsAppended
<1> QED BY <1>1, <1>2, <1>3

Traced(c) ==
  \E i \in EventsOf(MintEvents, c), j \in EventsOf({"capability.consumed"}, c),
     k \in EventsOf({"secret.retrieve_succeeded"}, c) : i < j /\ j < k

\* Events are never removed, so a traced capability stays traced.
LEMMA TracedStays ==
  ASSUME StoreInv, [StoreNext]_storeVars, NEW c, Traced(c)
  PROVE  Traced(c)'
BY EventsGrow DEF Traced

\* The retrieval comes after the consumption, and that after the minting.
LEMMA RetrieveTraced ==
  ASSUME MemoryInv, NEW x \in Handlers, Retrieve(x), NEW c, c = task[x].cap
  PROVE  Traced(c)'
<1>f. Carrying(task[x]) /\ Backed(task[x]) /\ StoreInv
  BY OwnFacts
<1>l. ledger \in Seq(Event)
  BY <1>f DEF StoreInv, StoreTypeOK
<1>1. /\ c \in Caps /\ Holds(task[x].exec, c, task[x].step) /\ task[x].exec \in Execs
  BY <1>f DEF Retrieve, At, Carrying, Backed, CapPcs, ConsumePcs, ExecPcs
<1>2. PICK r : Append1("secret.retrieve_succeeded", r, c)
  BY DEF Retrieve, RecordEvent
<1>3. PICK i \in EventsOf(MintEvents, c), j \in EventsOf({"capability.consumed"}, c) : i < j
  BY <1>1 DEF MemoryInv, LedgerInv, LedgerAgrees, ExecutedCap, Holds
<1>4. j \in Nat /\ j < Len(ledger) + 1
  BY <1>l, <1>2, <1>3, EventsAppended
<1> DEFINE T == {"secret.retrieve_succeeded"}
           C == {"capability.consumed"}
<1>5. "secret.retrieve_succeeded" \in T /\ "secret.retrieve_succeeded" \notin C
      /\ "secret.retrieve_succeeded" \notin MintEvents
  BY DEF MintEvents
<1>6. i \in EventsOf(MintEvents, c) /\ j \in EventsOf(C, c)
  OBVIOUS
<1> HIDE DEF T, C
<1>7. EventsOf(T, c)' = EventsOf(T, c) \cup {Len(ledger) + 1}
  BY <1>l, <1>2, <1>5, EventsAppended
<1>8. EventsOf(MintEvents, c)' = EventsOf(MintEvents, c) /\ EventsOf(C, c)' = EventsOf(C, c)
  BY <1>l, <1>2, <1>5, EventsAppended
<1>9. \E k \in EventsOf(T, c)' : j < k
  BY <1>4, <1>7
<1>10. Traced(c)' <=> \E m \in EventsOf(MintEvents, c)', n \in EventsOf(C, c)', k \in EventsOf(T, c)' :
                         m < n /\ n < k
  BY DEF Traced, T, C
<1> QED BY <1>3, <1>6, <1>8, <1>9, <1>10

\* Every step keeps the releases traced: only Retrieve adds one.
LEMMA ReleasesStep ==
  ASSUME MemoryInv, ReleasesTraced, [BrokerNext]_brokerVars
  PROVE  ReleasesTraced'
<1>1. StoreInv /\ TypeInv
  BY DEF MemoryInv, LedgerInv
<1>2. [StoreNext]_storeVars
  BY BrokerStepIsTransaction
<1>3. ASSUME NEW rel \in released, NEW c, c = rel.cap PROVE Traced(c)'
  <2>1. Traced(c)
    BY <1>3 DEF ReleasesTraced, Traced
  <2> QED BY <1>1, <1>2, <2>1, TracedStays
<1>4. ASSUME NEW rel \in released' \ released, NEW c, c = rel.cap PROVE Traced(c)'
  <2>1. PICK x \in Handlers : Retrieve(x)
    <3>1. ASSUME PlainStep PROVE UNCHANGED released
      BY <3>1 DEF PlainStep, Undisturbed
    <3>2. ASSUME Restart PROVE UNCHANGED released
      BY <3>2 DEF Restart
    <3>3. ASSUME NEW x \in Handlers, OwnStep(x) PROVE Retrieve(x) \/ UNCHANGED released
      BY <3>3 DEF OwnStep, MintDb, MintMem, ConsumeMem, ConsumeDb, ResultDb, ResultRejected,
         ResultMem,
         CallbackDb, CallbackMem, CallbackAudit, envVars
    <3> QED BY <1>1, <1>4, <3>1, <3>2, <3>3, StepKinds
  <2> DEFINE new == [exec |-> task[x].exec, cap |-> task[x].cap, step |-> task[x].step]
  <2>2. released' = released \cup {new} /\ new.cap = task[x].cap
    BY <2>1 DEF Retrieve
  <2> HIDE DEF new
  <2>3. c = task[x].cap
    BY <1>4, <2>2
  <2> QED BY <2>1, <2>3, RetrieveTraced
<1> SUFFICES ASSUME NEW rel \in released', NEW c, c = rel.cap PROVE Traced(c)'
  BY DEF ReleasesTraced, Traced
<1> QED BY <1>3, <1>4

\* At first the trail is empty, and so is everything that rests on it.
LEMMA TraceStart == BrokerInit => TraceInv
<1> SUFFICES ASSUME BrokerInit PROVE TraceInv
  OBVIOUS
<1>1. /\ \A x \in Handlers : task[x] = Idle
      /\ \A a \in Approvals : memAppr[a] = NULL
      /\ ledger = << >> /\ restarts = 0 /\ released = {}
  BY DEF BrokerInit, StoreInit
<1>2. HandlersOnTrail /\ QueuedOnTrail
  BY <1>1, IdleTask DEF HandlersOnTrail, QueuedOnTrail, OnTrail, TrailPcs, AskPcs
<1>3. \A T, r : Recorded(T, r) = {}
  BY <1>1 DEF Recorded
<1>4. ASSUME NEW r \in Requests PROVE PaidFor(r)
  <2>1. Underway(r) = {}
    BY <1>1, IdleTask DEF Underway
  <2> QED BY <1>3, <2>1, FS_EmptySet DEF PaidFor
<1>5. ASSUME NEW r \in Requests PROVE OneRight(r) /\ Spent(r)
  <2>1. Free(r)
    BY <1>1, IdleTask DEF Free, RightWith, RightIn, AskPcs
  <2>2. Mints(r) = {}
    BY <1>1 DEF Mints
  <2> QED BY <1>1, <2>1, <2>2, FS_EmptySet DEF OneRight, Spent, Free
<1>6. ReleasesTraced /\ MintsTraced
  BY <1>1 DEF ReleasesTraced, MintsTraced
<1> QED BY <1>2, <1>4, <1>5, <1>6 DEF TraceInv, Paid, MintRights

\* What every minting and every release rests on holds throughout.
THEOREM TraceInvariant == BrokerSpec => []TraceInv
<1>1. MemoryInv /\ TraceInv /\ [BrokerNext]_brokerVars => TraceInv'
  <2> SUFFICES ASSUME MemoryInv, TraceInv, [BrokerNext]_brokerVars PROVE TraceInv'
    OBVIOUS
  <2>1. StoreInv /\ TypeInv /\ ReleasesTraced
    BY DEF MemoryInv, LedgerInv, TraceInv
  <2>2. MintTrail'
    BY <2>1, TraceStep
  <2>3. ReleasesTraced'
    BY <2>1, ReleasesStep
  <2> QED BY <2>2, <2>3 DEF TraceInv, MintTrail
<1> QED BY <1>1, TraceStart, MemoryInvariant, PTL DEF BrokerSpec

\* Whatever the interleaving of request handlers, deciders, executors and restarts: a secret
\* that left the broker has its minting, its consumption and its retrieval on record in this
\* order, and every minting by hand its own approval before it.
THEOREM BrokerReleaseTraced == BrokerSpec => []ReleaseTraced
<1>1. TraceInv => ReleaseTraced
  BY DEF TraceInv, ReleasesTraced, MintsTraced, MintTraced, ReleaseTraced
<1> QED BY <1>1, TraceInvariant, PTL

\* A request is minted at most once between two restarts, however many handlers may decide it.
THEOREM BrokerOneMintPerSubmission == BrokerSpec => []OneMintPerSubmission
<1>1. TraceInv => OneMintPerSubmission
  BY DEF TraceInv, MintRights, Spent, OneMintPerSubmission
<1> QED BY <1>1, TraceInvariant, PTL
============================================================================
