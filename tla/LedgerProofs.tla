--------------------------- MODULE LedgerProofs ----------------------------
(***************************************************************************)
(* Proofs about the audit ledger, for every length of the ledger, number   *)
(* of key versions and number of keys: the chain verifies at every moment, *)
(* checkpoints pin it, and as long as no rotation is cut short and no key  *)
(* lookup fails everything that was ever signed keeps verifying.           *)
(*                                                                         *)
(* The chain alone is not inductive.  ChainInv adds that the cursor of a   *)
(* daemon that serves stands where the table ends, that its key is the one *)
(* in the keychain for a version that is registered, that a registered     *)
(* version always has its key, and that a rotation works alone and on a    *)
(* version number nobody has.  SignatureInv adds that one key signs, that  *)
(* it is the one in the keychain, and that the two tables of versions grow *)
(* in step.                                                                *)
(***************************************************************************)
EXTENDS AuditLedger, ProofLemmas

DaemonPcs == {"down", "register", "auditKey", "registerVersion", "open", "serving", "closing", "closed"}
Keyed == {"registerVersion", "open", "serving", "closing", "closed"}
RotationPcs == {"none", "pin", "storeKey", "retire", "registerNew", "storeAudit", "retireAudit", "registerAudit"}

Version0 == 0..MaxVersion

\* What the two processes hold in memory.  A hash has no type of its own.
ProcessTypes ==
  /\ events \in Seq(RangeOf(events))
  /\ daemon \in [pc : DaemonPcs, key : Keys, id : Version0, version : Version0,
                 akey : Keys, next : Nat, last : {daemon.last}]
  /\ rotation \in [pc : RotationPcs, id : Version0, key : Keys, new : Version0, fresh : Keys]

\* A version that is registered has its key in the keychain.
KeysKept == \A v \in RegisteredVersions : auditKey[v] # 0

\* secretctld: what each stage of its start-up has established, and the cursor.
DaemonHolds ==
  /\ daemon.pc \notin {"down", "register"} => daemon.id \in Versions
  /\ daemon.pc \in Keyed =>
       /\ daemon.version \in Versions
       /\ daemon.akey = auditKey[daemon.version] /\ daemon.akey # 0
  /\ daemon.pc = "registerVersion" =>
       IF Active(versions) = {} THEN daemon.version = Fallback
       ELSE versions[daemon.version] = "active"
  /\ daemon.pc \in Keyed \ {"registerVersion"} => versions[daemon.version] # "none"
  /\ Serving => daemon.next = Len(events) + 1 /\ daemon.last = LatestHash
  /\ daemon.pc \in {"closing", "closed"} =>
       events # << >> /\ events[Len(events)].version = daemon.version

\* secretctl keys rotate works alone, and on a version number nobody has.
RotationHolds ==
  /\ rotation.pc # "none" => daemon.pc = "down" /\ rotation.id \in Versions
  /\ rotation.pc = "pin" => NewVersion <= MaxVersion
  /\ rotation.pc \notin {"none", "pin"} => rotation.new \in Versions /\ versions[rotation.new] = "none"
  /\ rotation.pc \in {"retireAudit", "registerAudit"} =>
       auditKey[rotation.new] # 0 /\ RegisteredVersions # {}
  /\ rotation.pc = "retireAudit" => Active(versions) # {}

\* Every checkpoint stands at its own place of the chain.
Anchored ==
  \A cp \in checkpoints :
    /\ cp.seq \in DOMAIN events
    /\ cp.hash = events[cp.seq].hash /\ cp.version = events[cp.seq].version

ChainInv == LedgerTypeOK /\ ProcessTypes /\ KeysKept /\ DaemonHolds /\ RotationHolds /\ ChainVerifies /\ Anchored

\* One key signs, and it is the one in the keychain but for the moment a rotation replaces it.
OneSigner ==
  /\ \A v, w \in Active(SigningStates) : v = w
  /\ rotation.pc # "retire" => \A v \in Active(SigningStates) : trusted[v].pub = signing
  /\ Active(SigningStates) # {} => signing # 0

SignersHold ==
  /\ daemon.pc # "down" => daemon.key = signing /\ signing # 0
  /\ daemon.pc \notin {"down", "register"} => trusted[daemon.id].state = "active"
  /\ rotation.pc \in {"pin", "storeKey", "retire"} => trusted[rotation.id].state = "active"
  /\ rotation.pc = "pin" => rotation.key = signing
  /\ rotation.pc \in {"retire", "registerNew"} => rotation.fresh = signing
  /\ rotation.pc # "none" => signing # 0
  /\ rotation.pc = "registerNew" => Active(SigningStates) = {}

\* The two tables of key versions grow together.
RowsInStep ==
  \A v \in Versions : trusted[v].state # "none" /\ versions[v] = "none" =>
    \/ v = Fallback /\ RegisteredVersions = {}
    \/ v = rotation.new /\ rotation.pc \in {"storeAudit", "retireAudit", "registerAudit"}

\* What holds of the signatures as long as nothing went wrong.
SignatureInv ==
  /\ OneSigner /\ SignersHold /\ RowsInStep
  /\ Active(SigningStates) = {} /\ rotation.pc # "registerNew" =>
       checkpoints = {} /\ RegisteredVersions = {}
  /\ \A cp \in checkpoints : Signed(cp) /\ versions[cp.id] # "none"

CleanInv == mishaps = {} => SignatureInv

\* Zero stands for a key or a version that is not there yet.
LEMMA Zeros == 0 \in Keys /\ 0 \in Version0 /\ \A v \in Versions : v \in Version0
BY LedgerAssumption DEF Keys, Version0, Versions

\* The version a daemon loads, and the one a rotation creates.
LEMMA VersionsChosen ==
  /\ Fallback \in Versions
  /\ Active(versions) # {} => LatestActiveVersion \in Active(versions)
  /\ LatestActiveVersion \in Versions
  /\ NewVersion \in Nat \ {0} /\ NewVersion \notin RegisteredVersions
<1> USE LedgerAssumption
<1>1. Fallback \in Versions
  BY DEF Fallback, Versions
<1>2. Active(versions) # {} => LatestActiveVersion \in Active(versions)
  <2> SUFFICES ASSUME Active(versions) # {} PROVE LatestActiveVersion \in Active(versions)
    OBVIOUS
  <2>1. \E v \in Active(versions) : \A w \in Active(versions) : w <= v
    <3>1. Active(versions) \in SUBSET (1..MaxVersion)
      BY DEF Active, Versions
    <3> QED BY <3>1, GreatestNatural
  <2> QED BY <2>1 DEF LatestActiveVersion
<1>3. LatestActiveVersion \in Versions
  BY <1>1, <1>2 DEF LatestActiveVersion, Active
<1>4. NewVersion \in Nat \ {0} /\ NewVersion \notin RegisteredVersions
  <2>0. RegisteredVersions \in SUBSET (1..MaxVersion)
    BY DEF RegisteredVersions, Versions
  <2>1. CASE RegisteredVersions = {}
    BY <2>1 DEF NewVersion
  <2>2. CASE RegisteredVersions # {}
    <3> DEFINE top == CHOOSE v \in RegisteredVersions : \A w \in RegisteredVersions : w <= v
    <3>1. \E v \in RegisteredVersions : \A w \in RegisteredVersions : w <= v
      BY <2>0, <2>2, GreatestNatural
    <3>2. top \in RegisteredVersions /\ \A w \in RegisteredVersions : w <= top
      BY <3>1
    <3>3. NewVersion = top + 1
      BY <2>2 DEF NewVersion
    <3> HIDE DEF top
    <3>4. top \in Nat /\ \A w \in RegisteredVersions : w \in Nat
      BY <2>0, <3>2
    <3> QED BY <3>2, <3>3, <3>4
  <2> QED BY <2>1, <2>2
<1> QED BY <1>1, <1>2, <1>3, <1>4

\* An empty database and an empty keychain.
LEMMA LedgerStarts == LedgerInit => ChainInv
<1> SUFFICES ASSUME LedgerInit PROVE ChainInv
  OBVIOUS
<1> USE LedgerAssumption DEF LedgerInit
<1>1. LedgerTypeOK
  <2>1. sock \in BOOLEAN
    BY Zenon
  <2> QED BY <2>1 DEF LedgerTypeOK, Keys, States
<1>2. ProcessTypes
  BY Zeros DEF ProcessTypes, DaemonDown, NoRotation, DaemonPcs, RotationPcs, RangeOf
<1>3. KeysKept /\ Anchored /\ ChainVerifies
  BY DEF KeysKept, RegisteredVersions, Anchored, ChainVerifies, ChainOK
<1>4. DaemonHolds /\ RotationHolds
  BY DEF DaemonHolds, RotationHolds, DaemonDown, NoRotation, Keyed, Serving
<1> QED BY <1>1, <1>2, <1>3, <1>4 DEF ChainInv

\* The parts of the invariant that read only the ledger, the registered versions and their
\* keys survive a step that leaves those alone.
LEMMA ChainFrame ==
  ASSUME ChainInv, UNCHANGED <<events, checkpoints>>,
         \A v \in RegisteredVersions : v \in RegisteredVersions' /\ auditKey'[v] = auditKey[v]
  PROVE  ChainVerifies' /\ Anchored'
<1>1. \A i \in DOMAIN events : events[i].version \in RegisteredVersions
  BY DEF ChainInv, ChainVerifies, ChainOK
<1> QED BY <1>1 DEF ChainInv, ChainVerifies, ChainOK, Anchored

\* The start of secretctld, its end, and the operator's hand on the socket.
LEMMA StartupKeepsChain ==
  ASSUME ChainInv
  PROVE  \/ rotation.pc = "none" /\ \E found \in BOOLEAN : LoadSigningKey(found)
         \/ RegisterSigningKey \/ LoadAuditKey \/ RegisterAuditVersion \/ OpenCursor
         \/ DaemonEnds \/ RemoveSocket
         => ChainInv'
<1> USE LedgerAssumption DEF ChainInv
<1>s. sock \in BOOLEAN
  BY DEF LedgerTypeOK
<1>1. ASSUME rotation.pc = "none", NEW found \in BOOLEAN, LoadSigningKey(found) PROVE ChainInv'
  <2> USE <1>1 DEF LoadSigningKey, tables, keychain
  <2>1. LedgerTypeOK'
    BY DEF LedgerTypeOK, CanGenerate, Keys
  <2>t. ProcessTypes'
    <3>1. daemon' = [DaemonDown EXCEPT !.pc = "register", !.key = signing']
      BY Zenon
    <3>2. signing' \in Keys
      BY <2>1 DEF LedgerTypeOK
    <3> HIDE <1>1
    <3>3. UNCHANGED <<events, rotation>>
      BY <1>1
    <3> QED BY <3>1, <3>2, <3>3, Zeros DEF ProcessTypes, DaemonDown, DaemonPcs
  <2>2. KeysKept' /\ RotationHolds' /\ DaemonHolds'
    BY DEF KeysKept, RegisteredVersions, RotationHolds, DaemonHolds, DaemonDown, Keyed, Serving,
       NewVersion, Active
  <2>3. ChainVerifies' /\ Anchored'
    BY ChainFrame DEF RegisteredVersions
  <2> QED BY <2>1, <2>t, <2>2, <2>3
<1>2. ASSUME RegisterSigningKey PROVE ChainInv'
  <2> USE <1>2 DEF RegisterSigningKey, tables, keychain
  <2>0. /\ daemon' = [daemon EXCEPT !.pc = "auditKey", !.id = daemon'.id]
        /\ daemon'.id \in Versions
    BY VersionsChosen DEF Active, ProcessTypes
  <2>1. LedgerTypeOK'
    <3>1. trusted' \in [Versions -> [pub : Keys, state : States]]
      BY VersionsChosen DEF LedgerTypeOK, ProcessTypes, States
    <3> QED BY <3>1 DEF LedgerTypeOK
  <2>t. ProcessTypes'
    BY <2>0, Zeros DEF ProcessTypes, DaemonPcs
  <2>2. KeysKept' /\ RotationHolds' /\ DaemonHolds'
    BY <2>0 DEF ProcessTypes, KeysKept, RegisteredVersions, RotationHolds, DaemonHolds, Keyed,
       Serving, NewVersion, Active
  <2>3. ChainVerifies' /\ Anchored'
    BY ChainFrame DEF RegisteredVersions
  <2> QED BY <2>1, <2>t, <2>2, <2>3
<1>3. ASSUME LoadAuditKey PROVE ChainInv'
  <2> USE <1>3 DEF LoadAuditKey, tables, keychain
  <2> DEFINE v == LatestActiveVersion
  <2>0. v \in Versions /\ (Active(versions) # {} => v \in Active(versions)) /\ (Active(versions) = {} => v = Fallback)
    BY VersionsChosen DEF LatestActiveVersion
  <2> HIDE DEF v
  <2>a. /\ daemon' = [daemon EXCEPT !.pc = "registerVersion", !.version = v, !.akey = auditKey'[v]]
        /\ auditKey'[v] # 0 /\ \A w \in Versions : auditKey[w] # 0 => auditKey'[w] = auditKey[w]
    <3>1. CASE auditKey[v] # 0
      BY <2>0, <3>1 DEF v
    <3>2. CASE auditKey[v] = 0
      <4>1. generated' # 0 /\ auditKey' = [auditKey EXCEPT ![v] = generated']
        BY <3>2 DEF v, LedgerTypeOK, Keys
      <4> QED BY <2>0, <3>2, <4>1 DEF v, LedgerTypeOK
    <3> QED BY <3>1, <3>2
  <2>1. LedgerTypeOK'
    BY <2>0 DEF v, LedgerTypeOK, Keys, CanGenerate
  <2>t. ProcessTypes'
    <3>1. auditKey'[v] \in Keys
      BY <2>0, <2>1 DEF LedgerTypeOK
    <3> QED BY <2>0, <2>a, <3>1, Zeros DEF ProcessTypes, DaemonPcs
  <2>2. KeysKept' /\ RotationHolds' /\ DaemonHolds'
    BY <2>0, <2>a DEF ProcessTypes, KeysKept, RegisteredVersions, RotationHolds, DaemonHolds,
       Keyed, Serving, NewVersion, Active
  <2>3. ChainVerifies' /\ Anchored'
    BY <2>a, ChainFrame DEF RegisteredVersions, KeysKept
  <2> QED BY <2>1, <2>t, <2>2, <2>3
<1>4. ASSUME RegisterAuditVersion PROVE ChainInv'
  <2> USE <1>4 DEF RegisterAuditVersion, tables, keychain
  <2>1. LedgerTypeOK' /\ ProcessTypes'
    BY DEF LedgerTypeOK, ProcessTypes, States, DaemonPcs
  <2>2. KeysKept' /\ RotationHolds' /\ DaemonHolds'
    BY DEF LedgerTypeOK, ProcessTypes, KeysKept, RegisteredVersions, RotationHolds, DaemonHolds,
       Keyed, Serving, NewVersion, Active
  <2>3. ChainVerifies' /\ Anchored'
    BY ChainFrame DEF RegisteredVersions, LedgerTypeOK
  <2> QED BY <2>1, <2>2, <2>3
<1>5. ASSUME OpenCursor PROVE ChainInv'
  <2> USE <1>5 DEF OpenCursor, tables, keychain
  <2>1. LedgerTypeOK' /\ ProcessTypes'
    <3>1. sock' \in BOOLEAN
      BY Zenon
    <3>2. Len(events) + 1 \in Nat
      BY DEF ProcessTypes
    <3> QED BY <3>1, <3>2 DEF LedgerTypeOK, ProcessTypes, DaemonPcs
  <2>2. KeysKept' /\ RotationHolds' /\ DaemonHolds'
    BY DEF ProcessTypes, KeysKept, RegisteredVersions, RotationHolds, DaemonHolds, Keyed,
       Serving, NewVersion, Active, LatestHash
  <2>3. ChainVerifies' /\ Anchored'
    BY ChainFrame DEF RegisteredVersions
  <2> QED BY <2>1, <2>2, <2>3
<1>6. ASSUME DaemonEnds PROVE ChainInv'
  <2> USE <1>6 DEF DaemonEnds, tables, keychain
  <2>1. LedgerTypeOK' /\ ProcessTypes'
    BY Zeros DEF LedgerTypeOK, ProcessTypes, DaemonPcs, DaemonDown
  <2>2. KeysKept' /\ RotationHolds' /\ DaemonHolds'
    BY DEF KeysKept, RegisteredVersions, RotationHolds, DaemonHolds, DaemonDown, Keyed, Serving,
       NewVersion, Active
  <2>3. ChainVerifies' /\ Anchored'
    BY ChainFrame DEF RegisteredVersions
  <2> QED BY <2>1, <2>2, <2>3
<1>7. ASSUME RemoveSocket PROVE ChainInv'
  <2> USE <1>7 DEF RemoveSocket, tables, keychain
  <2>1. LedgerTypeOK' /\ ProcessTypes'
    BY DEF LedgerTypeOK, ProcessTypes
  <2>2. KeysKept' /\ RotationHolds' /\ DaemonHolds'
    BY DEF KeysKept, RegisteredVersions, RotationHolds, DaemonHolds, Serving, NewVersion, Active,
       LatestHash
  <2>3. ChainVerifies' /\ Anchored'
    BY ChainFrame DEF RegisteredVersions
  <2> QED BY <2>1, <2>2, <2>3
<1> QED BY <1>1, <1>2, <1>3, <1>4, <1>5, <1>6, <1>7

\* An append through the cursor extends the chain: the cursor is where the table ends and
\* the key is the one registered for its version.
LEMMA AppendExtendsChain ==
  ASSUME ChainInv, Serving, events' = Append(events, NextEvent),
         UNCHANGED <<checkpoints, versions, auditKey>>
  PROVE  /\ ChainVerifies' /\ Anchored'
         /\ events' \in Seq(RangeOf(events')) /\ events' # << >>
         /\ \A i \in DOMAIN events' : events'[i].seq \in Nat /\ events'[i].version \in Versions
         /\ Len(events') = daemon.next /\ daemon.next \in Nat
         /\ LatestHash' = NextEvent.hash
         /\ events'[Len(events')].version = daemon.version
<1> USE DEF ChainInv
<1> DEFINE n == Len(events)
<1>1. /\ events' \in Seq(RangeOf(events')) /\ n \in Nat /\ DOMAIN events = 1..n
      /\ Len(events') = n + 1 /\ DOMAIN events' = 1..(n + 1)
      /\ events'[n + 1] = NextEvent /\ \A i \in 1..n : events'[i] = events[i]
  BY AppendSeq DEF ProcessTypes
<1>0. /\ NextEvent.seq = daemon.next /\ NextEvent.version = daemon.version
      /\ NextEvent.prev = daemon.last
      /\ NextEvent.hash = Mac(daemon.akey, daemon.version, daemon.last, daemon.next)
  BY DEF NextEvent
<1>2. daemon.next = n + 1 /\ daemon.last = LatestHash
  BY DEF DaemonHolds
<1>3. /\ daemon.version \in RegisteredVersions /\ daemon.version \in Versions
      /\ daemon.akey = auditKey[daemon.version]
  BY DEF DaemonHolds, Serving, Keyed, RegisteredVersions
<1>4. events' # << >>
  BY <1>1
<1>5. LatestHash' = NextEvent.hash /\ events'[Len(events')].version = daemon.version
  BY <1>0, <1>1, <1>4 DEF LatestHash
<1>6. \A i \in DOMAIN events' : events'[i].seq \in Nat /\ events'[i].version \in Versions
  BY <1>0, <1>1, <1>2, <1>3 DEF LedgerTypeOK
<1>7. RegisteredVersions' = RegisteredVersions
  BY DEF RegisteredVersions
<1> HIDE DEF n
<1>8. ChainVerifies'
  <2> SUFFICES ASSUME NEW i \in 1..(n + 1)
               PROVE  /\ events'[i].seq = i
                      /\ events'[i].prev = IF i = 1 THEN Genesis ELSE events'[i - 1].hash
                      /\ events'[i].version \in RegisteredVersions
                      /\ events'[i].hash = Mac(auditKey[events'[i].version], events'[i].version,
                                               events'[i].prev, events'[i].seq)
    BY <1>1, <1>7 DEF ChainVerifies, ChainOK
  <2>1. CASE i \in 1..n
    <3>1. i = 1 \/ i - 1 \in 1..n
      BY <1>1
    <3> QED BY <1>1, <2>1, <3>1 DEF ChainVerifies, ChainOK
  <2>2. CASE i = n + 1
    <3>1. daemon.last = IF n = 0 THEN Genesis ELSE events[n].hash
      BY <1>1, <1>2 DEF n, LatestHash, ProcessTypes
    <3>2. events'[n + 1].prev = IF n + 1 = 1 THEN Genesis ELSE events'[n].hash
      BY <1>0, <1>1, <3>1
    <3> QED BY <1>0, <1>1, <1>2, <1>3, <2>2, <3>2
  <2> QED BY <1>1, <2>1, <2>2
<1>9. Anchored'
  BY <1>1 DEF Anchored
<1> QED BY <1>1, <1>2, <1>4, <1>5, <1>6, <1>8, <1>9

\* Appending, with writes that may fail, and the checkpoint at shutdown.
LEMMA ServingKeepsChain ==
  ASSUME ChainInv
  PROVE  (\E ok \in BOOLEAN : Record(ok)) \/ CloseWithEvent \/ WriteCheckpoint => ChainInv'
<1> USE LedgerAssumption DEF ChainInv
<1>1. ASSUME NEW ok \in BOOLEAN, Record(ok) PROVE ChainInv'
  <2>1. CASE UNCHANGED <<events, daemon>>
    <3>1. UNCHANGED ledgerVars
      BY <1>1, <2>1 DEF Record, ledgerVars, tables
    <3> QED BY <3>1 DEF ledgerVars, tables, keychain, LedgerTypeOK, ProcessTypes, KeysKept,
               RegisteredVersions,
              DaemonHolds, RotationHolds, ChainVerifies, ChainOK, Anchored, Serving, LatestHash,
              NewVersion, Active
  <2>2. CASE /\ events' = Append(events, NextEvent)
             /\ daemon' = [daemon EXCEPT !.next = @ + 1, !.last = NextEvent.hash]
    <3> USE DEF keychain
    <3>0. /\ Serving /\ daemon.pc # "registerVersion"
          /\ UNCHANGED <<checkpoints, trusted, versions, keychain, rotation, sock, mishaps>>
      BY <1>1 DEF Record, Serving
    <3>1. /\ ChainVerifies' /\ Anchored'
          /\ events' \in Seq(RangeOf(events')) /\ events' # << >>
          /\ \A i \in DOMAIN events' : events'[i].seq \in Nat /\ events'[i].version \in Versions
          /\ Len(events') = daemon.next /\ daemon.next \in Nat
          /\ LatestHash' = NextEvent.hash
          /\ events'[Len(events')].version = daemon.version
      BY <2>2, <3>0, AppendExtendsChain
    <3>2. LedgerTypeOK'
      BY <3>0, <3>1 DEF LedgerTypeOK
    <3>3. ProcessTypes'
      <4>1. daemon.next + 1 \in Nat
        BY <3>1
      <4> QED BY <2>2, <3>0, <3>1, <4>1 DEF ProcessTypes
    <3>4. KeysKept' /\ RotationHolds'
      BY <2>2, <3>0 DEF ProcessTypes, KeysKept, RegisteredVersions, RotationHolds, NewVersion,
         Active
    <3>5. DaemonHolds'
      BY <2>2, <3>0, <3>1 DEF ProcessTypes, DaemonHolds, Serving, Keyed
    <3> QED BY <3>1, <3>2, <3>3, <3>4, <3>5
  <2> QED BY <1>1, <2>1, <2>2 DEF Record
<1>2. ASSUME CloseWithEvent PROVE ChainInv'
  <2> USE DEF keychain
  <2>0. /\ Serving /\ daemon.pc = "serving"
        /\ events' = Append(events, NextEvent)
        /\ daemon' = [daemon EXCEPT !.next = @ + 1, !.last = NextEvent.hash, !.pc = "closing"]
        /\ UNCHANGED <<checkpoints, trusted, versions, keychain, rotation, sock, mishaps>>
    BY <1>2 DEF CloseWithEvent, Serving
  <2>1. /\ ChainVerifies' /\ Anchored'
        /\ events' \in Seq(RangeOf(events')) /\ events' # << >>
        /\ \A i \in DOMAIN events' : events'[i].seq \in Nat /\ events'[i].version \in Versions
        /\ Len(events') = daemon.next /\ daemon.next \in Nat
        /\ LatestHash' = NextEvent.hash
        /\ events'[Len(events')].version = daemon.version
    BY <2>0, AppendExtendsChain
  <2>2. LedgerTypeOK'
    BY <2>0, <2>1 DEF LedgerTypeOK
  <2>3. ProcessTypes'
    <3>1. daemon.next + 1 \in Nat
      BY <2>1
    <3> QED BY <2>0, <2>1, <3>1 DEF ProcessTypes, DaemonPcs
  <2>4. KeysKept' /\ RotationHolds'
    BY <2>0 DEF ProcessTypes, KeysKept, RegisteredVersions, RotationHolds, NewVersion, Active
  <2>5. DaemonHolds'
    BY <2>0, <2>1 DEF ProcessTypes, DaemonHolds, Serving, Keyed
  <2> QED BY <2>1, <2>2, <2>3, <2>4, <2>5
<1>3. ASSUME WriteCheckpoint PROVE ChainInv'
  <2> USE <1>3 DEF WriteCheckpoint, keychain
  <2> DEFINE cp == Checkpoint(daemon.next - 1, daemon.last, daemon.version, daemon.id, daemon.key)
  <2>1. daemon.next - 1 = Len(events) /\ Len(events) \in DOMAIN events /\ daemon.version \in Versions /\ daemon.id \in Versions
    BY DEF DaemonHolds, ProcessTypes, Serving, Keyed
  <2>2. daemon.last = events[Len(events)].hash /\ daemon.version = events[Len(events)].version
    BY DEF DaemonHolds, Serving, LatestHash
  <2>3. LedgerTypeOK'
    <3>1. daemon.next - 1 \in Nat /\ daemon.key \in Keys
      BY <2>1 DEF ProcessTypes
    <3> QED BY <2>1, <3>1 DEF LedgerTypeOK, Checkpoint
  <2>4. ProcessTypes'
    BY DEF ProcessTypes, DaemonPcs
  <2>5. KeysKept' /\ RotationHolds'
    BY DEF ProcessTypes, KeysKept, RegisteredVersions, RotationHolds, NewVersion, Active
  <2>6. DaemonHolds'
    BY DEF ProcessTypes, DaemonHolds, Serving, Keyed, LatestHash
  <2>7. ChainVerifies' /\ Anchored'
    BY <2>1, <2>2 DEF ChainVerifies, ChainOK, RegisteredVersions, Anchored, Checkpoint
  <2> QED BY <2>3, <2>4, <2>5, <2>6, <2>7
<1> QED BY <1>1, <1>2, <1>3

\* Every write of `secretctl keys rotate`, and its end anywhere between two of them.
LEMMA RotationKeepsChain == ASSUME ChainInv PROVE RotationStep => ChainInv'
<1> USE LedgerAssumption DEF ChainInv
<1>1. ASSUME StartRotation PROVE ChainInv'
  <2> USE <1>1 DEF StartRotation, tables, keychain
  <2>0. rotation' = [NoRotation EXCEPT !.pc = "pin", !.key = signing, !.id = rotation'.id] /\ rotation'.id \in Versions
    <3>1. (CHOOSE v \in Active(SigningStates) : TRUE) \in Versions
      BY DEF Active
    <3> QED BY <3>1 DEF NoRotation
  <2>1. LedgerTypeOK' /\ ProcessTypes'
    BY <2>0, Zeros DEF LedgerTypeOK, ProcessTypes, RotationPcs, NoRotation
  <2>2. KeysKept' /\ DaemonHolds' /\ RotationHolds'
    BY <2>0 DEF KeysKept, RegisteredVersions, DaemonHolds, RotationHolds, NoRotation, Serving,
       LatestHash, NewVersion, Active
  <2>3. ChainVerifies' /\ Anchored'
    BY ChainFrame DEF RegisteredVersions
  <2> QED BY <2>1, <2>2, <2>3
<1>2. ASSUME PinLastEvent PROVE ChainInv'
  <2> USE <1>2 DEF PinLastEvent, tables, keychain
  <2> DEFINE last == events[Len(events)]
             cp == Checkpoint(last.seq, last.hash, last.version, rotation.id, rotation.key)
  <2>0. NewVersion \in Versions /\ versions[NewVersion] = "none" /\ rotation.id \in Versions
    BY VersionsChosen DEF RotationHolds, RegisteredVersions, Versions
  <2>1. checkpoints' \subseteq checkpoints \cup (IF events = << >> THEN {} ELSE {cp})
    OBVIOUS
  <2>2. events # << >> => Len(events) \in DOMAIN events /\ last.seq = Len(events)
    BY DEF ProcessTypes, ChainVerifies, ChainOK
  <2>3. LedgerTypeOK'
    BY <2>0, <2>1, <2>2 DEF LedgerTypeOK, Checkpoint, ProcessTypes
  <2>4. ProcessTypes'
    BY <2>0, Zeros DEF ProcessTypes, RotationPcs
  <2>5. KeysKept' /\ DaemonHolds' /\ RotationHolds'
    BY <2>0 DEF ProcessTypes, KeysKept, RegisteredVersions, DaemonHolds, RotationHolds, Serving,
       LatestHash, NewVersion, Active
  <2>6. Anchored'
    BY <2>1, <2>2 DEF Anchored, Checkpoint
  <2>7. ChainVerifies'
    BY DEF ChainVerifies, ChainOK, RegisteredVersions
  <2> QED BY <2>3, <2>4, <2>5, <2>6, <2>7
<1>3. ASSUME StoreSigningKey PROVE ChainInv'
  <2> USE <1>3 DEF StoreSigningKey, tables, keychain
  <2>0. generated' \in Keys
    BY DEF LedgerTypeOK, Keys, CanGenerate
  <2>1. LedgerTypeOK' /\ ProcessTypes'
    BY <2>0 DEF LedgerTypeOK, ProcessTypes, RotationPcs
  <2>2. KeysKept' /\ DaemonHolds' /\ RotationHolds'
    BY DEF ProcessTypes, KeysKept, RegisteredVersions, DaemonHolds, RotationHolds, Serving,
       LatestHash, NewVersion, Active
  <2>3. ChainVerifies' /\ Anchored'
    BY ChainFrame DEF RegisteredVersions
  <2> QED BY <2>1, <2>2, <2>3
<1>4. ASSUME RetireSigningKey \/ RegisterNewKey PROVE ChainInv'
  <2> USE <1>4 DEF RetireSigningKey, RegisterNewKey, tables, keychain
  <2>0. trusted' \in [Versions -> [pub : Keys, state : States]]
    <3>1. rotation.id \in Versions /\ rotation.fresh \in Keys /\ trusted \in [Versions -> [pub : Keys, state : States]]
          /\ "retired" \in States /\ "active" \in States
      BY DEF LedgerTypeOK, ProcessTypes, RotationHolds, States
    <3>2. CASE RetireSigningKey
      <4>1. trusted' = [trusted EXCEPT ![rotation.id] = [trusted[rotation.id] EXCEPT !.state = "retired"]]
        BY <3>1, <3>2
      <4> QED BY <3>1, <4>1
    <3>3. CASE RegisterNewKey
      BY <3>1, <3>3
    <3> QED BY <3>2, <3>3
  <2>1. LedgerTypeOK' /\ ProcessTypes'
    BY <2>0 DEF LedgerTypeOK, ProcessTypes, RotationPcs
  <2>2. KeysKept' /\ DaemonHolds' /\ RotationHolds'
    BY DEF ProcessTypes, KeysKept, RegisteredVersions, DaemonHolds, RotationHolds, Serving,
       LatestHash, NewVersion, Active
  <2>3. ChainVerifies' /\ Anchored'
    BY ChainFrame DEF RegisteredVersions
  <2> QED BY <2>1, <2>2, <2>3
<1>5. ASSUME StoreAuditKey PROVE ChainInv'
  <2> USE <1>5 DEF StoreAuditKey, tables, keychain
  <2>0. generated' \in Keys /\ generated' # 0
    BY DEF LedgerTypeOK, Keys, CanGenerate
  <2>a. /\ rotation.new \in Versions /\ rotation.new \notin RegisteredVersions
        /\ auditKey'[rotation.new] # 0
        /\ \A v \in RegisteredVersions : auditKey'[v] = auditKey[v]
        /\ auditKey' \in [Versions -> Keys]
    BY <2>0 DEF LedgerTypeOK, RotationHolds, RegisteredVersions
  <2>b. RegisteredVersions # {} /\ RegisteredVersions' = RegisteredVersions
    BY DEF RegisteredVersions, Active
  <2>1. LedgerTypeOK' /\ ProcessTypes'
    BY <2>0, <2>a DEF LedgerTypeOK, ProcessTypes, RotationPcs
  <2>2. KeysKept'
    BY <2>a, <2>b DEF KeysKept
  <2>3. RotationHolds'
    BY <2>a, <2>b DEF ProcessTypes, RotationHolds, Active
  <2>4. DaemonHolds'
    BY DEF RotationHolds, DaemonHolds, Serving, Keyed
  <2>5. ChainVerifies' /\ Anchored'
    BY <2>a, <2>b, ChainFrame
  <2> QED BY <2>1, <2>2, <2>3, <2>4, <2>5
<1>6. ASSUME RetireAuditVersion PROVE ChainInv'
  <2> USE <1>6 DEF RetireAuditVersion, tables, keychain
  <2> DEFINE v == LatestActiveVersion
  <2>0. v \in RegisteredVersions /\ v \in Versions
    BY VersionsChosen DEF RotationHolds, Active, RegisteredVersions
  <2> HIDE DEF v
  <2>a. versions' = [versions EXCEPT ![v] = "retired"] /\ versions' \in [Versions -> States]
    BY <2>0 DEF v, LedgerTypeOK, States
  <2>b. RegisteredVersions' = RegisteredVersions
    BY <2>0, <2>a DEF LedgerTypeOK, RegisteredVersions
  <2>c. versions'[rotation.new] = "none"
    BY <2>0, <2>a DEF RotationHolds, RegisteredVersions, LedgerTypeOK
  <2>1. LedgerTypeOK' /\ ProcessTypes'
    BY <2>a DEF LedgerTypeOK, ProcessTypes, RotationPcs
  <2>2. KeysKept'
    BY <2>b DEF KeysKept
  <2>3. RotationHolds'
    BY <2>b, <2>c DEF ProcessTypes, RotationHolds
  <2>4. DaemonHolds'
    BY DEF RotationHolds, DaemonHolds, Serving, Keyed
  <2>5. ChainVerifies' /\ Anchored'
    BY <2>b, ChainFrame
  <2> QED BY <2>1, <2>2, <2>3, <2>4, <2>5
<1>7. ASSUME RegisterNewVersion PROVE ChainInv'
  <2> USE <1>7 DEF RegisterNewVersion, tables, keychain
  <2>a. versions' \in [Versions -> States] /\ rotation.new \in Versions
    BY DEF LedgerTypeOK, States, RotationHolds
  <2>b. RegisteredVersions' = RegisteredVersions \cup {rotation.new}
    BY <2>a DEF LedgerTypeOK, RegisteredVersions
  <2>1. LedgerTypeOK' /\ ProcessTypes'
    BY <2>a, Zeros DEF LedgerTypeOK, ProcessTypes, RotationPcs, NoRotation
  <2>2. KeysKept'
    BY <2>b DEF KeysKept, RotationHolds
  <2>3. RotationHolds'
    BY DEF RotationHolds, NoRotation
  <2>4. DaemonHolds'
    BY DEF RotationHolds, DaemonHolds, Serving, Keyed
  <2>5. ChainVerifies' /\ Anchored'
    BY <2>b, ChainFrame
  <2> QED BY <2>1, <2>2, <2>3, <2>4, <2>5
<1>8. ASSUME RotationEnds PROVE ChainInv'
  <2> USE <1>8 DEF RotationEnds, tables, keychain
  <2>1. LedgerTypeOK' /\ ProcessTypes'
    BY Zeros DEF LedgerTypeOK, ProcessTypes, RotationPcs, NoRotation
  <2>2. KeysKept' /\ DaemonHolds' /\ RotationHolds'
    BY DEF KeysKept, RegisteredVersions, DaemonHolds, RotationHolds, NoRotation, Serving,
       LatestHash, Active
  <2>3. ChainVerifies' /\ Anchored'
    BY ChainFrame DEF RegisteredVersions
  <2> QED BY <2>1, <2>2, <2>3
<1> QED BY <1>1, <1>2, <1>3, <1>4, <1>5, <1>6, <1>7, <1>8 DEF RotationStep

\* Every step keeps the invariant.
LEMMA LedgerStepKeepsChain == ASSUME ChainInv, [LedgerNext]_ledgerVars PROVE ChainInv'
<1>1. CASE DaemonStep
  BY <1>1, StartupKeepsChain, ServingKeepsChain DEF DaemonStep
<1>2. CASE RotationStep
  BY <1>2, RotationKeepsChain
<1>3. CASE RemoveSocket
  BY <1>3, StartupKeepsChain
<1>4. CASE UNCHANGED ledgerVars
  BY <1>4 DEF ledgerVars, tables, keychain, ChainInv, LedgerTypeOK, ProcessTypes, KeysKept,
     RegisteredVersions,
     DaemonHolds, RotationHolds, ChainVerifies, ChainOK, Anchored, Serving, LatestHash,
     NewVersion, Active
<1> QED BY <1>1, <1>2, <1>3, <1>4 DEF LedgerNext

\* The inductive invariant of the ledger's integrity.
LEMMA ChainInvHolds == LedgerSpec => []ChainInv
BY LedgerStarts, LedgerStepKeepsChain, PTL DEF LedgerSpec

\* A checkpoint anchored at its own sequence number is not satisfied by a shorter ledger.
LEMMA AnchoredPins == ASSUME ChainInv PROVE CheckpointsPin
<1> SUFFICES ASSUME NEW cp \in checkpoints
             PROVE  /\ Pinned(cp, events)
                    /\ \A n \in 0..(cp.seq - 1) : ~ Pinned(cp, SubSeq(events, 1, n))
  BY DEF CheckpointsPin
<1>1. events \in Seq(RangeOf(events)) /\ \A i \in DOMAIN events : events[i].seq = i
  BY DEF ChainInv, ProcessTypes, ChainVerifies, ChainOK
<1>2. /\ cp.seq \in DOMAIN events
      /\ cp.hash = events[cp.seq].hash /\ cp.version = events[cp.seq].version
  BY DEF ChainInv, Anchored
<1>3. Pinned(cp, events)
  BY <1>1, <1>2 DEF Pinned
<1>4. ASSUME NEW n \in 0..(cp.seq - 1), Pinned(cp, SubSeq(events, 1, n)) PROVE FALSE
  <2>1. n \in Nat /\ n < cp.seq /\ cp.seq <= Len(events) /\ cp.seq \in Nat
    <3>1. cp.seq \in 1..Len(events) /\ Len(events) \in Nat
      BY <1>1, <1>2
    <3> QED BY <3>1
  <2>2. DOMAIN SubSeq(events, 1, n) = 1..n /\ \A i \in 1..n : SubSeq(events, 1, n)[i] = events[i]
    BY <1>1, <2>1
  <2>3. PICK i \in 1..n : SubSeq(events, 1, n)[i].seq = cp.seq
    BY <1>4, <2>2 DEF Pinned
  <2> QED BY <1>1, <2>1, <2>2, <2>3
<1> QED BY <1>3, <1>4

\* The tables, the keychain and the checkpoints have their types: in particular a checkpoint's
\* signer and key id, and every event's key version, are ones the verifier can look up.
THEOREM LedgerTypeCorrect == LedgerSpec => []LedgerTypeOK
BY ChainInvHolds, PTL DEF ChainInv

\* verify_audit's chain part holds in every reachable state: crashes between any two writes,
\* failed writes, restarts and rotations, complete or cut short, never break the hash chain.
THEOREM LedgerChainVerifies == LedgerSpec => []ChainVerifies
BY ChainInvHolds, PTL DEF ChainInv

\* Every checkpoint matches the event of its own sequence number and no ledger that lost
\* that event or its tail from there on (write_audit_checkpoint, the rotation's pin).
THEOREM LedgerCheckpointsPin == LedgerSpec => []CheckpointsPin
BY ChainInvHolds, AnchoredPins, PTL

\* A daemon that finds its keys signs with the key the table names.
LEMMA DaemonKeepsSignatures ==
  ASSUME ChainInv, SignatureInv, mishaps' = {}
  PROVE  DaemonStep \/ RemoveSocket => SignatureInv'
<1> USE DEF ChainInv, SignatureInv
<1> DEFINE Signers == {v \in Versions : trusted[v].state = "active"}
<1>a. Active(SigningStates) = Signers /\ Active(SigningStates)' = Signers'
  BY DEF Active, SigningStates
<1> HIDE DEF Signers
<1>1. ASSUME rotation.pc = "none", NEW found \in BOOLEAN, LoadSigningKey(found) PROVE SignatureInv'
  <2>1. /\ daemon.pc = "down" /\ signing' # 0 /\ (signing # 0 => signing' = signing)
        /\ daemon' = [DaemonDown EXCEPT !.pc = "register", !.key = signing']
    <3>1. CASE signing # 0 /\ found
      BY <1>1, <3>1 DEF LoadSigningKey, keychain
    <3>2. CASE ~ (signing # 0 /\ found)
      <4>1. signing = 0
        BY <1>1, <3>2 DEF LoadSigningKey
      <4>2. generated' # 0
        BY <1>1, <3>2 DEF LoadSigningKey, LedgerTypeOK, Keys
      <4> QED BY <1>1, <3>2, <4>1, <4>2 DEF LoadSigningKey
    <3> QED BY <3>1, <3>2
  <2>2. UNCHANGED <<tables, rotation>>
    BY <1>1 DEF LoadSigningKey
  <2>3. OneSigner'
    BY <1>1, <1>a, <2>1, <2>2 DEF OneSigner, tables, Signers
  <2>4. SignersHold'
    BY <1>1, <2>1, <2>2 DEF SignersHold, tables, DaemonDown
  <2> QED BY <1>a, <2>2, <2>3, <2>4 DEF tables, RowsInStep, Signed, RegisteredVersions, Signers
<1>2. ASSUME RegisterSigningKey PROVE SignatureInv'
  <2> USE <1>2 DEF RegisterSigningKey, keychain
  <2>0. rotation.pc = "none" /\ daemon.key = signing /\ signing # 0
    BY DEF RotationHolds, SignersHold
  <2>1. CASE Signers = {}
    <3>1. checkpoints = {} /\ RegisteredVersions = {}
      BY <1>a, <2>0, <2>1
    <3>2. /\ trusted' = [trusted EXCEPT ![Fallback] = [pub |-> signing, state |-> "active"]]
          /\ daemon' = [daemon EXCEPT !.pc = "auditKey", !.id = Fallback]
      BY <1>a, <2>0, <2>1
    <3>3. /\ Signers' = {Fallback} /\ Fallback \in Versions
          /\ trusted'[Fallback].pub = signing /\ trusted'[Fallback].state = "active"
          /\ \A v \in Versions : v # Fallback => trusted'[v] = trusted[v]
      BY <2>1, <3>2, VersionsChosen DEF Signers, LedgerTypeOK
    <3>4. OneSigner' /\ SignersHold'
      BY <1>a, <2>0, <3>2, <3>3 DEF OneSigner, SignersHold, ProcessTypes
    <3>5. RowsInStep'
      BY <2>0, <3>1, <3>3 DEF RowsInStep, RegisteredVersions
    <3> QED BY <1>a, <3>1, <3>3, <3>4, <3>5
  <2>2. CASE Signers # {}
    <3>1. PICK i \in Signers : daemon' = [daemon EXCEPT !.pc = "auditKey", !.id = i]
      BY <1>a, <2>2
    <3>2. Signers' = Signers /\ UNCHANGED <<trusted, signing, rotation, versions>>
      BY <1>a, <2>2 DEF Signers
    <3>3. OneSigner' /\ SignersHold'
      BY <1>a, <2>0, <2>2, <3>1, <3>2 DEF OneSigner, SignersHold, Signers, ProcessTypes
    <3> QED BY <1>a, <3>2, <3>3 DEF RowsInStep, Signed, RegisteredVersions
  <2> QED BY <2>1, <2>2
<1>3. ASSUME LoadAuditKey \/ OpenCursor \/ DaemonEnds \/ RemoveSocket \/ CloseWithEvent
             \/ \E ok \in BOOLEAN : Record(ok)
      PROVE  SignatureInv'
  <2>1. UNCHANGED <<checkpoints, trusted, versions, signing, rotation>>
    BY <1>3 DEF LoadAuditKey, OpenCursor, DaemonEnds, RemoveSocket, CloseWithEvent, Record,
       tables, keychain
  <2>2. \/ daemon'.pc = "down"
        \/ /\ daemon.pc \notin {"down", "register"} /\ daemon'.key = daemon.key /\ daemon'.id = daemon.id
    <3>1. CASE DaemonEnds \/ RemoveSocket
      BY <3>1 DEF DaemonEnds, RemoveSocket, DaemonDown
    <3>2. CASE LoadAuditKey
      BY <3>2 DEF LoadAuditKey, ProcessTypes
    <3>3. CASE OpenCursor \/ CloseWithEvent
      BY <3>3 DEF OpenCursor, CloseWithEvent, ProcessTypes
    <3>4. ASSUME NEW ok \in BOOLEAN, Record(ok)
          PROVE  /\ daemon.pc \notin {"down", "register"}
                 /\ daemon'.key = daemon.key /\ daemon'.id = daemon.id
      <4>1. \/ daemon' = [daemon EXCEPT !.next = @ + 1, !.last = NextEvent.hash]
            \/ daemon' = daemon
        BY <3>4 DEF Record
      <4> QED BY <3>4, <4>1 DEF Record, Serving, ProcessTypes
    <3> QED BY <1>3, <3>1, <3>2, <3>3, <3>4
  <2>3. OneSigner' /\ SignersHold'
    BY <1>a, <2>1, <2>2 DEF OneSigner, SignersHold, Signers
  <2> QED BY <1>a, <2>1, <2>3 DEF RowsInStep, Signed, RegisteredVersions, Signers
<1>4. ASSUME RegisterAuditVersion PROVE SignatureInv'
  <2> USE <1>4 DEF RegisterAuditVersion, keychain
  <2>0. Signers' = Signers
    BY DEF Signers
  <2>1. OneSigner' /\ SignersHold'
    BY <1>a, <2>0 DEF OneSigner, SignersHold, ProcessTypes
  <2>2. daemon.id \in Signers
    BY DEF SignersHold, DaemonHolds, Signers
  <2>3. RowsInStep'
    <3>1. rotation.pc = "none" /\ daemon.version \in Versions
      BY DEF RotationHolds, DaemonHolds, Keyed
    <3>2. CASE Active(versions) = {}
      <4>1. daemon.version = Fallback /\ versions' = [versions EXCEPT ![Fallback] = "active"]
        BY <3>2 DEF DaemonHolds
      <4> QED BY <3>1, <4>1 DEF RowsInStep, LedgerTypeOK
    <3>3. CASE Active(versions) # {}
      BY <3>3 DEF RowsInStep, RegisteredVersions
    <3> QED BY <3>2, <3>3
  <2>4. \A cp \in checkpoints' : Signed(cp)' /\ versions'[cp.id] # "none"
    BY DEF Signed, LedgerTypeOK, DaemonHolds
  <2> QED BY <1>a, <2>0, <2>1, <2>2, <2>3, <2>4
<1>5. ASSUME WriteCheckpoint PROVE SignatureInv'
  <2> USE <1>5 DEF WriteCheckpoint, keychain
  <2>0. Signers' = Signers /\ daemon.id \in Signers
    BY DEF Signers, SignersHold, DaemonHolds
  <2>1. OneSigner' /\ SignersHold' /\ RowsInStep'
    BY <1>a, <2>0 DEF OneSigner, SignersHold, ProcessTypes, RowsInStep, RegisteredVersions
  <2>2. trusted[daemon.id].pub = daemon.key
    BY <1>a, <2>0 DEF OneSigner, SignersHold, RotationHolds
  <2>3. versions[daemon.id] # "none"
    BY <2>0 DEF RowsInStep, DaemonHolds, RotationHolds, RegisteredVersions, Keyed, Signers
  <2>4. \A cp \in checkpoints' : Signed(cp)' /\ versions'[cp.id] # "none"
    BY <2>2, <2>3 DEF Signed, Checkpoint
  <2> QED BY <1>a, <2>0, <2>1, <2>4
<1> QED BY <1>1, <1>2, <1>3, <1>4, <1>5 DEF DaemonStep

\* A rotation that is not cut short hands the signature over from the old key to the new.
LEMMA RotationKeepsSignatures ==
  ASSUME ChainInv, SignatureInv, mishaps' = {}
  PROVE  RotationStep => SignatureInv'
<1> USE DEF ChainInv, SignatureInv
<1> DEFINE Signers == {v \in Versions : trusted[v].state = "active"}
<1>a. Active(SigningStates) = Signers /\ Active(SigningStates)' = Signers'
  BY DEF Active, SigningStates
<1> HIDE DEF Signers
<1>1. ASSUME StartRotation PROVE SignatureInv'
  <2> USE <1>1 DEF StartRotation, tables, keychain
  <2>1. PICK i \in Signers : rotation' = [NoRotation EXCEPT !.pc = "pin", !.key = signing, !.id = i]
    BY <1>a
  <2>2. rotation'.pc = "pin" /\ rotation'.key = signing /\ rotation'.id = i
    BY <2>1 DEF NoRotation
  <2>3. Signers' = Signers
    BY DEF Signers
  <2>4. OneSigner' /\ SignersHold'
    BY <1>a, <2>1, <2>2, <2>3 DEF OneSigner, SignersHold, Signers
  <2> QED BY <1>a, <2>2, <2>3, <2>4 DEF RowsInStep, Signed, RegisteredVersions
<1>2. ASSUME PinLastEvent PROVE SignatureInv'
  <2> USE <1>2 DEF PinLastEvent, keychain
  <2>0. Signers' = Signers /\ rotation.id \in Signers /\ rotation'.pc = "storeKey" /\ rotation'.id = rotation.id
    BY DEF Signers, SignersHold, RotationHolds, ProcessTypes
  <2>1. OneSigner' /\ SignersHold' /\ RowsInStep'
    BY <1>a, <2>0 DEF OneSigner, SignersHold, RowsInStep, RegisteredVersions
  <2>2. Active(SigningStates) # {}
    BY <1>a, <2>0
  <2>3. trusted[rotation.id].pub = rotation.key
    BY <1>a, <2>0 DEF OneSigner, SignersHold
  <2>4. events # << >> => versions[rotation.id] # "none"
    <3>1. events # << >> => RegisteredVersions # {}
      <4>1. events # << >> => Len(events) \in DOMAIN events
        BY DEF ProcessTypes
      <4> QED BY <4>1 DEF ChainVerifies, ChainOK
    <3> QED BY <2>0, <3>1 DEF RowsInStep, Signers
  <2>5. \A cp \in checkpoints' : Signed(cp)' /\ versions'[cp.id] # "none"
    BY <2>3, <2>4 DEF Signed, Checkpoint
  <2> QED BY <1>a, <2>0, <2>1, <2>2, <2>5
<1>3. ASSUME StoreSigningKey PROVE SignatureInv'
  <2> USE <1>3 DEF StoreSigningKey, tables
  <2>0. /\ Signers' = Signers /\ rotation.id \in Signers /\ signing' # 0
        /\ rotation'.pc = "retire" /\ rotation'.id = rotation.id /\ rotation'.fresh = signing'
    BY DEF Signers, SignersHold, RotationHolds, ProcessTypes, LedgerTypeOK, Keys
  <2>1. OneSigner' /\ SignersHold'
    BY <1>a, <2>0 DEF OneSigner, SignersHold, RotationHolds, Signers
  <2>2. RowsInStep'
    BY <2>0 DEF RowsInStep, RegisteredVersions
  <2> QED BY <1>a, <2>0, <2>1, <2>2 DEF Signed
<1>4. ASSUME RetireSigningKey PROVE SignatureInv'
  <2> USE <1>4 DEF RetireSigningKey, keychain
  <2>0. /\ rotation.id \in Signers /\ rotation'.pc = "registerNew" /\ rotation'.fresh = rotation.fresh
        /\ trusted' = [trusted EXCEPT ![rotation.id] = [trusted[rotation.id] EXCEPT !.state = "retired"]]
    BY DEF Signers, SignersHold, RotationHolds, ProcessTypes
  <2>1. /\ \A v \in Versions : trusted'[v].pub = trusted[v].pub
        /\ trusted'[rotation.id].state = "retired"
        /\ \A v \in Versions : v # rotation.id => trusted'[v] = trusted[v]
    BY <2>0 DEF LedgerTypeOK, RotationHolds
  <2>2. Signers' = {}
    BY <1>a, <2>0, <2>1 DEF Signers, OneSigner
  <2>3. OneSigner' /\ SignersHold'
    BY <1>a, <2>0, <2>2 DEF OneSigner, SignersHold, RotationHolds
  <2>4. RowsInStep'
    BY <2>0, <2>1 DEF RowsInStep, RegisteredVersions, Signers
  <2>5. \A cp \in checkpoints' : Signed(cp)' /\ versions'[cp.id] # "none"
    BY <2>1 DEF Signed, LedgerTypeOK
  <2> QED BY <1>a, <2>0, <2>3, <2>4, <2>5
<1>5. ASSUME RegisterNewKey PROVE SignatureInv'
  <2> USE <1>5 DEF RegisterNewKey, keychain
  <2>0. /\ rotation.new \in Versions /\ versions[rotation.new] = "none"
        /\ rotation'.pc = "storeAudit" /\ rotation'.new = rotation.new
        /\ rotation.fresh = signing /\ signing # 0 /\ Signers = {}
    BY <1>a DEF SignersHold, RotationHolds, ProcessTypes
  <2>1. /\ trusted'[rotation.new].pub = signing /\ trusted'[rotation.new].state = "active"
        /\ \A v \in Versions : v # rotation.new => trusted'[v] = trusted[v]
    BY <2>0 DEF LedgerTypeOK
  <2>2. Signers' = {rotation.new}
    BY <2>0, <2>1 DEF Signers
  <2>3. OneSigner' /\ SignersHold'
    BY <1>a, <2>0, <2>1, <2>2 DEF OneSigner, SignersHold, RotationHolds
  <2>4. RowsInStep'
    BY <2>0, <2>1 DEF RowsInStep, RegisteredVersions
  <2>5. \A cp \in checkpoints' : Signed(cp)' /\ versions'[cp.id] # "none"
    BY <2>0, <2>1 DEF Signed, LedgerTypeOK
  <2> QED BY <1>a, <2>2, <2>3, <2>4, <2>5
<1>6. ASSUME StoreAuditKey \/ RetireAuditVersion PROVE SignatureInv'
  <2>0. /\ UNCHANGED <<checkpoints, trusted, signing, daemon>>
        /\ rotation'.pc \in {"retireAudit", "registerAudit"} /\ rotation'.new = rotation.new
        /\ rotation.pc \in {"storeAudit", "retireAudit"}
    BY <1>6 DEF StoreAuditKey, RetireAuditVersion, tables, keychain, ProcessTypes
  <2>1. \A v \in Versions : versions'[v] = "none" <=> versions[v] = "none"
    <3>1. CASE StoreAuditKey
      BY <3>1 DEF StoreAuditKey, tables
    <3>2. CASE RetireAuditVersion
      <4>1. LatestActiveVersion \in Versions /\ versions[LatestActiveVersion] = "active"
        BY <3>2, VersionsChosen DEF RetireAuditVersion, RotationHolds, Active
      <4> QED BY <3>2, <4>1 DEF RetireAuditVersion, LedgerTypeOK
    <3> QED BY <1>6, <3>1, <3>2
  <2>2. RegisteredVersions' = RegisteredVersions /\ Signers' = Signers
    BY <2>0, <2>1 DEF RegisteredVersions, Signers
  <2>3. OneSigner' /\ SignersHold'
    BY <1>a, <2>0, <2>2 DEF OneSigner, SignersHold, RotationHolds
  <2>4. RowsInStep'
    BY <2>0, <2>1, <2>2 DEF RowsInStep
  <2>5. \A cp \in checkpoints' : Signed(cp)' /\ versions'[cp.id] # "none"
    BY <2>0, <2>1 DEF Signed, LedgerTypeOK
  <2> QED BY <1>a, <2>0, <2>2, <2>3, <2>4, <2>5
<1>7. ASSUME RegisterNewVersion PROVE SignatureInv'
  <2> USE <1>7 DEF RegisterNewVersion, keychain
  <2>0. /\ Signers' = Signers /\ rotation'.pc = "none" /\ rotation.new \in Versions
        /\ daemon.pc = "down"
    BY DEF Signers, NoRotation, RotationHolds
  <2>1. OneSigner' /\ SignersHold'
    BY <1>a, <2>0 DEF OneSigner, SignersHold
  <2>2. RowsInStep'
    BY <2>0 DEF RowsInStep, RotationHolds, LedgerTypeOK
  <2>3. Signers # {}
    BY <1>a DEF RotationHolds
  <2>4. \A cp \in checkpoints' : Signed(cp)' /\ versions'[cp.id] # "none"
    BY <2>0 DEF Signed, LedgerTypeOK
  <2> QED BY <1>a, <2>0, <2>1, <2>2, <2>3, <2>4
<1>8. ~ RotationEnds
  BY DEF RotationEnds
<1> QED BY <1>1, <1>2, <1>3, <1>4, <1>5, <1>6, <1>7, <1>8 DEF RotationStep

\* What went wrong stays recorded, so a step after which nothing went wrong keeps the rest.
LEMMA LedgerStepKeepsSignatures ==
  ASSUME ChainInv, CleanInv, [LedgerNext]_ledgerVars PROVE CleanInv'
<1> SUFFICES ASSUME mishaps' = {} PROVE SignatureInv'
  BY DEF CleanInv
<1>1. mishaps = {}
  BY DEF LedgerNext, DaemonStep, RotationStep, ledgerVars, LoadSigningKey, RegisterSigningKey,
     LoadAuditKey,
     RegisterAuditVersion, OpenCursor, Record, CloseWithEvent, WriteCheckpoint, DaemonEnds,
     RemoveSocket,
     StartRotation, PinLastEvent, StoreSigningKey, RetireSigningKey, RegisterNewKey, StoreAuditKey,
     RetireAuditVersion, RegisterNewVersion, RotationEnds
<1>2. SignatureInv
  BY <1>1 DEF CleanInv
<1>3. CASE DaemonStep \/ RemoveSocket
  BY <1>2, <1>3, DaemonKeepsSignatures
<1>4. CASE RotationStep
  BY <1>2, <1>4, RotationKeepsSignatures
<1>5. CASE UNCHANGED ledgerVars
  <2>1. UNCHANGED <<checkpoints, trusted, versions, signing, daemon, rotation>>
    BY <1>5 DEF ledgerVars, tables, keychain
  <2>2. Active(SigningStates)' = Active(SigningStates) /\ RegisteredVersions' = RegisteredVersions
    BY <2>1 DEF Active, SigningStates, RegisteredVersions
  <2>3. OneSigner' /\ SignersHold' /\ RowsInStep'
    BY <1>2, <2>1, <2>2 DEF SignatureInv, OneSigner, SignersHold, RowsInStep
  <2> QED BY <1>2, <2>1, <2>2, <2>3 DEF SignatureInv, Signed
<1> QED BY <1>3, <1>4, <1>5 DEF LedgerNext

\* verify_audit as a whole succeeds in every reachable state, however many rotations there
\* were, unless one was cut short or a keychain lookup failed.
THEOREM LedgerUncutRotationsVerify == LedgerSpec => []UncutRotationsVerify
<1>1. LedgerInit => CleanInv
  <2> SUFFICES ASSUME LedgerInit PROVE SignatureInv
    BY DEF CleanInv
  <2> USE DEF LedgerInit, SignatureInv
  <2>1. Active(SigningStates) = {} /\ RegisteredVersions = {}
    BY DEF Active, SigningStates, RegisteredVersions
  <2>2. OneSigner /\ SignersHold
    BY <2>1 DEF OneSigner, SignersHold, DaemonDown, NoRotation
  <2>3. RowsInStep
    BY DEF RowsInStep
  <2> QED BY <2>1, <2>2, <2>3
<1>2. ChainInv /\ CleanInv => UncutRotationsVerify
  <2> SUFFICES ASSUME ChainInv, CleanInv, mishaps = {} PROVE VerifyAudit
    BY DEF UncutRotationsVerify
  <2>1. \A cp \in checkpoints : Pinned(cp, events)
    BY AnchoredPins DEF CheckpointsPin
  <2>2. \A cp \in checkpoints : Signed(cp)
    BY DEF CleanInv, SignatureInv
  <2> QED BY <2>1, <2>2 DEF ChainInv, VerifyAudit, ChainVerifies
<1> QED BY <1>1, <1>2, ChainInvHolds, LedgerStepKeepsSignatures, PTL DEF LedgerSpec
============================================================================
