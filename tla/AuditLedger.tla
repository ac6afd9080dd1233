---------------------------- MODULE AuditLedger ----------------------------
(***************************************************************************)
(* The audit ledger and the keys that protect it: the hash chain in        *)
(* audit_events, the signed checkpoints, the tables trusted_signing_keys   *)
(* and audit_key_versions, and the platform keychain.  Two programs write  *)
(* them: secretctld, which provisions keys when it starts and appends      *)
(* through a cursor it keeps in memory, and `secretctl keys rotate`, a     *)
(* separate process that changes two tables and the keychain one write at  *)
(* a time.  Either may die between any two writes.                         *)
(*                                                                         *)
(* Keys are numbers, handed out in order; an HMAC is the tuple of what it  *)
(* covers and a signature names the key it was made with, so they agree    *)
(* exactly when the real ones do.  Key id broker-key-v<n> and locator      *)
(* audit-chain-key-v<n> are the number n.                                  *)
(***************************************************************************)
EXTENDS Naturals, Sequences

CONSTANTS
  MaxEvents,      \* bound on the ledger's length
  MaxVersion,     \* bound on the key versions
  MaxKeys         \* bound on the keys generated

ASSUME LedgerAssumption == MaxEvents \in Nat /\ MaxVersion \in Nat \ {0} /\ MaxKeys \in Nat

VARIABLES
  events,         \* audit_events: [seq, version, prev, hash]
  checkpoints,    \* audit_checkpoints: [seq, hash, version, id, signer]
  trusted,        \* trusted_signing_keys: id -> [pub, state], pub 0 when there is no row
  versions,       \* audit_key_versions: version -> "none", "active" or "retired"
  signing,        \* keychain: the signing key, 0 before there is one
  auditKey,       \* keychain: locator -> key, 0 when there is none
  generated,      \* number of keys generated so far
  daemon,         \* secretctld: [pc, key, id, version, akey, next, last]
  rotation,       \* secretctl keys rotate: [pc, id, key, new, fresh]
  sock,           \* whether the file run/admin.sock exists
  mishaps         \* what went wrong so far: "cutRotation", "failedLookup"

tables == <<events, checkpoints, trusted, versions>>
keychain == <<signing, auditKey, generated>>
ledgerVars == <<tables, keychain, daemon, rotation, sock, mishaps>>

Versions == 1..MaxVersion
Genesis == << >>
Mac(key, version, prev, seq) == <<key, version, prev, seq>>

Active(states) == {v \in Versions : states[v] = "active"}
SigningStates == [v \in Versions |-> trusted[v].state]

DaemonDown == [pc |-> "down", key |-> 0, id |-> 0, version |-> 0, akey |-> 0, next |-> 0, last |-> Genesis]
NoRotation == [pc |-> "none", id |-> 0, key |-> 0, new |-> 0, fresh |-> 0]

CanGenerate == generated < MaxKeys

(***************************************************************************)
(* verify_audit: the chain against every registered audit key, then the    *)
(* checkpoints against the trusted public keys.                            *)
(***************************************************************************)
ChainOK(evs, keys) ==
  \A i \in DOMAIN evs :
     /\ evs[i].seq = i
     /\ evs[i].prev = IF i = 1 THEN Genesis ELSE evs[i - 1].hash
     /\ evs[i].version \in keys
     /\ evs[i].hash = Mac(auditKey[evs[i].version], evs[i].version, evs[i].prev, evs[i].seq)

Pinned(cp, evs) ==
  \E i \in DOMAIN evs : evs[i].seq = cp.seq /\ evs[i].hash = cp.hash /\ evs[i].version = cp.version

Signed(cp) == trusted[cp.id].pub = cp.signer

RegisteredVersions == {v \in Versions : versions[v] # "none"}

VerifyAudit ==
  /\ ChainOK(events, RegisteredVersions)
  /\ \A cp \in checkpoints : Pinned(cp, events) /\ Signed(cp)

(***************************************************************************)
(* secretctld: start-up, appending, the checkpoint at shutdown.            *)
(***************************************************************************)
\* A lookup that fails (a locked keychain, a refused prompt) counts as an absent key: a new
\* one is generated and stored over the old one.
LoadSigningKey(found) ==
  /\ daemon.pc = "down"
  /\ \/ /\ signing # 0 /\ found
        /\ daemon' = [DaemonDown EXCEPT !.pc = "register", !.key = signing]
        /\ UNCHANGED <<keychain, mishaps>>
     \/ /\ signing = 0 \/ ~ found
        /\ CanGenerate
        /\ generated' = generated + 1
        /\ signing' = generated'
        /\ daemon' = [DaemonDown EXCEPT !.pc = "register", !.key = signing']
        /\ mishaps' = IF signing # 0 THEN mishaps \cup {"failedLookup"} ELSE mishaps
        /\ UNCHANGED auditKey
  /\ UNCHANGED <<tables, rotation, sock>>

\* With no active key the daemon falls back to broker-key-v1, and register_signing_key
\* overwrites the public key of a row that is already there.
Fallback == 1

RegisterSigningKey ==
  /\ daemon.pc = "register"
  /\ LET active == Active(SigningStates) IN
     IF active = {}
     THEN /\ trusted' = [trusted EXCEPT ![Fallback] = [pub |-> daemon.key, state |-> "active"]]
          /\ daemon' = [daemon EXCEPT !.pc = "auditKey", !.id = Fallback]
     ELSE /\ daemon' = [daemon EXCEPT !.pc = "auditKey", !.id = CHOOSE v \in active : TRUE]
          /\ UNCHANGED trusted
  /\ UNCHANGED <<events, checkpoints, versions, keychain, rotation, sock, mishaps>>

LatestActiveVersion ==
  IF Active(versions) = {} THEN Fallback
  ELSE CHOOSE v \in Active(versions) : \A w \in Active(versions) : w <= v

LoadAuditKey ==
  /\ daemon.pc = "auditKey"
  /\ LET v == LatestActiveVersion IN
     \/ /\ auditKey[v] # 0
        /\ daemon' = [daemon EXCEPT !.pc = "registerVersion", !.version = v, !.akey = auditKey[v]]
        /\ UNCHANGED keychain
     \/ /\ auditKey[v] = 0 /\ CanGenerate
        /\ generated' = generated + 1
        /\ auditKey' = [auditKey EXCEPT ![v] = generated']
        /\ daemon' = [daemon EXCEPT !.pc = "registerVersion", !.version = v, !.akey = generated']
        /\ UNCHANGED signing
  /\ UNCHANGED <<tables, rotation, sock, mishaps>>

RegisterAuditVersion ==
  /\ daemon.pc = "registerVersion"
  /\ versions' = IF Active(versions) = {}
                 THEN [versions EXCEPT ![daemon.version] = "active"] ELSE versions
  /\ daemon' = [daemon EXCEPT !.pc = "open"]
  /\ UNCHANGED <<events, checkpoints, trusted, keychain, rotation, sock, mishaps>>

LatestHash == IF events = << >> THEN Genesis ELSE events[Len(events)].hash

\* try_new_with_audit_key reads the cursor back from the table; then the sockets open.
OpenCursor ==
  /\ daemon.pc = "open"
  /\ daemon' = [daemon EXCEPT !.pc = "serving", !.next = Len(events) + 1, !.last = LatestHash]
  /\ sock' = TRUE
  /\ UNCHANGED <<tables, keychain, rotation, mishaps>>

Serving == daemon.pc \in {"serving", "closing", "closed"}

NextEvent == [seq |-> daemon.next, version |-> daemon.version, prev |-> daemon.last,
              hash |-> Mac(daemon.akey, daemon.version, daemon.last, daemon.next)]

\* sequence is the primary key of audit_events.
SequenceTaken(seq) == \E i \in DOMAIN events : events[i].seq = seq

\* Seeded fault: the cursor moves before the write is known to have worked.
RecordEagerly(ok) ==
  /\ Serving
  /\ Len(events) < MaxEvents
  /\ events' = IF ok /\ ~ SequenceTaken(daemon.next) THEN Append(events, NextEvent) ELSE events
  /\ daemon' = [daemon EXCEPT !.next = @ + 1, !.last = NextEvent.hash]
  /\ UNCHANGED <<checkpoints, trusted, versions, keychain, rotation, sock, mishaps>>

\* record_audit_event, and the last part of every transaction that carries an event: the
\* cursor moves only when the row is in.  A write that fails leaves both alone.
Record(ok) ==
  /\ Serving
  /\ Len(events) < MaxEvents
  /\ IF ok /\ ~ SequenceTaken(daemon.next)
     THEN /\ events' = Append(events, NextEvent)
          /\ daemon' = [daemon EXCEPT !.next = @ + 1, !.last = NextEvent.hash]
     ELSE UNCHANGED <<events, daemon>>
  /\ UNCHANGED <<checkpoints, trusted, versions, keychain, rotation, sock, mishaps>>

\* write_audit_checkpoint on Ctrl-C: an event, and in a second critical section, when
\* other handlers may have appended more, a checkpoint of whatever the cursor is at.
CloseWithEvent ==
  /\ daemon.pc = "serving"
  /\ Len(events) < MaxEvents
  /\ ~ SequenceTaken(daemon.next)
  /\ events' = Append(events, NextEvent)
  /\ daemon' = [daemon EXCEPT !.next = @ + 1, !.last = NextEvent.hash, !.pc = "closing"]
  /\ UNCHANGED <<checkpoints, trusted, versions, keychain, rotation, sock, mishaps>>

Checkpoint(seq, hash, version, id, signer) ==
  [seq |-> seq, hash |-> hash, version |-> version, id |-> id, signer |-> signer]

Checkpointed(seq) == \E cp \in checkpoints : cp.seq = seq

\* Seeded fault: off by one, the cursor is already at the next event.
CheckpointAhead ==
  /\ daemon.pc = "closing"
  /\ ~ Checkpointed(daemon.next)
  /\ checkpoints' = checkpoints \cup
       {Checkpoint(daemon.next, daemon.last, daemon.version, daemon.id, daemon.key)}
  /\ daemon' = [daemon EXCEPT !.pc = "closed"]
  /\ UNCHANGED <<events, trusted, versions, keychain, rotation, sock, mishaps>>

WriteCheckpoint ==
  /\ daemon.pc = "closing"
  /\ ~ Checkpointed(daemon.next - 1)
  /\ checkpoints' = checkpoints \cup
       {Checkpoint(daemon.next - 1, daemon.last, daemon.version, daemon.id, daemon.key)}
  /\ daemon' = [daemon EXCEPT !.pc = "closed"]
  /\ UNCHANGED <<events, trusted, versions, keychain, rotation, sock, mishaps>>

\* The end of the process: a return from main, SIGTERM from `secretctl stop`, or a crash.
\* `secretctl init` is a start-up that ends before it serves.  Nothing removes admin.sock.
DaemonEnds ==
  /\ daemon.pc # "down"
  /\ daemon' = DaemonDown
  /\ UNCHANGED <<tables, keychain, rotation, sock, mishaps>>

\* The operator deletes the stale socket by hand.
RemoveSocket ==
  /\ sock /\ daemon.pc = "down"
  /\ sock' = FALSE
  /\ UNCHANGED <<tables, keychain, daemon, rotation, mishaps>>

(***************************************************************************)
(* secretctl keys rotate.                                                  *)
(***************************************************************************)
NewVersion ==
  (IF RegisteredVersions = {} THEN 0
   ELSE CHOOSE v \in RegisteredVersions : \A w \in RegisteredVersions : w <= v) + 1

\* Runs with no socket and no daemon, on a ledger that verifies and with an active key.
StartRotation ==
  /\ rotation.pc = "none"
  /\ ~ sock /\ daemon.pc = "down"
  /\ VerifyAudit
  /\ Active(SigningStates) # {}
  /\ NewVersion <= MaxVersion
  /\ rotation' = [NoRotation EXCEPT !.pc = "pin", !.key = signing,
                     !.id = CHOOSE v \in Active(SigningStates) : TRUE]
  /\ UNCHANGED <<tables, keychain, daemon, sock, mishaps>>

PinLastEvent ==
  /\ rotation.pc = "pin"
  /\ LET last == events[Len(events)] IN
     checkpoints' = IF events = << >> \/ Checkpointed(last.seq) THEN checkpoints
                    ELSE checkpoints \cup
                         {Checkpoint(last.seq, last.hash, last.version, rotation.id, rotation.key)}
  /\ rotation' = [rotation EXCEPT !.pc = "storeKey", !.new = NewVersion]
  /\ UNCHANGED <<events, trusted, versions, keychain, daemon, sock, mishaps>>

StoreSigningKey ==
  /\ rotation.pc = "storeKey" /\ CanGenerate
  /\ generated' = generated + 1
  /\ signing' = generated'
  /\ rotation' = [rotation EXCEPT !.pc = "retire", !.fresh = generated']
  /\ UNCHANGED <<tables, auditKey, daemon, sock, mishaps>>

\* Seeded fault: a state the table does not know.
RetireAsRevoked ==
  /\ rotation.pc = "retire"
  /\ trusted' = [trusted EXCEPT ![rotation.id].state = "revoked"]
  /\ rotation' = [rotation EXCEPT !.pc = "registerNew"]
  /\ UNCHANGED <<events, checkpoints, versions, keychain, daemon, sock, mishaps>>

RetireSigningKey ==
  /\ rotation.pc = "retire"
  /\ trusted' = [trusted EXCEPT ![rotation.id].state = "retired"]
  /\ rotation' = [rotation EXCEPT !.pc = "registerNew"]
  /\ UNCHANGED <<events, checkpoints, versions, keychain, daemon, sock, mishaps>>

\* Seeded fault: the new key replaces the old one under its id.
ReplaceOldKey ==
  /\ rotation.pc = "registerNew"
  /\ trusted' = [trusted EXCEPT ![rotation.id] = [pub |-> rotation.fresh, state |-> "active"]]
  /\ rotation' = [rotation EXCEPT !.pc = "storeAudit"]
  /\ UNCHANGED <<events, checkpoints, versions, keychain, daemon, sock, mishaps>>

RegisterNewKey ==
  /\ rotation.pc = "registerNew"
  /\ trusted' = [trusted EXCEPT ![rotation.new] = [pub |-> rotation.fresh, state |-> "active"]]
  /\ rotation' = [rotation EXCEPT !.pc = "storeAudit"]
  /\ UNCHANGED <<events, checkpoints, versions, keychain, daemon, sock, mishaps>>

StoreAuditKey ==
  /\ rotation.pc = "storeAudit" /\ CanGenerate
  /\ Active(versions) # {}
  /\ generated' = generated + 1
  /\ auditKey' = [auditKey EXCEPT ![rotation.new] = generated']
  /\ rotation' = [rotation EXCEPT !.pc = "retireAudit"]
  /\ UNCHANGED <<tables, signing, daemon, sock, mishaps>>

RetireAuditVersion ==
  /\ rotation.pc = "retireAudit"
  /\ versions' = [versions EXCEPT ![LatestActiveVersion] = "retired"]
  /\ rotation' = [rotation EXCEPT !.pc = "registerAudit"]
  /\ UNCHANGED <<events, checkpoints, trusted, keychain, daemon, sock, mishaps>>

RegisterNewVersion ==
  /\ rotation.pc = "registerAudit"
  /\ versions' = [versions EXCEPT ![rotation.new] = "active"]
  /\ rotation' = NoRotation
  /\ UNCHANGED <<events, checkpoints, trusted, keychain, daemon, sock, mishaps>>

\* The process dies, or a write fails, with some of the writes done.
RotationEnds ==
  /\ rotation.pc # "none"
  /\ rotation' = NoRotation
  /\ mishaps' = mishaps \cup {"cutRotation"}
  /\ UNCHANGED <<tables, keychain, daemon, sock>>

LedgerInit ==
  /\ events = << >> /\ checkpoints = {}
  /\ trusted = [v \in Versions |-> [pub |-> 0, state |-> "none"]]
  /\ versions = [v \in Versions |-> "none"]
  /\ signing = 0
  /\ auditKey = [v \in Versions |-> 0]
  /\ generated = 0
  /\ daemon = DaemonDown /\ rotation = NoRotation
  /\ sock = FALSE /\ mishaps = {}

\* The runbook: the daemon is not started while a rotation runs.
DaemonStep ==
  \/ rotation.pc = "none" /\ \E found \in BOOLEAN : LoadSigningKey(found)
  \/ RegisterSigningKey \/ LoadAuditKey \/ RegisterAuditVersion \/ OpenCursor
  \/ \E ok \in BOOLEAN : Record(ok)
  \/ CloseWithEvent \/ WriteCheckpoint \/ DaemonEnds

RotationStep ==
  \/ StartRotation \/ PinLastEvent \/ StoreSigningKey \/ RetireSigningKey \/ RegisterNewKey
  \/ StoreAuditKey \/ RetireAuditVersion \/ RegisterNewVersion \/ RotationEnds

LedgerNext == DaemonStep \/ RotationStep \/ RemoveSocket

LedgerSpec == LedgerInit /\ [][LedgerNext]_ledgerVars

(***************************************************************************)
(* Properties.                                                             *)
(***************************************************************************)
Keys == 0..MaxKeys
States == {"none", "active", "retired"}

LedgerTypeOK ==
  /\ \A i \in DOMAIN events : events[i].seq \in Nat /\ events[i].version \in Versions
  /\ \A cp \in checkpoints : cp.seq \in Nat /\ cp.version \in Versions /\ cp.id \in Versions /\ cp.signer \in Keys
  /\ trusted \in [Versions -> [pub : Keys, state : States]]
  /\ versions \in [Versions -> States]
  /\ signing \in Keys /\ generated \in Keys /\ auditKey \in [Versions -> Keys]
  /\ sock \in BOOLEAN /\ mishaps \subseteq {"cutRotation", "failedLookup"}

\* The chain verifies at every moment, across crashes of the daemon between any two writes,
\* failed writes, restarts, rotations, and rotations that were cut short anywhere: the
\* cursor of a new process always continues the table, with a key that stays registered.
ChainVerifies == ChainOK(events, RegisteredVersions)

\* A checkpoint pins the ledger: every event up to the last checkpoint is needed for
\* verification, so a ledger that lost its tail below a checkpoint is noticed.
CheckpointsPin ==
  \A cp \in checkpoints :
     /\ Pinned(cp, events)
     /\ \A n \in 0..(cp.seq - 1) : ~ Pinned(cp, SubSeq(events, 1, n))

\* As long as no rotation was cut short and no keychain lookup failed, every checkpoint ever
\* made keeps verifying, whichever of the old and new keys signed it.
UncutRotationsVerify == mishaps = {} => VerifyAudit

\* OPERATIONAL.md calls the rotation atomic: cut short or not, what was signed keeps verifying.
RotationIsAtomic == mishaps \subseteq {"cutRotation"} => VerifyAudit

============================================================================
