----------------------------- MODULE Authority -----------------------------
(***************************************************************************)
(* The broker as the source of authority: the intake of action requests    *)
(* and its memory of request ids, the policy, standing grants and their    *)
(* administration.  What happens to a capability once it is minted, the    *)
(* ledger and the durable rows are Broker's subject and left out here; an  *)
(* approval is decided in one step.                                        *)
(***************************************************************************)
EXTENDS PolicyRules, FiniteSets

CONSTANTS
  Policies,     \* the rule sequences an administrator may install
  Requests,     \* request ids
  Handlers,     \* the tasks that serve agent connections, numbered
  Admins,       \* the tasks that serve connections of the local interface
  GrantIds,     \* ids of standing grants, numbered in the order of their creation
  MaxChanges,   \* bound on grants created, revoked or expired and policies installed
  MaxRestarts,  \* bound on restarts of the daemon
  NULL

\* A row of standing_grants, and an authorization that waits for a person.
Grant == [agent : Agents, target : Targets, ceiling : Low .. Critical, live : BOOLEAN,
          expired : BOOLEAN]
Authorization == [agent : Agents, target : Targets, rules : Policies, grant : {NULL}]
\* The states the intake and the decision of a request write.
States == {"requested", "failed", "issued", "awaiting", "denied"}

ASSUME AuthorityAssumption ==
  /\ Policies \subseteq Seq(Rule)
  /\ Handlers \subseteq Nat /\ GrantIds \subseteq Nat
  /\ MaxChanges \in Nat /\ MaxRestarts \in Nat
  /\ NULL \notin Agents \cup Targets \cup Requests \cup Handlers \cup GrantIds
  /\ NULL \notin Grant \cup Authorization \cup States

VARIABLES
  policy,       \* the rules of policy_evaluator
  grants,       \* standing_grants: id -> NULL or [agent, target, ceiling, live, expired]
  prints,       \* request_fingerprints: request -> NULL or the target it was made for
  owner,        \* request_agents
  requests,     \* request -> NULL or its state
  approvals,    \* request -> NULL or the authorization that waits for a person
  caps,         \* request -> sequence of the capabilities minted for it
  hand,         \* handler -> the request it is at work on
  admin,        \* administrator -> what its task is at work on
  changes,      \* changes counted against MaxChanges
  life          \* restarts of the daemon so far

authVars == <<policy, grants, prints, owner, requests, approvals, caps, hand, admin, changes, life>>
memory == <<prints, owner, requests, approvals>>

Free == [pc |-> "free", agent |-> NULL, req |-> NULL, target |-> NULL, rules |-> NULL,
         grant |-> NULL, dead |-> {}, past |-> {}, reply |-> NULL]
Quiet == [pc |-> "quiet", agent |-> NULL, target |-> NULL, ids |-> {}, rules |-> NULL]

Step(h, pc) == hand' = [hand EXCEPT ![h].pc = pc]
Answer(h, st) == hand' = [hand EXCEPT ![h].pc = "answer", ![h].reply = st]

Expired == {g \in GrantIds : grants[g] # NULL /\ grants[g].expired}
Revoked == {g \in GrantIds : grants[g] # NULL /\ ~ grants[g].live}

(***************************************************************************)
(* Intake.  handle_action_request: the fingerprint of a request, its agent *)
(* and its state are recorded under three locks, one after the other.      *)
(***************************************************************************)
Arrive(h, a, r, t) ==
  /\ hand[h].pc = "free"
  /\ hand' = [hand EXCEPT ![h] =
        [Free EXCEPT !.pc = "check", !.agent = a, !.req = r, !.target = t, !.dead = Expired \cup Revoked]]
  /\ UNCHANGED <<policy, grants, memory, caps, admin, changes, life>>

NewRequest(h) ==
  /\ prints[hand[h].req] = NULL
  /\ prints' = [prints EXCEPT ![hand[h].req] = hand[h].target]
  /\ Step(h, "owner")

\* Seeded fault: whose request it is does not matter.
KnownToAnyone(h) ==
  /\ prints[hand[h].req] # NULL
  /\ IF prints[hand[h].req] = hand[h].target /\ requests[hand[h].req] # NULL
     THEN Step(h, "wait") ELSE Answer(h, "error")
  /\ UNCHANGED prints

\* A request id that is known: its present state if the request is the same and from the
\* same agent, an error if not, and an error too while its state is not yet recorded.
KnownRequest(h) ==
  /\ prints[hand[h].req] # NULL
  /\ IF prints[hand[h].req] = hand[h].target /\ owner[hand[h].req] = hand[h].agent
        /\ requests[hand[h].req] # NULL
     THEN Step(h, "wait") ELSE Answer(h, "error")
  /\ UNCHANGED prints

\* Seeded fault: a known request id is not looked for.
CheckNothing(h) ==
  /\ hand[h].pc = "check"
  /\ prints' = [prints EXCEPT ![hand[h].req] = hand[h].target]
  /\ Step(h, "owner")
  /\ UNCHANGED <<policy, grants, owner, requests, approvals, caps, admin, changes, life>>

CheckFingerprint(h) ==
  /\ hand[h].pc = "check"
  /\ NewRequest(h) \/ KnownRequest(h)
  /\ UNCHANGED <<policy, grants, owner, requests, approvals, caps, admin, changes, life>>

RecordAgent(h) ==
  /\ hand[h].pc = "owner"
  /\ owner' = [owner EXCEPT ![hand[h].req] = hand[h].agent]
  /\ Step(h, "state")
  /\ UNCHANGED <<policy, grants, prints, requests, approvals, caps, admin, changes, life>>

SetState(r, st) == requests' = [requests EXCEPT ![r] = st]

\* The handler also reads the clock, once: a grant is judged by this time later on.
RecordRequested(h) ==
  /\ hand[h].pc = "state"
  /\ SetState(hand[h].req, "requested")
  /\ hand' = [hand EXCEPT ![h].pc = "evaluate", ![h].past = Expired]
  /\ UNCHANGED <<policy, grants, prints, owner, approvals, caps, admin, changes, life>>

\* The credential, the session, the page context, the recipe or the audit is wanting, or the
\* policy refuses: the request has failed.
RequestFails(h) ==
  /\ hand[h].pc \in {"evaluate", "authorized", "mint"}
  /\ SetState(hand[h].req, "failed")
  /\ Answer(h, "error")
  /\ UNCHANGED <<policy, grants, prints, owner, approvals, caps, admin, changes, life>>

EvaluatePolicy(h) ==
  /\ hand[h].pc = "evaluate"
  /\ LET verdict == Evaluate(policy, hand[h].agent, hand[h].target) IN
       /\ verdict \in {"allow", "presence"}
       /\ PresenceAvailable(hand[h].target, verdict = "presence")
       /\ hand' = [hand EXCEPT ![h].rules = policy,
                     ![h].pc = IF verdict = "allow" THEN "mint" ELSE "authorized"]
  /\ UNCHANGED <<policy, grants, memory, caps, admin, changes, life>>

\* Seeded fault: a grant is found by its tuple alone.
CoversTuple(g, h) ==
  grants[g] # NULL /\ grants[g].agent = hand[h].agent /\ grants[g].target = hand[h].target

\* find_matching_standing_grant and covers: not revoked now, not expired when the handler
\* read the clock.
Covers(g, h) ==
  /\ grants[g] # NULL
  /\ grants[g].agent = hand[h].agent /\ grants[g].target = hand[h].target
  /\ grants[g].live /\ g \notin hand[h].past
  /\ CalculateRisk(hand[h].target, FALSE) <= grants[g].ceiling
  /\ Grantable(hand[h].target)

MatchGrant(h) ==
  /\ hand[h].pc = "authorized"
  /\ \E g \in GrantIds :
       /\ Covers(g, h)
       /\ hand' = [hand EXCEPT ![h].pc = "mint", ![h].grant = g]
  /\ UNCHANGED <<policy, grants, memory, caps, admin, changes, life>>

\* A replacement of the policy has taken effect and has yet to go through the capabilities.
Sweeping == \E d \in Admins : admin[d].pc = "sweep" /\ admin[d].rules = policy

\* late: evaluated under a policy whose replacement is over (history only).
Capability(auth, by) ==
  [agent |-> auth.agent, target |-> auth.target, rules |-> auth.rules, by |-> by,
   grant |-> auth.grant, dead |-> IF auth.grant = NULL THEN {} ELSE auth.dead, live |-> TRUE, life |-> life,
   late |-> auth.rules # policy /\ ~ Sweeping]

\* The row and then the entry in memory, from which on the capability can be offered; this
\* step is the second.
Mint(h) ==
  /\ hand[h].pc = "mint"
  /\ caps' = [caps EXCEPT ![hand[h].req] =
        Append(@, Capability(hand[h], IF hand[h].grant = NULL THEN "policy" ELSE "grant"))]
  /\ SetState(hand[h].req, "issued")
  /\ Step(h, "wait")
  /\ UNCHANGED <<policy, grants, prints, owner, approvals, admin, changes, life>>

\* No grant: the approval becomes visible, and then the state of the request is written.
AskApproval(h) ==
  /\ hand[h].pc = "authorized"
  /\ \A g \in GrantIds : ~ Covers(g, h)
  /\ approvals' = [approvals EXCEPT ![hand[h].req] =
        [agent |-> hand[h].agent, target |-> hand[h].target, rules |-> hand[h].rules,
         grant |-> NULL]]
  /\ Step(h, "asked")
  /\ UNCHANGED <<policy, grants, prints, owner, requests, caps, admin, changes, life>>

RecordAwaiting(h) ==
  /\ hand[h].pc = "asked"
  /\ SetState(hand[h].req, "awaiting")
  /\ Step(h, "wait")
  /\ UNCHANGED <<policy, grants, prints, owner, approvals, caps, admin, changes, life>>

\* wait: the state is looked at until it is final or the time is up.
AnswerWaiting(h) ==
  /\ hand[h].pc = "wait"
  /\ Answer(h, requests[hand[h].req])
  /\ UNCHANGED <<policy, grants, memory, caps, admin, changes, life>>

(***************************************************************************)
(* The person at the local interface.                                      *)
(***************************************************************************)
Decide(r, approved) ==
  /\ approvals[r] # NULL
  /\ approvals' = [approvals EXCEPT ![r] = NULL]
  /\ IF approved
     THEN /\ caps' = [caps EXCEPT ![r] = Append(@, Capability(approvals[r], "person"))]
          /\ SetState(r, "issued")
     ELSE /\ SetState(r, "denied")
          /\ UNCHANGED caps
  /\ UNCHANGED <<policy, grants, prints, owner, hand, life>>

Resolve(r) ==
  /\ \E approved \in BOOLEAN : Decide(r, approved)
  /\ UNCHANGED <<admin, changes>>

Change == changes < MaxChanges /\ changes' = changes + 1

\* ui_create_grant: the approval is decided first, the grant inserted after.
CreateGrant(d, r) ==
  /\ admin[d] = Quiet /\ Change
  /\ approvals[r] # NULL /\ Grantable(approvals[r].target)
  /\ Decide(r, TRUE)
  /\ admin' = [admin EXCEPT ![d] = [Quiet EXCEPT !.pc = "insert", !.agent = approvals[r].agent,
                                                 !.target = approvals[r].target]]

Fresh(g) == grants[g] = NULL /\ \A o \in GrantIds : o < g => grants[o] # NULL

NewGrant(a, t) ==
  [agent |-> a, target |-> t, ceiling |-> CalculateRisk(t, FALSE), live |-> TRUE,
   expired |-> FALSE]

\* Seeded fault: the live grant of the tuple is left as it is.
InsertBeside(d, g) ==
  /\ admin[d].pc = "insert" /\ Fresh(g)
  /\ grants' = [grants EXCEPT ![g] = NewGrant(admin[d].agent, admin[d].target)]
  /\ admin' = [admin EXCEPT ![d] = Quiet]
  /\ UNCHANGED <<policy, memory, caps, hand, changes, life>>

\* One transaction: a live grant of the same tuple is superseded.
InsertGrant(d, g) ==
  /\ admin[d].pc = "insert" /\ Fresh(g)
  /\ grants' = [o \in GrantIds |->
        IF o = g THEN NewGrant(admin[d].agent, admin[d].target)
        ELSE IF grants[o] # NULL /\ grants[o].agent = admin[d].agent
                  /\ grants[o].target = admin[d].target
        THEN [grants[o] EXCEPT !.live = FALSE] ELSE grants[o]]
  /\ admin' = [admin EXCEPT ![d] = Quiet]
  /\ UNCHANGED <<policy, memory, caps, hand, changes, life>>

ExpireGrant(g) ==
  /\ grants[g] # NULL /\ ~ grants[g].expired /\ Change
  /\ grants' = [grants EXCEPT ![g].expired = TRUE]
  /\ UNCHANGED <<policy, memory, caps, hand, admin, life>>

\* Revocation lists the live grants and then revokes those it listed: one grant, or all of
\* an agent as the first part of agent.disable.  A grant another administrator inserts in
\* between is not among them.
Listed(a) == {g \in GrantIds : grants[g] # NULL /\ grants[g].live /\ grants[g].agent = a}

ListGrants(d, a) ==
  /\ admin[d] = Quiet /\ Change
  /\ \E pc \in {"revoke", "disable"} : \E ids \in {{g} : g \in Listed(a)} \cup {Listed(a)} :
       /\ pc = "disable" => ids = Listed(a)
       /\ admin' = [admin EXCEPT ![d] = [Quiet EXCEPT !.pc = pc, !.agent = a, !.ids = ids]]
  /\ UNCHANGED <<policy, grants, memory, caps, hand, life>>

RevokeListed(d) ==
  /\ admin[d].pc \in {"revoke", "disable"}
  /\ grants' = [g \in GrantIds |->
        IF g \in admin[d].ids THEN [grants[g] EXCEPT !.live = FALSE] ELSE grants[g]]
  /\ admin' = [admin EXCEPT ![d] = IF admin[d].pc = "revoke" THEN Quiet
                                   ELSE [admin[d] EXCEPT !.pc = "withdraw"]]
  /\ UNCHANGED <<policy, memory, caps, hand, changes, life>>

\* The rest of agent.disable: the agent's capabilities, in memory.  Its enrollment, its
\* connections, its requests and its approvals are left as they are.
WithdrawCapabilities(d) ==
  /\ admin[d].pc = "withdraw"
  /\ caps' = [r \in Requests |-> [i \in DOMAIN caps[r] |->
        [caps[r][i] EXCEPT !.live = @ /\ caps[r][i].agent # admin[d].agent]]]
  /\ admin' = [admin EXCEPT ![d] = Quiet]
  /\ UNCHANGED <<policy, grants, memory, hand, changes, life>>

\* replace_policy, in three critical sections.  First the rows of every other policy are
\* revoked,
RevokeRows(d, rules) ==
  /\ admin[d] = Quiet /\ Change
  /\ caps' = [r \in Requests |-> [i \in DOMAIN caps[r] |->
        [caps[r][i] EXCEPT !.live = @ /\ caps[r][i].rules = rules]]]
  /\ admin' = [admin EXCEPT ![d] = [Quiet EXCEPT !.pc = "swap", !.rules = rules]]
  /\ UNCHANGED <<policy, grants, memory, hand, life>>

\* then the evaluator is replaced,
SwapEvaluator(d) ==
  /\ admin[d].pc = "swap"
  /\ policy' = admin[d].rules
  /\ admin' = [admin EXCEPT ![d].pc = "sweep"]
  /\ UNCHANGED <<grants, memory, caps, hand, changes, life>>

\* Seeded fault: the rows are revoked, and what memory got since is left.
SweepNothing(d) ==
  /\ admin[d].pc = "sweep"
  /\ admin' = [admin EXCEPT ![d] = Quiet]
  /\ UNCHANGED <<policy, grants, memory, caps, hand, changes, life>>

\* and at last the capabilities in memory are gone through.
SweepMemory(d) ==
  /\ admin[d].pc = "sweep"
  /\ caps' = [r \in Requests |-> [i \in DOMAIN caps[r] |->
        [caps[r][i] EXCEPT !.live = @ /\ caps[r][i].rules = admin[d].rules,
                           !.late = @ /\ admin[d].rules # policy]]]
  /\ admin' = [admin EXCEPT ![d] = Quiet]
  /\ UNCHANGED <<policy, grants, memory, hand, changes, life>>

\* The daemon stops and starts again.  Only the grants and the policy outlive it; the
\* capabilities of its former life are no longer in its memory.
Restart ==
  /\ life < MaxRestarts
  /\ life' = life + 1
  /\ prints' = [r \in Requests |-> NULL]
  /\ owner' = [r \in Requests |-> NULL]
  /\ requests' = [r \in Requests |-> NULL]
  /\ approvals' = [r \in Requests |-> NULL]
  /\ caps' = [r \in Requests |-> [i \in DOMAIN caps[r] |->
        [caps[r][i] EXCEPT !.live = FALSE, !.late = FALSE]]]
  /\ hand' = [h \in Handlers |-> Free]
  /\ admin' = [d \in Admins |-> Quiet]
  /\ UNCHANGED <<policy, grants, changes>>

AuthorityInit ==
  /\ policy \in Policies
  /\ grants = [g \in GrantIds |-> NULL]
  /\ prints = [r \in Requests |-> NULL]
  /\ owner = [r \in Requests |-> NULL]
  /\ requests = [r \in Requests |-> NULL]
  /\ approvals = [r \in Requests |-> NULL]
  /\ caps = [r \in Requests |-> <<>>]
  /\ hand = [h \in Handlers |-> Free]
  /\ admin = [d \in Admins |-> Quiet]
  /\ changes = 0
  /\ life = 0
============================================================================
