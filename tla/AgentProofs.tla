---------------------------- MODULE AgentProofs ----------------------------
(***************************************************************************)
(* Proofs about the agents' calls: Authority under AgentCalls, for any     *)
(* agents, targets, policies, handlers, calls and bounds.                  *)
(*                                                                         *)
(* The inductive invariant AgentInv has six parts.                         *)
(*   AuthInv    types, and what a handler carries at each of its steps     *)
(*   GrantInv   a grant that was dead when a request came is, until the    *)
(*              match, revoked or expired by the handler's own clock       *)
(*   PolicyInv  what the evaluator said of a request still stands when it  *)
(*              is minted, and a live capability is of the policy in force *)
(*              or a replacement has yet to sweep it                       *)
(*   IntakeInv  one handler, one approval or one capability of this life   *)
(*              stands for a request id, and the three records of a        *)
(*              request agree with the handler that made them              *)
(*   LinkInv    a client, its connection and the handler behind it are     *)
(*              about the same call                                        *)
(*   AnsweredInv  what was returned as issued is issued                    *)
(* The properties of AgentCalls follow from it.                            *)
(***************************************************************************)
EXTENDS AgentCalls, FiniteSetTheorems, ProofLemmas

(***************************************************************************)
(* Types.                                                                  *)
(***************************************************************************)
HandPcs == {"free", "check", "owner", "state", "evaluate", "authorized", "mint", "asked",
            "wait", "answer"}

Hand == [pc : HandPcs, agent : Agents \cup {NULL}, req : Requests \cup {NULL},
         target : Targets \cup {NULL}, rules : Policies \cup {NULL},
         grant : GrantIds \cup {NULL}, dead : SUBSET GrantIds, past : SUBSET GrantIds,
         reply : States \cup {"error", NULL}]

Minting == [agent : Agents, target : Targets, rules : Policies,
            by : {"policy", "grant", "person"}, grant : GrantIds \cup {NULL},
            dead : SUBSET GrantIds, live : BOOLEAN, life : Nat, late : BOOLEAN]

AdminTask == [pc : {"quiet", "insert", "revoke", "disable", "withdraw", "swap", "sweep"},
              agent : Agents \cup {NULL}, target : Targets \cup {NULL}, ids : SUBSET GrantIds,
              rules : Policies \cup {NULL}]

\* A handler at work knows whose request it has; after the evaluation, under which policy.
Carries(t) ==
  /\ t.pc \notin {"free", "answer"} => t.agent \in Agents /\ t.req \in Requests /\ t.target \in Targets
  /\ t.pc \in {"authorized", "mint"} => t.rules \in Policies

AuthTyped ==
  /\ policy \in Policies
  /\ grants \in [GrantIds -> Grant \cup {NULL}]
  /\ prints \in [Requests -> Targets \cup {NULL}]
  /\ owner \in [Requests -> Agents \cup {NULL}]
  /\ requests \in [Requests -> States \cup {NULL}]
  /\ approvals \in [Requests -> Authorization \cup {NULL}]
  /\ caps \in [Requests -> Seq(Minting)]
  /\ hand \in [Handlers -> Hand]
  /\ admin \in [Admins -> AdminTask]
  /\ changes \in Nat /\ life \in Nat

\* An administrator's task is about grants that exist, or about a policy.
TaskHolds(t) ==
  /\ t.pc = "insert" => t.agent \in Agents /\ t.target \in Targets
  /\ t.pc \in {"swap", "sweep"} => t.rules \in Policies
  /\ \A g \in t.ids : grants[g] # NULL

AdminHolds == \A d \in Admins : TaskHolds(admin[d])

AuthInv == AuthTyped /\ AdminHolds /\ \A h \in Handlers : Carries(hand[h])

(***************************************************************************)
(* Grants.                                                                 *)
(***************************************************************************)
Ended(g) == grants[g] # NULL /\ ~ grants[g].live

Judged(t) ==
  /\ t.pc \in {"check", "owner", "state"} =>
       \A g \in t.dead : grants[g] # NULL /\ (grants[g].expired \/ ~ grants[g].live)
  /\ t.pc \in {"evaluate", "authorized"} => \A g \in t.dead : g \in t.past \/ Ended(g)
  /\ t.pc \in {"check", "owner", "state", "evaluate", "authorized"} => t.grant = NULL
  /\ t.pc = "mint" => t.grant \notin t.dead

GrantInv ==
  /\ OneLiveGrant
  /\ \A h \in Handlers : Judged(hand[h])
  /\ \A r \in Requests : \A i \in DOMAIN caps[r] : caps[r][i].grant \notin caps[r][i].dead

(***************************************************************************)
(* Policies.                                                               *)
(***************************************************************************)
Sound(c) ==
  /\ Permits(c.rules, c.agent, c.target)
  /\ c.by = "policy" => PermitsAlone(c.rules, c.agent, c.target)

Evaluated(t) ==
  /\ t.pc \in {"authorized", "mint"} => Permits(t.rules, t.agent, t.target)
  /\ t.pc = "mint" /\ t.grant = NULL => PermitsAlone(t.rules, t.agent, t.target)
  /\ t.pc \in {"check", "owner", "state", "evaluate", "authorized"} => t.grant = NULL

PolicyInv ==
  /\ \A h \in Handlers : Evaluated(hand[h])
  /\ \A r \in Requests : approvals[r] # NULL =>
       Permits(approvals[r].rules, approvals[r].agent, approvals[r].target)
  /\ \A r \in Requests : \A i \in DOMAIN caps[r] :
       /\ Sound(caps[r][i])
       /\ caps[r][i].live /\ ~ caps[r][i].late => caps[r][i].rules = policy \/ Sweeping

(***************************************************************************)
(* Request ids.                                                            *)
(***************************************************************************)
MintPcs == {"owner", "state", "evaluate", "authorized", "mint"}
Minter(h, r) == hand[h].pc \in MintPcs /\ hand[h].req = r
Unminted(r) == \A i \in DOMAIN caps[r] : caps[r][i].life # life

\* One handler, or one approval, or one capability of this life stands for a request.
OneMinter ==
  \A r \in Requests :
    /\ \A h, k \in Handlers : Minter(h, r) /\ Minter(k, r) => h = k
    /\ \A h \in Handlers : Minter(h, r) => approvals[r] = NULL /\ Unminted(r)
    /\ approvals[r] # NULL => Unminted(r)
    /\ prints[r] = NULL => Unminted(r) /\ approvals[r] = NULL /\ owner[r] = NULL /\ requests[r] = NULL

LivesApart ==
  \A r \in Requests :
    /\ \A i \in DOMAIN caps[r] : caps[r][i].life <= life
    /\ \A i, j \in DOMAIN caps[r] : i # j => caps[r][i].life # caps[r][j].life

OwnPcs == {"state", "evaluate", "authorized", "mint", "asked", "wait"}
Own(t) ==
  /\ t.pc = "owner" => prints[t.req] = t.target /\ owner[t.req] = NULL /\ requests[t.req] = NULL
  /\ t.pc \in OwnPcs => prints[t.req] = t.target /\ owner[t.req] = t.agent

Issued(a, t) == \E r \in Requests : \E i \in DOMAIN caps[r] : caps[r][i].agent = a /\ caps[r][i].target = t

AskedOwn ==
  \A r \in Requests : approvals[r] # NULL =>
    approvals[r].agent = owner[r] /\ approvals[r].target = prints[r]

IssuedOwn == \A r \in Requests : requests[r] = "issued" => Issued(owner[r], prints[r])

AnswersIssued(t) == t.pc = "answer" /\ t.reply = "issued" => Issued(t.agent, t.target)

IntakeInv ==
  /\ OneMinter
  /\ LivesApart
  /\ \A h \in Handlers : Own(hand[h])
  /\ AskedOwn
  /\ IssuedOwn
  /\ \A h \in Handlers : AnswersIssued(hand[h])

(***************************************************************************)
(* Connections.                                                            *)
(***************************************************************************)
Client == [call : Calls \cup {NULL}, conn : Handlers \cup {NULL}, tries : Nat]
Connection == [phase : {"unused", "greeted", "secure", "busy"}, up : BOOLEAN, sent : Calls \cup {NULL}]

LinkTyped ==
  /\ client \in [Agents -> Client]
  /\ conn \in [Handlers -> Connection]
  /\ result \in [Calls -> States \cup {NULL}]

ClientHolds(a) ==
  /\ client[a].call # NULL => Caller[client[a].call] = a
  /\ client[a].conn # NULL => client[a].tries <= 2 /\ conn[client[a].conn].up
  /\ client[a].call = NULL =>
       /\ client[a].tries <= 1
       /\ client[a].conn # NULL => client[a].tries = 0 /\ conn[client[a].conn].phase = "secure"

ConnHolds(h) ==
  /\ conn[h].up => conn[h].phase # "unused" /\ \E a \in Agents : client[a].conn = h
  /\ conn[h].phase = "busy" <=> (conn[h].sent # NULL \/ hand[h].pc # "free")
  /\ conn[h].sent # NULL => hand[h].pc = "free"

Serves(t, q) ==
  \/ t.pc = "answer" /\ t.reply = "error"
  \/ t.agent = Caller[q] /\ t.target = Subject[q]

LinkInv ==
  /\ LinkTyped
  /\ \A a \in Agents : ClientHolds(a)
  /\ \A a, b \in Agents : client[a].conn # NULL /\ client[a].conn = client[b].conn => a = b
  /\ \A h \in Handlers : ConnHolds(h)
  /\ \A a \in Agents, h \in Handlers : client[a].conn = h =>
       /\ conn[h].sent # NULL => conn[h].sent = client[a].call
       /\ hand[h].pc # "free" => client[a].call # NULL /\ Serves(hand[h], client[a].call)

AnsweredInv == \A q \in Calls : result[q] = "issued" => Issued(Caller[q], Subject[q])

(***************************************************************************)
(* What a handler's step does to the handlers.                             *)
(***************************************************************************)
\* A handler moves to another step and keeps the rest.
LEMMA StepFields ==
  ASSUME hand \in [Handlers -> Hand], NEW h \in Handlers, NEW p \in HandPcs, Step(h, p)
  PROVE  /\ hand' \in [Handlers -> Hand]
         /\ \A k \in Handlers : k # h => hand'[k] = hand[k]
         /\ hand'[h].pc = p /\ hand'[h].agent = hand[h].agent /\ hand'[h].req = hand[h].req
         /\ hand'[h].target = hand[h].target /\ hand'[h].rules = hand[h].rules
         /\ hand'[h].grant = hand[h].grant /\ hand'[h].dead = hand[h].dead
         /\ hand'[h].past = hand[h].past /\ hand'[h].reply = hand[h].reply
<1> DEFINE u == [hand[h] EXCEPT !.pc = p]
<1>1. /\ u \in Hand /\ u.pc = p /\ u.agent = hand[h].agent /\ u.req = hand[h].req
      /\ u.target = hand[h].target /\ u.rules = hand[h].rules /\ u.grant = hand[h].grant
      /\ u.dead = hand[h].dead /\ u.past = hand[h].past /\ u.reply = hand[h].reply
  BY DEF Hand
<1>2. hand' = [hand EXCEPT ![h] = u]
  BY DEF Step
<1> HIDE DEF u
<1> QED BY <1>1, <1>2

\* A handler has its answer.
LEMMA AnswerFields ==
  ASSUME hand \in [Handlers -> Hand], NEW h \in Handlers,
         NEW st \in States \cup {"error", NULL}, Answer(h, st)
  PROVE  /\ hand' \in [Handlers -> Hand]
         /\ \A k \in Handlers : k # h => hand'[k] = hand[k]
         /\ hand'[h].pc = "answer" /\ hand'[h].agent = hand[h].agent
         /\ hand'[h].req = hand[h].req /\ hand'[h].target = hand[h].target
         /\ hand'[h].rules = hand[h].rules /\ hand'[h].grant = hand[h].grant
         /\ hand'[h].dead = hand[h].dead /\ hand'[h].past = hand[h].past
         /\ hand'[h].reply = st
<1> DEFINE u == [hand[h] EXCEPT !.pc = "answer", !.reply = st]
<1>1. /\ u \in Hand /\ u.pc = "answer" /\ u.agent = hand[h].agent /\ u.req = hand[h].req
      /\ u.target = hand[h].target /\ u.rules = hand[h].rules /\ u.grant = hand[h].grant
      /\ u.dead = hand[h].dead /\ u.past = hand[h].past /\ u.reply = st
  BY DEF Hand, HandPcs
<1>2. hand' = [hand EXCEPT ![h] = u]
  BY DEF Answer
<1> HIDE DEF u
<1> QED BY <1>1, <1>2

\* From which step of handle_action_request to which.
Onward(p, q) ==
  \/ p = "check" /\ q \in {"owner", "wait", "answer"}
  \/ p = "owner" /\ q = "state"
  \/ p = "state" /\ q = "evaluate"
  \/ p = "evaluate" /\ q \in {"authorized", "mint", "answer"}
  \/ p = "authorized" /\ q \in {"mint", "asked", "answer"}
  \/ p = "mint" /\ q \in {"wait", "answer"}
  \/ p = "asked" /\ q = "wait"
  \/ p = "wait" /\ q = "answer"

\* What the policy in force must say for a request to go on to a step.
Passes(a, t, q) ==
  /\ Evaluate(policy, a, t) \in {"allow", "presence"}
  /\ q = "mint" => Evaluate(policy, a, t) = "allow"

\* A handler goes on with its request: what it is about stays, and the rules, the grant and
\* the time are each written at one place.
HandMoves(h) ==
  /\ hand' \in [Handlers -> Hand]
  /\ \A k \in Handlers : k # h => hand'[k] = hand[k]
  /\ Onward(hand[h].pc, hand'[h].pc)
  /\ hand'[h].agent = hand[h].agent /\ hand'[h].req = hand[h].req
  /\ hand'[h].target = hand[h].target /\ hand'[h].dead = hand[h].dead
  /\ \/ hand'[h].past = hand[h].past /\ hand[h].pc # "state"
     \/ hand[h].pc = "state" /\ hand'[h].past = Expired
  /\ \/ hand'[h].grant = hand[h].grant /\ ~ (hand[h].pc = "authorized" /\ hand'[h].pc = "mint")
     \/ /\ hand[h].pc = "authorized" /\ hand'[h].pc = "mint"
        /\ \E g \in GrantIds : hand'[h].grant = g /\ Covers(g, h)
  /\ \/ hand'[h].rules = hand[h].rules /\ (hand[h].pc = "evaluate" => hand'[h].pc = "answer")
     \/ /\ hand[h].pc = "evaluate" /\ hand'[h].rules = policy
        /\ Passes(hand[h].agent, hand[h].target, hand'[h].pc)

\* One handler's record is replaced by u.
LEMMA HandReplaced ==
  ASSUME hand \in [Handlers -> Hand], NEW h \in Handlers, NEW u \in Hand,
         hand' = [hand EXCEPT ![h] = u]
  PROVE  /\ hand' \in [Handlers -> Hand] /\ hand'[h] = u
         /\ \A k \in Handlers : k # h => hand'[k] = hand[k]
OBVIOUS

\* Every step of a handler is such a move, and leaves policy, grants and administration alone.
LEMMA HandlerMoves ==
  ASSUME AuthInv, NEW h \in Handlers, HandlerStep(h)
  PROVE  HandMoves(h) /\ UNCHANGED <<policy, grants, admin, changes, life>>
<1>t. hand \in [Handlers -> Hand] /\ hand[h] \in Hand /\ Carries(hand[h])
  BY DEF AuthInv, AuthTyped
<1>u. UNCHANGED <<policy, grants, admin, changes, life>>
  BY DEF HandlerStep, CheckFingerprint, RecordAgent, RecordRequested, EvaluatePolicy, RequestFails,
         MatchGrant, Mint, AskApproval, RecordAwaiting, AnswerWaiting
<1> SUFFICES HandMoves(h)
  BY <1>u
<1>s. ASSUME NEW p \in HandPcs, Step(h, p), Onward(hand[h].pc, p), hand[h].pc \notin {"state", "evaluate"},
             ~ (hand[h].pc = "authorized" /\ p = "mint")
      PROVE  HandMoves(h)
  BY <1>s, <1>t, StepFields DEF HandMoves
<1>a. ASSUME NEW st \in States \cup {"error", NULL}, Answer(h, st),
             hand[h].pc \in {"check", "evaluate", "authorized", "mint", "wait"}
      PROVE  HandMoves(h)
  BY <1>a, <1>t, AnswerFields DEF HandMoves, Onward
<1>1. CASE CheckFingerprint(h)
  <2>1. Step(h, "owner") \/ Step(h, "wait") \/ Answer(h, "error")
    BY <1>1 DEF CheckFingerprint, NewRequest, KnownRequest
  <2>2. hand[h].pc = "check"
    BY <1>1 DEF CheckFingerprint
  <2>3. ASSUME Step(h, "owner") PROVE HandMoves(h)
    BY <2>2, <2>3, <1>s DEF Onward, HandPcs
  <2>4. ASSUME Step(h, "wait") PROVE HandMoves(h)
    BY <2>2, <2>4, <1>s DEF Onward, HandPcs
  <2>5. ASSUME Answer(h, "error") PROVE HandMoves(h)
    BY <2>2, <2>5, <1>a
  <2> QED BY <2>1, <2>3, <2>4, <2>5
<1>2. CASE RecordAgent(h)
  BY <1>2, <1>s DEF RecordAgent, Onward, HandPcs
<1>3. CASE RecordRequested(h)
  <2> DEFINE u == [hand[h] EXCEPT !.pc = "evaluate", !.past = Expired]
  <2>1. /\ u \in Hand /\ u.pc = "evaluate" /\ u.agent = hand[h].agent /\ u.req = hand[h].req
        /\ u.target = hand[h].target /\ u.rules = hand[h].rules /\ u.grant = hand[h].grant
        /\ u.dead = hand[h].dead /\ u.past = Expired
    <3>1. Expired \in SUBSET GrantIds
      BY DEF Expired
    <3> HIDE DEF Expired
    <3> QED BY <1>t, <3>1 DEF Hand, HandPcs
  <2>2. hand' = [hand EXCEPT ![h] = u] /\ hand[h].pc = "state"
    BY <1>3 DEF RecordRequested
  <2> HIDE DEF u
  <2>3. hand' \in [Handlers -> Hand] /\ hand'[h] = u /\ \A k \in Handlers : k # h => hand'[k] = hand[k]
    BY <1>t, <2>1, <2>2, HandReplaced
  <2> HIDE DEF Expired
  <2>4. Onward(hand[h].pc, hand'[h].pc)
    BY <2>1, <2>2, <2>3 DEF Onward
  <2> QED BY <2>1, <2>2, <2>3, <2>4 DEF HandMoves
<1>4. CASE EvaluatePolicy(h)
  <2> DEFINE v == Evaluate(policy, hand[h].agent, hand[h].target)
             q == IF v = "allow" THEN "mint" ELSE "authorized"
             u == [hand[h] EXCEPT !.rules = policy, !.pc = q]
  <2>1. v \in {"allow", "presence"} /\ hand' = [hand EXCEPT ![h] = u] /\ hand[h].pc = "evaluate"
    BY <1>4 DEF EvaluatePolicy
  <2>2. q \in {"mint", "authorized"} /\ (q = "mint" => v = "allow")
    OBVIOUS
  <2> HIDE DEF v, q
  <2>3. /\ u \in Hand /\ u.pc = q /\ u.agent = hand[h].agent /\ u.req = hand[h].req
        /\ u.target = hand[h].target /\ u.rules = policy /\ u.grant = hand[h].grant
        /\ u.dead = hand[h].dead /\ u.past = hand[h].past
    BY <1>t, <2>2 DEF Hand, HandPcs, AuthInv, AuthTyped
  <2> HIDE DEF u
  <2>4. /\ hand' \in [Handlers -> Hand] /\ hand'[h] = u
        /\ \A k \in Handlers : k # h => hand'[k] = hand[k]
    BY <2>1, <2>3, <1>t
  <2>5. Passes(hand[h].agent, hand[h].target, q)
    BY <2>1, <2>2 DEF Passes, v
  <2>6. Onward(hand[h].pc, hand'[h].pc)
    BY <2>1, <2>2, <2>3, <2>4 DEF Onward
  <2>7. Passes(hand[h].agent, hand[h].target, hand'[h].pc)
    BY <2>3, <2>4, <2>5
  <2> QED BY <2>1, <2>2, <2>3, <2>4, <2>6, <2>7 DEF HandMoves
<1>5. CASE RequestFails(h)
  BY <1>5, <1>a DEF RequestFails
<1>6. CASE MatchGrant(h)
  <2>1. PICK g \in GrantIds : Covers(g, h) /\ hand' = [hand EXCEPT ![h].pc = "mint", ![h].grant = g]
    BY <1>6 DEF MatchGrant
  <2> DEFINE u == [hand[h] EXCEPT !.pc = "mint", !.grant = g]
  <2>2. /\ u \in Hand /\ u.pc = "mint" /\ u.agent = hand[h].agent /\ u.req = hand[h].req
        /\ u.target = hand[h].target /\ u.rules = hand[h].rules /\ u.grant = g
        /\ u.dead = hand[h].dead /\ u.past = hand[h].past
    BY <1>t DEF Hand, HandPcs
  <2>3. hand' = [hand EXCEPT ![h] = u] /\ hand[h].pc = "authorized"
    BY <1>6, <2>1 DEF MatchGrant
  <2> HIDE DEF u
  <2>4. hand' \in [Handlers -> Hand] /\ hand'[h] = u /\ \A k \in Handlers : k # h => hand'[k] = hand[k]
    BY <1>t, <2>2, <2>3, HandReplaced
  <2>5. Onward(hand[h].pc, hand'[h].pc)
    BY <2>2, <2>3, <2>4 DEF Onward
  <2> QED BY <2>1, <2>2, <2>3, <2>4, <2>5 DEF HandMoves
<1>7. CASE Mint(h)
  BY <1>7, <1>s DEF Mint, Onward, HandPcs
<1>8. CASE AskApproval(h)
  BY <1>8, <1>s DEF AskApproval, Onward, HandPcs
<1>9. CASE RecordAwaiting(h)
  BY <1>9, <1>s DEF RecordAwaiting, Onward, HandPcs
<1>10. CASE AnswerWaiting(h)
  <2>1. hand[h].pc = "wait" /\ Answer(h, requests[hand[h].req])
    BY <1>10 DEF AnswerWaiting
  <2>2. PICK st \in States \cup {"error", NULL} : st = requests[hand[h].req]
    BY <2>1, <1>t DEF Carries, AuthInv, AuthTyped
  <2>3. Answer(h, st)
    BY <2>1, <2>2
  <2>4. hand[h].pc \in {"check", "evaluate", "authorized", "mint", "wait"}
    BY <2>1
  <2> QED BY <2>3, <2>4, <1>a
<1> QED BY <1>1, <1>2, <1>3, <1>4, <1>5, <1>6, <1>7, <1>8, <1>9, <1>10 DEF HandlerStep

(***************************************************************************)
(* The steps of AgentCalls as the authority sees them.                     *)
(***************************************************************************)
Others(h) == /\ hand' \in [Handlers -> Hand]
             /\ \A k \in Handlers : k # h => hand'[k] = hand[k]

\* Everything of the authority but its handlers stays.
Settled == UNCHANGED <<policy, grants, memory, caps, admin, changes, life>>

\* A request is taken up.
Arrives(h) ==
  /\ Settled /\ Others(h)
  /\ hand[h].pc = "free" /\ hand'[h].pc = "check" /\ hand'[h].grant = NULL
  /\ hand'[h].agent \in Agents /\ hand'[h].req \in Requests /\ hand'[h].target \in Targets
  /\ hand'[h].dead = Expired \cup Revoked

\* A request is refused, or its answer is written.
Leaves(h) ==
  /\ Settled /\ Others(h)
  /\ \/ hand[h].pc = "free" /\ hand'[h].pc = "answer" /\ hand'[h].reply = "error"
     \/ hand[h].pc = "answer" /\ hand'[h].pc = "free"

AuthStep ==
  \/ UNCHANGED authVars
  \/ \E h \in Handlers : HandlerStep(h) \/ Arrives(h) \/ Leaves(h)
  \/ LocalStep
  \/ Restart

\* A free handler, and one with an error to answer, are handlers.
LEMMA FreeHand ==
  /\ Free \in Hand /\ Free.pc = "free"
  /\ [Free EXCEPT !.pc = "answer", !.reply = "error"] \in Hand
  /\ [Free EXCEPT !.pc = "answer", !.reply = "error"].pc = "answer"
  /\ [Free EXCEPT !.pc = "answer", !.reply = "error"].reply = "error"
BY DEF Free, Hand, HandPcs

\* Serve takes a request up, whether its id is the caller's or the broker's.
LEMMA ArriveFields ==
  ASSUME AuthInv, NEW h \in Handlers, NEW a \in Agents, NEW r \in Requests, NEW t \in Targets,
         Arrive(h, a, r, t)
  PROVE  Arrives(h) /\ hand'[h].agent = a /\ hand'[h].target = t
<1> DEFINE D == Expired \cup Revoked
           u == [Free EXCEPT !.pc = "check", !.agent = a, !.req = r, !.target = t, !.dead = D]
<1>1. D \in SUBSET GrantIds
  BY DEF Expired, Revoked
<1>2. hand' = [hand EXCEPT ![h] = u] /\ hand[h].pc = "free" /\ Settled
  BY DEF Arrive, Settled
<1> HIDE DEF D
<1>3. /\ u \in Hand /\ u.pc = "check" /\ u.grant = NULL /\ u.agent = a /\ u.req = r
      /\ u.target = t /\ u.dead = D
  BY <1>1 DEF Free, Hand, HandPcs
<1> HIDE DEF u
<1>4. Others(h) /\ hand'[h] = u
  BY <1>2, <1>3, HandReplaced DEF Others, AuthInv, AuthTyped
<1> QED BY <1>2, <1>3, <1>4 DEF Arrives, D

\* Every step of the calls is one of these for the authority.
LEMMA CallsSteps ==
  ASSUME AuthInv, LinkTyped, [CallsNext]_callVars
  PROVE  AuthStep
<1>t. hand \in [Handlers -> Hand]
  BY DEF AuthInv, AuthTyped
<1>1. ASSUME UNCHANGED authVars PROVE AuthStep
  BY <1>1 DEF AuthStep
<1>2. ASSUME NEW q \in Calls, BeginCall(q) \/ BeginAged(q) PROVE AuthStep
  BY <1>1, <1>2 DEF BeginCall, BeginAged
<1>3. ASSUME NEW a \in Agents,
             LibraryStep(a) \/ ConnectRefused(a) \/ HandshakeFails(a) \/ SocketFails(a)
      PROVE  AuthStep
  BY <1>1, <1>3 DEF LibraryStep, Hello, Authenticate, Send, GivesUp, ConnectRefused,
                    HandshakeFails, SocketFails
<1>4. ASSUME NEW h \in Handlers, Serve(h) PROVE AuthStep
  <2>1. PICK q \in Calls : q = conn[h].sent
    BY <1>4 DEF Serve, LinkTyped, Connection
  <2>2. PICK r \in Requests : Arrive(h, Caller[q], r, Subject[q])
    <3>1. Caller[q] \in Agents /\ Subject[q] \in Targets /\ Named[q] \in Requests \cup {NULL}
      BY CallsAssumption
    <3> QED BY <1>4, <2>1, <3>1 DEF Serve
  <2>3. Arrives(h)
    BY <2>2, CallsAssumption, ArriveFields
  <2> QED BY <2>3 DEF AuthStep
<1>5. ASSUME NEW h \in Handlers, ServeRefused(h) PROVE AuthStep
  <2> DEFINE u == [Free EXCEPT !.pc = "answer", !.reply = "error"]
  <2>1. hand' = [hand EXCEPT ![h] = u] /\ hand[h].pc = "free" /\ Settled
    BY <1>5 DEF ServeRefused, Settled
  <2>2. u \in Hand /\ u.pc = "answer" /\ u.reply = "error"
    BY FreeHand
  <2> HIDE DEF u
  <2>3. Leaves(h)
    BY <1>t, <2>1, <2>2, HandReplaced DEF Leaves, Others
  <2> QED BY <2>3 DEF AuthStep
<1>6. ASSUME NEW h \in Handlers, Deliver(h) PROVE AuthStep
  <2>1. hand' = [hand EXCEPT ![h] = Free] /\ hand[h].pc = "answer" /\ Settled
    BY <1>6 DEF Deliver, Settled
  <2>2. Leaves(h)
    BY <1>t, <2>1, FreeHand, HandReplaced DEF Leaves, Others
  <2> QED BY <2>2 DEF AuthStep
<1>7. ASSUME NEW h \in Handlers, HandlerStep(h) \/ EndConnection(h) PROVE AuthStep
  BY <1>1, <1>7 DEF EndConnection, AuthStep
<1>8. ASSUME DaemonRestarts PROVE AuthStep
  BY <1>8 DEF DaemonRestarts, AuthStep
<1>9. ASSUME LocalStep PROVE AuthStep
  BY <1>9 DEF AuthStep
<1>10. ASSUME UNCHANGED callVars PROVE AuthStep
  BY <1>1, <1>10 DEF callVars
<1> QED BY <1>2, <1>3, <1>4, <1>5, <1>6, <1>7, <1>8, <1>9, <1>10 DEF CallsNext, ServerStep

(***************************************************************************)
(* What happens to the capabilities.                                       *)
(***************************************************************************)
SameCap(c, d) ==
  /\ d.agent = c.agent /\ d.target = c.target /\ d.rules = c.rules /\ d.by = c.by
  /\ d.grant = c.grant /\ d.dead = c.dead /\ d.life = c.life

CapsKept ==
  /\ caps' \in [Requests -> Seq(Minting)]
  /\ \A r \in Requests : /\ DOMAIN caps'[r] = DOMAIN caps[r]
                         /\ \A i \in DOMAIN caps[r] : SameCap(caps[r][i], caps'[r][i])

CapAdded(r, c) ==
  /\ caps' \in [Requests -> Seq(Minting)] /\ c \in Minting
  /\ \A s \in Requests : s # r => caps'[s] = caps[s]
  /\ \A i \in DOMAIN caps[r] : i \in DOMAIN caps'[r] /\ caps'[r][i] = caps[r][i]
  /\ \E n \in DOMAIN caps'[r] : /\ n \notin DOMAIN caps[r] /\ caps'[r][n] = c
                                /\ \A i \in DOMAIN caps'[r] : i \in DOMAIN caps[r] \/ i = n

\* generate_capability adds one.
LEMMA CapAppended ==
  ASSUME caps \in [Requests -> Seq(Minting)], NEW r \in Requests, NEW c \in Minting,
         caps' = [caps EXCEPT ![r] = Append(@, c)]
  PROVE  CapAdded(r, c)
<1>1. caps[r] \in Seq(Minting) /\ caps' = [caps EXCEPT ![r] = Append(caps[r], c)]
  OBVIOUS
<1>2. PICK s \in Seq(Minting) : s = caps[r]
  BY <1>1
<1>3. /\ Append(s, c) \in Seq(Minting) /\ DOMAIN s = 1 .. Len(s) /\ Len(s) \in Nat
      /\ DOMAIN Append(s, c) = 1 .. (Len(s) + 1) /\ Append(s, c)[Len(s) + 1] = c
      /\ \A i \in 1 .. Len(s) : Append(s, c)[i] = s[i]
  OBVIOUS
<1> DEFINE z == Append(s, c)
<1>4. z \in Seq(Minting) /\ \A i \in DOMAIN s : i \in DOMAIN z /\ z[i] = s[i]
  BY <1>3
<1>5. Len(s) + 1 \in DOMAIN z /\ Len(s) + 1 \notin DOMAIN s /\ z[Len(s) + 1] = c
  BY <1>3
<1>6. \A i \in DOMAIN z : i \in DOMAIN s \/ i = Len(s) + 1
  BY <1>3
<1> HIDE DEF z
<1>7. /\ caps' \in [Requests -> Seq(Minting)] /\ caps'[r] = z
      /\ \A q \in Requests : q # r => caps'[q] = caps[q]
  BY <1>1, <1>2, <1>4 DEF z
<1> QED BY <1>2, <1>4, <1>5, <1>6, <1>7 DEF CapAdded

\* What becomes of one capability that is withdrawn or kept.
LEMMA CapRewritten ==
  ASSUME NEW c \in Minting, NEW l \in BOOLEAN, NEW m \in BOOLEAN
  PROVE  /\ [c EXCEPT !.live = l, !.late = m] \in Minting
         /\ SameCap(c, [c EXCEPT !.live = l, !.late = m])
         /\ [c EXCEPT !.live = l, !.late = m].live = l
         /\ [c EXCEPT !.live = l, !.late = m].late = m
BY DEF Minting, SameCap

\* Revocations, policies and restarts change nothing of a capability but whether it is live.
LEMMA CapsRewritten ==
  ASSUME caps \in [Requests -> Seq(Minting)],
         caps' = [r \in Requests |-> [i \in DOMAIN caps[r] |-> caps'[r][i]]],
         \A r \in Requests : \A i \in DOMAIN caps[r] :
            caps'[r][i] \in Minting /\ SameCap(caps[r][i], caps'[r][i])
  PROVE  CapsKept
<1> SUFFICES ASSUME NEW r \in Requests
             PROVE  caps'[r] \in Seq(Minting) /\ DOMAIN caps'[r] = DOMAIN caps[r]
  <2>1. caps' = [r \in Requests |-> caps'[r]]
    OBVIOUS
  <2> QED BY <2>1 DEF CapsKept
<1>1. /\ DOMAIN caps[r] = 1 .. Len(caps[r]) /\ Len(caps[r]) \in Nat
      /\ caps'[r] = [i \in DOMAIN caps[r] |-> caps'[r][i]]
  OBVIOUS
<1>2. caps'[r] = [i \in 1 .. Len(caps[r]) |-> caps'[r][i]]
  BY <1>1
<1>3. \A i \in 1 .. Len(caps[r]) : caps'[r][i] \in Minting
  BY <1>1
<1> QED BY <1>1, <1>2, <1>3

(***************************************************************************)
(* Types are kept.                                                         *)
(***************************************************************************)
\* What a handler at the mint, and a person who approves, make.
LEMMA CapabilityTyped ==
  ASSUME AuthInv
  PROVE  /\ \A h \in Handlers : hand[h].pc = "mint" =>
              \A by \in {"policy", "grant"} : Capability(hand[h], by) \in Minting
         /\ \A r \in Requests : approvals[r] # NULL => Capability(approvals[r], "person") \in Minting
<1>1. ASSUME NEW h \in Handlers, hand[h].pc = "mint", NEW by \in {"policy", "grant"}
      PROVE  Capability(hand[h], by) \in Minting
  <2>1. hand[h] \in Hand /\ Carries(hand[h]) /\ life \in Nat
    BY DEF AuthInv, AuthTyped
  <2>2. PICK t : t = hand[h]
    OBVIOUS
  <2>3. /\ t.agent \in Agents /\ t.target \in Targets /\ t.rules \in Policies
        /\ t.grant \in GrantIds \cup {NULL} /\ t.dead \in SUBSET GrantIds
    BY <1>1, <2>1, <2>2 DEF Carries, Hand
  <2>4. (IF t.grant = NULL THEN {} ELSE t.dead) \in SUBSET GrantIds /\ (t.rules # policy /\ ~ Sweeping) \in BOOLEAN
    BY <2>3
  <2> QED BY <2>1, <2>2, <2>3, <2>4 DEF Capability, Minting
<1>2. ASSUME NEW r \in Requests, approvals[r] # NULL
      PROVE  Capability(approvals[r], "person") \in Minting
  <2>1. PICK t \in Authorization : t = approvals[r]
    BY <1>2 DEF AuthInv, AuthTyped
  <2>2. t.agent \in Agents /\ t.target \in Targets /\ t.rules \in Policies /\ t.grant = NULL
    BY <2>1 DEF Authorization
  <2>3. (IF t.grant = NULL THEN {} ELSE t.dead) = {} /\ (t.rules # policy /\ ~ Sweeping) \in BOOLEAN /\ life \in Nat
    BY <2>2 DEF AuthInv, AuthTyped
  <2> QED BY <2>1, <2>2, <2>3 DEF Capability, Minting
<1> QED BY <1>1, <1>2

\* The mint of a handler, as the capabilities see it.
MadeBy(h) == IF hand[h].grant = NULL THEN "policy" ELSE "grant"

\* A handler that mints adds that capability to its request and nothing else.
LEMMA MintAdds ==
  ASSUME AuthInv, NEW h \in Handlers, Mint(h)
  PROVE  hand[h].req \in Requests /\ CapAdded(hand[h].req, Capability(hand[h], MadeBy(h)))
<1>1. hand[h].req \in Requests /\ hand[h].pc = "mint" /\ caps \in [Requests -> Seq(Minting)]
  BY DEF AuthInv, AuthTyped, Mint, Carries
<1>2. Capability(hand[h], MadeBy(h)) \in Minting
  BY <1>1, CapabilityTyped DEF MadeBy
<1>3. caps' = [caps EXCEPT ![hand[h].req] = Append(@, Capability(hand[h], MadeBy(h)))]
  BY DEF Mint, MadeBy
<1> HIDE DEF MadeBy
<1> QED BY <1>1, <1>2, <1>3, CapAppended

\* A decision of the person, as the capabilities see it.
LEMMA DecideAdds ==
  ASSUME AuthInv, NEW r \in Requests, Decide(r, TRUE)
  PROVE  CapAdded(r, Capability(approvals[r], "person"))
<1>1. Capability(approvals[r], "person") \in Minting /\ caps \in [Requests -> Seq(Minting)]
  BY CapabilityTyped DEF Decide, AuthInv, AuthTyped
<1>2. caps' = [caps EXCEPT ![r] = Append(@, Capability(approvals[r], "person"))]
  BY DEF Decide
<1> QED BY <1>1, <1>2, CapAppended

\* A handler's step keeps the types.
LEMMA AuthHandler ==
  ASSUME AuthInv, NEW h \in Handlers, HandlerStep(h)
  PROVE  AuthInv'
<1>t. AuthTyped /\ hand[h] \in Hand /\ Carries(hand[h])
  BY DEF AuthInv, AuthTyped
<1>1. HandMoves(h) /\ UNCHANGED <<policy, grants, admin, changes, life>>
  BY HandlerMoves
<1>2. \A k \in Handlers : Carries(hand[k])'
  <2>1. ASSUME NEW k \in Handlers, k # h PROVE Carries(hand[k])'
    BY <1>1, <2>1 DEF HandMoves, AuthInv, Carries
  <2>2. Carries(hand[h])'
    BY <1>1, <1>t DEF HandMoves, Onward, Carries, AuthTyped
  <2> QED BY <2>1, <2>2
<1>3. prints' \in [Requests -> Targets \cup {NULL}]
  BY <1>t DEF HandlerStep, CheckFingerprint, NewRequest, KnownRequest, RecordAgent, RecordRequested,
         EvaluatePolicy, RequestFails, MatchGrant, Mint, AskApproval, RecordAwaiting, AnswerWaiting,
         AuthTyped, Carries, memory
<1>4. owner' \in [Requests -> Agents \cup {NULL}]
  BY <1>t DEF HandlerStep, CheckFingerprint, RecordAgent, RecordRequested,
         EvaluatePolicy, RequestFails, MatchGrant, Mint, AskApproval, RecordAwaiting, AnswerWaiting,
         AuthTyped, Carries, memory
<1>5. requests' \in [Requests -> States \cup {NULL}]
  BY <1>t DEF HandlerStep, CheckFingerprint, RecordAgent, RecordRequested, SetState,
         EvaluatePolicy, RequestFails, MatchGrant, Mint, AskApproval, RecordAwaiting, AnswerWaiting,
         AuthTyped, Carries, memory, States
<1>6. approvals' \in [Requests -> Authorization \cup {NULL}]
  <2>1. CASE AskApproval(h)
    <3> DEFINE u == [agent |-> hand[h].agent, target |-> hand[h].target, rules |-> hand[h].rules,
                     grant |-> NULL]
    <3>1. u \in Authorization
      BY <1>t, <2>1 DEF Carries, AskApproval, Authorization
    <3>2. approvals' = [approvals EXCEPT ![hand[h].req] = u]
      BY <2>1 DEF AskApproval
    <3> HIDE DEF u
    <3> QED BY <1>t, <3>1, <3>2 DEF AuthTyped
  <2>2. CASE UNCHANGED approvals
    BY <2>2, <1>t DEF AuthTyped
  <2> QED BY <2>1, <2>2 DEF HandlerStep, CheckFingerprint, RecordAgent, RecordRequested,
         EvaluatePolicy, RequestFails, MatchGrant, Mint, RecordAwaiting, AnswerWaiting, memory
<1>7. caps' \in [Requests -> Seq(Minting)]
  <2>1. CASE Mint(h)
    BY <2>1, MintAdds DEF CapAdded
  <2>2. CASE UNCHANGED caps
    BY <2>2, <1>t DEF AuthTyped
  <2> QED BY <2>1, <2>2 DEF HandlerStep, CheckFingerprint, RecordAgent, RecordRequested,
         EvaluatePolicy, RequestFails, MatchGrant, AskApproval, RecordAwaiting, AnswerWaiting
<1>8. AuthTyped'
  BY <1>t, <1>1, <1>3, <1>4, <1>5, <1>6, <1>7 DEF AuthTyped, HandMoves
<1>9. AdminHolds'
  BY <1>1 DEF AuthInv, AdminHolds, TaskHolds
<1> QED BY <1>2, <1>8, <1>9 DEF AuthInv

\* So do taking a request up and answering it.
LEMMA AuthArrival ==
  ASSUME AuthInv, NEW h \in Handlers, Arrives(h) \/ Leaves(h)
  PROVE  AuthInv'
<1>1. AuthTyped' /\ AdminHolds'
  BY DEF AuthInv, AuthTyped, AdminHolds, TaskHolds, Arrives, Leaves, Settled, Others, memory
<1>2. \A k \in Handlers : Carries(hand[k])'
  BY DEF AuthInv, Arrives, Leaves, Others, Carries
<1> QED BY <1>1, <1>2 DEF AuthInv

(***************************************************************************)
(* The administrators' steps.                                              *)
(***************************************************************************)
\* A replacement that has yet to go through the capabilities still has.
StillSweeping == Sweeping => Sweeping'

\* What a decision does to everything but the capabilities and the task at hand.
Decides(r) ==
  /\ approvals[r] # NULL /\ approvals' = [approvals EXCEPT ![r] = NULL]
  /\ UNCHANGED <<policy, grants, prints, owner, hand, life>>
  /\ \/ /\ CapAdded(r, Capability(approvals[r], "person"))
        /\ requests' = [requests EXCEPT ![r] = "issued"]
     \/ UNCHANGED caps /\ requests' = [requests EXCEPT ![r] = "denied"]

\* The grants change and nothing else the handlers know of.
Regrants == UNCHANGED <<policy, memory, caps, hand, life>>

\* Capabilities are withdrawn, or the policy they are judged by changes: one that stays live
\* is of the policy in force, or will be swept, or was already late.
Withdraws ==
  /\ CapsKept /\ UNCHANGED <<grants, memory, hand, life>> /\ policy' \in Policies
  /\ \A r \in Requests : \A i \in DOMAIN caps[r] :
       caps'[r][i].live /\ ~ caps'[r][i].late =>
          \/ caps'[r][i].rules = policy'
          \/ Sweeping'
          \/ policy' = policy /\ StillSweeping /\ caps[r][i].live /\ ~ caps[r][i].late

\* An administrator's step is about its own task.
LEMMA OtherTasks ==
  ASSUME AuthInv, NEW d \in Admins, AdminStep(d)
  PROVE  \A e \in Admins : e # d => admin'[e] = admin[e]
<1>1. admin \in [Admins -> AdminTask]
  BY DEF AuthInv, AuthTyped
<1>2. ASSUME NEW t, admin' = [admin EXCEPT ![d] = t]
      PROVE  \A e \in Admins : e # d => admin'[e] = admin[e]
  BY <1>1, <1>2
<1>3. \E t : admin' = [admin EXCEPT ![d] = t]
  BY DEF AdminStep, CreateGrant, InsertGrant, ListGrants, RevokeListed, WithdrawCapabilities,
         RevokeRows, SwapEvaluator, SweepMemory
<1> QED BY <1>2, <1>3

\* Only SweepMemory ends a replacement.
LEMMA SweepingKept ==
  ASSUME AuthInv, NEW d \in Admins, AdminStep(d), admin[d].pc # "sweep", UNCHANGED policy
  PROVE  StillSweeping
<1> SUFFICES ASSUME Sweeping PROVE Sweeping'
  BY DEF StillSweeping
<1>1. PICK e \in Admins : admin[e].pc = "sweep" /\ admin[e].rules = policy
  BY DEF Sweeping
<1>2. admin'[e] = admin[e]
  BY <1>1, OtherTasks
<1> QED BY <1>1, <1>2 DEF Sweeping

\* A decision, from either door, is one of these.
LEMMA DecideKinds ==
  ASSUME AuthInv, NEW r \in Requests, NEW approved \in BOOLEAN, Decide(r, approved)
  PROVE  Decides(r)
<1>1. CASE approved
  <2>1. Decide(r, TRUE)
    BY <1>1
  <2>2. CapAdded(r, Capability(approvals[r], "person"))
    BY <2>1, DecideAdds
  <2> QED BY <2>1, <2>2 DEF Decide, Decides, SetState
<1>2. CASE ~ approved
  BY <1>2 DEF Decide, Decides, SetState
<1> QED BY <1>1, <1>2

\* agent.disable and the revocation of a policy's rows: some capabilities are live no more.
LEMMA DimKinds ==
  ASSUME AuthInv, NEW d \in Admins,
         WithdrawCapabilities(d) \/ \E rules \in Policies : RevokeRows(d, rules)
  PROVE  Withdraws
<1>t. caps \in [Requests -> Seq(Minting)] /\ policy \in Policies
  BY DEF AuthInv, AuthTyped
<1>a. AdminStep(d)
  BY DEF AdminStep
<1>q. Quiet.pc # "sweep"
  BY DEF Quiet
<1>1. admin[d].pc # "sweep" /\ UNCHANGED <<policy, grants, memory, hand, life>>
  <2>1. CASE WithdrawCapabilities(d)
    BY <2>1 DEF WithdrawCapabilities
  <2>2. ASSUME NEW rules \in Policies, RevokeRows(d, rules)
        PROVE  admin[d].pc # "sweep" /\ UNCHANGED <<policy, grants, memory, hand, life>>
    BY <1>q, <2>2 DEF RevokeRows
  <2> QED BY <2>1, <2>2
<1>2. StillSweeping
  BY <1>a, <1>1, SweepingKept
<1>3. ASSUME NEW r \in Requests, NEW i \in DOMAIN caps[r]
      PROVE  /\ caps'[r][i] \in Minting /\ SameCap(caps[r][i], caps'[r][i])
             /\ caps'[r][i].late = caps[r][i].late /\ (caps'[r][i].live => caps[r][i].live)
  <2>1. PICK c \in Minting : c = caps[r][i]
    BY <1>t
  <2>2. c.live \in BOOLEAN /\ c.late \in BOOLEAN
    BY DEF Minting
  <2>3. PICK l \in BOOLEAN : caps'[r][i] = [c EXCEPT !.live = l] /\ (l => c.live)
    <3>1. CASE WithdrawCapabilities(d)
      <4>1. PICK l \in BOOLEAN : l <=> c.live /\ c.agent # admin[d].agent
        OBVIOUS
      <4>2. caps'[r][i] = [c EXCEPT !.live = c.live /\ c.agent # admin[d].agent]
        BY <3>1, <1>3, <2>1 DEF WithdrawCapabilities
      <4>3. (c.live /\ c.agent # admin[d].agent) = l
        BY <4>1, <2>2
      <4> QED BY <4>1, <4>2, <4>3
    <3>2. ASSUME NEW rules \in Policies, RevokeRows(d, rules)
          PROVE  \E l \in BOOLEAN : caps'[r][i] = [c EXCEPT !.live = l] /\ (l => c.live)
      <4>1. PICK l \in BOOLEAN : l <=> c.live /\ c.rules = rules
        OBVIOUS
      <4>2. caps'[r][i] = [c EXCEPT !.live = c.live /\ c.rules = rules]
        BY <3>2, <1>3, <2>1 DEF RevokeRows
      <4>3. (c.live /\ c.rules = rules) = l
        BY <4>1, <2>2
      <4> QED BY <4>1, <4>2, <4>3
    <3> QED BY <3>1, <3>2
  <2>4. [c EXCEPT !.live = l] = [c EXCEPT !.live = l, !.late = c.late]
    BY DEF Minting
  <2> DEFINE n == [c EXCEPT !.live = l, !.late = c.late]
  <2>5. n \in Minting /\ SameCap(c, n) /\ n.live = l /\ n.late = c.late
    BY <2>2, CapRewritten
  <2>6. caps'[r][i] = n
    BY <2>3, <2>4
  <2> HIDE DEF n
  <2> QED BY <2>1, <2>3, <2>5, <2>6
<1>4. caps' = [r \in Requests |-> [i \in DOMAIN caps[r] |-> caps'[r][i]]]
  BY DEF WithdrawCapabilities, RevokeRows
<1>5. CapsKept
  BY <1>t, <1>3, <1>4, CapsRewritten
<1> QED BY <1>t, <1>1, <1>2, <1>3, <1>5 DEF Withdraws

\* The evaluator is replaced: what is live will be swept.
LEMMA SwapKinds ==
  ASSUME AuthInv, NEW d \in Admins, SwapEvaluator(d)
  PROVE  Withdraws
<1>t. caps \in [Requests -> Seq(Minting)] /\ admin \in [Admins -> AdminTask] /\ TaskHolds(admin[d])
  BY DEF AuthInv, AuthTyped, AdminHolds
<1>1. /\ admin[d].pc = "swap" /\ policy' = admin[d].rules /\ UNCHANGED <<grants, memory, caps, hand, life>>
      /\ admin' = [admin EXCEPT ![d] = [admin[d] EXCEPT !.pc = "sweep"]]
  BY DEF SwapEvaluator
<1>2. PICK t \in AdminTask : t = admin[d]
  BY <1>t
<1>3. [t EXCEPT !.pc = "sweep"].pc = "sweep" /\ [t EXCEPT !.pc = "sweep"].rules = t.rules
  BY DEF AdminTask
<1>4. admin'[d].pc = "sweep" /\ admin'[d].rules = policy'
  BY <1>t, <1>1, <1>2, <1>3
<1>5. Sweeping' /\ policy' \in Policies
  BY <1>t, <1>1, <1>4 DEF Sweeping, TaskHolds
<1>6. CapsKept
  BY <1>t, <1>1 DEF CapsKept, SameCap
<1> QED BY <1>1, <1>5, <1>6 DEF Withdraws

\* The sweep: with the policy in force nothing of another stays live, and the sweep of one
\* that has been replaced since leaves its successor's to come.
LEMMA SweepKinds ==
  ASSUME AuthInv, NEW d \in Admins, SweepMemory(d)
  PROVE  Withdraws
<1>t. caps \in [Requests -> Seq(Minting)] /\ policy \in Policies /\ AdminStep(d)
  BY DEF AuthInv, AuthTyped, AdminStep
<1>1. UNCHANGED <<policy, grants, memory, hand, life>> /\ admin[d].pc = "sweep"
  BY DEF SweepMemory
<1>2. admin[d].rules # policy => StillSweeping
  <2> SUFFICES ASSUME admin[d].rules # policy, Sweeping PROVE Sweeping'
    BY DEF StillSweeping
  <2>1. PICK e \in Admins : admin[e].pc = "sweep" /\ admin[e].rules = policy
    BY DEF Sweeping
  <2>2. admin'[e] = admin[e]
    BY <1>t, <2>1, OtherTasks
  <2> QED BY <1>1, <2>1, <2>2 DEF Sweeping
<1>3. ASSUME NEW r \in Requests, NEW i \in DOMAIN caps[r]
      PROVE  /\ caps'[r][i] \in Minting /\ SameCap(caps[r][i], caps'[r][i])
             /\ caps'[r][i].live => caps[r][i].live /\ caps'[r][i].rules = admin[d].rules
             /\ admin[d].rules # policy /\ caps[r][i].late => caps'[r][i].late
  <2>1. PICK c \in Minting : c = caps[r][i]
    BY <1>t
  <2>2. c.live \in BOOLEAN /\ c.late \in BOOLEAN
    BY DEF Minting
  <2>3. PICK l \in BOOLEAN, m \in BOOLEAN :
          (l <=> c.live /\ c.rules = admin[d].rules) /\ (m <=> c.late /\ admin[d].rules # policy)
    OBVIOUS
  <2>4. (c.live /\ c.rules = admin[d].rules) = l /\ (c.late /\ admin[d].rules # policy) = m
    BY <2>2, <2>3
  <2>5. caps'[r][i] = [c EXCEPT !.live = c.live /\ c.rules = admin[d].rules,
                                !.late = c.late /\ admin[d].rules # policy]
    BY <1>3, <2>1 DEF SweepMemory
  <2> DEFINE n == [c EXCEPT !.live = l, !.late = m]
  <2>6. n \in Minting /\ SameCap(c, n) /\ n.live = l /\ n.late = m
    BY CapRewritten
  <2>7. caps'[r][i] = n
    BY <2>4, <2>5
  <2> HIDE DEF n
  <2>8. n.rules = c.rules
    BY <2>6 DEF SameCap
  <2> QED BY <2>1, <2>3, <2>6, <2>7, <2>8
<1>4. caps' = [r \in Requests |-> [i \in DOMAIN caps[r] |-> caps'[r][i]]]
  BY DEF SweepMemory
<1>5. CapsKept
  BY <1>t, <1>3, <1>4, CapsRewritten
<1>6. ASSUME NEW r \in Requests, NEW i \in DOMAIN caps[r], caps'[r][i].live, ~ caps'[r][i].late
      PROVE  \/ caps'[r][i].rules = policy'
             \/ policy' = policy /\ StillSweeping /\ caps[r][i].live /\ ~ caps[r][i].late
  <2>1. CASE admin[d].rules = policy
    BY <1>1, <1>3, <1>6, <2>1
  <2>2. CASE admin[d].rules # policy
    BY <1>1, <1>2, <1>3, <1>6, <2>2
  <2> QED BY <2>1, <2>2
<1> QED BY <1>t, <1>1, <1>5, <1>6 DEF Withdraws

\* Three kinds of step.
LEMMA AdminKinds ==
  ASSUME AuthInv, LocalStep
  PROVE  (((\E r \in Requests : Decides(r)) \/ Regrants) /\ StillSweeping) \/ Withdraws
<1> DEFINE Goal == (((\E r \in Requests : Decides(r)) \/ Regrants) /\ StillSweeping) \/ Withdraws
<1>1. ASSUME NEW r \in Requests, Resolve(r) PROVE Goal
  <2>1. UNCHANGED <<admin, policy>>
    BY <1>1 DEF Resolve, Decide
  <2>2. StillSweeping
    BY <2>1 DEF StillSweeping, Sweeping
  <2> QED BY <1>1, <2>2, DecideKinds DEF Resolve
<1>2. ASSUME NEW g \in GrantIds, ExpireGrant(g) PROVE Goal
  <2>1. UNCHANGED <<admin, policy>> /\ Regrants
    BY <1>2 DEF ExpireGrant, Regrants
  <2>2. StillSweeping
    BY <2>1 DEF StillSweeping, Sweeping
  <2> QED BY <2>1, <2>2
<1>3. ASSUME NEW d \in Admins, AdminStep(d) PROVE Goal
  <2>1. ASSUME NEW r \in Requests, CreateGrant(d, r) PROVE Goal
    <3>1. admin[d].pc # "sweep" /\ UNCHANGED policy /\ Decide(r, TRUE)
      BY <2>1 DEF CreateGrant, Decide, Quiet
    <3>2. Decides(r) /\ StillSweeping
      BY <1>3, <3>1, DecideKinds, SweepingKept
    <3> QED BY <3>2
  <2>2. ASSUME RevokeListed(d) \/ (\E g \in GrantIds : InsertGrant(d, g))
                 \/ \E a \in Agents : ListGrants(d, a)
        PROVE  Goal
    <3>q. Quiet.pc # "sweep"
      BY DEF Quiet
    <3>1. admin[d].pc # "sweep" /\ UNCHANGED policy /\ Regrants
      BY <2>2, <3>q DEF RevokeListed, InsertGrant, ListGrants, Regrants
    <3>2. StillSweeping
      BY <1>3, <3>1, SweepingKept
    <3> QED BY <3>1, <3>2
  <2>3. ASSUME WithdrawCapabilities(d) \/ \E rules \in Policies : RevokeRows(d, rules) PROVE Withdraws
    BY <2>3, DimKinds
  <2>4. ASSUME SwapEvaluator(d) PROVE Withdraws
    BY <2>4, SwapKinds
  <2>5. ASSUME SweepMemory(d) PROVE Withdraws
    BY <2>5, SweepKinds
  <2> QED BY <1>3, <2>1, <2>2, <2>3, <2>4, <2>5 DEF AdminStep
<1> QED BY <1>1, <1>2, <1>3 DEF LocalStep

\* Which steps change the grants, and how.
GrantsLeft ==
  \/ UNCHANGED grants
  \/ \E d \in Admins : RevokeListed(d) \/ \E g \in GrantIds : InsertGrant(d, g)
  \/ \E g \in GrantIds : ExpireGrant(g)

LEMMA GrantKinds ==
  ASSUME LocalStep
  PROVE  GrantsLeft
BY DEF GrantsLeft, LocalStep, AdminStep, Resolve, CreateGrant, Decide, ListGrants,
       WithdrawCapabilities, RevokeRows, SwapEvaluator, SweepMemory

\* A new grant is one.
LEMMA NewGrantFields ==
  ASSUME NEW a \in Agents, NEW t \in Targets
  PROVE  NewGrant(a, t) \in Grant /\ NewGrant(a, t).agent = a /\ NewGrant(a, t).target = t
<1>1. CalculateRisk(t, FALSE) \in Low .. Critical
  BY RiskAssumption DEF CalculateRisk, Low, High, Critical
<1> HIDE DEF CalculateRisk
<1> QED BY <1>1 DEF NewGrant, Grant

\* A grant that is inserted, expired or revoked.
LEMMA GrantsTyped ==
  ASSUME AuthInv, LocalStep
  PROVE  /\ grants' \in [GrantIds -> Grant \cup {NULL}]
         /\ \A g \in GrantIds : grants[g] # NULL => grants'[g] # NULL
<1>t. /\ grants \in [GrantIds -> Grant \cup {NULL}] /\ NULL \notin Grant
      /\ \A d \in Admins : TaskHolds(admin[d])
  BY AuthorityAssumption DEF AuthInv, AuthTyped, AdminHolds
<1>e. ASSUME NEW o \in Grant
      PROVE  [o EXCEPT !.live = FALSE] \in Grant /\ [o EXCEPT !.expired = TRUE] \in Grant
  BY DEF Grant
<1>1. CASE UNCHANGED grants
  BY <1>1, <1>t
<1>2. ASSUME NEW d \in Admins, NEW g \in GrantIds, InsertGrant(d, g)
      PROVE  /\ grants' \in [GrantIds -> Grant \cup {NULL}]
             /\ \A o \in GrantIds : grants[o] # NULL => grants'[o] # NULL
  <2> DEFINE n == NewGrant(admin[d].agent, admin[d].target)
             mine(o) == /\ grants[o] # NULL /\ grants[o].agent = admin[d].agent
                        /\ grants[o].target = admin[d].target
  <2>1. n \in Grant
    BY <1>t, <1>2, NewGrantFields DEF InsertGrant, TaskHolds
  <2>2. grants' = [o \in GrantIds |-> IF o = g THEN n
                     ELSE IF mine(o) THEN [grants[o] EXCEPT !.live = FALSE] ELSE grants[o]]
    BY <1>2 DEF InsertGrant
  <2> HIDE DEF n
  <2>3. ASSUME NEW o \in GrantIds
        PROVE  grants'[o] \in Grant \cup {NULL} /\ (grants[o] # NULL => grants'[o] # NULL)
    <3>1. grants'[o] = IF o = g THEN n
                       ELSE IF mine(o) THEN [grants[o] EXCEPT !.live = FALSE] ELSE grants[o]
      BY <2>2
    <3>2. mine(o) => grants[o] \in Grant
      BY <1>t
    <3> HIDE DEF mine
    <3>3. mine(o) => [grants[o] EXCEPT !.live = FALSE] \in Grant
      BY <3>2, <1>e
    <3> QED BY <1>t, <2>1, <3>1, <3>3
  <2>4. grants' = [o \in GrantIds |-> grants'[o]]
    BY <2>2
  <2> QED BY <2>3, <2>4
<1>3. ASSUME NEW g \in GrantIds, ExpireGrant(g)
      PROVE  /\ grants' \in [GrantIds -> Grant \cup {NULL}]
             /\ \A o \in GrantIds : grants[o] # NULL => grants'[o] # NULL
  <2>1. PICK n \in Grant : n = grants[g]
    BY <1>t, <1>3 DEF ExpireGrant
  <2>2. grants' = [grants EXCEPT ![g] = [n EXCEPT !.expired = TRUE]]
    BY <1>3, <2>1 DEF ExpireGrant
  <2>3. PICK m \in Grant : m = [n EXCEPT !.expired = TRUE]
    BY <1>e
  <2>4. grants' = [grants EXCEPT ![g] = m]
    BY <2>2, <2>3
  <2> QED BY <1>t, <2>4
<1>4. ASSUME NEW d \in Admins, RevokeListed(d)
      PROVE  /\ grants' \in [GrantIds -> Grant \cup {NULL}]
             /\ \A o \in GrantIds : grants[o] # NULL => grants'[o] # NULL
  <2>1. grants' = [g \in GrantIds |->
           IF g \in admin[d].ids THEN [grants[g] EXCEPT !.live = FALSE] ELSE grants[g]]
    BY <1>4 DEF RevokeListed
  <2>2. ASSUME NEW o \in GrantIds
        PROVE  grants'[o] \in Grant \cup {NULL} /\ (grants[o] # NULL => grants'[o] # NULL)
    <3>1. grants'[o] = IF o \in admin[d].ids THEN [grants[o] EXCEPT !.live = FALSE] ELSE grants[o]
      BY <2>1
    <3>2. o \in admin[d].ids => grants[o] \in Grant
      BY <1>t DEF TaskHolds
    <3>3. o \in admin[d].ids => [grants[o] EXCEPT !.live = FALSE] \in Grant
      BY <3>2, <1>e
    <3> QED BY <1>t, <3>1, <3>3
  <2>3. grants' = [o \in GrantIds |-> grants'[o]]
    BY <2>1
  <2> QED BY <2>2, <2>3
<1> QED BY <1>1, <1>2, <1>3, <1>4, GrantKinds DEF GrantsLeft

\* What becomes of the task at hand.
LEMMA TaskTyped ==
  ASSUME AuthInv, NEW d \in Admins, AdminStep(d)
  PROVE  \E t \in AdminTask : TaskHolds(t)' /\ admin' = [admin EXCEPT ![d] = t]
<1>t. /\ TaskHolds(admin[d]) /\ admin[d] \in AdminTask
      /\ \A g \in GrantIds : grants[g] # NULL => grants'[g] # NULL
  BY GrantsTyped DEF AuthInv, AuthTyped, AdminHolds, LocalStep
<1>u. PICK u \in AdminTask : u = admin[d]
  BY <1>t
<1>i. u.ids \in SUBSET GrantIds /\ \A g \in u.ids : grants'[g] # NULL
  BY <1>t, <1>u DEF AdminTask, TaskHolds
<1> DEFINE Good == \E t \in AdminTask : TaskHolds(t)' /\ admin' = [admin EXCEPT ![d] = t]
<1>2. CASE admin' = [admin EXCEPT ![d] = Quiet]
  <2>1. Quiet \in AdminTask /\ Quiet.pc = "quiet" /\ Quiet.ids = {}
    BY DEF Quiet, AdminTask
  <2>2. TaskHolds(Quiet)'
    BY <2>1 DEF TaskHolds
  <2> QED BY <1>2, <2>1, <2>2
<1>3. ASSUME NEW r \in Requests, CreateGrant(d, r) PROVE Good
  <2>1. PICK a \in Authorization : a = approvals[r]
    BY <1>3 DEF CreateGrant, AuthInv, AuthTyped
  <2>2. a.agent \in Agents /\ a.target \in Targets
    BY DEF Authorization
  <2> DEFINE t == [Quiet EXCEPT !.pc = "insert", !.agent = a.agent, !.target = a.target]
  <2>3. admin' = [admin EXCEPT ![d] = t]
    BY <1>3, <2>1 DEF CreateGrant
  <2>4. t \in AdminTask /\ t.pc = "insert" /\ t.agent = a.agent /\ t.target = a.target /\ t.ids = {}
    BY <2>2 DEF Quiet, AdminTask
  <2> HIDE DEF t
  <2>5. TaskHolds(t)'
    BY <2>2, <2>4 DEF TaskHolds
  <2> QED BY <2>3, <2>4, <2>5
<1>4. ASSUME NEW a \in Agents, ListGrants(d, a) PROVE Good
  <2>0. \A g \in Listed(a) : g \in GrantIds /\ grants'[g] # NULL
    BY <1>t DEF Listed
  <2>1. PICK p \in {"revoke", "disable"}, S \in SUBSET Listed(a) :
          admin' = [admin EXCEPT ![d] = [Quiet EXCEPT !.pc = p, !.agent = a, !.ids = S]]
    <3> HIDE DEF Listed
    <3>1. PICK p \in {"revoke", "disable"}, S \in {{g} : g \in Listed(a)} \cup {Listed(a)} :
            admin' = [admin EXCEPT ![d] = [Quiet EXCEPT !.pc = p, !.agent = a, !.ids = S]]
      BY <1>4 DEF ListGrants
    <3>2. S \in SUBSET Listed(a)
      BY <3>1
    <3> QED BY <3>1, <3>2
  <2>2. S \in SUBSET GrantIds /\ \A g \in S : grants'[g] # NULL
    BY <2>0
  <2> DEFINE t == [Quiet EXCEPT !.pc = p, !.agent = a, !.ids = S]
  <2>3. t \in AdminTask /\ t.pc = p /\ t.ids = S
    BY <2>2 DEF Quiet, AdminTask
  <2>4. admin' = [admin EXCEPT ![d] = t]
    BY <2>1
  <2> HIDE DEF t
  <2>5. TaskHolds(t)'
    BY <2>2, <2>3 DEF TaskHolds
  <2> QED BY <2>3, <2>4, <2>5
<1>5. CASE admin' = [admin EXCEPT ![d] = [admin[d] EXCEPT !.pc = "withdraw"]]
  <2> DEFINE t == [u EXCEPT !.pc = "withdraw"]
  <2>1. t \in AdminTask /\ t.pc = "withdraw" /\ t.ids = u.ids
    BY DEF AdminTask
  <2>2. admin' = [admin EXCEPT ![d] = t]
    BY <1>5, <1>u
  <2> HIDE DEF t
  <2>3. TaskHolds(t)'
    BY <1>i, <2>1 DEF TaskHolds
  <2> QED BY <2>1, <2>2, <2>3
<1>6. CASE RevokeListed(d)
  <2>1. \/ admin' = [admin EXCEPT ![d] = Quiet]
        \/ admin' = [admin EXCEPT ![d] = [admin[d] EXCEPT !.pc = "withdraw"]]
    BY <1>6 DEF RevokeListed
  <2> QED BY <2>1, <1>2, <1>5
<1>7. ASSUME NEW rules \in Policies, RevokeRows(d, rules) PROVE Good
  <2> DEFINE t == [Quiet EXCEPT !.pc = "swap", !.rules = rules]
  <2>1. t \in AdminTask /\ t.pc = "swap" /\ t.rules = rules /\ t.ids = {}
    BY DEF Quiet, AdminTask
  <2>2. admin' = [admin EXCEPT ![d] = t]
    BY <1>7 DEF RevokeRows
  <2> HIDE DEF t
  <2>3. TaskHolds(t)'
    BY <2>1 DEF TaskHolds
  <2> QED BY <2>1, <2>2, <2>3
<1>8. CASE SwapEvaluator(d)
  <2> DEFINE t == [u EXCEPT !.pc = "sweep"]
  <2>1. t \in AdminTask /\ t.pc = "sweep" /\ t.rules = u.rules /\ t.ids = u.ids
    BY DEF AdminTask
  <2>2. admin' = [admin EXCEPT ![d] = t] /\ u.rules \in Policies
    BY <1>t, <1>u, <1>8 DEF SwapEvaluator, TaskHolds
  <2> HIDE DEF t
  <2>3. TaskHolds(t)'
    BY <1>i, <2>1, <2>2 DEF TaskHolds
  <2> QED BY <2>1, <2>2, <2>3
<1> QED BY <1>2, <1>3, <1>4, <1>6, <1>7, <1>8
        DEF AdminStep, InsertGrant, WithdrawCapabilities, SweepMemory

\* The tasks of the administrators.
LEMMA AdminTyped ==
  ASSUME AuthInv, LocalStep
  PROVE  admin' \in [Admins -> AdminTask] /\ AdminHolds' /\ changes' \in Nat
<1>t. /\ AdminHolds /\ admin \in [Admins -> AdminTask] /\ changes \in Nat
      /\ \A g \in GrantIds : grants[g] # NULL => grants'[g] # NULL
  BY GrantsTyped DEF AuthInv, AuthTyped
<1>c. changes' \in Nat
  <2>1. UNCHANGED changes \/ Change
    BY DEF LocalStep, AdminStep, Resolve, CreateGrant, InsertGrant, ExpireGrant, ListGrants,
           RevokeListed, WithdrawCapabilities, RevokeRows, SwapEvaluator, SweepMemory
  <2> QED BY <1>t, <2>1 DEF Change
<1>k. ASSUME NEW e \in Admins, admin'[e] = admin[e] PROVE TaskHolds(admin[e])'
  <2>1. PICK u \in AdminTask : u = admin[e]
    BY <1>t
  <2>2. u.ids \in SUBSET GrantIds /\ TaskHolds(u)
    BY <1>t, <2>1 DEF AdminTask, AdminHolds
  <2> QED BY <1>t, <1>k, <2>1, <2>2 DEF TaskHolds
<1>1. CASE UNCHANGED admin
  BY <1>1, <1>t, <1>k, <1>c DEF AdminHolds
<1>2. ASSUME NEW d \in Admins, AdminStep(d) PROVE admin' \in [Admins -> AdminTask] /\ AdminHolds'
  <2>1. PICK t \in AdminTask : TaskHolds(t)' /\ admin' = [admin EXCEPT ![d] = t]
    BY <1>2, TaskTyped
  <2>2. /\ admin' \in [Admins -> AdminTask] /\ admin'[d] = t
        /\ \A e \in Admins : e # d => admin'[e] = admin[e]
    BY <1>t, <2>1
  <2>3. TaskHolds(admin[d])'
    BY <2>1, <2>2 DEF TaskHolds
  <2> QED BY <1>k, <2>2, <2>3 DEF AdminHolds
<1>3. UNCHANGED admin \/ \E d \in Admins : AdminStep(d)
  BY DEF LocalStep, Resolve, ExpireGrant
<1> QED BY <1>1, <1>2, <1>3, <1>c

\* The local interface keeps the types.
LEMMA AuthAdmin ==
  ASSUME AuthInv, LocalStep
  PROVE  AuthInv'
<1>t. AuthTyped
  BY DEF AuthInv
<1>1. UNCHANGED hand /\ UNCHANGED <<prints, owner, life>>
  BY AdminKinds DEF Decides, Regrants, Withdraws, memory
<1>2. policy' \in Policies /\ caps' \in [Requests -> Seq(Minting)]
  BY <1>t, AdminKinds DEF Decides, Regrants, Withdraws, CapsKept, CapAdded, AuthTyped
<1>3. /\ requests' \in [Requests -> States \cup {NULL}]
      /\ approvals' \in [Requests -> Authorization \cup {NULL}]
  BY <1>t, AdminKinds DEF Decides, Regrants, Withdraws, memory, AuthTyped, States
<1>4. AuthTyped' /\ AdminHolds'
  BY <1>t, <1>1, <1>2, <1>3, GrantsTyped, AdminTyped DEF AuthTyped
<1> QED BY <1>1, <1>4 DEF AuthInv, Carries

\* A restart ends every capability and every handler.
LEMMA RestartKinds ==
  ASSUME AuthInv, Restart
  PROVE  /\ CapsKept /\ \A r \in Requests : \A i \in DOMAIN caps[r] : ~ caps'[r][i].live
         /\ hand' = [h \in Handlers |-> Free] /\ UNCHANGED <<policy, grants>> /\ life' = life + 1
         /\ \A r \in Requests : /\ prints'[r] = NULL /\ owner'[r] = NULL
                                /\ requests'[r] = NULL /\ approvals'[r] = NULL
<1>t. caps \in [Requests -> Seq(Minting)]
  BY DEF AuthInv, AuthTyped
<1>2. caps' = [r \in Requests |-> [i \in DOMAIN caps[r] |->
         [caps[r][i] EXCEPT !.live = FALSE, !.late = FALSE]]]
  BY DEF Restart
<1>3. caps' = [r \in Requests |-> [i \in DOMAIN caps[r] |-> caps'[r][i]]]
  BY <1>2
<1>4. ASSUME NEW r \in Requests, NEW i \in DOMAIN caps[r]
      PROVE  caps'[r][i] \in Minting /\ SameCap(caps[r][i], caps'[r][i]) /\ caps'[r][i].live = FALSE
  <2>1. PICK c \in Minting : c = caps[r][i]
    BY <1>t
  <2> DEFINE d == [c EXCEPT !.live = FALSE, !.late = FALSE]
  <2>2. d \in Minting /\ SameCap(c, d) /\ d.live = FALSE
    BY CapRewritten
  <2>3. caps'[r][i] = d
    BY <1>2, <1>4, <2>1
  <2> HIDE DEF d
  <2> QED BY <2>1, <2>2, <2>3
<1>5. CapsKept
  BY <1>t, <1>3, <1>4, CapsRewritten
<1>6. \A r \in Requests : \A i \in DOMAIN caps[r] : ~ caps'[r][i].live
  BY <1>4
<1> QED BY <1>5, <1>6 DEF Restart

\* It keeps the types.
LEMMA AuthRestart ==
  ASSUME AuthInv, Restart
  PROVE  AuthInv'
<1>1. hand' \in [Handlers -> Hand] /\ \A h \in Handlers : hand'[h].pc = "free"
  BY RestartKinds, FreeHand
<1>5. Quiet \in AdminTask
  BY DEF Quiet, AdminTask
<1>6. /\ prints' \in [Requests -> Targets \cup {NULL}] /\ owner' \in [Requests -> Agents \cup {NULL}]
      /\ requests' \in [Requests -> States \cup {NULL}]
      /\ approvals' \in [Requests -> Authorization \cup {NULL}]
      /\ admin' = [d \in Admins |-> Quiet] /\ UNCHANGED <<policy, grants, changes>> /\ life' = life + 1
  BY DEF Restart
<1>2. AuthTyped'
  BY <1>1, <1>5, <1>6, RestartKinds DEF AuthInv, AuthTyped, CapsKept
<1>3. AdminHolds'
  BY <1>6 DEF AdminHolds, TaskHolds, Quiet
<1>4. \A h \in Handlers : Carries(hand[h])'
  BY <1>1 DEF Carries
<1> QED BY <1>2, <1>3, <1>4 DEF AuthInv

\* Every step keeps the types of the authority.
LEMMA AuthKept ==
  ASSUME AuthInv, AuthStep
  PROVE  AuthInv'
<1>1. CASE UNCHANGED authVars
  BY <1>1 DEF authVars, AuthInv, AuthTyped, AdminHolds, TaskHolds, Carries
<1> QED BY <1>1, AuthHandler, AuthArrival, AuthAdmin, AuthRestart DEF AuthStep

(***************************************************************************)
(* Grants.                                                                 *)
(***************************************************************************)
\* A grant is never removed, revived or made younger.
GrantsOnward ==
  \A g \in GrantIds : grants[g] # NULL =>
    /\ grants'[g] # NULL
    /\ ~ grants[g].live => ~ grants'[g].live
    /\ grants[g].expired => grants'[g].expired

\* The administrator's steps, one grant at a time.
LEMMA GrantsStep ==
  ASSUME AuthInv, OneLiveGrant, LocalStep
  PROVE  GrantsOnward /\ OneLiveGrant'
<1>t. /\ grants \in [GrantIds -> Grant \cup {NULL}] /\ NULL \notin Grant
      /\ \A d \in Admins : TaskHolds(admin[d])
      /\ \A g \in GrantIds : grants[g] # NULL => grants'[g] # NULL
  BY AuthorityAssumption, GrantsTyped DEF AuthInv, AuthTyped, AdminHolds
<1>f. ASSUME NEW o \in Grant
      PROVE  /\ [o EXCEPT !.live = FALSE].live = FALSE /\ [o EXCEPT !.live = FALSE].expired = o.expired
             /\ [o EXCEPT !.live = FALSE].agent = o.agent /\ [o EXCEPT !.live = FALSE].target = o.target
             /\ [o EXCEPT !.expired = TRUE].live = o.live /\ [o EXCEPT !.expired = TRUE].expired
             /\ [o EXCEPT !.expired = TRUE].agent = o.agent /\ [o EXCEPT !.expired = TRUE].target = o.target
  BY DEF Grant
<1> DEFINE Less(g) == /\ grants'[g] # NULL => grants[g] # NULL
                      /\ grants'[g] # NULL =>
                           /\ grants'[g].agent = grants[g].agent /\ grants'[g].target = grants[g].target
                           /\ grants'[g].live => grants[g].live
                           /\ grants[g].expired => grants'[g].expired
<1>l. ASSUME \A g \in GrantIds : Less(g) PROVE GrantsOnward /\ OneLiveGrant'
  BY <1>l, <1>t DEF GrantsOnward, OneLiveGrant
<1>1. CASE UNCHANGED grants
  BY <1>1, <1>l
<1>2. ASSUME NEW d \in Admins, NEW g \in GrantIds, InsertGrant(d, g) PROVE GrantsOnward /\ OneLiveGrant'
  <2> DEFINE n == NewGrant(admin[d].agent, admin[d].target)
             mine(o) == /\ grants[o] # NULL /\ grants[o].agent = admin[d].agent
                        /\ grants[o].target = admin[d].target
  <2>1. grants[g] = NULL /\ n.agent = admin[d].agent /\ n.target = admin[d].target
    BY <1>2, <1>t, NewGrantFields DEF InsertGrant, Fresh, TaskHolds
  <2>2. grants' = [o \in GrantIds |-> IF o = g THEN n
                     ELSE IF mine(o) THEN [grants[o] EXCEPT !.live = FALSE] ELSE grants[o]]
    BY <1>2 DEF InsertGrant
  <2> HIDE DEF n
  <2>3. ASSUME NEW o \in GrantIds, o # g
        PROVE  /\ Less(o)
               /\ grants'[o] # NULL /\ grants'[o].agent = n.agent /\ grants'[o].target = n.target
                    => ~ grants'[o].live
    <3>1. grants'[o] = IF mine(o) THEN [grants[o] EXCEPT !.live = FALSE] ELSE grants[o]
      BY <2>2, <2>3
    <3>2. CASE mine(o)
      <4>1. PICK e \in Grant : e = grants[o]
        BY <1>t, <3>2
      <4> DEFINE f == [e EXCEPT !.live = FALSE]
      <4>2. f.live = FALSE /\ f.expired = e.expired /\ f.agent = e.agent /\ f.target = e.target
        BY <1>f
      <4>3. grants'[o] = f
        BY <3>1, <3>2, <4>1
      <4> HIDE DEF f
      <4> QED BY <4>1, <4>2, <4>3, <3>2
    <3>3. CASE ~ mine(o)
      <4>1. grants'[o] = grants[o]
        BY <3>1, <3>3
      <4> QED BY <4>1, <3>3, <2>1
    <3> QED BY <3>2, <3>3
  <2>4. grants'[g] = n
    BY <2>2
  <2>5. GrantsOnward
    BY <1>t, <2>1, <2>3 DEF GrantsOnward
  <2>6. OneLiveGrant'
    <3> SUFFICES ASSUME NEW o \in GrantIds, NEW e \in GrantIds, o # e, grants'[o] # NULL, grants'[e] # NULL,
                        grants'[o].agent = grants'[e].agent, grants'[o].target = grants'[e].target
                 PROVE  ~ (grants'[o].live /\ grants'[e].live)
      BY DEF OneLiveGrant
    <3>1. CASE o = g
      BY <3>1, <2>3, <2>4
    <3>2. CASE e = g
      BY <3>2, <2>3, <2>4
    <3>3. CASE o # g /\ e # g
      BY <3>3, <2>3 DEF OneLiveGrant
    <3> QED BY <3>1, <3>2, <3>3
  <2> QED BY <2>5, <2>6
<1>3. ASSUME NEW g \in GrantIds, ExpireGrant(g) PROVE GrantsOnward /\ OneLiveGrant'
  <2>1. PICK e \in Grant : e = grants[g]
    BY <1>t, <1>3 DEF ExpireGrant
  <2> DEFINE d == [e EXCEPT !.expired = TRUE]
  <2>2. d.live = e.live /\ d.expired /\ d.agent = e.agent /\ d.target = e.target
    BY <1>f
  <2>3. grants' = [grants EXCEPT ![g] = d]
    BY <1>3, <2>1 DEF ExpireGrant
  <2> HIDE DEF d
  <2>4. \A o \in GrantIds : Less(o)
    BY <1>t, <2>1, <2>2, <2>3
  <2> QED BY <1>l, <2>4
<1>4. ASSUME NEW d \in Admins, RevokeListed(d) PROVE GrantsOnward /\ OneLiveGrant'
  <2>1. grants' = [g \in GrantIds |->
           IF g \in admin[d].ids THEN [grants[g] EXCEPT !.live = FALSE] ELSE grants[g]]
    BY <1>4 DEF RevokeListed
  <2>2. ASSUME NEW o \in GrantIds PROVE Less(o)
    <3>1. CASE o \in admin[d].ids
      <4>1. PICK e \in Grant : e = grants[o]
        BY <1>t, <3>1 DEF TaskHolds
      <4> DEFINE f == [e EXCEPT !.live = FALSE]
      <4>2. f.live = FALSE /\ f.expired = e.expired /\ f.agent = e.agent /\ f.target = e.target
        BY <1>f
      <4>3. grants'[o] = f
        BY <2>1, <3>1, <4>1
      <4> HIDE DEF f
      <4> QED BY <1>t, <4>1, <4>2, <4>3
    <3>2. CASE o \notin admin[d].ids
      <4>1. grants'[o] = grants[o]
        BY <2>1, <3>2
      <4> QED BY <4>1
    <3> QED BY <3>1, <3>2
  <2> QED BY <1>l, <2>2
<1> QED BY <1>1, <1>2, <1>3, <1>4, GrantKinds DEF GrantsLeft

\* No capability was issued under a grant that had ended when its request came.
GrantUsed == \A r \in Requests : \A i \in DOMAIN caps[r] : caps[r][i].grant \notin caps[r][i].dead

\* Withdrawing a capability does not change what it was issued under.
LEMMA GrantUsedKept ==
  ASSUME AuthInv, GrantUsed, CapsKept \/ UNCHANGED caps
  PROVE  GrantUsed'
BY DEF GrantUsed, CapsKept, SameCap

\* One more capability, issued under no ended grant.
LEMMA GrantUsedAdded ==
  ASSUME AuthInv, GrantUsed, NEW r \in Requests, NEW c, CapAdded(r, c), c.grant \notin c.dead
  PROVE  GrantUsed'
<1> SUFFICES ASSUME NEW s \in Requests, NEW i \in DOMAIN caps'[s]
             PROVE  caps'[s][i].grant \notin caps'[s][i].dead
  BY DEF GrantUsed
<1>1. CASE s # r
  BY <1>1 DEF CapAdded, GrantUsed
<1>2. CASE s = r /\ i \in DOMAIN caps[r]
  BY <1>2 DEF CapAdded, GrantUsed
<1>3. CASE s = r /\ i \notin DOMAIN caps[r]
  BY <1>3 DEF CapAdded
<1> QED BY <1>1, <1>2, <1>3

\* Every step keeps one live grant per tuple, and no handler gets hold of an ended one.
LEMMA GrantKept ==
  ASSUME AuthInv, GrantInv, AuthStep
  PROVE  GrantInv'
<1>i. OneLiveGrant /\ GrantUsed /\ \A h \in Handlers : Judged(hand[h])
  BY DEF GrantInv, GrantUsed
<1>n. NULL \notin GrantIds
  BY AuthorityAssumption
<1>g. ASSUME OneLiveGrant', GrantUsed', \A h \in Handlers : Judged(hand[h])' PROVE GrantInv'
  BY <1>g DEF GrantInv, GrantUsed
<1>1. CASE UNCHANGED authVars
  BY <1>1 DEF authVars, GrantInv, OneLiveGrant, Judged, Ended
<1>2. ASSUME NEW h \in Handlers, HandlerStep(h) PROVE GrantInv'
  <2>1. HandMoves(h) /\ UNCHANGED <<policy, grants, admin, changes, life>>
    BY <1>2, HandlerMoves
  <2>2. OneLiveGrant'
    BY <1>i, <2>1 DEF OneLiveGrant
  <2>3. GrantUsed'
    <3>1. CASE Mint(h)
      <4> DEFINE c == Capability(hand[h], MadeBy(h))
      <4>1. hand[h].req \in Requests /\ CapAdded(hand[h].req, c)
        BY <3>1, MintAdds
      <4>2. c.grant = hand[h].grant /\ c.dead \subseteq hand[h].dead
        BY DEF Capability
      <4>3. hand[h].grant \notin hand[h].dead
        BY <3>1, <1>i DEF Judged, Mint
      <4> HIDE DEF c
      <4> QED BY <1>i, <4>1, <4>2, <4>3, GrantUsedAdded
    <3>2. CASE UNCHANGED caps
      BY <3>2, <1>i, GrantUsedKept
    <3> QED BY <1>2, <3>1, <3>2 DEF HandlerStep, CheckFingerprint, RecordAgent, RecordRequested,
         EvaluatePolicy, RequestFails, MatchGrant, AskApproval, RecordAwaiting, AnswerWaiting
  <2>4. ASSUME NEW k \in Handlers, k # h PROVE Judged(hand[k])'
    BY <1>i, <2>1, <2>4 DEF Judged, HandMoves, Ended
  <2>5. Judged(hand[h])'
    <3>t. hand[h] \in Hand /\ hand[h].dead \in SUBSET GrantIds
      BY DEF AuthInv, AuthTyped, Hand
    <3>1. CASE hand[h].pc = "state"
      BY <3>1, <3>t, <1>i, <2>1 DEF Judged, HandMoves, Onward, Ended, Expired
    <3>2. CASE hand[h].pc = "authorized" /\ hand'[h].pc = "mint"
      BY <3>2, <3>t, <1>i, <2>1 DEF Judged, HandMoves, Onward, Ended, Covers
    <3>3. CASE hand[h].pc = "evaluate"
      BY <3>3, <3>t, <1>i, <1>n, <2>1 DEF Judged, HandMoves, Onward, Ended
    <3>4. CASE hand[h].pc \notin {"state", "evaluate"} /\ ~ (hand[h].pc = "authorized" /\ hand'[h].pc = "mint")
      BY <3>4, <3>t, <1>i, <2>1 DEF Judged, HandMoves, Onward, Ended
    <3> QED BY <3>1, <3>2, <3>3, <3>4
  <2> QED BY <1>g, <2>2, <2>3, <2>4, <2>5
<1>3. ASSUME NEW h \in Handlers, Arrives(h) \/ Leaves(h) PROVE GrantInv'
  <2>1. UNCHANGED <<grants, caps>> /\ Others(h)
    BY <1>3 DEF Arrives, Leaves, Settled
  <2>2. OneLiveGrant' /\ GrantUsed'
    BY <1>i, <2>1, GrantUsedKept DEF OneLiveGrant
  <2>3. ASSUME NEW k \in Handlers, k # h PROVE Judged(hand[k])'
    BY <1>i, <2>1, <2>3 DEF Judged, Others, Ended
  <2>4. Judged(hand[h])'
    BY <1>3, <2>1 DEF Judged, Arrives, Leaves, Expired, Revoked
  <2> QED BY <1>g, <2>2, <2>3, <2>4
<1>4. CASE LocalStep
  <2>1. GrantsOnward /\ OneLiveGrant'
    BY <1>4, <1>i, GrantsStep
  <2>2. UNCHANGED hand
    BY <1>4, AdminKinds DEF Decides, Regrants, Withdraws
  <2>3. ASSUME NEW k \in Handlers PROVE Judged(hand[k])'
    <3>1. hand[k] \in Hand /\ hand[k].dead \in SUBSET GrantIds
      BY DEF AuthInv, AuthTyped, Hand
    <3> QED BY <1>i, <2>1, <2>2, <3>1 DEF Judged, Ended, GrantsOnward
  <2>4. GrantUsed'
    <3>1. ASSUME NEW r \in Requests, Decides(r) PROVE GrantUsed'
      <4>1. CASE UNCHANGED caps
        BY <4>1, <1>i, GrantUsedKept
      <4>2. CASE CapAdded(r, Capability(approvals[r], "person"))
        <5> DEFINE c == Capability(approvals[r], "person")
        <5>1. approvals[r].grant = NULL
          BY <3>1 DEF Decides, AuthInv, AuthTyped, Authorization
        <5>2. c.grant \notin c.dead
          BY <5>1 DEF Capability
        <5> HIDE DEF c
        <5> QED BY <1>i, <4>2, <5>2, GrantUsedAdded DEF c
      <4> QED BY <3>1, <4>1, <4>2 DEF Decides
    <3>2. ASSUME Regrants \/ Withdraws PROVE GrantUsed'
      BY <3>2, <1>i, GrantUsedKept DEF Regrants, Withdraws
    <3> QED BY <1>4, <3>1, <3>2, AdminKinds
  <2> QED BY <1>g, <2>1, <2>3, <2>4
<1>5. CASE Restart
  <2>1. OneLiveGrant' /\ GrantUsed'
    BY <1>5, <1>i, RestartKinds, GrantUsedKept DEF OneLiveGrant
  <2>2. \A h \in Handlers : Judged(hand[h])'
    BY <1>5, RestartKinds, FreeHand DEF Judged
  <2> QED BY <1>g, <2>1, <2>2
<1> QED BY <1>1, <1>2, <1>3, <1>4, <1>5 DEF AuthStep

(***************************************************************************)
(* The policy evaluator, for policies of any length.                       *)
(***************************************************************************)
\* The scan after each rule, from the first.
IsScan(f, rules, a, t) ==
  f = [i \in 0 .. Len(rules) |->
         IF i = 0 THEN "default" ELSE ScanRule(rules[i], f[i - 1], a, t)]

\* The scan is defined however long the policy is: no least length has none.
LEMMA ScanExists ==
  ASSUME NEW rules, Len(rules) \in Nat, NEW a, NEW t
  PROVE  \E f : IsScan(f, rules, a, t)
<1> DEFINE Up(n, f) == f = [i \in 0 .. n |-> IF i = 0 THEN "default" ELSE ScanRule(rules[i], f[i - 1], a, t)]
           Stuck == {n \in Nat : ~ \E f : Up(n, f)}
<1>1. Stuck = {}
  <2> SUFFICES ASSUME Stuck # {} PROVE FALSE
    OBVIOUS
  <2>1. PICK n \in Stuck : \A m \in Stuck : n <= m
    BY LeastNatural
  <2>2. CASE n = 0
    <3> DEFINE f == [i \in 0 .. 0 |-> "default"]
    <3>1. \A i \in 0 .. 0 : i = 0 /\ f[i] = "default"
      OBVIOUS
    <3>2. f = [i \in 0 .. 0 |-> f[i]]
      OBVIOUS
    <3> HIDE DEF f
    <3>3. Up(0, f)
      BY <3>1, <3>2
    <3> QED BY <2>1, <2>2, <3>3
  <2>3. CASE n # 0
    <3>0. Stuck \subseteq Nat
      OBVIOUS
    <3>1. n \in Nat /\ n - 1 \in Nat /\ n - 1 \notin Stuck
      <4> HIDE DEF Stuck
      <4> QED BY <3>0, <2>1, <2>3
    <3>2. PICK g : Up(n - 1, g)
      BY <3>1
    <3> DEFINE f == [i \in 0 .. n |-> IF i = n THEN ScanRule(rules[n], g[n - 1], a, t) ELSE g[i]]
    <3>3. \A i \in 0 .. n : f[i] = IF i = 0 THEN "default" ELSE ScanRule(rules[i], f[i - 1], a, t)
      <4> SUFFICES ASSUME NEW i \in 0 .. n
                   PROVE  f[i] = IF i = 0 THEN "default" ELSE ScanRule(rules[i], f[i - 1], a, t)
        OBVIOUS
      <4>1. CASE i = n
        <5>1. f[i] = ScanRule(rules[n], g[n - 1], a, t)
          BY <4>1, <3>1
        <5>2. n - 1 \in 0 .. n /\ n - 1 # n
          BY <3>1
        <5>3. f[n - 1] = g[n - 1]
          BY <5>2
        <5> HIDE DEF f
        <5> QED BY <4>1, <5>1, <5>3, <2>3
      <4>2. CASE i # n
        <5>1. i \in 0 .. (n - 1) /\ (i # 0 => i - 1 \in 0 .. n /\ i - 1 # n)
          BY <4>2, <3>1
        <5>2. f[i] = g[i] /\ (i # 0 => f[i - 1] = g[i - 1])
          BY <5>1, <4>2
        <5> HIDE DEF f
        <5>3. g[i] = IF i = 0 THEN "default" ELSE ScanRule(rules[i], g[i - 1], a, t)
          BY <5>1, <3>2
        <5> QED BY <5>2, <5>3
      <4> QED BY <4>1, <4>2
    <3>4. f = [i \in 0 .. n |-> f[i]]
      OBVIOUS
    <3> HIDE DEF f
    <3>5. Up(n, f)
      BY <3>3, <3>4
    <3> QED BY <2>1, <3>5
  <2> QED BY <2>2, <2>3
<1>2. PICK f : Up(Len(rules), f)
  BY <1>1
<1> QED BY <1>2 DEF IsScan

\* Evaluate is where the scan ends.
LEMMA EvaluateScans ==
  ASSUME NEW rules, Len(rules) \in Nat, NEW a, NEW t
  PROVE  \E f : IsScan(f, rules, a, t) /\ Evaluate(rules, a, t) = f[Len(rules)]
<1> DEFINE f == CHOOSE f : IsScan(f, rules, a, t)
<1>1. IsScan(f, rules, a, t)
  BY ScanExists
<1>2. Evaluate(rules, a, t) = f[Len(rules)]
  BY DEF Evaluate, IsScan
<1> QED BY <1>1, <1>2

\* What the scan has found after i rules.
ScanState(rules, a, t, i, v) ==
  /\ v \in Verdicts
  /\ v = "default" <=> \A j \in 1 .. i : ~ RuleMatches(rules[j], a, t)
  /\ v \in {"allow", "presence"} =>
       \A j \in 1 .. i : RuleMatches(rules[j], a, t) => rules[j].effect = "allow"
  /\ v = "allow" => \E k \in 1 .. i :
       /\ RuleMatches(rules[k], a, t) /\ ~ rules[k].presence
       /\ \A j \in 1 .. k - 1 : ~ RuleMatches(rules[j], a, t)
  /\ v = "presence" => \E k \in 1 .. i :
       /\ RuleMatches(rules[k], a, t) /\ rules[k].presence
       /\ \A j \in 1 .. k - 1 : ~ RuleMatches(rules[j], a, t)
  /\ v = "deny" => \E j \in 1 .. i : RuleMatches(rules[j], a, t) /\ rules[j].effect # "allow"

\* The scan finds what ScanState says after every rule: no first rule makes it wrong.
LEMMA ScanFinds ==
  ASSUME NEW rules \in Seq(Rule), NEW a, NEW t, NEW f, IsScan(f, rules, a, t)
  PROVE  \A i \in 0 .. Len(rules) : ScanState(rules, a, t, i, f[i])
<1> DEFINE Wrong == {i \in 0 .. Len(rules) : ~ ScanState(rules, a, t, i, f[i])}
<1> SUFFICES ASSUME Wrong # {} PROVE FALSE
  OBVIOUS
<1>0. Len(rules) \in Nat /\ Wrong \in SUBSET Nat
  OBVIOUS
<1>1. PICK i \in Wrong : \A j \in Wrong : i <= j
  BY <1>0, LeastNatural
<1>2. f[0] = "default"
  BY <1>0 DEF IsScan
<1>3. CASE i = 0
  BY <1>1, <1>2, <1>3 DEF ScanState, Verdicts
<1>4. CASE i # 0
  <2>1. i \in 1 .. Len(rules) /\ i - 1 \in 0 .. Len(rules) /\ i \in Nat
    BY <1>0, <1>1, <1>4
  <2>2. ScanState(rules, a, t, i - 1, f[i - 1])
    BY <1>1, <2>1
  <2>3. f[i] = ScanRule(rules[i], f[i - 1], a, t)
    BY <2>1, <1>4 DEF IsScan
  <2>4. rules[i].effect \in {"allow", "deny"} /\ rules[i].presence \in BOOLEAN
    <3>1. rules[i] \in Rule
      BY <2>1
    <3> QED BY <3>1 DEF Rule
  <2>5. \A j : j \in 1 .. i <=> (j \in 1 .. (i - 1) \/ j = i)
    BY <2>1
  <2> DEFINE v == f[i - 1]
             w == f[i]
             m == RuleMatches(rules[i], a, t)
             p == i - 1
  <2>6. w = ScanRule(rules[i], v, a, t) /\ ScanState(rules, a, t, p, v) /\ p = i - 1
    BY <2>2, <2>3
  <2> HIDE DEF v, w, p
  <2>7. ScanState(rules, a, t, i, w)
    <3>1. w = "default" <=> \A j \in 1 .. i : ~ RuleMatches(rules[j], a, t)
      BY <2>4, <2>5, <2>6 DEF ScanRule, ScanState
    <3>2. w \in {"allow", "presence"} =>
            \A j \in 1 .. i : RuleMatches(rules[j], a, t) => rules[j].effect = "allow"
      BY <2>4, <2>5, <2>6 DEF ScanRule, ScanState
    <3>3. w = "allow" => \E k \in 1 .. i :
            /\ RuleMatches(rules[k], a, t) /\ ~ rules[k].presence
            /\ \A j \in 1 .. k - 1 : ~ RuleMatches(rules[j], a, t)
      BY <2>4, <2>5, <2>6 DEF ScanRule, ScanState
    <3>4. w = "presence" => \E k \in 1 .. i :
            /\ RuleMatches(rules[k], a, t) /\ rules[k].presence
            /\ \A j \in 1 .. k - 1 : ~ RuleMatches(rules[j], a, t)
      BY <2>4, <2>5, <2>6 DEF ScanRule, ScanState
    <3>5. w = "deny" => \E j \in 1 .. i : RuleMatches(rules[j], a, t) /\ rules[j].effect # "allow"
      BY <2>4, <2>5, <2>6 DEF ScanRule, ScanState
    <3>6. w \in Verdicts
      BY <2>6 DEF ScanRule, ScanState, Verdicts
    <3> QED BY <3>1, <3>2, <3>3, <3>4, <3>5, <3>6 DEF ScanState
  <2> QED BY <1>1, <2>7 DEF w
<1> QED BY <1>3, <1>4

\* PolicyEvaluator::evaluate, for policies of any length: it permits a use exactly when
\* some rule allows it and none denies it, wherever the rules stand; and without a person
\* exactly when, besides, the first rule about the use asks for none.
THEOREM EvaluateExact ==
  ASSUME NEW rules \in Seq(Rule), NEW a, NEW t
  PROVE  /\ Evaluate(rules, a, t) \in {"allow", "presence"} <=> Permits(rules, a, t)
         /\ Evaluate(rules, a, t) = "allow" <=> PermitsAlone(rules, a, t)
<1>1. Len(rules) \in Nat
  OBVIOUS
<1>2. PICK f : IsScan(f, rules, a, t) /\ Evaluate(rules, a, t) = f[Len(rules)]
  BY <1>1, EvaluateScans
<1>3. ScanState(rules, a, t, Len(rules), Evaluate(rules, a, t))
  BY <1>1, <1>2, ScanFinds
<1>4. ASSUME NEW i \in 1 .. Len(rules) PROVE rules[i].presence \in BOOLEAN
  <2>1. rules[i] \in Rule
    BY <1>1
  <2> QED BY <2>1 DEF Rule
<1> DEFINE v == Evaluate(rules, a, t)
           n == Len(rules)
<1> HIDE DEF v, n
<1>5. ScanState(rules, a, t, n, v) /\ n \in Nat /\ \A i \in 1 .. n : rules[i].presence \in BOOLEAN
  BY <1>1, <1>3, <1>4 DEF v, n
<1>6. v \in {"allow", "presence"} <=> Permits(rules, a, t)
  <2>1. v \in {"allow", "presence"} => Permits(rules, a, t)
    BY <1>5 DEF ScanState, Permits, n
  <2>2. Permits(rules, a, t) => v # "default" /\ v # "deny"
    BY <1>5 DEF ScanState, Permits, n
  <2>3. v \in Verdicts
    BY <1>5 DEF ScanState
  <2> QED BY <2>1, <2>2, <2>3 DEF Verdicts
<1>7. v = "allow" => PermitsAlone(rules, a, t)
  BY <1>5, <1>6 DEF ScanState, PermitsAlone, n
<1>8. v = "presence" => ~ PermitsAlone(rules, a, t)
  <2> SUFFICES ASSUME v = "presence", PermitsAlone(rules, a, t) PROVE FALSE
    OBVIOUS
  <2>1. PICK k \in 1 .. n : /\ RuleMatches(rules[k], a, t) /\ rules[k].presence
                            /\ \A j \in 1 .. k - 1 : ~ RuleMatches(rules[j], a, t)
    BY <1>5 DEF ScanState
  <2>2. PICK i \in 1 .. n : /\ RuleMatches(rules[i], a, t) /\ ~ rules[i].presence
                            /\ \A j \in 1 .. i - 1 : ~ RuleMatches(rules[j], a, t)
    BY DEF PermitsAlone, n
  <2>3. i = k
    <3>1. ~ (i < k) /\ ~ (k < i)
      BY <1>5, <2>1, <2>2
    <3> QED BY <1>5, <3>1
  <2> QED BY <2>1, <2>2, <2>3
<1>9. PermitsAlone(rules, a, t) => Permits(rules, a, t)
  BY DEF PermitsAlone
<1>10. v = "allow" <=> PermitsAlone(rules, a, t)
  BY <1>6, <1>7, <1>8, <1>9
<1> QED BY <1>6, <1>10 DEF v

(***************************************************************************)
(* Policies.                                                               *)
(***************************************************************************)
InForce(c) == c.live /\ ~ c.late => c.rules = policy \/ Sweeping

CapsSound == \A r \in Requests : \A i \in DOMAIN caps[r] : Sound(caps[r][i]) /\ InForce(caps[r][i])

AskedSound ==
  \A r \in Requests : approvals[r] # NULL =>
    Permits(approvals[r].rules, approvals[r].agent, approvals[r].target)

\* A capability is sound whatever becomes of it later.
LEMMA SoundStays ==
  ASSUME NEW c, NEW d, SameCap(c, d), Sound(c)
  PROVE  Sound(d)
BY DEF SameCap, Sound

\* One sound capability more.
LEMMA SoundAdded ==
  ASSUME CapsSound, NEW r \in Requests, NEW c, CapAdded(r, c), Sound(c), InForce(c), UNCHANGED policy,
         StillSweeping
  PROVE  CapsSound'
<1> SUFFICES ASSUME NEW s \in Requests, NEW i \in DOMAIN caps'[s], NEW d, d = caps'[s][i]
             PROVE  Sound(d) /\ InForce(d)
  BY DEF CapsSound, Sound, InForce, StillSweeping
<1>1. CASE s # r
  BY <1>1 DEF CapAdded, CapsSound
<1>2. CASE s = r /\ i \in DOMAIN caps[r]
  BY <1>2 DEF CapAdded, CapsSound
<1>3. CASE s = r /\ i \notin DOMAIN caps[r]
  <2>1. d = c
    BY <1>3 DEF CapAdded
  <2> QED BY <2>1
<1> QED BY <1>1, <1>2, <1>3

\* What was evaluated and minted just now is in force unless it says it is late.
LEMMA MadeInForce ==
  ASSUME NEW t, NEW by
  PROVE  /\ InForce(Capability(t, by))
         /\ Capability(t, by).rules = t.rules /\ Capability(t, by).agent = t.agent
         /\ Capability(t, by).target = t.target /\ Capability(t, by).by = by
BY DEF InForce, Capability

\* Every step keeps every capability within its policy.
LEMMA PolicyKept ==
  ASSUME AuthInv, PolicyInv, AuthStep
  PROVE  PolicyInv'
<1>i. CapsSound /\ AskedSound /\ \A h \in Handlers : Evaluated(hand[h])
  BY DEF PolicyInv, CapsSound, AskedSound, InForce
<1>n. NULL \notin GrantIds
  BY AuthorityAssumption
<1>g. ASSUME CapsSound', AskedSound', \A h \in Handlers : Evaluated(hand[h])' PROVE PolicyInv'
  BY <1>g DEF PolicyInv, CapsSound, AskedSound, InForce
<1>1. CASE UNCHANGED authVars
  BY <1>1 DEF authVars, PolicyInv, Evaluated, Sound, Sweeping
<1>2. ASSUME NEW h \in Handlers, HandlerStep(h) PROVE PolicyInv'
  <2>1. HandMoves(h) /\ UNCHANGED <<policy, grants, admin, changes, life>>
    BY <1>2, HandlerMoves
  <2>s. StillSweeping
    BY <2>1 DEF StillSweeping, Sweeping
  <2>t. hand[h] \in Hand /\ Carries(hand[h]) /\ policy \in Seq(Rule)
    BY AuthorityAssumption DEF AuthInv, AuthTyped
  <2>2. CapsSound'
    <3>1. CASE Mint(h)
      <4> DEFINE c == Capability(hand[h], MadeBy(h))
      <4>1. hand[h].req \in Requests /\ CapAdded(hand[h].req, c)
        BY <3>1, MintAdds
      <4>2. /\ InForce(c) /\ c.rules = hand[h].rules /\ c.agent = hand[h].agent
            /\ c.target = hand[h].target /\ c.by = MadeBy(h)
        BY MadeInForce
      <4>3. /\ Permits(hand[h].rules, hand[h].agent, hand[h].target)
            /\ hand[h].grant = NULL => PermitsAlone(hand[h].rules, hand[h].agent, hand[h].target)
        BY <3>1, <1>i DEF Evaluated, Mint
      <4>4. MadeBy(h) = "policy" => hand[h].grant = NULL
        BY DEF MadeBy
      <4> HIDE DEF c
      <4>5. Sound(c)
        BY <4>2, <4>3, <4>4 DEF Sound
      <4> QED BY <1>i, <2>1, <2>s, <4>1, <4>2, <4>5, SoundAdded
    <3>2. CASE UNCHANGED caps
      BY <3>2, <1>i, <2>1, <2>s DEF CapsSound, InForce, Sound, StillSweeping
    <3> QED BY <1>2, <3>1, <3>2 DEF HandlerStep, CheckFingerprint, RecordAgent, RecordRequested,
         EvaluatePolicy, RequestFails, MatchGrant, AskApproval, RecordAwaiting, AnswerWaiting
  <2>3. AskedSound'
    <3>1. CASE AskApproval(h)
      <4> DEFINE u == [agent |-> hand[h].agent, target |-> hand[h].target, rules |-> hand[h].rules,
                       grant |-> NULL]
      <4>1. u.agent = hand[h].agent /\ u.target = hand[h].target /\ u.rules = hand[h].rules
        OBVIOUS
      <4>2. approvals' = [approvals EXCEPT ![hand[h].req] = u] /\ hand[h].pc = "authorized"
        BY <3>1 DEF AskApproval
      <4> HIDE DEF u
      <4>3. Permits(u.rules, u.agent, u.target)
        BY <1>i, <4>1, <4>2 DEF Evaluated
      <4>4. \A r \in Requests : approvals'[r] = u \/ approvals'[r] = approvals[r]
        BY <4>2 DEF AuthInv, AuthTyped
      <4> QED BY <1>i, <4>3, <4>4 DEF AskedSound
    <3>2. CASE UNCHANGED approvals
      BY <3>2, <1>i DEF AskedSound
    <3> QED BY <1>2, <3>1, <3>2 DEF HandlerStep, CheckFingerprint, RecordAgent, RecordRequested,
         EvaluatePolicy, RequestFails, MatchGrant, Mint, RecordAwaiting, AnswerWaiting, memory
  <2>4. ASSUME NEW k \in Handlers, k # h PROVE Evaluated(hand[k])'
    BY <1>i, <2>1, <2>4 DEF Evaluated, HandMoves
  <2>5. Evaluated(hand[h])'
    <3>1. CASE hand[h].pc = "evaluate" /\ hand'[h].pc # "answer"
      <4>1. /\ hand'[h].rules = policy /\ hand'[h].agent = hand[h].agent /\ hand'[h].grant = NULL
            /\ hand'[h].target = hand[h].target
            /\ Passes(hand[h].agent, hand[h].target, hand'[h].pc)
        BY <3>1, <2>1, <1>i DEF HandMoves, Evaluated
      <4>2. PICK a, t, q : a = hand[h].agent /\ t = hand[h].target /\ q = hand'[h].pc
        OBVIOUS
      <4>3. Passes(a, t, q)
        BY <4>1, <4>2
      <4>4. Permits(policy, a, t) /\ (q = "mint" => PermitsAlone(policy, a, t))
        BY <4>3, <2>t, EvaluateExact DEF Passes
      <4> QED BY <4>1, <4>2, <4>4 DEF Evaluated
    <3>2. CASE hand[h].pc = "authorized" /\ hand'[h].pc = "mint"
      BY <3>2, <1>i, <1>n, <2>1 DEF Evaluated, HandMoves
    <3>3. CASE /\ ~ (hand[h].pc = "evaluate" /\ hand'[h].pc # "answer")
               /\ ~ (hand[h].pc = "authorized" /\ hand'[h].pc = "mint")
      BY <3>3, <1>i, <2>1 DEF Evaluated, HandMoves, Onward
    <3> QED BY <3>1, <3>2, <3>3
  <2> QED BY <1>g, <2>2, <2>3, <2>4, <2>5
<1>3. ASSUME NEW h \in Handlers, Arrives(h) \/ Leaves(h) PROVE PolicyInv'
  <2>1. UNCHANGED <<policy, admin, approvals, caps>> /\ Others(h)
    BY <1>3 DEF Arrives, Leaves, Settled, memory
  <2>2. CapsSound' /\ AskedSound'
    BY <1>i, <2>1 DEF CapsSound, AskedSound, InForce, Sound, Sweeping
  <2>3. ASSUME NEW k \in Handlers, k # h PROVE Evaluated(hand[k])'
    BY <1>i, <2>1, <2>3 DEF Evaluated, Others
  <2>4. Evaluated(hand[h])'
    BY <1>3 DEF Evaluated, Arrives, Leaves
  <2> QED BY <1>g, <2>2, <2>3, <2>4
<1>4. CASE LocalStep
  <2>1. UNCHANGED hand
    BY <1>4, AdminKinds DEF Decides, Regrants, Withdraws
  <2>2. \A h \in Handlers : Evaluated(hand[h])'
    BY <1>i, <2>1 DEF Evaluated
  <2>3. AskedSound'
    <3>1. \A r \in Requests : approvals'[r] = NULL \/ approvals'[r] = approvals[r]
      BY <1>4, AdminKinds DEF Decides, Regrants, Withdraws, memory, AuthInv, AuthTyped
    <3> QED BY <1>i, <3>1 DEF AskedSound
  <2>4. ASSUME NEW r \in Requests, Decides(r), StillSweeping PROVE CapsSound'
    <3>1. UNCHANGED policy
      BY <2>4 DEF Decides
    <3>2. CASE UNCHANGED caps
      BY <2>4, <3>1, <3>2, <1>i DEF CapsSound, InForce, Sound, StillSweeping
    <3>3. CASE CapAdded(r, Capability(approvals[r], "person"))
      <4> DEFINE c == Capability(approvals[r], "person")
      <4>1. /\ InForce(c) /\ c.rules = approvals[r].rules /\ c.agent = approvals[r].agent
            /\ c.target = approvals[r].target /\ c.by = "person"
        BY MadeInForce
      <4>2. Permits(approvals[r].rules, approvals[r].agent, approvals[r].target) /\ CapAdded(r, c)
        BY <1>i, <2>4, <3>3 DEF AskedSound, Decides
      <4> HIDE DEF c
      <4>3. Sound(c)
        BY <4>1, <4>2 DEF Sound
      <4> QED BY <1>i, <2>4, <3>1, <4>1, <4>2, <4>3, SoundAdded
    <3> QED BY <2>4, <3>2, <3>3 DEF Decides
  <2>5. ASSUME Withdraws PROVE CapsSound'
    <3> SUFFICES ASSUME NEW r \in Requests, NEW i \in DOMAIN caps[r]
                 PROVE  Sound(caps'[r][i]) /\ InForce(caps[r][i])'
      BY <2>5 DEF CapsSound, Withdraws, CapsKept, Sound
    <3>1. SameCap(caps[r][i], caps'[r][i]) /\ Sound(caps[r][i]) /\ InForce(caps[r][i])
      BY <2>5, <1>i DEF Withdraws, CapsKept, CapsSound
    <3>2. Sound(caps'[r][i])
      BY <3>1, SoundStays
    <3>3. InForce(caps[r][i])'
      BY <2>5, <3>1 DEF Withdraws, InForce, SameCap, StillSweeping
    <3> QED BY <3>2, <3>3
  <2>6. ASSUME Regrants, StillSweeping PROVE CapsSound'
    BY <2>6, <1>i DEF Regrants, CapsSound, InForce, Sound, StillSweeping
  <2>7. CapsSound'
    BY <1>4, <2>4, <2>5, <2>6, AdminKinds
  <2> QED BY <1>g, <2>2, <2>3, <2>7
<1>5. CASE Restart
  <2>1. \A h \in Handlers : Evaluated(hand[h])'
    BY <1>5, RestartKinds, FreeHand DEF Evaluated
  <2>2. AskedSound'
    BY <1>5, RestartKinds DEF AskedSound
  <2>3. CapsSound'
    <3> SUFFICES ASSUME NEW r \in Requests, NEW i \in DOMAIN caps[r]
                 PROVE  Sound(caps'[r][i]) /\ InForce(caps[r][i])'
      BY <1>5, RestartKinds DEF CapsSound, CapsKept, Sound
    <3>1. SameCap(caps[r][i], caps'[r][i]) /\ Sound(caps[r][i]) /\ ~ caps'[r][i].live
      BY <1>5, <1>i, RestartKinds DEF CapsKept, CapsSound
    <3>2. Sound(caps'[r][i])
      BY <3>1, SoundStays
    <3> QED BY <3>1, <3>2 DEF InForce
  <2> QED BY <1>g, <2>1, <2>2, <2>3
<1> QED BY <1>1, <1>2, <1>3, <1>4, <1>5 DEF AuthStep

(***************************************************************************)
(* Request ids.                                                            *)
(***************************************************************************)
\* What was issued stays on record.
LEMMA IssuedStays ==
  ASSUME AuthInv, CapsKept \/ UNCHANGED caps \/ (\E r \in Requests, c \in Minting : CapAdded(r, c)),
         NEW a, NEW t, Issued(a, t)
  PROVE  Issued(a, t)'
<1>1. PICK r \in Requests : \E i \in DOMAIN caps[r] : caps[r][i].agent = a /\ caps[r][i].target = t
  BY DEF Issued
<1>2. PICK i \in DOMAIN caps[r] : caps[r][i].agent = a /\ caps[r][i].target = t
  BY <1>1
<1>3. i \in DOMAIN caps'[r] /\ caps'[r][i].agent = a /\ caps'[r][i].target = t
  BY <1>2 DEF CapsKept, SameCap, CapAdded
<1> QED BY <1>3 DEF Issued

\* One capability more, the first of this life for its request.
LEMMA LivesAdded ==
  ASSUME AuthInv, LivesApart, NEW r \in Requests, NEW c, CapAdded(r, c), c.life = life,
         Unminted(r), UNCHANGED life
  PROVE  LivesApart' /\ \A s \in Requests : s # r /\ Unminted(s) => Unminted(s)'
<1>1. \A s \in Requests : s # r /\ Unminted(s) => Unminted(s)'
  BY DEF CapAdded, Unminted
<1>2. ASSUME NEW s \in Requests, s # r
      PROVE  /\ \A i \in DOMAIN caps'[s] : caps'[s][i].life <= life'
             /\ \A i, j \in DOMAIN caps'[s] : i # j => caps'[s][i].life # caps'[s][j].life
  BY <1>2 DEF CapAdded, LivesApart
<1>3. ASSUME NEW i \in DOMAIN caps'[r] PROVE caps'[r][i].life <= life'
  <2>1. CASE i \in DOMAIN caps[r]
    BY <2>1 DEF CapAdded, LivesApart
  <2>2. CASE i \notin DOMAIN caps[r]
    <3>1. caps'[r][i].life = life /\ life \in Nat
      BY <1>3, <2>2 DEF CapAdded, AuthInv, AuthTyped
    <3> QED BY <3>1
  <2> QED BY <2>1, <2>2
<1>4. ASSUME NEW i \in DOMAIN caps'[r], NEW j \in DOMAIN caps'[r], i # j
      PROVE  caps'[r][i].life # caps'[r][j].life
  <2>n. \A m \in DOMAIN caps'[r] : m \notin DOMAIN caps[r] => caps'[r][m].life = life
    BY DEF CapAdded
  <2>o. \A m \in DOMAIN caps[r] : caps'[r][m] = caps[r][m] /\ caps[r][m].life # life
    BY DEF CapAdded, Unminted
  <2>u. caps \in [Requests -> Seq(Minting)] /\ caps' \in [Requests -> Seq(Minting)]
    BY DEF CapAdded, AuthInv, AuthTyped
  <2>1. CASE i \in DOMAIN caps[r] /\ j \in DOMAIN caps[r]
    BY <1>4, <2>1, <2>o DEF LivesApart
  <2>2. CASE i \in DOMAIN caps[r] /\ j \notin DOMAIN caps[r]
    BY <1>4, <2>2, <2>n, <2>o
  <2>3. CASE i \notin DOMAIN caps[r] /\ j \in DOMAIN caps[r]
    BY <1>4, <2>3, <2>n, <2>o
  <2>4. CASE i \notin DOMAIN caps[r] /\ j \notin DOMAIN caps[r]
    BY <1>4, <2>4 DEF CapAdded
  <2> QED BY <2>1, <2>2, <2>3, <2>4
<1>5. LivesApart'
  BY <1>2, <1>3, <1>4 DEF LivesApart
<1> QED BY <1>1, <1>5

\* The parts of IntakeInv.
LEMMA IntakeParts ==
  /\ IntakeInv <=> /\ OneMinter /\ LivesApart /\ AskedOwn /\ IssuedOwn
                   /\ \A h \in Handlers : Own(hand[h]) /\ AnswersIssued(hand[h])
  /\ IntakeInv' <=> /\ OneMinter' /\ LivesApart' /\ AskedOwn' /\ IssuedOwn'
                    /\ \A h \in Handlers : Own(hand[h])' /\ AnswersIssued(hand[h])'
BY DEF IntakeInv

\* A handler that works on a request knows it to be on record.
LEMMA OnRecord ==
  ASSUME AuthInv, IntakeInv, NEW h \in Handlers, hand[h].pc \in {"owner"} \cup OwnPcs
  PROVE  /\ hand[h].req \in Requests /\ hand[h].agent \in Agents /\ hand[h].target \in Targets
         /\ prints[hand[h].req] = hand[h].target /\ prints[hand[h].req] # NULL
         /\ hand[h].pc = "owner" => owner[hand[h].req] = NULL /\ requests[hand[h].req] = NULL
         /\ hand[h].pc # "owner" => owner[hand[h].req] = hand[h].agent /\ owner[hand[h].req] # NULL
<1>1. hand[h].req \in Requests /\ hand[h].agent \in Agents /\ hand[h].target \in Targets
  BY DEF AuthInv, Carries, OwnPcs
<1>2. Own(hand[h]) /\ NULL \notin Agents /\ NULL \notin Targets
  BY AuthorityAssumption DEF IntakeInv
<1> QED BY <1>1, <1>2 DEF Own

\* A step that moves one handler no closer to a mint, and at most the state of its request.
LEMMA IntakeFrame ==
  ASSUME AuthInv, IntakeInv, NEW h \in Handlers, HandMoves(h),
         hand[h].pc = "check" => hand'[h].pc # "owner",
         hand'[h].pc \in OwnPcs => Own(hand[h])',
         hand'[h].pc = "answer" /\ hand'[h].reply = "issued" => Issued(hand[h].agent, hand[h].target),
         UNCHANGED <<prints, owner, approvals, caps, life>>,
         \A r \in Requests : requests'[r] # requests[r] =>
            hand[h].pc \in OwnPcs /\ r = hand[h].req /\ requests'[r] # "issued"
  PROVE  IntakeInv'
<1>i. /\ OneMinter /\ LivesApart /\ AskedOwn /\ IssuedOwn
      /\ \A k \in Handlers : Own(hand[k]) /\ AnswersIssued(hand[k])
  BY IntakeParts
<1>h. hand[h].pc \in OwnPcs => prints[hand[h].req] # NULL /\ owner[hand[h].req] # NULL
  BY OnRecord DEF OwnPcs
<1>m. \A k \in Handlers, r \in Requests : Minter(k, r)' => Minter(k, r)
  BY DEF Minter, HandMoves, Onward, MintPcs
<1>1. OneMinter'
  <2>1. \A r \in Requests : Unminted(r)' <=> Unminted(r)
    BY DEF Unminted
  <2>2. \A r \in Requests : prints[r] = NULL => requests'[r] = requests[r]
    BY <1>h
  <2> QED BY <1>i, <1>m, <2>1, <2>2 DEF OneMinter
<1>2. LivesApart' /\ AskedOwn'
  BY <1>i DEF LivesApart, AskedOwn
<1>3. IssuedOwn'
  BY <1>i DEF IssuedOwn, Issued
<1>4. ASSUME NEW k \in Handlers, k # h PROVE Own(hand[k])' /\ AnswersIssued(hand[k])'
  <2>1. Own(hand[k]) /\ AnswersIssued(hand[k]) /\ hand'[k] = hand[k]
    BY <1>i, <1>4 DEF HandMoves
  <2>2. hand[k].pc = "owner" => /\ hand[k].req \in Requests /\ owner[hand[k].req] = NULL
                                /\ requests[hand[k].req] = NULL
    BY OnRecord
  <2>3. hand[k].pc = "owner" => requests'[hand[k].req] = NULL
    BY <2>2, <1>h
  <2> QED BY <2>1, <2>3 DEF Own, AnswersIssued, Issued
<1>5. Own(hand[h])' /\ AnswersIssued(hand[h])'
  <2>1. hand'[h].pc # "owner"
    BY DEF HandMoves, Onward
  <2>2. Own(hand[h])'
    BY <2>1 DEF Own, OwnPcs
  <2>3. AnswersIssued(hand[h])'
    BY DEF AnswersIssued, Issued, HandMoves
  <2> QED BY <2>2, <2>3
<1> QED BY <1>1, <1>2, <1>3, <1>4, <1>5, IntakeParts

\* A request id is recorded for the first time in this life.
LEMMA IntakeNew ==
  ASSUME AuthInv, IntakeInv, NEW h \in Handlers, CheckFingerprint(h), NewRequest(h)
  PROVE  IntakeInv'
<1>i. /\ OneMinter /\ LivesApart /\ AskedOwn /\ IssuedOwn
      /\ \A k \in Handlers : Own(hand[k]) /\ AnswersIssued(hand[k])
  BY IntakeParts
<1>n. NULL \notin Targets /\ NULL \notin States
  BY AuthorityAssumption
<1>1. PICK r \in Requests : r = hand[h].req
  BY DEF CheckFingerprint, AuthInv, Carries
<1>2. /\ prints[r] = NULL /\ prints' = [prints EXCEPT ![r] = hand[h].target] /\ hand[h].pc = "check"
      /\ hand[h].target \in Targets /\ UNCHANGED <<owner, requests, approvals, caps, life>>
  BY <1>1 DEF CheckFingerprint, NewRequest, AuthInv, Carries
<1>3. /\ hand'[h].pc = "owner" /\ hand'[h].req = r /\ hand'[h].target = hand[h].target
      /\ \A k \in Handlers : k # h => hand'[k] = hand[k]
  BY <1>1, StepFields DEF NewRequest, HandPcs, AuthInv, AuthTyped
<1>4. /\ prints'[r] = hand[h].target /\ prints'[r] # NULL
      /\ \A s \in Requests : s # r => prints'[s] = prints[s]
  BY <1>2, <1>n DEF AuthInv, AuthTyped
<1>5. ASSUME NEW k \in Handlers, k # h, hand[k].pc \in {"owner"} \cup OwnPcs PROVE hand[k].req # r
  BY <1>2, <1>5, OnRecord
<1>6. OneMinter'
  <2>1. \A s \in Requests : Unminted(s)' <=> Unminted(s)
    BY <1>2 DEF Unminted
  <2>2. \A k \in Handlers, s \in Requests : Minter(k, s)' => (k = h /\ s = r) \/ Minter(k, s)
    BY <1>3 DEF Minter
  <2>3. \A k \in Handlers : k # h => ~ Minter(k, r)
    BY <1>5 DEF Minter, MintPcs, OwnPcs
  <2>4. ~ Minter(h, r)
    BY <1>2 DEF Minter, MintPcs
  <2> QED BY <1>i, <1>2, <1>4, <2>1, <2>2, <2>3, <2>4 DEF OneMinter
<1>7. LivesApart'
  BY <1>i, <1>2 DEF LivesApart
<1>8. approvals[r] = NULL /\ requests[r] = NULL /\ owner[r] = NULL
  BY <1>i, <1>2 DEF OneMinter
<1>9. AskedOwn' /\ IssuedOwn'
  <2>1. requests[r] # "issued"
    BY <1>8, <1>n DEF States
  <2> QED BY <1>i, <1>2, <1>4, <1>8, <2>1 DEF AskedOwn, IssuedOwn, Issued
<1>10. ASSUME NEW k \in Handlers PROVE Own(hand[k])' /\ AnswersIssued(hand[k])'
  <2>1. CASE k = h
    BY <2>1, <1>2, <1>3, <1>4, <1>8 DEF Own, OwnPcs, AnswersIssued
  <2>2. CASE k # h
    <3>1. hand'[k] = hand[k] /\ Own(hand[k]) /\ AnswersIssued(hand[k])
      BY <2>2, <1>i, <1>3
    <3>2. hand[k].pc \in {"owner"} \cup OwnPcs => hand[k].req \in Requests /\ hand[k].req # r
      BY <2>2, <1>5, OnRecord
    <3> QED BY <3>1, <3>2, <1>2, <1>4 DEF Own, AnswersIssued, Issued
  <2> QED BY <2>1, <2>2
<1> QED BY <1>6, <1>7, <1>9, <1>10, IntakeParts

\* Its agent is recorded.
LEMMA IntakeAgent ==
  ASSUME AuthInv, IntakeInv, NEW h \in Handlers, RecordAgent(h)
  PROVE  IntakeInv'
<1>i. /\ OneMinter /\ LivesApart /\ AskedOwn /\ IssuedOwn
      /\ \A k \in Handlers : Own(hand[k]) /\ AnswersIssued(hand[k])
  BY IntakeParts
<1>n. NULL \notin States
  BY AuthorityAssumption
<1>0. hand[h].pc = "owner"
  BY DEF RecordAgent
<1>1. PICK r \in Requests : r = hand[h].req
  BY <1>0, OnRecord
<1>2. /\ owner' = [owner EXCEPT ![r] = hand[h].agent] /\ prints[r] = hand[h].target /\ prints[r] # NULL
      /\ owner[r] = NULL /\ requests[r] = NULL /\ UNCHANGED <<prints, requests, approvals, caps, life>>
  BY <1>0, <1>1, OnRecord DEF RecordAgent
<1>3. /\ hand'[h].pc = "state" /\ hand'[h].req = r /\ hand'[h].target = hand[h].target
      /\ hand'[h].agent = hand[h].agent /\ \A k \in Handlers : k # h => hand'[k] = hand[k]
  BY <1>1, StepFields DEF RecordAgent, HandPcs, AuthInv, AuthTyped
<1>4. owner'[r] = hand[h].agent /\ \A s \in Requests : s # r => owner'[s] = owner[s]
  BY <1>2 DEF AuthInv, AuthTyped
<1>5. ASSUME NEW k \in Handlers, k # h, hand[k].pc \in {"owner"} \cup OwnPcs PROVE hand[k].req # r
  <2>1. CASE hand[k].pc = "owner"
    <3>1. Minter(h, r) /\ (hand[k].req = r => Minter(k, r))
      BY <1>0, <1>1, <2>1 DEF Minter, MintPcs
    <3> QED BY <3>1, <1>5, <1>i DEF OneMinter
  <2>2. CASE hand[k].pc \in OwnPcs
    BY <2>2, <1>2, OnRecord DEF OwnPcs
  <2> QED BY <1>5, <2>1, <2>2
<1>6. OneMinter'
  <2>1. \A s \in Requests : Unminted(s)' <=> Unminted(s)
    BY <1>2 DEF Unminted
  <2>2. \A k \in Handlers, s \in Requests : Minter(k, s)' => Minter(k, s)
    BY <1>0, <1>1, <1>3 DEF Minter, MintPcs
  <2> QED BY <1>i, <1>2, <1>4, <2>1, <2>2 DEF OneMinter
<1>7. LivesApart'
  BY <1>i, <1>2 DEF LivesApart
<1>8. approvals[r] = NULL
  BY <1>i, <1>0, <1>1 DEF OneMinter, Minter, MintPcs
<1>9. AskedOwn' /\ IssuedOwn'
  <2>1. requests[r] # "issued"
    BY <1>2, <1>n DEF States
  <2> QED BY <1>i, <1>2, <1>4, <1>8, <2>1 DEF AskedOwn, IssuedOwn, Issued
<1>10. ASSUME NEW k \in Handlers PROVE Own(hand[k])' /\ AnswersIssued(hand[k])'
  <2>1. CASE k = h
    BY <2>1, <1>2, <1>3, <1>4 DEF Own, AnswersIssued
  <2>2. CASE k # h
    <3>1. hand'[k] = hand[k] /\ Own(hand[k]) /\ AnswersIssued(hand[k])
      BY <2>2, <1>i, <1>3
    <3>2. hand[k].pc \in {"owner"} \cup OwnPcs => hand[k].req \in Requests /\ hand[k].req # r
      BY <2>2, <1>5, OnRecord
    <3> QED BY <3>1, <3>2, <1>2, <1>4 DEF Own, AnswersIssued, Issued
  <2> QED BY <2>1, <2>2
<1> QED BY <1>6, <1>7, <1>9, <1>10, IntakeParts

\* A capability is minted for a request, by its handler or by its approval.
LEMMA IntakeMinted ==
  ASSUME AuthInv, IntakeInv, NEW r \in Requests, NEW c \in Minting, CapAdded(r, c), c.life = life,
         c.agent = owner[r], c.target = prints[r], prints[r] # NULL, owner[r] # NULL, Unminted(r),
         UNCHANGED <<prints, owner, life>>, requests' = [requests EXCEPT ![r] = "issued"],
         approvals'[r] = NULL, \A s \in Requests : s # r => approvals'[s] = approvals[s],
         \A k \in Handlers, s \in Requests : Minter(k, s)' => Minter(k, s) /\ s # r,
         \A k \in Handlers : /\ hand'[k].pc = hand[k].pc \/ hand'[k].pc = "wait"
                             /\ hand'[k].pc = "wait" => Own(hand[k])'
                             /\ hand'[k].agent = hand[k].agent /\ hand'[k].target = hand[k].target
                             /\ hand'[k].req = hand[k].req /\ hand'[k].reply = hand[k].reply
  PROVE  IntakeInv'
<1>i. /\ OneMinter /\ LivesApart /\ AskedOwn /\ IssuedOwn
      /\ \A k \in Handlers : Own(hand[k]) /\ AnswersIssued(hand[k])
  BY IntakeParts
<1>1. LivesApart' /\ \A s \in Requests : s # r /\ Unminted(s) => Unminted(s)'
  BY <1>i, LivesAdded
<1>r. /\ requests'[r] = "issued" /\ \A s \in Requests : s # r => requests'[s] = requests[s]
  BY DEF AuthInv, AuthTyped
<1>s. \A a, t : Issued(a, t) => Issued(a, t)'
  BY IssuedStays
<1>2. OneMinter'
  BY <1>i, <1>1, <1>r DEF OneMinter
<1>3. AskedOwn'
  BY <1>i DEF AskedOwn
<1>4. IssuedOwn'
  <2>1. PICK n \in DOMAIN caps'[r] : caps'[r][n] = c
    BY DEF CapAdded
  <2>2. Issued(c.agent, c.target)'
    BY <2>1 DEF Issued
  <2>3. ASSUME NEW s \in Requests, requests'[s] = "issued" PROVE Issued(owner[s], prints[s])'
    <3>1. CASE s = r
      BY <3>1, <2>2
    <3>2. CASE s # r
      <4>1. Issued(owner[s], prints[s])
        BY <3>2, <2>3, <1>i, <1>r DEF IssuedOwn
      <4>2. PICK a, t : a = owner[s] /\ t = prints[s]
        OBVIOUS
      <4>3. Issued(a, t)'
        BY <4>1, <4>2, <1>s
      <4> QED BY <4>2, <4>3 DEF Issued
    <3> QED BY <3>1, <3>2
  <2> QED BY <2>3 DEF IssuedOwn
<1>5. ASSUME NEW k \in Handlers PROVE Own(hand[k])' /\ AnswersIssued(hand[k])'
  <2>1. Own(hand[k])'
    <3>1. CASE hand'[k].pc = "wait"
      BY <3>1
    <3>2. CASE hand'[k].pc # "wait"
      <4>1. hand'[k].pc = hand[k].pc
        BY <3>2
      <4>2. hand[k].pc = "owner" => hand[k].req \in Requests /\ owner[hand[k].req] = NULL
        BY OnRecord
      <4>3. hand[k].pc = "owner" => requests'[hand[k].req] = requests[hand[k].req]
        BY <4>2, <1>r
      <4> QED BY <1>i, <4>1, <4>3 DEF Own
    <3> QED BY <3>1, <3>2
  <2>2. AnswersIssued(hand[k])'
    <3>1. PICK a, t : a = hand[k].agent /\ t = hand[k].target
      OBVIOUS
    <3>2. hand[k].pc = "answer" /\ hand[k].reply = "issued" => Issued(a, t)
      BY <1>i, <3>1 DEF AnswersIssued
    <3>3. hand[k].pc = "answer" /\ hand[k].reply = "issued" => Issued(a, t)'
      BY <3>2, <1>s
    <3> QED BY <3>1, <3>3 DEF AnswersIssued, Issued
  <2> QED BY <2>1, <2>2
<1> QED BY <1>1, <1>2, <1>3, <1>4, <1>5, IntakeParts

\* What a mint makes.
LEMMA MadeNow ==
  ASSUME NEW t, NEW by
  PROVE  /\ Capability(t, by).life = life /\ Capability(t, by).agent = t.agent
         /\ Capability(t, by).target = t.target
BY DEF Capability

\* A handler mints.
LEMMA IntakeMint ==
  ASSUME AuthInv, IntakeInv, NEW h \in Handlers, Mint(h)
  PROVE  IntakeInv'
<1>0. hand[h].pc = "mint" /\ OneMinter
  BY DEF Mint, IntakeInv
<1>1. PICK r \in Requests : r = hand[h].req
  BY <1>0, OnRecord DEF OwnPcs
<1>2. PICK c : c = Capability(hand[h], MadeBy(h))
  OBVIOUS
<1>3. c \in Minting /\ CapAdded(r, c) /\ c.life = life /\ c.agent = hand[h].agent /\ c.target = hand[h].target
  <2>1. CapAdded(r, c)
    BY <1>1, <1>2, MintAdds
  <2> QED BY <1>2, <2>1, MadeNow DEF CapAdded
<1>4. /\ owner[r] = hand[h].agent /\ prints[r] = hand[h].target /\ owner[r] # NULL /\ prints[r] # NULL
  BY <1>0, <1>1, OnRecord DEF OwnPcs
<1>5. Minter(h, r)
  BY <1>0, <1>1 DEF Minter, MintPcs
<1>6. Unminted(r) /\ approvals[r] = NULL
  BY <1>0, <1>5 DEF OneMinter
<1>7. UNCHANGED <<prints, owner, life, approvals>> /\ requests' = [requests EXCEPT ![r] = "issued"]
  BY <1>1 DEF Mint, SetState
<1>8. /\ hand'[h].pc = "wait" /\ hand'[h].agent = hand[h].agent /\ hand'[h].target = hand[h].target
      /\ hand'[h].req = hand[h].req /\ hand'[h].reply = hand[h].reply
      /\ \A k \in Handlers : k # h => hand'[k] = hand[k]
  BY StepFields DEF Mint, HandPcs, AuthInv, AuthTyped
<1>9. ASSUME NEW k \in Handlers, NEW s \in Requests, Minter(k, s)' PROVE Minter(k, s) /\ s # r
  <2>1. k # h
    BY <1>9, <1>8 DEF Minter, MintPcs
  <2>2. Minter(k, s)
    BY <1>9, <1>8, <2>1 DEF Minter
  <2> QED BY <2>1, <2>2, <1>5, <1>0 DEF OneMinter
<1>10. ASSUME NEW k \in Handlers, hand'[k].pc = "wait" PROVE Own(hand[k])'
  <2>1. CASE k = h
    BY <2>1, <1>1, <1>4, <1>7, <1>8 DEF Own
  <2>2. CASE k # h
    BY <2>2, <1>7, <1>8, <1>10 DEF IntakeInv, Own
  <2> QED BY <2>1, <2>2
<1> QED BY <1>3, <1>4, <1>6, <1>7, <1>8, <1>9, <1>10, IntakeMinted

\* The person approves, or denies.
LEMMA IntakeDecided ==
  ASSUME AuthInv, IntakeInv, NEW r \in Requests, Decides(r)
  PROVE  IntakeInv'
<1>i. /\ OneMinter /\ LivesApart /\ AskedOwn /\ IssuedOwn
      /\ \A k \in Handlers : Own(hand[k]) /\ AnswersIssued(hand[k])
  BY IntakeParts
<1>n. NULL \notin Agents /\ NULL \notin Targets
  BY AuthorityAssumption
<1>1. approvals[r] # NULL /\ Unminted(r) /\ \A k \in Handlers : ~ Minter(k, r)
  BY <1>i DEF Decides, OneMinter
<1>2. /\ approvals[r].agent = owner[r] /\ approvals[r].target = prints[r]
      /\ owner[r] # NULL /\ prints[r] # NULL
  BY <1>i, <1>1, <1>n DEF AskedOwn, AuthInv, AuthTyped, Authorization
<1>3. /\ approvals'[r] = NULL /\ \A s \in Requests : s # r => approvals'[s] = approvals[s]
      /\ UNCHANGED <<policy, grants, prints, owner, hand, life>>
  BY DEF Decides, AuthInv, AuthTyped
<1>4. CASE CapAdded(r, Capability(approvals[r], "person")) /\ requests' = [requests EXCEPT ![r] = "issued"]
  <2>1. PICK c : c = Capability(approvals[r], "person")
    OBVIOUS
  <2>2. c \in Minting /\ CapAdded(r, c) /\ c.life = life /\ c.agent = owner[r] /\ c.target = prints[r]
    BY <1>2, <1>4, <2>1, MadeNow DEF CapAdded
  <2>3. ASSUME NEW k \in Handlers, NEW s \in Requests, Minter(k, s)' PROVE Minter(k, s) /\ s # r
    BY <2>3, <1>1, <1>3 DEF Minter
  <2>4. ASSUME NEW k \in Handlers, hand'[k].pc = "wait" PROVE Own(hand[k])'
    BY <2>4, <1>i, <1>3 DEF Own
  <2>5. \A k \in Handlers : hand'[k] = hand[k]
    BY <1>3
  <2> QED BY <1>1, <1>2, <1>3, <1>4, <2>2, <2>3, <2>4, <2>5, IntakeMinted
<1>5. CASE UNCHANGED caps /\ requests' = [requests EXCEPT ![r] = "denied"]
  <2>r. requests'[r] = "denied" /\ \A s \in Requests : s # r => requests'[s] = requests[s]
    BY <1>5 DEF AuthInv, AuthTyped
  <2>1. OneMinter'
    <3>1. \A k \in Handlers, s \in Requests : Minter(k, s)' <=> Minter(k, s)
      BY <1>3 DEF Minter
    <3>2. \A s \in Requests : Unminted(s)' <=> Unminted(s)
      BY <1>3, <1>5 DEF Unminted
    <3> QED BY <1>i, <1>2, <1>3, <2>r, <3>1, <3>2 DEF OneMinter
  <2>2. LivesApart' /\ AskedOwn' /\ IssuedOwn'
    BY <1>i, <1>3, <1>5, <2>r DEF LivesApart, AskedOwn, IssuedOwn, Issued
  <2>3. ASSUME NEW k \in Handlers PROVE Own(hand[k])' /\ AnswersIssued(hand[k])'
    <3>1. hand[k].pc = "owner" => hand[k].req \in Requests /\ owner[hand[k].req] = NULL
      BY OnRecord
    <3>2. hand[k].pc = "owner" => requests'[hand[k].req] = requests[hand[k].req]
      BY <3>1, <1>2, <2>r
    <3> QED BY <1>i, <1>3, <1>5, <3>2 DEF Own, AnswersIssued, Issued
  <2> QED BY <2>1, <2>2, <2>3, IntakeParts
<1> QED BY <1>4, <1>5 DEF Decides

\* The approval becomes visible.
LEMMA IntakeAsked ==
  ASSUME AuthInv, IntakeInv, NEW h \in Handlers, AskApproval(h)
  PROVE  IntakeInv'
<1>i. /\ OneMinter /\ LivesApart /\ AskedOwn /\ IssuedOwn
      /\ \A k \in Handlers : Own(hand[k]) /\ AnswersIssued(hand[k])
  BY IntakeParts
<1>0. hand[h].pc = "authorized"
  BY DEF AskApproval
<1>1. PICK r \in Requests : r = hand[h].req
  BY <1>0, OnRecord DEF OwnPcs
<1>2. owner[r] = hand[h].agent /\ prints[r] = hand[h].target /\ owner[r] # NULL /\ prints[r] # NULL
  BY <1>0, <1>1, OnRecord DEF OwnPcs
<1>3. UNCHANGED <<prints, owner, requests, caps, life>>
  BY DEF AskApproval
<1>4. /\ approvals'[r].agent = hand[h].agent /\ approvals'[r].target = hand[h].target
      /\ \A s \in Requests : s # r => approvals'[s] = approvals[s]
  BY <1>1 DEF AskApproval, AuthInv, AuthTyped
<1>5. /\ hand'[h].pc = "asked" /\ hand'[h].agent = hand[h].agent /\ hand'[h].target = hand[h].target
      /\ hand'[h].req = r /\ \A k \in Handlers : k # h => hand'[k] = hand[k]
  BY <1>1, StepFields DEF AskApproval, HandPcs, AuthInv, AuthTyped
<1>6. Minter(h, r) /\ Unminted(r) /\ \A k \in Handlers : k # h => ~ Minter(k, r)
  <2>1. Minter(h, r)
    BY <1>0, <1>1 DEF Minter, MintPcs
  <2> QED BY <2>1, <1>i DEF OneMinter
<1>7. OneMinter'
  <2>1. \A k \in Handlers, s \in Requests : Minter(k, s)' => Minter(k, s) /\ k # h
    BY <1>5 DEF Minter, MintPcs
  <2>2. \A s \in Requests : Unminted(s)' <=> Unminted(s)
    BY <1>3 DEF Unminted
  <2> QED BY <1>i, <1>2, <1>3, <1>4, <1>6, <2>1, <2>2 DEF OneMinter
<1>8. LivesApart' /\ AskedOwn' /\ IssuedOwn'
  BY <1>i, <1>2, <1>3, <1>4 DEF LivesApart, AskedOwn, IssuedOwn, Issued
<1>9. ASSUME NEW k \in Handlers PROVE Own(hand[k])' /\ AnswersIssued(hand[k])'
  <2>1. CASE k = h
    BY <2>1, <1>2, <1>3, <1>5 DEF Own, AnswersIssued
  <2>2. CASE k # h
    BY <2>2, <1>i, <1>3, <1>5 DEF Own, AnswersIssued, Issued
  <2> QED BY <2>1, <2>2
<1> QED BY <1>7, <1>8, <1>9, IntakeParts

\* A handler's steps.
LEMMA IntakeHandler ==
  ASSUME AuthInv, IntakeInv, NEW h \in Handlers, HandlerStep(h)
  PROVE  IntakeInv'
<1>m. HandMoves(h) /\ UNCHANGED <<policy, grants, admin, changes, life>>
  BY HandlerMoves
<1>t. hand \in [Handlers -> Hand] /\ requests \in [Requests -> States \cup {NULL}]
  BY DEF AuthInv, AuthTyped
<1>o. hand[h].pc \in OwnPcs => hand[h].req \in Requests /\ Own(hand[h])
  BY OnRecord DEF IntakeInv
<1>w. ASSUME UNCHANGED <<prints, owner>>, hand[h].pc \in OwnPcs, hand'[h].pc \in OwnPcs PROVE Own(hand[h])'
  BY <1>w, <1>m, <1>o DEF HandMoves, Own, OwnPcs
<1>1. CASE CheckFingerprint(h) /\ NewRequest(h)
  BY <1>1, IntakeNew
<1>2. CASE CheckFingerprint(h) /\ KnownRequest(h)
  <2>0. hand[h].pc = "check" /\ UNCHANGED <<prints, owner, requests, approvals, caps, life>>
    BY <1>2 DEF CheckFingerprint, KnownRequest
  <2>1. CASE Answer(h, "error")
    <3>1. hand'[h].pc = "answer" /\ hand'[h].reply = "error"
      BY <2>1, <1>t, AnswerFields
    <3> QED BY <3>1, <2>0, <1>m, IntakeFrame DEF OwnPcs
  <2>2. CASE Step(h, "wait") /\ prints[hand[h].req] = hand[h].target /\ owner[hand[h].req] = hand[h].agent
    <3>1. hand'[h].pc = "wait"
      BY <2>2, <1>t, StepFields DEF HandPcs
    <3>2. Own(hand[h])'
      BY <3>1, <2>0, <2>2, <1>m DEF Own, HandMoves
    <3> QED BY <3>1, <3>2, <2>0, <1>m, IntakeFrame DEF OwnPcs
  <2> QED BY <1>2, <2>1, <2>2 DEF KnownRequest
<1>3. CASE RecordAgent(h)
  BY <1>3, IntakeAgent
<1>4. CASE RecordRequested(h) \/ RecordAwaiting(h)
  <2>1. /\ hand[h].pc \in OwnPcs /\ hand'[h].pc \in OwnPcs /\ hand[h].pc # "check"
        /\ UNCHANGED <<prints, owner, approvals, caps, life>>
    BY <1>4, <1>m DEF RecordRequested, RecordAwaiting, OwnPcs, HandMoves, Onward
  <2>2. PICK st \in {"requested", "awaiting"} : SetState(hand[h].req, st)
    BY <1>4 DEF RecordRequested, RecordAwaiting
  <2>3. \A r \in Requests : requests'[r] # requests[r] => r = hand[h].req /\ requests'[r] # "issued"
    BY <2>1, <2>2, <1>t, <1>o DEF SetState
  <2>4. hand'[h].pc # "answer"
    BY <2>1 DEF OwnPcs
  <2> QED BY <2>1, <2>3, <2>4, <1>m, <1>w, IntakeFrame
<1>5. CASE EvaluatePolicy(h) \/ MatchGrant(h)
  <2>1. /\ hand[h].pc \in OwnPcs /\ hand'[h].pc \in OwnPcs /\ hand[h].pc # "check"
        /\ UNCHANGED <<prints, owner, requests, approvals, caps, life>>
    <3>1. hand[h].pc \in {"evaluate", "authorized"} /\ UNCHANGED <<prints, owner, requests, approvals, caps, life>>
      BY <1>5 DEF EvaluatePolicy, MatchGrant, memory
    <3>2. hand'[h].pc \in {"mint", "authorized"}
      <4>1. CASE EvaluatePolicy(h)
        <5>1. PICK q \in {"mint", "authorized"} : hand' = [hand EXCEPT ![h].rules = policy, ![h].pc = q]
          BY <4>1 DEF EvaluatePolicy
        <5> QED BY <5>1, <1>t DEF Hand
      <4>2. CASE MatchGrant(h)
        BY <4>2, <1>t DEF MatchGrant, Hand
      <4> QED BY <1>5, <4>1, <4>2
    <3> QED BY <3>1, <3>2 DEF OwnPcs
  <2>2. hand'[h].pc # "answer"
    BY <2>1 DEF OwnPcs
  <2> QED BY <2>1, <2>2, <1>m, <1>w, IntakeFrame
<1>6. CASE RequestFails(h)
  <2>1. /\ hand[h].pc \in OwnPcs /\ hand[h].pc # "check" /\ Answer(h, "error")
        /\ UNCHANGED <<prints, owner, approvals, caps, life>> /\ SetState(hand[h].req, "failed")
    BY <1>6 DEF RequestFails, OwnPcs
  <2>2. hand'[h].pc = "answer" /\ hand'[h].reply = "error"
    BY <2>1, <1>t, AnswerFields
  <2>3. \A r \in Requests : requests'[r] # requests[r] => r = hand[h].req /\ requests'[r] # "issued"
    BY <2>1, <1>t, <1>o DEF SetState
  <2>4. hand'[h].pc \notin OwnPcs
    BY <2>2 DEF OwnPcs
  <2> QED BY <2>1, <2>2, <2>3, <2>4, <1>m, IntakeFrame
<1>7. CASE Mint(h)
  BY <1>7, IntakeMint
<1>8. CASE AskApproval(h)
  BY <1>8, IntakeAsked
<1>9. CASE AnswerWaiting(h)
  <2>1. /\ hand[h].pc = "wait" /\ UNCHANGED <<prints, owner, requests, approvals, caps, life>>
        /\ Answer(h, requests[hand[h].req])
    BY <1>9 DEF AnswerWaiting, memory
  <2>2. hand[h].pc \in OwnPcs
    BY <2>1 DEF OwnPcs
  <2>3. PICK st \in States \cup {NULL} : st = requests[hand[h].req]
    BY <2>2, <1>o, <1>t
  <2>4. Answer(h, st) /\ st \in States \cup {"error", NULL}
    BY <2>1, <2>3
  <2>5. hand'[h].pc = "answer" /\ hand'[h].reply = st
    BY <2>4, <1>t, AnswerFields
  <2>6. st = "issued" => Issued(hand[h].agent, hand[h].target)
    BY <2>1, <2>2, <2>3, <1>o DEF IntakeInv, IssuedOwn, Own
  <2>7. hand'[h].pc \notin OwnPcs
    BY <2>5 DEF OwnPcs
  <2> QED BY <2>1, <2>5, <2>6, <2>7, <1>m, IntakeFrame
<1> QED BY <1>1, <1>2, <1>3, <1>4, <1>5, <1>6, <1>7, <1>8, <1>9 DEF HandlerStep, CheckFingerprint

\* Steps that leave the memory of request ids alone, or wipe it.
LEMMA IntakeKept ==
  ASSUME AuthInv, IntakeInv, AuthStep
  PROVE  IntakeInv'
<1>i. /\ OneMinter /\ LivesApart /\ AskedOwn /\ IssuedOwn
      /\ \A k \in Handlers : Own(hand[k]) /\ AnswersIssued(hand[k])
  BY IntakeParts
<1>q. ASSUME UNCHANGED <<prints, owner, requests, approvals, life>>, CapsKept \/ UNCHANGED caps,
             \A k \in Handlers : hand'[k] = hand[k] \/ hand'[k].pc \in {"free", "check"}
                                   \/ (hand'[k].pc = "answer" /\ hand'[k].reply = "error")
      PROVE  IntakeInv'
  <2>1. \A r \in Requests : /\ DOMAIN caps'[r] = DOMAIN caps[r]
                            /\ \A i \in DOMAIN caps[r] : caps'[r][i].life = caps[r][i].life
    BY <1>q DEF CapsKept, SameCap
  <2>2. \A r \in Requests : Unminted(r)' <=> Unminted(r)
    BY <1>q, <2>1 DEF Unminted
  <2>3. \A k \in Handlers, r \in Requests : Minter(k, r)' => Minter(k, r)
    BY <1>q DEF Minter, MintPcs
  <2>4. OneMinter'
    BY <1>i, <1>q, <2>2, <2>3 DEF OneMinter
  <2>5. LivesApart'
    BY <1>i, <1>q, <2>1 DEF LivesApart
  <2>s. \A a, t : Issued(a, t) => Issued(a, t)'
    BY <1>q, IssuedStays
  <2>6. AskedOwn'
    BY <1>i, <1>q DEF AskedOwn
  <2>7. IssuedOwn'
    <3> SUFFICES ASSUME NEW r \in Requests, requests'[r] = "issued" PROVE Issued(owner[r], prints[r])'
      BY DEF IssuedOwn
    <3>1. PICK a, t : a = owner[r] /\ t = prints[r]
      OBVIOUS
    <3>2. Issued(a, t)'
      BY <1>i, <1>q, <3>1, <2>s DEF IssuedOwn
    <3> QED BY <1>q, <3>1, <3>2 DEF Issued
  <2>8. ASSUME NEW k \in Handlers PROVE Own(hand[k])' /\ AnswersIssued(hand[k])'
    <3>1. CASE hand'[k] = hand[k]
      <4>1. PICK a, t : a = hand[k].agent /\ t = hand[k].target
        OBVIOUS
      <4>2. hand[k].pc = "answer" /\ hand[k].reply = "issued" => Issued(a, t)'
        BY <1>i, <4>1, <2>s DEF AnswersIssued
      <4> QED BY <1>i, <1>q, <3>1, <4>1, <4>2 DEF Own, AnswersIssued, Issued
    <3>2. CASE hand'[k].pc \in {"free", "check"} \/ (hand'[k].pc = "answer" /\ hand'[k].reply = "error")
      BY <3>2 DEF Own, OwnPcs, AnswersIssued
    <3> QED BY <1>q, <3>1, <3>2
  <2> QED BY <2>4, <2>5, <2>6, <2>7, <2>8, IntakeParts
<1>1. CASE UNCHANGED authVars
  BY <1>1, <1>q DEF authVars
<1>2. ASSUME NEW h \in Handlers, HandlerStep(h) PROVE IntakeInv'
  BY <1>2, IntakeHandler
<1>3. ASSUME NEW h \in Handlers, Arrives(h) \/ Leaves(h) PROVE IntakeInv'
  BY <1>3, <1>q DEF Arrives, Leaves, Settled, Others, memory
<1>4. CASE LocalStep
  <2>1. ASSUME Regrants \/ Withdraws PROVE IntakeInv'
    BY <2>1, <1>q DEF Regrants, Withdraws, memory
  <2> QED BY <1>4, <2>1, IntakeDecided, AdminKinds
<1>5. CASE Restart
  <2>0. life' = life + 1 /\ life \in Nat /\ CapsKept
    BY <1>5, RestartKinds DEF AuthInv, AuthTyped
  <2>1. \A r \in Requests : /\ DOMAIN caps'[r] = DOMAIN caps[r]
                            /\ \A i \in DOMAIN caps[r] : /\ caps'[r][i].life = caps[r][i].life
                                                         /\ caps[r][i].life \in Nat
                                                         /\ caps[r][i].life <= life
    <3>1. \A r \in Requests : \A i \in DOMAIN caps[r] : caps[r][i] \in Minting
      BY DEF AuthInv, AuthTyped
    <3>2. \A c \in Minting : c.life \in Nat
      BY DEF Minting
    <3> QED BY <1>i, <2>0, <3>1, <3>2 DEF CapsKept, SameCap, LivesApart
  <2>2. \A r \in Requests : Unminted(r)'
    BY <2>0, <2>1 DEF Unminted
  <2>3. \A k \in Handlers : hand'[k].pc = "free"
    BY <1>5, RestartKinds, FreeHand
  <2>4. \A r \in Requests : /\ prints'[r] = NULL /\ owner'[r] = NULL
                            /\ requests'[r] = NULL /\ approvals'[r] = NULL
    BY <1>5, RestartKinds
  <2>5. OneMinter'
    BY <2>2, <2>3, <2>4 DEF OneMinter, Minter, MintPcs
  <2>6. LivesApart'
    BY <1>i, <2>0, <2>1 DEF LivesApart
  <2>7. AskedOwn' /\ IssuedOwn'
    <3>1. NULL # "issued"
      BY AuthorityAssumption DEF States
    <3> QED BY <2>4, <3>1 DEF AskedOwn, IssuedOwn
  <2>8. \A k \in Handlers : Own(hand[k])' /\ AnswersIssued(hand[k])'
    BY <2>3 DEF Own, OwnPcs, AnswersIssued
  <2> QED BY <2>5, <2>6, <2>7, <2>8, IntakeParts
<1> QED BY <1>1, <1>2, <1>3, <1>4, <1>5 DEF AuthStep

(***************************************************************************)
(* Connections.                                                            *)
(***************************************************************************)
\* What is under way on a client's connection is the client's own call.
Held(a, h) ==
  /\ conn[h].sent # NULL => conn[h].sent = client[a].call
  /\ hand[h].pc # "free" => client[a].call # NULL /\ Serves(hand[h], client[a].call)

\* A handler is still at work for whom it was, or still free.
HandStays(h) ==
  /\ hand'[h].pc = "free" <=> hand[h].pc = "free"
  /\ \A q \in Calls : hand[h].pc # "free" /\ Serves(hand[h], q) => Serves(hand[h], q)'

\* The parts of the invariant of the connections.
LEMMA LinkParts ==
  /\ LinkInv => /\ LinkTyped
                /\ \A a \in Agents : ClientHolds(a)
                /\ \A h \in Handlers : ConnHolds(h)
                /\ \A a, b \in Agents : client[a].conn # NULL /\ client[a].conn = client[b].conn => a = b
                /\ \A a \in Agents, h \in Handlers : client[a].conn = h => Held(a, h)
  /\ LinkInv' <=> /\ LinkTyped'
                  /\ \A a \in Agents : ClientHolds(a)'
                  /\ \A h \in Handlers : ConnHolds(h)'
                  /\ \A a, b \in Agents : client'[a].conn # NULL /\ client'[a].conn = client'[b].conn => a = b
                  /\ \A a \in Agents, h \in Handlers : client'[a].conn = h => Held(a, h)'
BY DEF LinkInv, Held

\* The client of a connection that is not up is gone.
LEMMA NobodyHolds ==
  ASSUME LinkInv, NEW h \in Handlers, ~ conn[h].up
  PROVE  \A a \in Agents : client[a].conn # h
BY AuthorityAssumption DEF LinkInv, ClientHolds

\* One connection and the client that holds it take a step.
LEMMA LinkFrame ==
  ASSUME LinkInv, LinkTyped', NEW a \in Agents, NEW h \in Handlers,
         \A b \in Agents : b # a => client'[b] = client[b] /\ client[b].conn # h,
         \A k \in Handlers : k # h => conn'[k] = conn[k] /\ HandStays(k),
         client[a].conn \in {h, NULL}, client'[a].conn \in {h, NULL},
         ClientHolds(a)', ConnHolds(h)', client'[a].conn = h => Held(a, h)'
  PROVE  LinkInv'
<1>n. h # NULL /\ NULL \notin Handlers
  BY AuthorityAssumption
<1>p. /\ LinkTyped
      /\ \A b \in Agents : ClientHolds(b)
      /\ \A k \in Handlers : ConnHolds(k)
      /\ \A b, c \in Agents : client[b].conn # NULL /\ client[b].conn = client[c].conn => b = c
      /\ \A b \in Agents, k \in Handlers : client[b].conn = k => Held(b, k)
  BY LinkParts
<1>1. \A b \in Agents : client[b].conn \in Handlers \cup {NULL} /\ client[b].call \in Calls \cup {NULL}
  BY <1>p DEF LinkTyped, Client
<1>2. ASSUME NEW b \in Agents, b # a PROVE ClientHolds(b)'
  BY <1>2, <1>p, <1>1 DEF ClientHolds
<1>3. ASSUME NEW k \in Handlers, k # h PROVE ConnHolds(k)'
  <2>1. conn'[k] = conn[k] /\ (hand'[k].pc = "free" <=> hand[k].pc = "free") /\ ConnHolds(k)
    BY <1>3, <1>p DEF HandStays
  <2>2. ASSUME NEW b \in Agents, client[b].conn = k PROVE client'[b].conn = k
    BY <1>3, <1>n, <2>2
  <2> QED BY <2>1, <2>2 DEF ConnHolds
<1>4. \A b, c \in Agents : client'[b].conn # NULL /\ client'[b].conn = client'[c].conn => b = c
  BY <1>p, <1>n
<1>5. ASSUME NEW b \in Agents, NEW k \in Handlers, client'[b].conn = k PROVE Held(b, k)'
  <2>1. CASE b = a
    BY <1>n, <1>5, <2>1
  <2>2. CASE b # a
    <3>1. client'[b] = client[b] /\ k # h /\ Held(b, k) /\ conn'[k] = conn[k] /\ HandStays(k)
      BY <1>p, <1>5, <2>2
    <3> QED BY <3>1, <1>1 DEF Held, HandStays
  <2> QED BY <2>1, <2>2
<1> QED BY <1>2, <1>3, <1>4, <1>5, LinkParts

\* One connection takes a step; whose it is stays.
LEMMA LinkConn ==
  ASSUME LinkInv, LinkTyped', NEW h \in Handlers, UNCHANGED client,
         \A k \in Handlers : k # h => conn'[k] = conn[k] /\ HandStays(k),
         conn'[h].up <=> conn[h].up, ConnHolds(h)',
         \A a \in Agents : client[a].conn = h =>
            Held(a, h)' /\ (client[a].call = NULL => conn'[h].phase = "secure")
  PROVE  LinkInv'
<1>n. h # NULL /\ NULL \notin Handlers
  BY AuthorityAssumption
<1>p. /\ LinkTyped
      /\ \A b \in Agents : ClientHolds(b)
      /\ \A k \in Handlers : ConnHolds(k)
      /\ \A b, c \in Agents : client[b].conn # NULL /\ client[b].conn = client[c].conn => b = c
      /\ \A b \in Agents, k \in Handlers : client[b].conn = k => Held(b, k)
  BY LinkParts
<1>1. \A b \in Agents : client[b].conn \in Handlers \cup {NULL} /\ client[b].call \in Calls \cup {NULL}
  BY <1>p DEF LinkTyped, Client
<1>2. ASSUME NEW b \in Agents PROVE ClientHolds(b)'
  BY <1>2, <1>p, <1>1 DEF ClientHolds
<1>3. ASSUME NEW k \in Handlers, k # h PROVE ConnHolds(k)'
  BY <1>3, <1>p DEF ConnHolds, HandStays
<1>5. ASSUME NEW b \in Agents, NEW k \in Handlers, client'[b].conn = k PROVE Held(b, k)'
  BY <1>p, <1>1, <1>5 DEF Held, HandStays
<1> QED BY <1>p, <1>2, <1>3, <1>5, LinkParts

\* A client takes a step, its connection does not.
LEMMA LinkClient ==
  ASSUME LinkInv, LinkTyped', NEW a \in Agents, UNCHANGED <<conn, hand>>,
         \A b \in Agents : b # a => client'[b] = client[b],
         client'[a].conn = client[a].conn, ClientHolds(a)', client[a].call = NULL \/ client[a].conn = NULL
  PROVE  LinkInv'
<1>n. NULL \notin Handlers
  BY AuthorityAssumption
<1>p. /\ LinkTyped
      /\ \A b \in Agents : ClientHolds(b)
      /\ \A k \in Handlers : ConnHolds(k)
      /\ \A b, c \in Agents : client[b].conn # NULL /\ client[b].conn = client[c].conn => b = c
      /\ \A b \in Agents, k \in Handlers : client[b].conn = k => Held(b, k)
  BY LinkParts
<1>2. ASSUME NEW b \in Agents PROVE ClientHolds(b)'
  BY <1>2, <1>p DEF ClientHolds
<1>3. ASSUME NEW k \in Handlers PROVE ConnHolds(k)'
  BY <1>3, <1>p DEF ConnHolds
<1>4. \A b, c \in Agents : client'[b].conn # NULL /\ client'[b].conn = client'[c].conn => b = c
  BY <1>p
<1>5. ASSUME NEW b \in Agents, NEW k \in Handlers, client'[b].conn = k PROVE Held(b, k)'
  <2>1. CASE b = a
    <3>1. client[a].conn = k /\ client[a].call = NULL /\ ClientHolds(a) /\ ConnHolds(k)
      BY <1>n, <1>p, <1>5, <2>1
    <3>2. conn[k].phase # "busy"
      BY <1>n, <3>1 DEF ClientHolds
    <3> QED BY <2>1, <3>1, <3>2 DEF ConnHolds, Held
  <2>2. CASE b # a
    BY <1>p, <1>5, <2>2 DEF Held, Serves
  <2> QED BY <2>1, <2>2
<1> QED BY <1>2, <1>3, <1>4, <1>5, LinkParts

\* A call has come to an end without an answer.
LEMMA FailsFields ==
  ASSUME LinkTyped, NEW a \in Agents, client[a].call \in Calls, Fails(a)
  PROVE  /\ client' \in [Agents -> Client]
         /\ \A b \in Agents : b # a => client'[b] = client[b]
         /\ client'[a].call = NULL /\ client'[a].conn = NULL /\ client'[a].tries \in {0, 1}
         /\ result' \in [Calls -> States \cup {NULL}]
         /\ \A q \in Calls : result'[q] = "issued" => result[q] = "issued"
<1>1. PICK n \in {0, 1} : client' = [client EXCEPT ![a] = [AtRest EXCEPT !.tries = n]]
  BY DEF Fails
<1> DEFINE u == [AtRest EXCEPT !.tries = n]
<1>2. u \in Client /\ u.call = NULL /\ u.conn = NULL /\ u.tries = n
  BY DEF AtRest, Client
<1>3. client' = [client EXCEPT ![a] = u]
  BY <1>1
<1> HIDE DEF u
<1>4. client' \in [Agents -> Client] /\ client'[a] = u /\ \A b \in Agents : b # a => client'[b] = client[b]
  BY <1>2, <1>3 DEF LinkTyped
<1>5. /\ result' \in [Calls -> States \cup {NULL}]
      /\ \A q \in Calls : result'[q] = "issued" => result[q] = "issued"
  BY DEF Fails, LinkTyped, States
<1> QED BY <1>2, <1>4, <1>5

\* A client's record is replaced by u.
LEMMA ClientReplaced ==
  ASSUME LinkTyped, NEW a \in Agents, NEW u \in Client, client' = [client EXCEPT ![a] = u]
  PROVE  /\ client' \in [Agents -> Client] /\ client'[a] = u
         /\ \A b \in Agents : b # a => client'[b] = client[b]
BY DEF LinkTyped

\* A connection's record is replaced by u.
LEMMA ConnReplaced ==
  ASSUME LinkTyped, NEW h \in Handlers, NEW u \in Connection, conn' = [conn EXCEPT ![h] = u]
  PROVE  /\ conn' \in [Handlers -> Connection] /\ conn'[h] = u
         /\ \A k \in Handlers : k # h => conn'[k] = conn[k]
BY DEF LinkTyped

\* A client hangs up.
LEMMA HangFields ==
  ASSUME LinkTyped, NEW h \in Handlers, conn' = Hang(h)
  PROVE  /\ conn' \in [Handlers -> Connection]
         /\ \A k \in Handlers : k # h => conn'[k] = conn[k]
         /\ ~ conn'[h].up /\ conn'[h].phase = conn[h].phase /\ conn'[h].sent = conn[h].sent
<1> DEFINE u == [conn[h] EXCEPT !.up = FALSE]
<1>1. u \in Connection /\ ~ u.up /\ u.phase = conn[h].phase /\ u.sent = conn[h].sent
  BY DEF LinkTyped, Connection
<1>2. conn' = [conn EXCEPT ![h] = u]
  BY DEF Hang
<1> HIDE DEF u
<1> QED BY <1>1, <1>2, ConnReplaced

\* The client of a connection hangs up and has no connection any more.
LEMMA LinkHangs ==
  ASSUME LinkInv, NEW a \in Agents, client[a].conn # NULL, conn' = Hang(client[a].conn),
         UNCHANGED hand, client' \in [Agents -> Client],
         \A b \in Agents : b # a => client'[b] = client[b],
         client'[a].conn = NULL, result' \in [Calls -> States \cup {NULL}],
         client'[a].call # NULL => Caller[client'[a].call] = a,
         client'[a].call = NULL => client'[a].tries <= 1
  PROVE  LinkInv'
<1>p. /\ LinkTyped /\ ClientHolds(a)
      /\ \A k \in Handlers : ConnHolds(k)
      /\ \A b, c \in Agents : client[b].conn # NULL /\ client[b].conn = client[c].conn => b = c
  BY LinkParts
<1>1. PICK h \in Handlers : h = client[a].conn
  BY <1>p DEF LinkTyped, Client
<1>2. /\ conn' \in [Handlers -> Connection]
      /\ \A k \in Handlers : k # h => conn'[k] = conn[k]
      /\ ~ conn'[h].up /\ conn'[h].phase = conn[h].phase /\ conn'[h].sent = conn[h].sent
  BY <1>p, <1>1, HangFields
<1>3. LinkTyped'
  BY <1>2 DEF LinkTyped
<1>4. ClientHolds(a)'
  BY <1>p DEF ClientHolds
<1>5. ConnHolds(h)'
  <2>1. ConnHolds(h)
    BY <1>p
  <2> QED BY <1>2, <2>1 DEF ConnHolds
<1>6. \A b \in Agents : b # a => client[b].conn # h
  BY <1>p, <1>1
<1>7. \A k \in Handlers : HandStays(k)
  BY DEF HandStays, Serves
<1>8. h # NULL
  BY AuthorityAssumption
<1> QED BY <1>1, <1>2, <1>3, <1>4, <1>5, <1>6, <1>7, <1>8, LinkFrame

\* A call begins.
LEMMA LinkBegins ==
  ASSUME LinkInv, NEW q \in Calls, BeginCall(q) \/ BeginAged(q)
  PROVE  LinkInv'
<1>p. LinkTyped /\ \A a \in Agents : ClientHolds(a)
  BY LinkParts
<1>a. PICK a \in Agents : a = Caller[q]
  BY CallsAssumption
<1>b. client[a] \in Client /\ client[a].call = NULL /\ q # NULL /\ ClientHolds(a)
  BY <1>a, <1>p, CallsAssumption DEF BeginCall, BeginAged, LinkTyped
<1>1. CASE BeginCall(q)
  <2>0. PICK n \in Nat : n = client[a].tries + 1
    BY <1>b DEF Client
  <2> DEFINE u == [client[a] EXCEPT !.call = q, !.tries = n]
  <2>1. u \in Client /\ u.call = q /\ u.conn = client[a].conn /\ u.tries = n
    BY <1>b DEF Client
  <2>2. client' = [client EXCEPT ![a] = u] /\ UNCHANGED <<conn, hand, result>>
    BY <1>1, <1>a, <2>0 DEF BeginCall, authVars
  <2> HIDE DEF u
  <2>3. /\ client' \in [Agents -> Client] /\ client'[a] = u
        /\ \A b \in Agents : b # a => client'[b] = client[b]
    BY <1>p, <2>1, <2>2, ClientReplaced
  <2>4. LinkTyped'
    BY <1>p, <2>2, <2>3 DEF LinkTyped
  <2>5. client[a].tries \in Nat
    BY <1>b DEF Client
  <2>6. ClientHolds(a)'
    BY <1>a, <1>b, <2>0, <2>1, <2>2, <2>3, <2>5 DEF ClientHolds
  <2> QED BY <1>b, <2>1, <2>2, <2>3, <2>4, <2>6, LinkClient
<1>2. CASE BeginAged(q)
  <2> DEFINE u == [call |-> q, conn |-> NULL, tries |-> 1]
  <2>1. u \in Client /\ u.call = q /\ u.conn = NULL /\ u.tries = 1
    BY DEF Client
  <2>2. /\ client' = [client EXCEPT ![a] = u] /\ UNCHANGED <<hand, result>>
        /\ client[a].conn # NULL /\ conn' = Hang(client[a].conn)
    BY <1>2, <1>a DEF BeginAged, authVars
  <2> HIDE DEF u
  <2>3. /\ client' \in [Agents -> Client] /\ client'[a] = u
        /\ \A b \in Agents : b # a => client'[b] = client[b]
    BY <1>p, <2>1, <2>2, ClientReplaced
  <2>4. client'[a].call = q /\ client'[a].conn = NULL /\ Caller[q] = a
    BY <1>a, <2>1, <2>3
  <2> QED BY <1>b, <1>p, <2>2, <2>3, <2>4, LinkHangs DEF LinkTyped
<1> QED BY <1>1, <1>2

\* The library's steps.
LEMMA LinkLibrary ==
  ASSUME LinkInv, NEW a \in Agents,
         LibraryStep(a) \/ ConnectRefused(a) \/ HandshakeFails(a) \/ SocketFails(a)
  PROVE  LinkInv'
<1>p. /\ LinkTyped /\ \A b \in Agents : ClientHolds(b)
      /\ \A k \in Handlers : ConnHolds(k)
      /\ \A b, c \in Agents : client[b].conn # NULL /\ client[b].conn = client[c].conn => b = c
      /\ \A b \in Agents, k \in Handlers : client[b].conn = k => Held(b, k)
  BY LinkParts
<1>n. NULL \notin Handlers /\ NULL \notin Calls
  BY AuthorityAssumption, CallsAssumption
<1>c. client[a] \in Client /\ client[a].tries \in Nat /\ ClientHolds(a)
  BY <1>p DEF LinkTyped, Client
<1>h. UNCHANGED hand /\ \A k \in Handlers : HandStays(k)
  <2>1. UNCHANGED authVars
    BY DEF LibraryStep, Hello, Authenticate, Send, GivesUp, ConnectRefused, HandshakeFails, SocketFails
  <2> QED BY <2>1 DEF authVars, HandStays, Serves
<1>1. ASSUME NEW h \in Handlers, Hello(a, h) PROVE LinkInv'
  <2> DEFINE u == [phase |-> "greeted", up |-> TRUE, sent |-> NULL]
             v == [client[a] EXCEPT !.conn = h]
  <2>1. u \in Connection /\ u.phase = "greeted" /\ u.up /\ u.sent = NULL
    BY DEF Connection
  <2>2. /\ v \in Client /\ v.call = client[a].call /\ v.conn = h /\ v.tries = client[a].tries
    BY <1>c DEF Client
  <2>3. /\ conn[h] = Unused /\ conn' = [conn EXCEPT ![h] = u] /\ client' = [client EXCEPT ![a] = v]
        /\ client[a].call # NULL /\ client[a].conn = NULL /\ client[a].tries <= 2 /\ UNCHANGED result
    BY <1>1 DEF Hello, AnswerHello, Waiting
  <2> HIDE DEF u, v
  <2>4. /\ conn' \in [Handlers -> Connection] /\ conn'[h] = u
        /\ \A k \in Handlers : k # h => conn'[k] = conn[k]
    BY <1>p, <2>1, <2>3, ConnReplaced
  <2>5. /\ client' \in [Agents -> Client] /\ client'[a] = v
        /\ \A b \in Agents : b # a => client'[b] = client[b]
    BY <1>p, <2>2, <2>3, ClientReplaced
  <2>6. ~ conn[h].up /\ conn[h].phase = "unused"
    BY <2>3 DEF Unused
  <2>7. \A b \in Agents : client[b].conn # h
    BY <2>6, NobodyHolds
  <2>8. hand[h].pc = "free"
    BY <1>p, <2>6 DEF ConnHolds
  <2>9. LinkTyped'
    BY <1>p, <2>3, <2>4, <2>5 DEF LinkTyped
  <2>10. ClientHolds(a)'
    BY <1>c, <2>1, <2>2, <2>3, <2>4, <2>5 DEF ClientHolds
  <2>11. ConnHolds(h)'
    BY <1>h, <2>1, <2>2, <2>4, <2>5, <2>8 DEF ConnHolds
  <2>12. Held(a, h)'
    BY <1>h, <2>1, <2>4, <2>8 DEF Held
  <2> QED BY <1>h, <2>2, <2>3, <2>4, <2>5, <2>7, <2>9, <2>10, <2>11, <2>12, LinkFrame
<1>2. ASSUME Authenticate(a) \/ Send(a) PROVE LinkInv'
  <2>1. PICK h \in Handlers : h = client[a].conn
    BY <1>2, <1>c DEF Authenticate, Send, Client
  <2>2. PICK p \in {"secure", "busy"}, q \in Calls \cup {NULL} :
          /\ conn' = [conn EXCEPT ![h] = [conn[h] EXCEPT !.phase = p, !.sent = q]]
          /\ p = "secure" => q = conn[h].sent /\ conn[h].phase = "greeted"
          /\ p = "busy" => q = client[a].call /\ q # NULL /\ conn[h].phase = "secure"
    <3>0. conn[h] \in Connection /\ conn[h].sent \in Calls \cup {NULL} /\ client[a].call \in Calls \cup {NULL}
      BY <1>p, <1>c DEF LinkTyped, Connection, Client
    <3>1. CASE Authenticate(a)
      <4>1. conn' = [conn EXCEPT ![h] = [conn[h] EXCEPT !.phase = "secure"]] /\ conn[h].phase = "greeted"
        BY <2>1, <3>1 DEF Authenticate, AnswerAuthenticate
      <4>2. [conn[h] EXCEPT !.phase = "secure"] = [conn[h] EXCEPT !.phase = "secure", !.sent = conn[h].sent]
        BY <3>0 DEF Connection
      <4> QED BY <3>0, <4>1, <4>2
    <3>2. CASE Send(a)
      <4>1. conn' = [conn EXCEPT ![h] = [conn[h] EXCEPT !.sent = client[a].call, !.phase = "busy"]]
        BY <2>1, <3>2 DEF Send
      <4>2. [conn[h] EXCEPT !.sent = client[a].call, !.phase = "busy"]
              = [conn[h] EXCEPT !.phase = "busy", !.sent = client[a].call]
        BY <3>0 DEF Connection
      <4>3. client[a].call # NULL /\ conn[h].phase = "secure"
        BY <2>1, <3>2 DEF Send, Waiting
      <4> QED BY <3>0, <4>1, <4>2, <4>3
    <3> QED BY <1>2, <3>1, <3>2
  <2> DEFINE u == [conn[h] EXCEPT !.phase = p, !.sent = q]
  <2>3. u \in Connection /\ u.phase = p /\ u.sent = q /\ u.up = conn[h].up
    BY <1>p DEF LinkTyped, Connection
  <2>4. conn' = [conn EXCEPT ![h] = u]
    BY <2>2
  <2> HIDE DEF u
  <2>5. /\ conn' \in [Handlers -> Connection] /\ conn'[h] = u
        /\ \A k \in Handlers : k # h => conn'[k] = conn[k]
    BY <1>p, <2>3, <2>4, ConnReplaced
  <2>6. client[a].call # NULL /\ UNCHANGED <<client, result>>
    BY <1>2 DEF Authenticate, Send, Waiting
  <2>7. hand[h].pc = "free" /\ conn[h].sent = NULL /\ (conn[h].up => \E b \in Agents : client[b].conn = h)
    BY <1>p, <2>2 DEF ConnHolds
  <2>8. LinkTyped'
    BY <1>p, <2>5, <2>6 DEF LinkTyped
  <2>9. ConnHolds(h)'
    BY <1>h, <2>2, <2>3, <2>5, <2>6, <2>7 DEF ConnHolds
  <2>10. Held(a, h)'
    BY <1>h, <2>2, <2>3, <2>5, <2>6, <2>7 DEF Held
  <2>11. \A b \in Agents : client[b].conn = h => b = a
    BY <1>p, <1>n, <2>1
  <2> QED BY <1>h, <2>3, <2>5, <2>6, <2>8, <2>9, <2>10, <2>11, LinkConn
<1>f. ASSUME client[a].call # NULL, Fails(a)
      PROVE  /\ client' \in [Agents -> Client]
             /\ \A b \in Agents : b # a => client'[b] = client[b]
             /\ client'[a].call = NULL /\ client'[a].conn = NULL /\ client'[a].tries \in {0, 1}
             /\ result' \in [Calls -> States \cup {NULL}]
  <2>1. client[a].call \in Calls
    BY <1>f, <1>c DEF Client
  <2> QED BY <1>f, <1>p, <2>1, FailsFields
<1>3. ASSUME GivesUp(a) \/ ConnectRefused(a) PROVE LinkInv'
  <2>1. client[a].call # NULL /\ client[a].conn = NULL /\ Fails(a) /\ UNCHANGED conn
    BY <1>3, <1>c DEF GivesUp, ConnectRefused, Waiting, ClientHolds
  <2>2. LinkTyped'
    BY <1>p, <1>f, <2>1 DEF LinkTyped
  <2>3. ClientHolds(a)'
    BY <1>f, <2>1 DEF ClientHolds
  <2> QED BY <1>f, <1>h, <2>1, <2>2, <2>3, LinkClient
<1>4. ASSUME HandshakeFails(a) PROVE LinkInv'
  <2>1. /\ client[a].call # NULL /\ client[a].conn # NULL /\ Fails(a)
        /\ conn' = Hang(client[a].conn)
    BY <1>4 DEF HandshakeFails, Waiting
  <2> QED BY <1>f, <1>h, <2>1, LinkHangs
<1>5. ASSUME SocketFails(a) PROVE LinkInv'
  <2>1. client[a].conn # NULL /\ conn' = Hang(client[a].conn)
    BY <1>5 DEF SocketFails
  <2>2. CASE client[a].call # NULL /\ Fails(a)
    BY <1>f, <1>h, <2>1, <2>2, LinkHangs
  <2>3. CASE /\ client' = [client EXCEPT ![a].conn = NULL, ![a].tries = @ + 1]
             /\ UNCHANGED result
    <3>0. PICK n \in Nat : n = client[a].tries + 1
      BY <1>c
    <3> DEFINE u == [client[a] EXCEPT !.conn = NULL, !.tries = n]
    <3>1. u \in Client /\ u.call = client[a].call /\ u.conn = NULL /\ u.tries = n
      BY <1>c DEF Client
    <3>2. client' = [client EXCEPT ![a] = u]
      BY <2>3, <3>0
    <3> HIDE DEF u
    <3>3. /\ client' \in [Agents -> Client] /\ client'[a] = u
          /\ \A b \in Agents : b # a => client'[b] = client[b]
      BY <1>p, <3>1, <3>2, ClientReplaced
    <3>4. client[a].call # NULL => Caller[client[a].call] = a
      BY <1>c DEF ClientHolds
    <3>5. client[a].call = NULL => n <= 1
      BY <1>c, <2>1, <3>0 DEF ClientHolds
    <3>6. result' \in [Calls -> States \cup {NULL}]
      BY <1>p, <2>3 DEF LinkTyped
    <3> QED BY <1>h, <2>1, <3>1, <3>3, <3>4, <3>5, <3>6, LinkHangs
  <2> QED BY <1>5, <2>2, <2>3 DEF SocketFails, Waiting
<1> QED BY <1>1, <1>2, <1>3, <1>4, <1>5 DEF LibraryStep

\* A handler's own steps and the administrator's leave the connections as they are.
LEMMA LinkBroker ==
  ASSUME AuthInv, LinkInv, UNCHANGED linkVars,
         LocalStep \/ UNCHANGED hand \/ \E h \in Handlers : HandlerStep(h)
  PROVE  LinkInv'
<1>p. /\ LinkTyped /\ \A b \in Agents : ClientHolds(b)
      /\ \A k \in Handlers : ConnHolds(k)
      /\ \A b, c \in Agents : client[b].conn # NULL /\ client[b].conn = client[c].conn => b = c
      /\ \A b \in Agents, k \in Handlers : client[b].conn = k => Held(b, k)
  BY LinkParts
<1>u. UNCHANGED <<client, conn, result>>
  BY DEF linkVars
<1>1. ASSUME UNCHANGED hand, NEW k \in Handlers PROVE HandStays(k)
  BY <1>1 DEF HandStays, Serves
<1>2. ASSUME LocalStep PROVE UNCHANGED hand
  BY <1>2, AdminKinds DEF Decides, Regrants, Withdraws, memory
<1>3. ASSUME NEW h \in Handlers, HandlerStep(h), NEW k \in Handlers PROVE HandStays(k)
  <2>1. HandMoves(h)
    BY <1>3, HandlerMoves
  <2>2. CASE k = h
    <3>1. /\ hand[h].pc # "answer" /\ hand[h].pc # "free" /\ hand'[h].pc # "free"
          /\ hand'[h].agent = hand[h].agent /\ hand'[h].target = hand[h].target
      BY <2>1 DEF HandMoves, Onward
    <3> QED BY <2>2, <3>1 DEF HandStays, Serves
  <2>3. CASE k # h
    <3>1. hand'[k] = hand[k]
      BY <2>1, <2>3 DEF HandMoves
    <3> QED BY <3>1 DEF HandStays, Serves
  <2> QED BY <2>2, <2>3
<1>4. \A k \in Handlers : HandStays(k)
  BY <1>1, <1>2, <1>3
<1>5. LinkTyped' /\ \A b \in Agents : ClientHolds(b)'
  BY <1>p, <1>u DEF LinkTyped, ClientHolds
<1>6. ASSUME NEW k \in Handlers PROVE ConnHolds(k)'
  BY <1>p, <1>u, <1>4 DEF ConnHolds, HandStays
<1>7. ASSUME NEW b \in Agents, NEW k \in Handlers, client'[b].conn = k PROVE Held(b, k)'
  <2>1. client[b].call \in Calls \cup {NULL}
    BY <1>p DEF LinkTyped, Client
  <2> QED BY <1>p, <1>u, <1>4, <1>7, <2>1 DEF Held, HandStays
<1> QED BY <1>p, <1>u, <1>5, <1>6, <1>7, LinkParts

\* A request is read from its connection.
LEMMA LinkServes ==
  ASSUME AuthInv, LinkInv, NEW h \in Handlers, Serve(h) \/ ServeRefused(h)
  PROVE  LinkInv'
<1>p. /\ LinkTyped /\ \A b \in Agents : ClientHolds(b)
      /\ \A k \in Handlers : ConnHolds(k)
      /\ \A b \in Agents, k \in Handlers : client[b].conn = k => Held(b, k)
  BY LinkParts
<1>1. PICK q \in Calls : q = conn[h].sent
  BY <1>p DEF Serve, ServeRefused, LinkTyped, Connection
<1>n. q # NULL /\ NULL \notin Handlers
  BY AuthorityAssumption, CallsAssumption
<1> DEFINE u == [conn[h] EXCEPT !.sent = NULL]
<1>2. u \in Connection /\ u.phase = conn[h].phase /\ u.sent = NULL /\ u.up = conn[h].up
  BY <1>p DEF LinkTyped, Connection
<1>3. conn' = [conn EXCEPT ![h] = u] /\ UNCHANGED <<client, result>> /\ hand[h].pc = "free"
  BY DEF Serve, ServeRefused
<1> HIDE DEF u
<1>4. /\ conn' \in [Handlers -> Connection] /\ conn'[h] = u
      /\ \A k \in Handlers : k # h => conn'[k] = conn[k]
  BY <1>p, <1>2, <1>3, ConnReplaced
<1>5. Others(h) /\ hand'[h].pc # "free" /\ Serves(hand[h], q)'
  <2>1. CASE Serve(h)
    <3>1. PICK r \in Requests : Arrive(h, Caller[q], r, Subject[q])
      <4>1. Caller[q] \in Agents /\ Subject[q] \in Targets /\ Named[q] \in Requests \cup {NULL}
        BY CallsAssumption
      <4> QED BY <2>1, <1>1, <4>1 DEF Serve
    <3>2. Arrives(h) /\ hand'[h].agent = Caller[q] /\ hand'[h].target = Subject[q]
      BY <3>1, CallsAssumption, ArriveFields
    <3> QED BY <3>2 DEF Arrives, Serves
  <2>2. CASE ServeRefused(h)
    <3> DEFINE v == [Free EXCEPT !.pc = "answer", !.reply = "error"]
    <3>1. hand' = [hand EXCEPT ![h] = v]
      BY <2>2 DEF ServeRefused
    <3>2. v \in Hand /\ v.pc = "answer" /\ v.reply = "error"
      BY FreeHand
    <3> HIDE DEF v
    <3>3. Others(h) /\ hand'[h] = v
      BY <3>1, <3>2, HandReplaced DEF Others, AuthInv, AuthTyped
    <3> QED BY <3>2, <3>3 DEF Serves
  <2> QED BY <2>1, <2>2
<1>6. \A k \in Handlers : k # h => HandStays(k)
  BY <1>5 DEF Others, HandStays, Serves
<1>7. LinkTyped'
  BY <1>p, <1>3, <1>4 DEF LinkTyped
<1>8. conn[h].phase = "busy" /\ (conn[h].up => \E b \in Agents : client[b].conn = h)
  BY <1>p, <1>1, <1>n DEF ConnHolds
<1>9. ConnHolds(h)'
  BY <1>2, <1>3, <1>4, <1>5, <1>8 DEF ConnHolds
<1>10. ASSUME NEW a \in Agents, client[a].conn = h PROVE client[a].call = q /\ Held(a, h)'
  <2>1. client[a].call = q
    BY <1>p, <1>1, <1>n, <1>10 DEF Held
  <2>2. client'[a].call = q /\ conn'[h].sent = NULL
    BY <1>2, <1>3, <1>4, <2>1
  <2> QED BY <1>5, <1>n, <2>1, <2>2 DEF Held
<1> QED BY <1>2, <1>3, <1>4, <1>6, <1>7, <1>9, <1>10, <1>n, LinkConn

\* An answer is written, or the connection of a client that is gone comes to its end.
LEMMA LinkEnds ==
  ASSUME AuthInv, LinkInv, NEW h \in Handlers, Deliver(h) \/ EndConnection(h)
  PROVE  LinkInv'
<1>p. /\ LinkTyped /\ \A b \in Agents : ClientHolds(b)
      /\ \A k \in Handlers : ConnHolds(k)
      /\ \A b, c \in Agents : client[b].conn # NULL /\ client[b].conn = client[c].conn => b = c
      /\ \A b \in Agents, k \in Handlers : client[b].conn = k => Held(b, k)
  BY LinkParts
<1>n. NULL \notin Handlers /\ NULL \notin Calls
  BY AuthorityAssumption, CallsAssumption
<1>1. \A k \in Handlers : /\ k # h => hand'[k] = hand[k]
                          /\ hand'[h].pc = "free"
  <2>1. hand \in [Handlers -> Hand]
    BY DEF AuthInv, AuthTyped
  <2> QED BY <2>1, FreeHand DEF Deliver, EndConnection, authVars
<1>2. \A k \in Handlers : k # h => HandStays(k)
  BY <1>1 DEF HandStays, Serves
<1>3. CASE ~ conn[h].up
  <2>1. conn' = [conn EXCEPT ![h] = Unused] /\ UNCHANGED <<client, result>>
    BY <1>3 DEF Deliver, EndConnection
  <2>2. Unused \in Connection /\ Unused.phase = "unused" /\ ~ Unused.up /\ Unused.sent = NULL
    BY DEF Unused, Connection
  <2> HIDE DEF Unused
  <2>3. /\ conn' \in [Handlers -> Connection] /\ conn'[h] = Unused
        /\ \A k \in Handlers : k # h => conn'[k] = conn[k]
    BY <1>p, <2>1, <2>2, ConnReplaced
  <2>4. LinkTyped'
    BY <1>p, <2>1, <2>3 DEF LinkTyped
  <2>5. ConnHolds(h)'
    BY <1>1, <2>2, <2>3 DEF ConnHolds
  <2>6. \A a \in Agents : client[a].conn # h
    BY <1>3, NobodyHolds
  <2> QED BY <1>2, <1>3, <2>1, <2>2, <2>3, <2>4, <2>5, <2>6, LinkConn
<1>4. CASE Deliver(h) /\ conn[h].up
  <2>1. PICK a \in Agents :
          /\ client[a].conn = h /\ conn' = [conn EXCEPT ![h].phase = "secure"]
          /\ Return(a, IF hand[h].reply = "error" THEN "failed" ELSE hand[h].reply)
    BY <1>4 DEF Deliver
  <2> DEFINE u == [conn[h] EXCEPT !.phase = "secure"]
             v == [client[a] EXCEPT !.call = NULL, !.tries = 0]
  <2>2. u \in Connection /\ u.phase = "secure" /\ u.up = conn[h].up /\ u.sent = conn[h].sent
    BY <1>p DEF LinkTyped, Connection
  <2>3. v \in Client /\ v.call = NULL /\ v.conn = h /\ v.tries = 0
    BY <1>p, <2>1 DEF LinkTyped, Client
  <2>4. conn' = [conn EXCEPT ![h] = u] /\ client' = [client EXCEPT ![a] = v]
    BY <2>1 DEF Return
  <2> HIDE DEF u, v
  <2>5. /\ conn' \in [Handlers -> Connection] /\ conn'[h] = u
        /\ \A k \in Handlers : k # h => conn'[k] = conn[k]
    BY <1>p, <2>2, <2>4, ConnReplaced
  <2>6. /\ client' \in [Agents -> Client] /\ client'[a] = v
        /\ \A b \in Agents : b # a => client'[b] = client[b]
    BY <1>p, <2>3, <2>4, ClientReplaced
  <2>7. hand[h].pc = "answer" /\ hand[h].pc # "free"
    BY <1>4 DEF Deliver
  <2>8. conn[h].sent = NULL
    BY <1>p, <2>7 DEF ConnHolds
  <2>9. LinkTyped'
    <3>1. hand[h].reply \in States \cup {"error", NULL} /\ client[a].call \in Calls
      <4>1. hand[h] \in Hand
        BY DEF AuthInv, AuthTyped
      <4>2. client[a].call # NULL /\ client[a] \in Client
        BY <1>p, <2>1, <2>7 DEF Held, LinkTyped
      <4> QED BY <4>1, <4>2 DEF Hand, Client
    <3>2. result' \in [Calls -> States \cup {NULL}]
      BY <1>p, <2>1, <3>1 DEF Return, LinkTyped, States
    <3> QED BY <3>2, <2>5, <2>6 DEF LinkTyped
  <2>10. ClientHolds(a)'
    <3>1. client'[a].call = NULL /\ client'[a].conn = h /\ client'[a].tries = 0
      BY <2>3, <2>6
    <3>2. conn'[h].up /\ conn'[h].phase = "secure"
      BY <1>4, <2>2, <2>5
    <3> QED BY <3>1, <3>2 DEF ClientHolds
  <2>11. ConnHolds(h)'
    BY <1>1, <2>2, <2>3, <2>5, <2>6, <2>8 DEF ConnHolds
  <2>12. Held(a, h)'
    BY <1>1, <2>2, <2>5, <2>8 DEF Held
  <2>13. \A b \in Agents : b # a => client[b].conn # h
    BY <1>p, <1>n, <2>1
  <2> QED BY <1>2, <2>1, <2>3, <2>5, <2>6, <2>9, <2>10, <2>11, <2>12, <2>13, LinkFrame
<1> QED BY <1>3, <1>4 DEF EndConnection

\* A restart closes every connection.
LEMMA LinkRestarts ==
  ASSUME AuthInv, LinkInv, DaemonRestarts
  PROVE  LinkInv'
<1>p. LinkTyped /\ \A b \in Agents : ClientHolds(b)
  BY LinkParts
<1>n. NULL \notin Handlers
  BY AuthorityAssumption
<1>1. \A k \in Handlers : hand'[k].pc = "free"
  BY RestartKinds, FreeHand DEF DaemonRestarts
<1>2. Unused \in Connection /\ Unused.phase = "unused" /\ ~ Unused.up /\ Unused.sent = NULL
  BY DEF Unused, Connection
<1>3. /\ conn' \in [Handlers -> Connection]
      /\ \A k \in Handlers : conn'[k].phase = "unused" /\ ~ conn'[k].up /\ conn'[k].sent = NULL
  BY <1>2 DEF DaemonRestarts
<1>4. \A a \in Agents : /\ client'[a] \in Client /\ client'[a].call = client[a].call
                        /\ client'[a].conn = NULL /\ (client[a].call = NULL => client'[a].tries <= 1)
  <2> SUFFICES ASSUME NEW a \in Agents
               PROVE  /\ client'[a] \in Client /\ client'[a].call = client[a].call
                      /\ client'[a].conn = NULL /\ (client[a].call = NULL => client'[a].tries <= 1)
    OBVIOUS
  <2>1. client[a] \in Client /\ client[a].tries \in Nat /\ ClientHolds(a)
    BY <1>p DEF LinkTyped, Client
  <2>2. PICK n \in Nat : n = Attempts(a)
    BY <2>1 DEF Attempts
  <2>3. client'[a] = [client[a] EXCEPT !.conn = NULL, !.tries = n]
    BY <2>2 DEF DaemonRestarts
  <2>4. client[a].call = NULL => n <= 1
    BY <2>1, <2>2 DEF Attempts, ClientHolds
  <2> QED BY <2>1, <2>3, <2>4 DEF Client
<1>5. client' \in [Agents -> Client]
  <2>1. client' = [a \in Agents |-> client'[a]]
    BY DEF DaemonRestarts
  <2> QED BY <2>1, <1>4
<1>6. LinkTyped'
  BY <1>p, <1>3, <1>5 DEF LinkTyped, DaemonRestarts
<1>7. \A a \in Agents : ClientHolds(a)'
  BY <1>p, <1>4 DEF ClientHolds
<1>8. \A k \in Handlers : ConnHolds(k)'
  BY <1>1, <1>3 DEF ConnHolds
<1>9. \A a \in Agents, k \in Handlers : client'[a].conn = k => Held(a, k)'
  BY <1>4, <1>n
<1> QED BY <1>4, <1>6, <1>7, <1>8, <1>9, LinkParts

\* Every step keeps the connections in order.
LEMMA LinkKept ==
  ASSUME AuthInv, LinkInv, [CallsNext]_callVars
  PROVE  LinkInv'
<1>1. CASE UNCHANGED callVars
  BY <1>1, LinkBroker DEF callVars, authVars
<1>2. CASE CallsNext
  <2>1. ASSUME NEW q \in Calls, BeginCall(q) \/ BeginAged(q) PROVE LinkInv'
    BY <2>1, LinkBegins
  <2>2. ASSUME NEW a \in Agents,
               LibraryStep(a) \/ ConnectRefused(a) \/ HandshakeFails(a) \/ SocketFails(a)
        PROVE  LinkInv'
    BY <2>2, LinkLibrary
  <2>3. ASSUME NEW h \in Handlers, ServerStep(h) PROVE LinkInv'
    BY <2>3, LinkBroker, LinkServes, LinkEnds DEF ServerStep
  <2>4. ASSUME LocalStep, UNCHANGED linkVars PROVE LinkInv'
    BY <2>4, LinkBroker
  <2>5. ASSUME DaemonRestarts PROVE LinkInv'
    BY <2>5, LinkRestarts
  <2> QED BY <1>2, <2>1, <2>2, <2>3, <2>4, <2>5 DEF CallsNext
<1> QED BY <1>1, <1>2

(***************************************************************************)
(* Answers.                                                                *)
(***************************************************************************)
\* A step adds one capability or keeps those there are.
LEMMA CapsOnward ==
  ASSUME AuthInv, AuthStep
  PROVE  CapsKept \/ UNCHANGED caps \/ (\E r \in Requests, c \in Minting : CapAdded(r, c))
<1>1. CASE UNCHANGED authVars
  BY <1>1 DEF authVars
<1>2. ASSUME NEW h \in Handlers, HandlerStep(h)
      PROVE  UNCHANGED caps \/ (\E r \in Requests, c \in Minting : CapAdded(r, c))
  <2>1. CASE Mint(h)
    <3>1. PICK r, c : r = hand[h].req /\ c = Capability(hand[h], MadeBy(h))
      OBVIOUS
    <3>2. r \in Requests /\ CapAdded(r, c)
      BY <2>1, <3>1, MintAdds
    <3> QED BY <3>2 DEF CapAdded
  <2>2. CASE ~ Mint(h)
    BY <1>2, <2>2 DEF HandlerStep, CheckFingerprint, RecordAgent, RecordRequested, EvaluatePolicy,
                      RequestFails, MatchGrant, AskApproval, RecordAwaiting, AnswerWaiting
  <2> QED BY <2>1, <2>2
<1>3. ASSUME NEW h \in Handlers, Arrives(h) \/ Leaves(h) PROVE UNCHANGED caps
  BY <1>3 DEF Arrives, Leaves, Settled
<1>4. CASE LocalStep
  BY <1>4, AdminKinds DEF Decides, Regrants, Withdraws, CapAdded
<1>5. CASE Restart
  BY <1>5, RestartKinds
<1> QED BY <1>1, <1>2, <1>3, <1>4, <1>5 DEF AuthStep

\* Every step keeps the answers true.
LEMMA AnsweredKept ==
  ASSUME AuthInv, IntakeInv, LinkInv, AnsweredInv, [CallsNext]_callVars
  PROVE  AnsweredInv'
<1>p. LinkTyped /\ \A b \in Agents, k \in Handlers : client[b].conn = k => Held(b, k)
  BY LinkParts
<1>1. CapsKept \/ UNCHANGED caps \/ (\E r \in Requests, c \in Minting : CapAdded(r, c))
  BY <1>p, CallsSteps, CapsOnward
<1>2. ASSUME NEW q \in Calls, result'[q] = "issued", result[q] # "issued" PROVE Issued(Caller[q], Subject[q])
  <2>f. ASSUME NEW a \in Agents, client[a].call # NULL, Fails(a) PROVE FALSE
    <3>1. client[a].call \in Calls
      BY <1>p, <2>f DEF LinkTyped, Client
    <3> QED BY <1>p, <1>2, <2>f, <3>1, FailsFields
  <2>1. PICK h \in Handlers : Deliver(h)
    <3>1. ~ UNCHANGED result
      BY <1>2
    <3>2. \A x \in Calls : ~ (BeginCall(x) \/ BeginAged(x))
      BY <3>1 DEF BeginCall, BeginAged
    <3>3. ASSUME NEW a \in Agents,
                 LibraryStep(a) \/ ConnectRefused(a) \/ HandshakeFails(a) \/ SocketFails(a)
          PROVE  FALSE
      BY <2>f, <3>1, <3>3 DEF LibraryStep, Hello, Authenticate, Send, GivesUp, ConnectRefused,
                              HandshakeFails, SocketFails, Waiting
    <3>4. ~ UNCHANGED linkVars /\ ~ UNCHANGED callVars /\ ~ DaemonRestarts
      BY <3>1 DEF linkVars, callVars, DaemonRestarts
    <3>5. \A k \in Handlers : ~ (Serve(k) \/ ServeRefused(k) \/ EndConnection(k))
      BY <3>1 DEF Serve, ServeRefused, EndConnection
    <3> QED BY <3>2, <3>3, <3>4, <3>5 DEF CallsNext, ServerStep
  <2>2. PICK a \in Agents :
          /\ client[a].conn = h
          /\ Return(a, IF hand[h].reply = "error" THEN "failed" ELSE hand[h].reply)
    BY <1>2, <2>1 DEF Deliver
  <2>3. hand[h].pc = "answer" /\ Held(a, h)
    BY <1>p, <2>1, <2>2 DEF Deliver
  <2>4. client[a].call # NULL /\ Serves(hand[h], client[a].call)
    BY <2>3 DEF Held
  <2>5. q = client[a].call /\ hand[h].reply = "issued"
    <3>1. result' = [result EXCEPT ![client[a].call] =
                       IF hand[h].reply = "error" THEN "failed" ELSE hand[h].reply]
      BY <2>2 DEF Return
    <3> QED BY <1>2, <1>p, <3>1 DEF LinkTyped
  <2>6. hand[h].agent = Caller[q] /\ hand[h].target = Subject[q]
    BY <2>4, <2>5 DEF Serves
  <2> QED BY <2>3, <2>5, <2>6 DEF IntakeInv, AnswersIssued
<1>3. ASSUME NEW q \in Calls, result'[q] = "issued" PROVE Issued(Caller[q], Subject[q])'
  <2>1. Issued(Caller[q], Subject[q])
    BY <1>2, <1>3 DEF AnsweredInv
  <2> QED BY <1>1, <2>1, IssuedStays
<1> QED BY <1>3 DEF AnsweredInv

(***************************************************************************)
(* The theorems.                                                           *)
(***************************************************************************)
AgentInv == AuthInv /\ GrantInv /\ PolicyInv /\ IntakeInv /\ LinkInv /\ AnsweredInv

\* A daemon that has just started satisfies the invariant.
LEMMA AgentStarts ==
  ASSUME CallsInit
  PROVE  AgentInv
<1>i. /\ policy \in Policies
      /\ grants = [g \in GrantIds |-> NULL] /\ prints = [r \in Requests |-> NULL]
      /\ owner = [r \in Requests |-> NULL] /\ requests = [r \in Requests |-> NULL]
      /\ approvals = [r \in Requests |-> NULL] /\ caps = [r \in Requests |-> <<>>]
      /\ hand = [h \in Handlers |-> Free] /\ admin = [d \in Admins |-> Quiet]
      /\ changes = 0 /\ life = 0
      /\ client = [a \in Agents |-> AtRest] /\ conn = [h \in Handlers |-> Unused]
      /\ result = [q \in Calls |-> NULL]
  BY DEF CallsInit, AuthorityInit
<1>n. /\ NULL \notin Handlers /\ NULL # "issued"
  BY AuthorityAssumption DEF States
<1>1. \A r \in Requests : caps[r] \in Seq(Minting) /\ DOMAIN caps[r] = {}
  BY <1>i
<1>2. hand \in [Handlers -> Hand] /\ \A h \in Handlers : hand[h].pc = "free"
  BY <1>i, FreeHand
<1>3. AuthInv
  <2>q. Quiet \in AdminTask /\ Quiet.pc = "quiet" /\ Quiet.ids = {}
    BY DEF Quiet, AdminTask
  <2>1. admin \in [Admins -> AdminTask] /\ \A d \in Admins : admin[d] = Quiet
    BY <1>i, <2>q
  <2>2. caps \in [Requests -> Seq(Minting)]
    BY <1>i
  <2>3. AuthTyped
    BY <1>i, <1>2, <2>1, <2>2 DEF AuthTyped
  <2>4. AdminHolds
    BY <2>q, <2>1 DEF AdminHolds, TaskHolds
  <2>5. \A h \in Handlers : Carries(hand[h])
    BY <1>2 DEF Carries
  <2> QED BY <2>3, <2>4, <2>5 DEF AuthInv
<1>4. GrantInv
  BY <1>i, <1>1, <1>2 DEF GrantInv, OneLiveGrant, Judged
<1>5. PolicyInv
  BY <1>i, <1>1, <1>2 DEF PolicyInv, Evaluated
<1>6. IntakeInv
  <2>1. OneMinter /\ LivesApart
    BY <1>i, <1>1, <1>2 DEF OneMinter, LivesApart, Minter, MintPcs, Unminted
  <2>2. AskedOwn /\ IssuedOwn
    BY <1>i, <1>n DEF AskedOwn, IssuedOwn
  <2>3. \A h \in Handlers : Own(hand[h]) /\ AnswersIssued(hand[h])
    BY <1>2 DEF Own, OwnPcs, AnswersIssued
  <2> QED BY <2>1, <2>2, <2>3, IntakeParts
<1>7. LinkInv
  <2>1. AtRest \in Client /\ AtRest.call = NULL /\ AtRest.conn = NULL /\ AtRest.tries = 0
    BY DEF AtRest, Client
  <2>2. Unused \in Connection /\ Unused.phase = "unused" /\ ~ Unused.up /\ Unused.sent = NULL
    BY DEF Unused, Connection
  <2>3. LinkTyped
    <3>1. client \in [Agents -> Client]
      BY <1>i, <2>1
    <3>2. conn \in [Handlers -> Connection]
      BY <1>i, <2>2
    <3>3. result \in [Calls -> States \cup {NULL}]
      BY <1>i
    <3> QED BY <3>1, <3>2, <3>3 DEF LinkTyped
  <2>4. \A a \in Agents : ClientHolds(a) /\ client[a].conn = NULL
    <3>1. \A a \in Agents : client[a].call = NULL /\ client[a].conn = NULL /\ client[a].tries = 0
      BY <1>i, <2>1
    <3>2. NULL \notin Calls /\ 0 <= 1
      BY CallsAssumption
    <3> QED BY <3>1, <3>2 DEF ClientHolds
  <2>5. \A h \in Handlers : ConnHolds(h)
    BY <1>i, <1>2, <2>2 DEF ConnHolds
  <2> QED BY <1>n, <2>3, <2>4, <2>5 DEF LinkInv
<1>8. AnsweredInv
  BY <1>i, <1>n DEF AnsweredInv
<1> QED BY <1>3, <1>4, <1>5, <1>6, <1>7, <1>8 DEF AgentInv

\* The inductive invariant of the agents' calls: the authority's types and administration,
\* its grants, its policy, its memory of request ids, and the connections.
THEOREM AgentInvariant == CallsSpec => []AgentInv
<1>1. CallsInit => AgentInv
  BY AgentStarts
<1>2. AgentInv /\ [CallsNext]_callVars => AgentInv'
  <2> SUFFICES ASSUME AgentInv, [CallsNext]_callVars PROVE AgentInv'
    OBVIOUS
  <2>1. /\ AuthInv /\ GrantInv /\ PolicyInv /\ IntakeInv /\ LinkInv /\ AnsweredInv /\ LinkTyped
    BY DEF AgentInv, LinkInv
  <2>2. AuthStep
    BY <2>1, CallsSteps
  <2>3. AuthInv' /\ GrantInv' /\ PolicyInv' /\ IntakeInv'
    BY <2>1, <2>2, AuthKept, GrantKept, PolicyKept, IntakeKept
  <2>4. LinkInv' /\ AnsweredInv'
    BY <2>1, LinkKept, AnsweredKept
  <2> QED BY <2>3, <2>4 DEF AgentInv
<1> QED BY <1>1, <1>2, PTL DEF CallsSpec

\* The capabilities as the properties name them.
LEMMA MintedOnes ==
  ASSUME NEW m \in Minted
  PROVE  m[1] \in Requests /\ m[2] \in DOMAIN caps[m[1]] /\ m = <<m[1], m[2]>>
<1>1. PICK r \in Requests : m \in {<<r, i>> : i \in DOMAIN caps[r]}
  BY DEF Minted
<1>2. PICK i \in DOMAIN caps[r] : m = <<r, i>>
  BY <1>1
<1> QED BY <1>2

\* And each of them is one.
LEMMA MintedAll ==
  ASSUME NEW r \in Requests, NEW i \in DOMAIN caps[r]
  PROVE  <<r, i>> \in Minted /\ Cap(<<r, i>>) = caps[r][i]
<1>1. <<r, i>> \in {<<r, j>> : j \in DOMAIN caps[r]}
  OBVIOUS
<1> QED BY <1>1 DEF Minted, Cap

\* An agent never has two live grants for a target: insert_standing_grant_with_audit
\* supersedes the one there is in the transaction that adds the new one, whatever a
\* list-then-revoke that overlaps it still has to do.
THEOREM AgentOneLiveGrant == CallsSpec => []OneLiveGrant
<1>1. AgentInv => OneLiveGrant
  BY DEF AgentInv, GrantInv
<1> QED BY <1>1, AgentInvariant, PTL

\* A grant that was revoked, superseded or expired when handle_action_request received a
\* request authorizes no capability of that request, however late the grant is looked up:
\* revocation is read then and expiry by a clock read in between.
THEOREM AgentRevokedNeverUsed == CallsSpec => []RevokedNeverUsed
<1>1. AgentInv => RevokedNeverUsed
  BY MintedOnes DEF AgentInv, GrantInv, RevokedNeverUsed, Cap
<1> QED BY <1>1, AgentInvariant, PTL

\* Every capability is one that the policy it was evaluated under permits, for policies
\* of any length; one issued without a person or a grant needed neither.
THEOREM AgentPolicySound == CallsSpec => []PolicySound
<1>1. AgentInv => PolicySound
  BY MintedOnes DEF AgentInv, PolicyInv, Sound, PolicySound, Cap
<1> QED BY <1>1, AgentInvariant, PTL

\* replace_policy revokes rows, swaps the evaluator and sweeps memory under three locks, with
\* mints, decisions and other administrators in between.  After the sweep no capability of
\* another policy can be executed, whenever in that time it was minted; what is evaluated
\* before the swap and minted after the sweep is the one exception, and it is marked late.
THEOREM AgentOldPolicyRevoked == CallsSpec => []OldPolicyRevoked
<1>1. AgentInv => OldPolicyRevoked
  BY MintedOnes DEF AgentInv, PolicyInv, OldPolicyRevoked, Cap
<1> QED BY <1>1, AgentInvariant, PTL

\* A request id is minted once in a life of the daemon, whoever sends it, on however many
\* connections and however often, though its fingerprint, its agent and its state are
\* recorded under three locks and a person may decide at any moment.
THEOREM AgentRetryMintsOnce == CallsSpec => []RetryMintsOnce
<1>1. AgentInv => RetryMintsOnce
  <2> SUFFICES ASSUME AgentInv, NEW m \in Minted, NEW n \in Minted, m # n, m[1] = n[1]
               PROVE  Cap(m).life # Cap(n).life
    BY DEF RetryMintsOnce
  <2>1. PICK r \in Requests : m[1] = r /\ n[1] = r /\ m[2] \in DOMAIN caps[r] /\ n[2] \in DOMAIN caps[r]
    BY MintedOnes
  <2>3. m[2] # n[2]
    BY <2>1, MintedOnes
  <2>2. LivesApart
    BY DEF AgentInv, IntakeInv
  <2> QED BY <2>1, <2>2, <2>3 DEF LivesApart, Cap
<1> QED BY <1>1, AgentInvariant, PTL

\* A call that returns "issued" has a capability for its own agent and target: neither the
\* memory of request ids nor a connection that replaces a lost one hands a call the answer
\* of another.
THEOREM AgentAnswersOwn == CallsSpec => []AnswersOwn
<1>1. AgentInv => AnswersOwn
  <2> SUFFICES ASSUME AgentInv, NEW q \in Calls, result[q] = "issued"
               PROVE  \E m \in Minted : Cap(m).agent = Caller[q] /\ Cap(m).target = Subject[q]
    BY DEF AnswersOwn
  <2>1. Issued(Caller[q], Subject[q])
    BY DEF AgentInv, AnsweredInv
  <2>2. PICK r \in Requests :
          \E i \in DOMAIN caps[r] : caps[r][i].agent = Caller[q] /\ caps[r][i].target = Subject[q]
    BY <2>1 DEF Issued
  <2> QED BY <2>2, MintedAll
<1> QED BY <1>1, AgentInvariant, PTL

\* Client, connection and handler agree on who is served: one connection to a client, up
\* while the client holds it, busy while its handler is at work, and a call under way on
\* one connection that is up at most.
THEOREM AgentCallsTyped == CallsSpec => []CallsTypeOK
<1>1. AgentInv => CallsTypeOK
  <2> SUFFICES ASSUME AgentInv PROVE CallsTypeOK
    OBVIOUS
  <2>p. /\ LinkTyped /\ \A b \in Agents : ClientHolds(b)
        /\ \A k \in Handlers : ConnHolds(k)
        /\ \A b, c \in Agents : client[b].conn # NULL /\ client[b].conn = client[c].conn => b = c
        /\ \A b \in Agents, k \in Handlers : client[b].conn = k => Held(b, k)
    BY LinkParts DEF AgentInv
  <2>n. NULL \notin Calls /\ NULL \notin Handlers
    BY CallsAssumption, AuthorityAssumption
  <2>1. ASSUME NEW q \in Calls
        PROVE  Cardinality({h \in Handlers : conn[h].up /\ conn[h].sent = q}) <= 1
    <3> DEFINE S == {h \in Handlers : conn[h].up /\ conn[h].sent = q}
    <3>1. ASSUME NEW h \in S PROVE client[Caller[q]].conn = h
      <4>1. PICK a \in Agents : client[a].conn = h
        BY <2>p DEF ConnHolds
      <4>2. client[a].call = q
        BY <2>p, <2>n, <4>1 DEF Held
      <4>3. Caller[q] = a
        BY <2>p, <2>n, <4>2 DEF ClientHolds
      <4> QED BY <4>1, <4>3
    <3>2. PICK x : x = client[Caller[q]].conn
      OBVIOUS
    <3>3. S = {} \/ S = {x}
      <4> HIDE DEF S
      <4> QED BY <3>1, <3>2
    <3>4. Cardinality({}) = 0 /\ Cardinality({x}) = 1
      BY FS_EmptySet, FS_Singleton
    <3> HIDE DEF S
    <3>5. Cardinality(S) <= 1
      BY <3>3, <3>4
    <3> QED BY <3>5 DEF S
  <2>2. ASSUME NEW a \in Agents, client[a].conn # NULL
        PROVE  /\ conn[client[a].conn].up
               /\ \A b \in Agents \ {a} : client[b].conn # client[a].conn
               /\ client[a].call = NULL => conn[client[a].conn].phase = "secure"
    BY <2>2, <2>p DEF ClientHolds
  <2>3. \A h \in Handlers : hand[h].pc # "free" => conn[h].phase = "busy"
    BY <2>p DEF ConnHolds
  <2> QED BY <2>1, <2>2, <2>3 DEF CallsTypeOK
<1> QED BY <1>1, AgentInvariant, PTL
=============================================================================
