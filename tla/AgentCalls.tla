----------------------------- MODULE AgentCalls ----------------------------
(***************************************************************************)
(* Agents that call the broker through the client library: connections,    *)
(* their handshake, lost connections and retried requests, on top of       *)
(* Authority.  A handler serves one connection, so it names it too.        *)
(***************************************************************************)
EXTENDS Authority

CONSTANTS
  Calls,        \* calls of execute and authenticate
  Caller,       \* call -> the agent that makes it
  Subject,      \* call -> the target it is about
  Named,        \* call -> its request id, or NULL: the broker picks one each time
  MaxDrops      \* bound on connections lost or renewed

ASSUME CallsAssumption ==
  /\ MaxDrops \in Nat
  /\ NULL \notin Calls
  /\ \A q \in Calls : /\ Caller[q] \in Agents /\ Subject[q] \in Targets
                      /\ Named[q] \in Requests \cup {NULL}

VARIABLES
  client,       \* agent -> its library: [call, conn, tries], tries counting the attempts
                \* made and the one a socket known to be dead will cost the next call
  conn,         \* handler -> its connection: [phase, up, sent]
  result,       \* call -> NULL, or what the library returned
  drops         \* connections lost or renewed so far

linkVars == <<client, conn, result, drops>>
callVars == <<authVars, linkVars>>

\* up: the client's end is open.  sent: the call whose request is under way to the broker.
Unused == [phase |-> "unused", up |-> FALSE, sent |-> NULL]
AtRest == [call |-> NULL, conn |-> NULL, tries |-> 0]

Waiting(a) == client[a].call # NULL
Return(a, st) ==
  /\ result' = [result EXCEPT ![client[a].call] = st]
  /\ client' = [client EXCEPT ![a].call = NULL, ![a].tries = 0]
\* The next call finds the dead socket, or is made through a new client.
Fails(a) ==
  /\ result' = [result EXCEPT ![client[a].call] = "failed"]
  /\ \E n \in {0, 1} : client' = [client EXCEPT ![a] = [AtRest EXCEPT !.tries = n]]
Hang(h) == [conn EXCEPT ![h].up = FALSE]

(***************************************************************************)
(* The library.  rpcTail lets one call through at a time.                  *)
(***************************************************************************)
Drop == drops < MaxDrops /\ drops' = drops + 1

BeginCall(q) ==
  /\ result[q] = NULL
  /\ client[Caller[q]].call = NULL
  /\ client' = [client EXCEPT ![Caller[q]].call = q, ![Caller[q]].tries = @ + 1]
  /\ UNCHANGED <<authVars, conn, result, drops>>

\* The session is nine minutes old: the connection is replaced before the call is sent.
BeginAged(q) ==
  /\ result[q] = NULL
  /\ client[Caller[q]].call = NULL /\ client[Caller[q]].conn # NULL /\ Drop
  /\ conn' = Hang(client[Caller[q]].conn)
  /\ client' = [client EXCEPT ![Caller[q]] = [call |-> q, conn |-> NULL, tries |-> 1]]
  /\ UNCHANGED <<authVars, result>>

\* The broker's side of the handshake: the nonce, the ephemeral key and the signature of
\* session.hello, and session.authenticate, answered in the clear before both ends switch
\* to the channel.
AnswerHello(h) ==
  /\ conn[h] = Unused /\ \A i \in Handlers : i < h => conn[i] # Unused
  /\ conn' = [conn EXCEPT ![h] = [phase |-> "greeted", up |-> TRUE, sent |-> NULL]]

AnswerAuthenticate(h) ==
  /\ conn[h].phase = "greeted"
  /\ conn' = [conn EXCEPT ![h].phase = "secure"]

Hello(a, h) ==
  /\ Waiting(a) /\ client[a].conn = NULL /\ client[a].tries <= 2
  /\ AnswerHello(h)
  /\ client' = [client EXCEPT ![a].conn = h]
  /\ UNCHANGED <<authVars, result, drops>>

Authenticate(a) ==
  /\ Waiting(a) /\ client[a].conn # NULL
  /\ AnswerAuthenticate(client[a].conn)
  /\ UNCHANGED <<authVars, client, result, drops>>

\* The daemon is not there, the agent is not enrolled or the process at the other end is
\* not the enrolled one.  A call that gets no connection is over.
ConnectRefused(a) ==
  /\ Waiting(a) /\ client[a].conn = NULL
  /\ Fails(a)
  /\ UNCHANGED <<authVars, conn, drops>>

\* One end does not accept the other's signature, or the connection is lost in between.
HandshakeFails(a) ==
  /\ Waiting(a) /\ client[a].conn # NULL
  /\ conn[client[a].conn].phase = "greeted"
  /\ conn' = Hang(client[a].conn)
  /\ Fails(a)
  /\ UNCHANGED <<authVars, drops>>

Send(a) ==
  /\ Waiting(a) /\ client[a].conn # NULL
  /\ conn[client[a].conn].phase = "secure" /\ conn[client[a].conn].sent = NULL
  /\ conn[client[a].conn].up
  /\ conn' = [conn EXCEPT ![client[a].conn].sent = client[a].call,
                          ![client[a].conn].phase = "busy"]
  /\ UNCHANGED <<authVars, client, result, drops>>

\* Seeded fault: the waiters of a socket that closes are not told.
LosesQuietly(a) ==
  /\ client[a].conn # NULL /\ conn[client[a].conn].up /\ Drop
  /\ conn' = Hang(client[a].conn)
  /\ UNCHANGED <<authVars, client, result>>

\* The socket of an established session fails.  A call that waits for its answer is sent
\* once more over a new connection; the second failure is the caller's.
SocketFails(a) ==
  /\ client[a].conn # NULL /\ conn[client[a].conn].up /\ Drop
  /\ conn[client[a].conn].phase # "greeted"
  /\ conn' = Hang(client[a].conn)
  /\ IF Waiting(a) /\ client[a].tries = 2 THEN Fails(a)
     ELSE /\ client' = [client EXCEPT ![a].conn = NULL, ![a].tries = @ + 1]
          /\ UNCHANGED result
  /\ UNCHANGED authVars

(***************************************************************************)
(* The connection's task: it takes a request, and the next one only when   *)
(* that is answered.  It does not notice that the client is gone before it *)
(* reads or writes.                                                        *)
(***************************************************************************)
Serve(h) ==
  /\ conn[h].sent # NULL /\ hand[h].pc = "free"
  /\ LET q == conn[h].sent IN
     \E r \in IF Named[q] # NULL THEN {Named[q]}
              ELSE {x \in Requests : prints[x] = NULL /\ caps[x] = <<>>
                                       /\ \A k \in Calls : Named[k] # x
                                       /\ \A i \in Handlers : hand[i].req # x} :
        Arrive(h, Caller[q], r, Subject[q])
  /\ conn' = [conn EXCEPT ![h].sent = NULL]
  /\ UNCHANGED <<client, result, drops>>

\* action.authenticate found no page, or the parameters are refused.
ServeRefused(h) ==
  /\ conn[h].sent # NULL /\ hand[h].pc = "free"
  /\ hand' = [hand EXCEPT ![h] = [Free EXCEPT !.pc = "answer", !.reply = "error"]]
  /\ conn' = [conn EXCEPT ![h].sent = NULL]
  /\ UNCHANGED <<policy, grants, memory, caps, admin, changes, life, client, result, drops>>

\* The answer is written and read; or the client is gone and the task ends.
Deliver(h) ==
  /\ hand[h].pc = "answer"
  /\ hand' = [hand EXCEPT ![h] = Free]
  /\ IF conn[h].up
     THEN \E a \in Agents :
            /\ client[a].conn = h
            /\ Return(a, IF hand[h].reply = "error" THEN "failed" ELSE hand[h].reply)
            /\ conn' = [conn EXCEPT ![h].phase = "secure"]
     ELSE /\ conn' = [conn EXCEPT ![h] = Unused]
          /\ UNCHANGED <<client, result>>
  /\ UNCHANGED <<policy, grants, memory, caps, admin, changes, life, drops>>

\* Nothing more comes from a client that is gone.
EndConnection(h) ==
  /\ conn[h].phase # "unused" /\ ~ conn[h].up /\ hand[h].pc = "free"
  /\ conn' = [conn EXCEPT ![h] = Unused]
  /\ UNCHANGED <<authVars, client, result, drops>>

\* A restart closes every connection; a handshake is not tried again.
Attempts(a) ==
  IF client[a].conn = NULL THEN client[a].tries
  ELSE IF conn[client[a].conn].phase = "greeted" THEN 3 ELSE client[a].tries + 1

DaemonRestarts ==
  /\ Restart
  /\ conn' = [h \in Handlers |-> Unused]
  /\ client' = [a \in Agents |-> [client[a] EXCEPT !.conn = NULL, !.tries = Attempts(a)]]
  /\ UNCHANGED <<result, drops>>

\* The restart has cut off the last attempt.
GivesUp(a) ==
  /\ Waiting(a) /\ client[a].tries > 2
  /\ Fails(a)
  /\ UNCHANGED <<authVars, conn, drops>>

HandlerStep(h) ==
  \/ CheckFingerprint(h)
  \/ RecordAgent(h)
  \/ RecordRequested(h)
  \/ EvaluatePolicy(h)
  \/ RequestFails(h)
  \/ MatchGrant(h)
  \/ Mint(h)
  \/ AskApproval(h)
  \/ RecordAwaiting(h)
  \/ AnswerWaiting(h)

AdminStep(d) ==
  \/ \E r \in Requests : CreateGrant(d, r)
  \/ \E g \in GrantIds : InsertGrant(d, g)
  \/ \E a \in Agents : ListGrants(d, a)
  \/ RevokeListed(d)
  \/ WithdrawCapabilities(d)
  \/ \E rules \in Policies : RevokeRows(d, rules)
  \/ SwapEvaluator(d)
  \/ SweepMemory(d)

LocalStep ==
  \/ \E r \in Requests : Resolve(r)
  \/ \E g \in GrantIds : ExpireGrant(g)
  \/ \E d \in Admins : AdminStep(d)

LibraryStep(a) ==
  \/ \E h \in Handlers : Hello(a, h)
  \/ Authenticate(a)
  \/ Send(a)
  \/ GivesUp(a)

ServerStep(h) ==
  \/ HandlerStep(h) /\ UNCHANGED linkVars
  \/ Serve(h)
  \/ ServeRefused(h)
  \/ Deliver(h)
  \/ EndConnection(h)

CallsInit ==
  /\ AuthorityInit
  /\ client = [a \in Agents |-> AtRest]
  /\ conn = [h \in Handlers |-> Unused]
  /\ result = [q \in Calls |-> NULL]
  /\ drops = 0

CallsNext ==
  \/ \E q \in Calls : BeginCall(q) \/ BeginAged(q)
  \/ \E a \in Agents : LibraryStep(a) \/ ConnectRefused(a) \/ HandshakeFails(a) \/ SocketFails(a)
  \/ \E h \in Handlers : ServerStep(h)
  \/ LocalStep /\ UNCHANGED linkVars
  \/ DaemonRestarts

CallsSpec ==
  /\ CallsInit /\ [][CallsNext]_callVars
  /\ \A a \in Agents : WF_callVars(LibraryStep(a))
  /\ \A h \in Handlers : WF_callVars(ServerStep(h))

(***************************************************************************)
(* Properties.                                                             *)
(***************************************************************************)
Minted == UNION {{<<r, i>> : i \in DOMAIN caps[r]} : r \in Requests}
Cap(m) == caps[m[1]][m[2]]

\* The client's, the connection's and the handler's view of a call fit together: a client
\* waits on a connection that is up and its own, a task that works has a connection, and a
\* call is on its way or answered on one connection that is up at most.
CallsTypeOK ==
  /\ \A a \in Agents : client[a].conn # NULL =>
       /\ conn[client[a].conn].up
       /\ \A b \in Agents \ {a} : client[b].conn # client[a].conn
       /\ client[a].call = NULL => conn[client[a].conn].phase = "secure"
  /\ \A h \in Handlers : hand[h].pc # "free" => conn[h].phase = "busy"
  /\ \A q \in Calls : Cardinality({h \in Handlers : conn[h].up /\ conn[h].sent = q}) <= 1

\* A request id buys one capability in a life of the daemon, however often the libraries
\* send it, on however many connections, and whoever else uses the same id
\* (handle_action_request's fingerprints, rpcWithReconnect).
RetryMintsOnce ==
  \A m, n \in Minted : m # n /\ m[1] = n[1] => Cap(m).life # Cap(n).life

\* A call that returns "issued" has a capability of its own agent for its own target: the
\* memory of request ids never answers one agent with the request of another.
AnswersOwn ==
  \A q \in Calls : result[q] = "issued" =>
    \E m \in Minted : Cap(m).agent = Caller[q] /\ Cap(m).target = Subject[q]

\* Every capability is one its policy permits, deny rules before allow rules wherever they
\* stand, and one that a policy alone has issued needed no person (PolicyEvaluator).
PolicySound ==
  \A m \in Minted :
    /\ Permits(Cap(m).rules, Cap(m).agent, Cap(m).target)
    /\ Cap(m).by = "policy" => PermitsAlone(Cap(m).rules, Cap(m).agent, Cap(m).target)

\* A standing grant that was revoked, superseded or expired when a request reached the
\* broker does not authorize it: the list-then-update revocation and the early reading of
\* the clock open no gap for later requests.
RevokedNeverUsed ==
  \A m \in Minted : Cap(m).grant \notin Cap(m).dead

\* An agent has one live grant for a target at most, so revoking the grant that is shown
\* revokes the authority (insert_standing_grant_with_audit supersedes).
OneLiveGrant ==
  \A g, o \in GrantIds :
    /\ g # o /\ grants[g] # NULL /\ grants[o] # NULL
    /\ grants[g].agent = grants[o].agent /\ grants[g].target = grants[o].target
    => ~ (grants[g].live /\ grants[o].live)

\* A capability that can still be executed was issued under the policy in force, once the
\* replacement of its own policy is over.  What was minted between the revocation of the
\* rows and the sweep, under the old evaluator or the new, does not escape; only a request
\* evaluated before the replacement and minted after its sweep does (replace_policy).
OldPolicyRevoked ==
  \A m \in Minted : Cap(m).live /\ Cap(m).rules # policy => Cap(m).late \/ Sweeping

\* A call returns: lost connections, restarts and a person who does not decide never leave
\* the program that called the library waiting for ever.
CallsSettle ==
  \A q \in Calls : client[Caller[q]].call = q ~> result[q] # NULL
=============================================================================
