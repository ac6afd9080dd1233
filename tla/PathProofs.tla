---------------------------- MODULE PathProofs -----------------------------
(***************************************************************************)
(* Proofs about the managed browser, its extension and the broker for any  *)
(* sets of ports, tabs, executions and runs: the types, that a secret is   *)
(* only in the document it was granted for, that a connected extension     *)
(* goes on polling, and that on an undisturbed connection a secret handed  *)
(* out under a window is only in the page while the window is closed.      *)
(*                                                                         *)
(* The invariant has two halves.  PathInv holds always: every run of       *)
(* pollExecution that has an offer knows the capability the offer was      *)
(* about, and so does every request on its way.  CoverInv holds while the  *)
(* first connection lasts: one run at most is under way, a request         *)
(* somebody waits for is the last of its queue, an execution being         *)
(* consumed is at the head of it, and a run that holds a secret has its    *)
(* tab in the window.  A step is taken apart into the broker's part of it  *)
(* (WindowStep) and the extension's (ExtStep).                             *)
(***************************************************************************)
EXTENDS BrowserPath, TLAPS

(***************************************************************************)
(* Types.                                                                  *)
(***************************************************************************)
\* A run of pollExecution, and a request on its way to the broker.
Run == [pc : PCs, exec : Execs \cup {NULL}, tab : Tabs \cup {NULL}, doc : Nat \cup {NULL}]
Msg == [kind : {"next", "consume", "result"}, loop : Loops \cup {NULL}, exec : Execs \cup {NULL},
        doc : Nat \cup {NULL}, status : {"completed", "failed", NULL}]

\* A run that has an offer knows the capability it is about.
OfferPcs == {"offered", "prepared", "consuming", "granted", "filling", "reporting"}

\* The capability exists, for that tab and that document.
Known(x, t, d) == /\ x \in Execs /\ t \in Tabs /\ d \in Nat
                  /\ exec[x] # NULL /\ exec[x].tab = t /\ exec[x].doc = d

\* A run with an offer knows the capability; one with the secret knows of its execution.
RunHolds(r) ==
  /\ r.pc \in OfferPcs => Known(r.exec, r.tab, r.doc)
  /\ r.pc \in {"granted", "filling"} => InMap(r.exec)

\* A consume and a result are about a capability that exists.
MsgHolds(m) == m.kind \in {"consume", "result"} => m.exec \in Execs /\ exec[m.exec] # NULL

\* What is always true.
PathInv ==
  /\ PathTypeOK
  /\ wire \in [Ports -> Seq(Msg)]
  /\ \A l \in Loops : RunHolds(loops[l])
  /\ \A p \in Ports : \A i \in DOMAIN wire[p] : MsgHolds(wire[p][i])
  /\ nativePort = NULL => sessionId = NULL
  /\ nativePort # NULL => port[nativePort] # "new"
  /\ ticker.phase # "idle" => lapsed

(***************************************************************************)
(* The first connection, as long as nothing has come between.              *)
(***************************************************************************)
\* The poll timer is passed on from run to run: it is set, or one run is under way.
OneRun ==
  /\ timer => sessionId # NULL
  /\ \A l \in Loops : loops[l].pc # "idle" => ~ timer /\ sessionId # NULL
  /\ \A l, k \in Loops : loops[l].pc # "idle" /\ loops[k].pc # "idle" => l = k

\* A request somebody waits for is the last of its queue, and a run that waits for a page
\* has left the queue empty.
PagePcs == {"offered", "prepared", "granted", "filling"}
InTurn ==
  /\ \A p \in Ports : p # nativePort => wire[p] = << >>
  /\ \A p \in Ports : \A i \in DOMAIN wire[p] :
       wire[p][i].loop # NULL => i = Len(wire[p]) /\ loops[wire[p][i].loop].pc \in {"polling", "consuming", "reporting"}
  /\ \A l \in Loops : loops[l].pc \in PagePcs => \A p \in Ports : wire[p] = << >>

\* A consume that is being served is at the head of its queue.
Served == \A x \in Execs : exec[x] # NULL /\ exec[x].state \in {"consumed", "retrieving"} => Listening(x)

\* A guarded execution that is retrieving, and a run that holds its secret, have the tab in the window.
Covered ==
  /\ \A x \in Execs : exec[x] # NULL /\ exec[x].state = "retrieving" /\ exec[x].guarded => exec[x].tab \in windows
  /\ \A l \in Loops : loops[l].pc \in {"granted", "filling"} /\ exec[loops[l].exec].guarded =>
       loops[l].tab \in windows

\* A secret is in a page only while a run waits for that page.
FilledByRun ==
  \A f \in filled : \E l \in Loops : loops[l].pc = "filling" /\ loops[l].exec = f.exec /\ loops[l].tab = f.tab

\* What is true while the first connection lasts.
CoverInv == Undisturbed => OneRun /\ InTurn /\ Served /\ Covered /\ FilledByRun

(***************************************************************************)
(* The broker's side of a step.                                            *)
(***************************************************************************)
\* A capability keeps its session, its tab and its document, and an execution stays in the map.
ExecOnward ==
  \A x \in Execs : exec[x] # NULL =>
    /\ exec'[x] # NULL /\ exec'[x].sess = exec[x].sess /\ exec'[x].tab = exec[x].tab
    /\ exec'[x].doc = exec[x].doc
    /\ InMap(x) => InMap(x)'

\* The steps of the broker, apart from what the extension does in them.
WindowStep ==
  \/ UNCHANGED windowVars
  \/ LaunchSpawn \/ LaunchInsert \/ LaunchFails \/ CloseRemove \/ Shutdown
  \/ \E p \in Ports : RegisterSession(p) \/ Heartbeat(p)
  \/ \E S \in SUBSET Ports : MarkStale(S)
  \/ ExpireWindows \/ RevokeOffers
  \/ \E x \in Execs, p \in Ports, t \in Tabs, d \in Nat : Offer(x, p, t, d)
  \/ \E x \in Execs, p \in Ports : NextOffer(p, x)
  \/ \E x \in Execs : /\ exec[x] # NULL
                      /\ \/ \E p \in Ports : \E d : AcceptConsume(x, p, d)
                         \/ EnterWindow(x) \/ RetrieveSucceeds(x) \/ RetrieveFails(x)
                         \/ ResultRecorded(x) \/ (\E st : EvidenceLost(x, st))

\* What is at the head of a queue that is served.
LEMMA HeadOfWire ==
  ASSUME wire \in [Ports -> Seq(Msg)], NEW p \in Ports, wire[p] # << >>
  PROVE  /\ 1 \in DOMAIN wire[p] /\ Head(wire[p]) = wire[p][1] /\ Head(wire[p]) \in Msg
<1>1. PICK s \in Seq(Msg) : s = wire[p] /\ s # << >>
  OBVIOUS
<1>2. Len(s) \in Nat /\ Len(s) # 0 /\ DOMAIN s = 1 .. Len(s) /\ Head(s) = s[1] /\ s[1] \in Msg
  BY <1>1
<1> QED BY <1>1, <1>2

\* Every step is one of these for the broker.
LEMMA PathWindow ==
  ASSUME PathInv, [PathNext]_pathVars
  PROVE  WindowStep
<1>1. CASE UNCHANGED pathVars
  BY <1>1 DEF pathVars, WindowStep
<1>2. CASE UNCHANGED windowVars
  BY <1>2 DEF WindowStep
<1>3. CASE BrowserStep \/ BrowserQuits \/ TickerStep
  BY <1>3 DEF BrowserStep, BrowserQuits, TickerStep, WindowStep
<1>4. ASSUME NEW p \in Ports, ServeRegister(p) \/ ServeHeartbeat(p) PROVE WindowStep
  BY <1>4 DEF ServeRegister, ServeHeartbeat, WindowStep
<1>h. ASSUME NEW p \in Ports, NEW k \in {"next", "consume", "result"}, Serving(p, k)
      PROVE  Head(wire[p]) \in Msg /\ MsgHolds(Head(wire[p])) /\ Head(wire[p]).kind = k
  <2>1. wire \in [Ports -> Seq(Msg)] /\ wire[p] # << >> /\ Head(wire[p]).kind = k
    BY <1>h DEF PathInv, Serving
  <2>2. 1 \in DOMAIN wire[p] /\ Head(wire[p]) = wire[p][1] /\ Head(wire[p]) \in Msg
    BY <2>1, HeadOfWire
  <2> QED BY <2>1, <2>2 DEF PathInv
<1>5. ASSUME NEW p \in Ports, ServeStep(p) PROVE WindowStep
  <2>1. CASE ServeNext(p)
    BY <2>1 DEF ServeNext, WindowStep
  <2>2. CASE ServeNextEmpty(p) \/ ServeConsumeRejected(p)
    BY <1>2, <2>2 DEF ServeNextEmpty, ServeConsumeRejected
  <2>3. CASE ServeConsume(p)
    <3>1. PICK x \in Execs : x = Head(wire[p]).exec /\ exec[x] # NULL
      <4>1. Serving(p, "consume")
        BY <2>3 DEF ServeConsume
      <4> QED BY <4>1, <1>h DEF MsgHolds
    <3>2. PICK d : AcceptConsume(x, p, d)
      BY <2>3, <3>1 DEF ServeConsume
    <3> QED BY <3>1, <3>2 DEF WindowStep
  <2>4. CASE ServeResult(p)
    <3>1. PICK x \in Execs : x = Head(wire[p]).exec /\ exec[x] # NULL
      <4>1. Serving(p, "result")
        BY <2>4 DEF ServeResult
      <4> QED BY <4>1, <1>h DEF MsgHolds
    <3>2. ResultRecorded(x) \/ (\E st : EvidenceLost(x, st)) \/ UNCHANGED windowVars
      BY <2>4, <3>1 DEF ServeResult
    <3> QED BY <3>1, <3>2 DEF WindowStep
  <2> QED BY <1>5, <2>1, <2>2, <2>3, <2>4 DEF ServeStep
<1>6. ASSUME NEW x \in Execs, NEW p \in Ports, NEW t \in Tabs, MintOffer(x, p, t) PROVE WindowStep
  <2>1. PICK d \in 1 .. doc[t] : Offer(x, p, t, d)
    BY <1>6 DEF MintOffer
  <2>2. d \in Nat
    BY <2>1
  <2> QED BY <2>1, <2>2 DEF WindowStep
<1>7. ASSUME NEW x \in Execs, ConsumeStep(x) PROVE WindowStep
  <2>1. exec[x] # NULL /\ (EnterWindow(x) \/ RetrieveSucceeds(x) \/ RetrieveFails(x))
    BY <1>7 DEF ConsumeStep, ConsumeGranted, ConsumeFailed, EnterWindow, RetrieveSucceeds, RetrieveFails
  <2> QED BY <2>1 DEF WindowStep
<1>8. CASE PageStep
  BY <1>2, <1>8 DEF PageStep
<1> QED BY <1>1, <1>2, <1>3, <1>4, <1>5, <1>6, <1>7, <1>8 DEF PathNext, RunStep, PageNavigates

\* One capability goes on to another state.
LEMMA ExecMoved ==
  ASSUME WindowTypeOK, NEW x \in Execs, exec[x] # NULL, NEW st \in ExecStates, NEW g \in BOOLEAN,
         exec' = [exec EXCEPT ![x] = [exec[x] EXCEPT !.state = st, !.guarded = g]],
         InMap(x) => st \notin {"offered", "taken", "revoked"}
  PROVE  /\ exec' \in [Execs -> ActiveExecution \cup {NULL}] /\ ExecOnward
         /\ exec'[x].state = st /\ exec'[x].guarded = g
         /\ \A y \in Execs : y # x => exec'[y] = exec[y]
<1> DEFINE u == [exec[x] EXCEPT !.state = st, !.guarded = g]
<1>1. exec[x] \in ActiveExecution
  BY DEF WindowTypeOK
<1>2. /\ u \in ActiveExecution /\ u.state = st /\ u.guarded = g /\ u.sess = exec[x].sess
      /\ u.tab = exec[x].tab /\ u.doc = exec[x].doc
  BY <1>1 DEF ActiveExecution
<1>3. exec' = [exec EXCEPT ![x] = u]
  OBVIOUS
<1> HIDE DEF u
<1>4. /\ exec' \in [Execs -> ActiveExecution \cup {NULL}] /\ exec'[x] = u
      /\ \A y \in Execs : y # x => exec'[y] = exec[y]
  BY <1>2, <1>3 DEF WindowTypeOK
<1>5. u # NULL
  BY <1>2, ExecutionAssumption
<1>6. ExecOnward
  BY <1>2, <1>4, <1>5 DEF ExecOnward, InMap
<1> QED BY <1>2, <1>4, <1>6

\* SetExec is such a move.
LEMMA SetExecMoves ==
  ASSUME WindowTypeOK, NEW x \in Execs, exec[x] # NULL, NEW st \in ExecStates, SetExec(x, st),
         InMap(x) => st \notin {"offered", "taken", "revoked"}
  PROVE  /\ exec' \in [Execs -> ActiveExecution \cup {NULL}] /\ ExecOnward
         /\ exec'[x].state = st /\ exec'[x].guarded = exec[x].guarded
         /\ \A y \in Execs : y # x => exec'[y] = exec[y]
<1>1. exec[x] \in ActiveExecution /\ exec[x].guarded \in BOOLEAN
  BY DEF WindowTypeOK, ActiveExecution
<1>2. [exec[x] EXCEPT !.state = st] = [exec[x] EXCEPT !.state = st, !.guarded = exec[x].guarded]
  BY <1>1 DEF ActiveExecution
<1>3. exec' = [exec EXCEPT ![x] = [exec[x] EXCEPT !.state = st, !.guarded = exec[x].guarded]]
  BY <1>2 DEF SetExec
<1> QED BY <1>1, <1>3, ExecMoved

\* The broker's steps keep its types and its capabilities.
LEMMA WindowTyped ==
  ASSUME PathInv, WindowStep
  PROVE  WindowTypeOK' /\ ExecOnward /\ (ticker'.phase # "idle" => lapsed') /\ (lapsed => lapsed')
<1>t. WindowTypeOK /\ (ticker.phase # "idle" => lapsed)
  BY DEF PathInv, PathTypeOK
<1>x. ASSUME UNCHANGED exec PROVE exec' \in [Execs -> ActiveExecution \cup {NULL}] /\ ExecOnward
  BY <1>x, <1>t DEF WindowTypeOK, ExecOnward, InMap
<1>s. ASSUME NEW T \in SUBSET Tabs, Exit(T) PROVE windows' \subseteq Tabs
  BY <1>s, <1>t DEF Exit, WindowTypeOK
<1>1. CASE UNCHANGED windowVars
  BY <1>1, <1>t, <1>x DEF windowVars, WindowTypeOK
<1>2. CASE LaunchSpawn \/ LaunchInsert \/ LaunchFails \/ CloseRemove
  BY <1>2, <1>t, <1>x DEF LaunchSpawn, LaunchInsert, LaunchFails, CloseRemove, WindowTypeOK, BrowserStates
<1>3. CASE Shutdown
  BY <1>3, <1>t, <1>x DEF Shutdown, WindowTypeOK, BrowserStates
<1>4. ASSUME NEW p \in Ports, RegisterSession(p) \/ Heartbeat(p)
      PROVE  WindowTypeOK' /\ ExecOnward /\ (ticker'.phase # "idle" => lapsed') /\ (lapsed => lapsed')
  BY <1>4, <1>t, <1>x DEF RegisterSession, Heartbeat, WindowTypeOK
<1>5. ASSUME NEW S \in SUBSET Ports, MarkStale(S)
      PROVE  WindowTypeOK' /\ ExecOnward /\ (ticker'.phase # "idle" => lapsed') /\ (lapsed => lapsed')
  BY <1>5, <1>t, <1>x DEF MarkStale, WindowTypeOK
<1>6. CASE ExpireWindows
  <2> DEFINE T == {exec[x].tab : x \in {y \in Execs : InMap(y) /\ exec[y].sess \in ticker.found}}
  <2>1. T \in SUBSET Tabs
    BY <1>t DEF WindowTypeOK, InMap, ActiveExecution
  <2>2. Exit(T)
    BY <1>6 DEF ExpireWindows
  <2> HIDE DEF T
  <2>3. windows' \subseteq Tabs
    BY <2>1, <2>2, <1>s
  <2>4. ticker \in [phase : {"idle", "windows", "offers"}, found : SUBSET Ports] /\ ticker.phase = "windows"
        /\ ticker' = [ticker EXCEPT !.phase = "offers"] /\ UNCHANGED <<browser, sess, exec, lapsed>>
    BY <1>6, <1>t DEF ExpireWindows, WindowTypeOK
  <2>5. ticker' \in [phase : {"idle", "windows", "offers"}, found : SUBSET Ports]
    BY <2>4
  <2> QED BY <1>t, <1>x, <2>3, <2>4, <2>5 DEF WindowTypeOK
<1>7. CASE RevokeOffers
  <2>1. \A x \in Execs : exec'[x] = exec[x] \/ /\ exec[x] # NULL /\ exec[x].state \in {"offered", "taken"}
                                               /\ exec'[x] = [exec[x] EXCEPT !.state = "revoked"]
    BY <1>7 DEF RevokeOffers
  <2>2. ASSUME NEW x \in Execs
        PROVE  /\ exec'[x] \in ActiveExecution \cup {NULL}
               /\ exec[x] # NULL => /\ exec'[x] # NULL /\ exec'[x].sess = exec[x].sess
                                    /\ exec'[x].tab = exec[x].tab /\ exec'[x].doc = exec[x].doc
                                    /\ InMap(x) => InMap(x)'
    <3>1. CASE exec'[x] = exec[x]
      BY <1>t, <3>1 DEF WindowTypeOK, InMap
    <3>2. CASE /\ exec[x] # NULL /\ exec[x].state \in {"offered", "taken"}
               /\ exec'[x] = [exec[x] EXCEPT !.state = "revoked"]
      <4>1. exec[x] \in ActiveExecution
        BY <1>t, <3>2 DEF WindowTypeOK
      <4>2. exec'[x] \in ActiveExecution /\ exec'[x].sess = exec[x].sess
            /\ exec'[x].tab = exec[x].tab /\ exec'[x].doc = exec[x].doc
        BY <3>2, <4>1 DEF ActiveExecution, ExecStates
      <4> QED BY <3>2, <4>2, ExecutionAssumption DEF InMap
    <3> QED BY <2>1, <3>1, <3>2
  <2>3. exec' \in [Execs -> ActiveExecution \cup {NULL}]
    <3>1. exec' = [x \in Execs |-> exec'[x]]
      BY <1>7 DEF RevokeOffers
    <3> QED BY <2>2, <3>1
  <2>4. ExecOnward
    BY <2>2 DEF ExecOnward
  <2> QED BY <1>7, <1>t, <2>3, <2>4 DEF RevokeOffers, WindowTypeOK
<1>8. ASSUME NEW x \in Execs, NEW p \in Ports, NEW t \in Tabs, NEW d \in Nat, Offer(x, p, t, d)
      PROVE  WindowTypeOK' /\ ExecOnward /\ (ticker'.phase # "idle" => lapsed') /\ (lapsed => lapsed')
  <2> DEFINE u == [sess |-> p, tab |-> t, doc |-> d, state |-> "offered", guarded |-> FALSE]
  <2>1. u \in ActiveExecution
    BY DEF ActiveExecution, ExecStates
  <2>2. exec' = [exec EXCEPT ![x] = u] /\ exec[x] = NULL
    BY <1>8 DEF Offer
  <2> HIDE DEF u
  <2>3. exec' \in [Execs -> ActiveExecution \cup {NULL}] /\ \A y \in Execs : y # x => exec'[y] = exec[y]
    BY <1>t, <2>1, <2>2 DEF WindowTypeOK
  <2>4. ExecOnward
    BY <2>2, <2>3 DEF ExecOnward, InMap
  <2> QED BY <1>8, <1>t, <2>3, <2>4 DEF Offer, WindowTypeOK
<1>9. ASSUME NEW x \in Execs, NEW p \in Ports, NextOffer(p, x)
      PROVE  WindowTypeOK' /\ ExecOnward /\ (ticker'.phase # "idle" => lapsed') /\ (lapsed => lapsed')
  <2>1. /\ exec[x] # NULL /\ SetExec(x, "taken") /\ ~ InMap(x) /\ "taken" \in ExecStates
        /\ UNCHANGED <<browser, windows, sess, ticker, lapsed>>
    BY <1>9 DEF NextOffer, InMap, ExecStates
  <2>2. exec' \in [Execs -> ActiveExecution \cup {NULL}] /\ ExecOnward
    BY <1>t, <2>1, SetExecMoves
  <2> QED BY <1>t, <2>1, <2>2 DEF WindowTypeOK
<1>10. ASSUME NEW x \in Execs, exec[x] # NULL,
              \/ \E p \in Ports : \E d : AcceptConsume(x, p, d)
              \/ EnterWindow(x) \/ RetrieveSucceeds(x) \/ RetrieveFails(x)
              \/ ResultRecorded(x) \/ (\E st : EvidenceLost(x, st))
       PROVE  WindowTypeOK' /\ ExecOnward /\ (ticker'.phase # "idle" => lapsed') /\ (lapsed => lapsed')
  <2>1. UNCHANGED <<browser, sess, ticker, lapsed>>
    BY <1>10 DEF AcceptConsume, EnterWindow, RetrieveSucceeds, RetrieveFails, ResultRecorded, EvidenceLost
  <2>t. exec[x].tab \in Tabs
    BY <1>10, <1>t DEF WindowTypeOK, ActiveExecution
  <2>2. windows' \subseteq Tabs
    <3>1. windows \subseteq Tabs
      BY <1>t DEF WindowTypeOK
    <3> QED BY <1>10, <1>s, <2>t, <3>1 DEF AcceptConsume, EnterWindow, RetrieveSucceeds, RetrieveFails,
                                           ResultRecorded, EvidenceLost
  <2>3. exec' \in [Execs -> ActiveExecution \cup {NULL}] /\ ExecOnward
    <3>1. CASE EnterWindow(x)
      <4>1. Managed \in BOOLEAN
        BY DEF Managed
      <4>2. exec' = [exec EXCEPT ![x] = [exec[x] EXCEPT !.state = "retrieving", !.guarded = Managed]]
        BY <3>1 DEF EnterWindow
      <4> QED BY <1>10, <1>t, <4>1, <4>2, ExecMoved DEF ExecStates
    <3>2. CASE ~ EnterWindow(x)
      <4>1. PICK st \in {"consumed", "running", "spoiled", "done"} : SetExec(x, st)
        BY <1>10, <3>2 DEF AcceptConsume, RetrieveSucceeds, RetrieveFails, ResultRecorded, EvidenceLost
      <4>2. st \in ExecStates /\ st \notin {"offered", "taken", "revoked"}
        BY DEF ExecStates
      <4> QED BY <1>10, <1>t, <4>1, <4>2, SetExecMoves
    <3> QED BY <3>1, <3>2
  <2> QED BY <1>t, <2>1, <2>2, <2>3 DEF WindowTypeOK
<1> QED BY <1>1, <1>2, <1>3, <1>4, <1>5, <1>6, <1>7, <1>8, <1>9, <1>10 DEF WindowStep

(***************************************************************************)
(* The queues.                                                             *)
(***************************************************************************)
\* One more request at the end of a queue.
Pushed(p, m) ==
  /\ wire' \in [Ports -> Seq(Msg)]
  /\ \A q \in Ports : q # p => wire'[q] = wire[q]
  /\ Len(wire[p]) \in Nat /\ DOMAIN wire[p] = 1 .. Len(wire[p])
  /\ Len(wire'[p]) = Len(wire[p]) + 1 /\ DOMAIN wire'[p] = 1 .. (Len(wire[p]) + 1)
  /\ wire'[p][Len(wire[p]) + 1] = m
  /\ \A i \in 1 .. Len(wire[p]) : wire'[p][i] = wire[p][i]

\* The head of a queue is answered.
Popped(p) ==
  /\ wire' \in [Ports -> Seq(Msg)]
  /\ \A q \in Ports : q # p => wire'[q] = wire[q]
  /\ Len(wire[p]) \in Nat /\ DOMAIN wire[p] = 1 .. Len(wire[p]) /\ Len(wire[p]) # 0
  /\ Len(wire'[p]) = Len(wire[p]) - 1 /\ DOMAIN wire'[p] = 1 .. (Len(wire[p]) - 1)
  /\ \A i \in 1 .. (Len(wire[p]) - 1) : wire'[p][i] = wire[p][i + 1]

\* Nobody waits any more for what the runs in L have asked.
Relabelled(L) ==
  /\ wire' \in [Ports -> Seq(Msg)]
  /\ \A p \in Ports : /\ DOMAIN wire'[p] = DOMAIN wire[p] /\ Len(wire'[p]) = Len(wire[p])
                      /\ \A i \in DOMAIN wire[p] :
                           /\ wire'[p][i].kind = wire[p][i].kind /\ wire'[p][i].exec = wire[p][i].exec
                           /\ \/ wire[p][i].loop \in L /\ wire'[p][i].loop = NULL
                              \/ wire[p][i].loop \notin L /\ wire'[p][i].loop = wire[p][i].loop

\* Append adds one request to a queue.
LEMMA PushedWire ==
  ASSUME wire \in [Ports -> Seq(Msg)], NEW p \in Ports, NEW m \in Msg,
         wire' = [wire EXCEPT ![p] = Append(@, m)]
  PROVE  Pushed(p, m)
<1>1. PICK s \in Seq(Msg) : s = wire[p]
  OBVIOUS
<1>2. /\ Append(s, m) \in Seq(Msg) /\ DOMAIN s = 1 .. Len(s) /\ Len(s) \in Nat
      /\ Len(Append(s, m)) = Len(s) + 1
      /\ DOMAIN Append(s, m) = 1 .. (Len(s) + 1) /\ Append(s, m)[Len(s) + 1] = m
      /\ \A i \in 1 .. Len(s) : Append(s, m)[i] = s[i]
  OBVIOUS
<1>3. wire'[p] = Append(s, m) /\ wire' \in [Ports -> Seq(Msg)] /\ \A q \in Ports : q # p => wire'[q] = wire[q]
  BY <1>1, <1>2
<1> QED BY <1>1, <1>2, <1>3 DEF Pushed

\* Tail takes one request from a queue.
LEMMA PoppedWire ==
  ASSUME wire \in [Ports -> Seq(Msg)], NEW p \in Ports, wire[p] # << >>,
         wire' = [wire EXCEPT ![p] = Tail(@)]
  PROVE  Popped(p)
<1>1. PICK s \in Seq(Msg) : s = wire[p] /\ s # << >>
  OBVIOUS
<1>2. /\ Tail(s) \in Seq(Msg) /\ DOMAIN s = 1 .. Len(s) /\ Len(s) \in Nat /\ Len(s) # 0
      /\ Len(Tail(s)) = Len(s) - 1
      /\ DOMAIN Tail(s) = 1 .. (Len(s) - 1)
      /\ \A i \in 1 .. (Len(s) - 1) : Tail(s)[i] = s[i + 1]
  BY <1>1
<1>3. wire'[p] = Tail(s) /\ wire' \in [Ports -> Seq(Msg)] /\ \A q \in Ports : q # p => wire'[q] = wire[q]
  BY <1>1, <1>2
<1> QED BY <1>1, <1>2, <1>3 DEF Popped

\* Abandoning keeps a queue as long as it was, and every request about what it was about.
LEMMA AbandonedQueue ==
  ASSUME NEW s \in Seq(Msg), NEW L
  PROVE  LET z == [i \in DOMAIN s |-> IF s[i].loop \in L THEN [s[i] EXCEPT !.loop = NULL] ELSE s[i]]
         IN  /\ z \in Seq(Msg) /\ DOMAIN z = DOMAIN s /\ Len(z) = Len(s)
             /\ \A i \in DOMAIN s :
                  /\ z[i].kind = s[i].kind /\ z[i].exec = s[i].exec
                  /\ \/ s[i].loop \in L /\ z[i].loop = NULL
                     \/ s[i].loop \notin L /\ z[i].loop = s[i].loop
<1> DEFINE new(i) == IF s[i].loop \in L THEN [s[i] EXCEPT !.loop = NULL] ELSE s[i]
           z == [i \in DOMAIN s |-> new(i)]
<1>1. DOMAIN s = 1 .. Len(s) /\ Len(s) \in Nat /\ \A i \in DOMAIN s : s[i] \in Msg
  OBVIOUS
<1>2. \A i \in DOMAIN s : /\ new(i) \in Msg /\ new(i).kind = s[i].kind /\ new(i).exec = s[i].exec
                          /\ \/ s[i].loop \in L /\ new(i).loop = NULL
                             \/ s[i].loop \notin L /\ new(i).loop = s[i].loop
  <2> SUFFICES ASSUME NEW i \in DOMAIN s
               PROVE  /\ new(i) \in Msg /\ new(i).kind = s[i].kind /\ new(i).exec = s[i].exec
                      /\ \/ s[i].loop \in L /\ new(i).loop = NULL
                         \/ s[i].loop \notin L /\ new(i).loop = s[i].loop
    OBVIOUS
  <2>1. s[i] \in Msg
    BY <1>1
  <2> QED BY <2>1 DEF Msg
<1> HIDE DEF new
<1>3. z = [i \in 1 .. Len(s) |-> new(i)] /\ \A i \in 1 .. Len(s) : new(i) \in Msg
  BY <1>1, <1>2
<1>4. z \in Seq(Msg) /\ Len(z) = Len(s) /\ DOMAIN z = DOMAIN s
  BY <1>1, <1>3
<1>5. \A i \in DOMAIN s : z[i] = new(i)
  OBVIOUS
<1> HIDE DEF z
<1>6. /\ z \in Seq(Msg) /\ DOMAIN z = DOMAIN s /\ Len(z) = Len(s)
      /\ \A i \in DOMAIN s :
           /\ z[i].kind = s[i].kind /\ z[i].exec = s[i].exec
           /\ \/ s[i].loop \in L /\ z[i].loop = NULL
              \/ s[i].loop \notin L /\ z[i].loop = s[i].loop
  BY <1>2, <1>4, <1>5
<1> QED BY <1>6 DEF z, new

\* Abandon relabels the requests of the runs it is given, and no others.
LEMMA RelabelledWire ==
  ASSUME wire \in [Ports -> Seq(Msg)], NEW L, wire' = Abandon(wire, L)
  PROVE  Relabelled(L)
<1> DEFINE cut(s) == [i \in DOMAIN s |-> IF s[i].loop \in L THEN [s[i] EXCEPT !.loop = NULL] ELSE s[i]]
<1>1. wire' = [p \in Ports |-> cut(wire[p])]
  BY DEF Abandon
<1>2. \A s \in Seq(Msg) :
        /\ cut(s) \in Seq(Msg) /\ DOMAIN cut(s) = DOMAIN s /\ Len(cut(s)) = Len(s)
        /\ \A i \in DOMAIN s :
             /\ cut(s)[i].kind = s[i].kind /\ cut(s)[i].exec = s[i].exec
             /\ \/ s[i].loop \in L /\ cut(s)[i].loop = NULL
                \/ s[i].loop \notin L /\ cut(s)[i].loop = s[i].loop
  BY AbandonedQueue
<1> HIDE DEF cut
<1>3. \A p \in Ports : wire'[p] = cut(wire[p]) /\ wire[p] \in Seq(Msg)
  BY <1>1
<1>4. wire' \in [Ports -> Seq(Msg)]
  BY <1>1, <1>2, <1>3
<1> QED BY <1>2, <1>3, <1>4 DEF Relabelled

(***************************************************************************)
(* The runs.                                                               *)
(***************************************************************************)
\* A run that is not under way is a run.
LEMMA NoLoopRun == NoLoop \in Run /\ NoLoop.pc = "idle"
BY DEF NoLoop, Run, PCs

\* One run's record is replaced by u.
RunTo(l, u) == loops' = [loops EXCEPT ![l] = u]

\* Replacing the record of a run leaves the others.
LEMMA RunReplaced ==
  ASSUME loops \in [Loops -> Run], NEW l \in Loops, NEW u \in Run, RunTo(l, u)
  PROVE  /\ loops' \in [Loops -> Run] /\ loops'[l] = u
         /\ \A k \in Loops : k # l => loops'[k] = loops[k]
BY DEF RunTo

\* A run goes on to another step.
LEMMA RunSteps ==
  ASSUME loops \in [Loops -> Run], NEW l \in Loops, NEW c \in PCs, loops' = [loops EXCEPT ![l].pc = c]
  PROVE  /\ loops' \in [Loops -> Run]
         /\ \A k \in Loops : k # l => loops'[k] = loops[k]
         /\ loops'[l].pc = c /\ loops'[l].exec = loops[l].exec /\ loops'[l].tab = loops[l].tab
         /\ loops'[l].doc = loops[l].doc
<1> DEFINE u == [loops[l] EXCEPT !.pc = c]
<1>1. u \in Run /\ u.pc = c /\ u.exec = loops[l].exec /\ u.tab = loops[l].tab /\ u.doc = loops[l].doc
  BY DEF Run
<1>2. loops' = [loops EXCEPT ![l] = u]
  OBVIOUS
<1> HIDE DEF u
<1> QED BY <1>1, <1>2

\* Runs come to their end.
LEMMA RunsEnd ==
  ASSUME loops \in [Loops -> Run], NEW L, EndRuns(L)
  PROVE  /\ loops' \in [Loops -> Run]
         /\ \A k \in Loops : \/ k \in L /\ loops'[k].pc = "idle"
                             \/ k \notin L /\ loops'[k] = loops[k]
<1>1. NoLoop \in Run /\ NoLoop.pc = "idle"
  BY NoLoopRun
<1> QED BY <1>1 DEF EndRuns

\* A run comes to its end and sets the timer.
LEMMA RunEnds ==
  ASSUME loops \in [Loops -> Run], NEW l \in Loops, EndRun(l)
  PROVE  /\ loops' \in [Loops -> Run] /\ loops'[l].pc = "idle" /\ timer' = TRUE
         /\ \A k \in Loops : k # l => loops'[k] = loops[k]
<1>1. NoLoop \in Run /\ NoLoop.pc = "idle"
  BY NoLoopRun
<1> QED BY <1>1 DEF EndRun

(***************************************************************************)
(* The extension's side of a step.                                         *)
(***************************************************************************)
\* Answers that hand a run something: an offer, or the secret.
Offers(p, x) == /\ Serving(p, "next") /\ exec[x] # NULL
                /\ Answered(p, "offered", x, exec[x].tab, exec[x].doc)
Grants(x) == /\ exec[x] # NULL /\ exec[x].state = "retrieving" /\ Listening(x) /\ InMap(x)'
             /\ Answered(exec[x].sess, "granted", x, exec[x].tab, exec[x].doc)
\* Answers that end a run.
Closes(p) == /\ Serving(p, "next") \/ Serving(p, "consume") \/ Serving(p, "result")
             /\ AnsweredLast(p)

\* The port is lost, or given up before a session was registered.
Breaks == \/ BrowserEnds \/ WorkerStops
          \/ \E p \in Ports : RegisterFails(p) \/ Disconnect(p)

\* A run of pollExecution takes its next step, or times out.
RunGoesOn(l) ==
  Poll(l) \/ StartPolling(l) \/ Preflight(l) \/ OfferDropped(l) \/ SendConsume(l) \/ Fill(l)
    \/ CommitRefused(l) \/ RequestTimesOut(l)

\* The steps of the extension, apart from what the broker does in them.
ExtStep ==
  \/ UNCHANGED extVars
  \/ Breaks
  \/ \E p \in Ports : Connect(p) \/ Closes(p) \/ (\E l \in Loops : Registered(p, l)) \/ (\E x \in Execs : Offers(p, x))
  \/ \E x \in Execs : Grants(x)
  \/ \E l \in Loops : RunGoesOn(l)
  \/ \E f \in filled, st \in {"completed", "failed"} : CommitEnds(f, st)
  \/ \E t \in Tabs : Navigate(t)

\* Every step is one of these for the extension.
LEMMA PathExt ==
  ASSUME PathInv, [PathNext]_pathVars
  PROVE  ExtStep
<1>1. CASE UNCHANGED pathVars
  BY <1>1 DEF pathVars, ExtStep
<1>2. CASE UNCHANGED extVars
  BY <1>2 DEF ExtStep
<1>3. CASE BrowserStep \/ BrowserQuits \/ TickerStep \/ (WorkerStops /\ UNCHANGED windowVars)
  BY <1>3 DEF BrowserStep, BrowserQuits, TickerStep, ExtStep, Breaks
<1>4. ASSUME NEW p \in Ports, \/ Alive /\ Connect(p) /\ UNCHANGED windowVars
                              \/ Disconnect(p) /\ UNCHANGED windowVars
                              \/ ServeRegister(p) \/ ServeHeartbeat(p)
      PROVE  ExtStep
  BY <1>4 DEF ServeRegister, ServeHeartbeat, ExtStep, Breaks
<1>5. ASSUME NEW p \in Ports, ServeStep(p) PROVE ExtStep
  <2>1. CASE ServeNext(p)
    <3>1. PICK x \in Execs : NextOffer(p, x) /\ Answered(p, "offered", x, exec[x].tab, exec[x].doc)
      BY <2>1 DEF ServeNext
    <3>2. Offers(p, x)
      BY <2>1, <3>1 DEF ServeNext, Offers, NextOffer
    <3> QED BY <3>2 DEF ExtStep
  <2>2. CASE ServeConsume(p)
    BY <1>2, <2>2 DEF ServeConsume
  <2>3. CASE ServeNextEmpty(p) \/ ServeConsumeRejected(p) \/ ServeResult(p)
    <3>1. Closes(p)
      BY <2>3 DEF ServeNextEmpty, ServeConsumeRejected, ServeResult, Closes
    <3> QED BY <3>1 DEF ExtStep
  <2> QED BY <1>5, <2>1, <2>2, <2>3 DEF ServeStep
<1>6. ASSUME NEW x \in Execs, NEW p \in Ports, NEW t \in Tabs, MintOffer(x, p, t) PROVE ExtStep
  BY <1>2, <1>6 DEF MintOffer
<1>7. ASSUME NEW x \in Execs, ConsumeStep(x) PROVE ExtStep
  <2>1. CASE EnterWindow(x) /\ UNCHANGED extVars
    BY <1>2, <2>1
  <2>2. CASE ConsumeGranted(x)
    <3>1. CASE Listening(x)
      <4>0. WindowTypeOK
        BY DEF PathInv, PathTypeOK
      <4>1. exec[x] # NULL /\ exec[x].state = "retrieving" /\ SetExec(x, "running")
        BY <2>2 DEF ConsumeGranted, RetrieveSucceeds
      <4>2. "running" \in ExecStates /\ (InMap(x) => "running" \notin {"offered", "taken", "revoked"})
        BY DEF ExecStates
      <4>3. exec'[x].state = "running" /\ ExecOnward
        BY <4>0, <4>1, <4>2, SetExecMoves
      <4>4. InMap(x)'
        BY <4>1, <4>3 DEF InMap, ExecOnward
      <4>5. Grants(x)
        BY <2>2, <3>1, <4>1, <4>4 DEF ConsumeGranted, Grants
      <4> QED BY <4>5 DEF ExtStep
    <3>2. CASE ~ Listening(x)
      BY <1>2, <2>2, <3>2 DEF ConsumeGranted
    <3> QED BY <3>1, <3>2
  <2>3. CASE ConsumeFailed(x)
    <3>1. CASE Listening(x)
      <4>1. PICK p \in Ports : p = exec[x].sess
        BY <2>3 DEF ConsumeFailed, RetrieveFails, PathInv, PathTypeOK, WindowTypeOK, ActiveExecution
      <4>2. Closes(p)
        BY <2>3, <3>1, <4>1 DEF ConsumeFailed, Listening, Closes
      <4> QED BY <4>2 DEF ExtStep
    <3>2. CASE ~ Listening(x)
      BY <1>2, <2>3, <3>2 DEF ConsumeFailed
    <3> QED BY <3>1, <3>2
  <2> QED BY <1>7, <2>1, <2>2, <2>3 DEF ConsumeStep
<1>8. ASSUME NEW l \in Loops, RunStep(l) \/ (RequestTimesOut(l) /\ UNCHANGED windowVars) PROVE ExtStep
  <2>1. RunGoesOn(l)
    BY <1>8 DEF RunStep, RunGoesOn
  <2> QED BY <2>1 DEF ExtStep
<1>9. CASE PageStep
  BY <1>9 DEF PageStep, ExtStep
<1>10. ASSUME NEW t \in Tabs, PageNavigates(t) PROVE ExtStep
  BY <1>10 DEF PageNavigates, ExtStep
<1> QED BY <1>1, <1>3, <1>4, <1>5, <1>6, <1>7, <1>8, <1>9, <1>10 DEF PathNext

(***************************************************************************)
(* What is preserved of runs and requests.                                 *)
(***************************************************************************)
\* The parts of PathInv: the runs, the queues, the link and the pages.
RunsFine == loops \in [Loops -> Run] /\ \A l \in Loops : RunHolds(loops[l])
WireFine == wire \in [Ports -> Seq(Msg)] /\ \A p \in Ports : \A i \in DOMAIN wire[p] : MsgHolds(wire[p][i])
LinkFine ==
  /\ port \in [Ports -> {"new", "open", "closed"}]
  /\ nativePort \in Ports \cup {NULL} /\ sessionId \in Ports \cup {NULL} /\ timer \in BOOLEAN
  /\ nativePort = NULL => sessionId = NULL
  /\ nativePort # NULL => port[nativePort] # "new"
PageFine == doc \in [Tabs -> 1 .. MaxDocs] /\ filled \subseteq [exec : Execs, tab : Tabs, doc : 1 .. MaxDocs]

\* The parts of PathInv, before and after a step.
LEMMA PathParts ==
  /\ PathInv <=> WindowTypeOK /\ RunsFine /\ WireFine /\ LinkFine /\ PageFine /\ (ticker.phase # "idle" => lapsed)
  /\ PathInv' <=> /\ WindowTypeOK' /\ RunsFine' /\ WireFine' /\ LinkFine' /\ PageFine'
                  /\ (ticker'.phase # "idle" => lapsed')
<1>1. PathInv <=> WindowTypeOK /\ RunsFine /\ WireFine /\ LinkFine /\ PageFine /\ (ticker.phase # "idle" => lapsed)
  BY DEF PathInv, PathTypeOK, RunsFine, WireFine, LinkFine, PageFine, Run
<1>2. PathInv' <=> /\ WindowTypeOK' /\ RunsFine' /\ WireFine' /\ LinkFine' /\ PageFine'
                   /\ (ticker'.phase # "idle" => lapsed')
  BY DEF PathInv, PathTypeOK, RunsFine, WireFine, LinkFine, PageFine, Run
<1> QED BY <1>1, <1>2

\* What a run knows of its capability stays true as executions go on.
LEMMA RunKept ==
  ASSUME ExecOnward, NEW r \in Run, RunHolds(r)
  PROVE  RunHolds(r)'
<1>1. {"granted", "filling"} \subseteq OfferPcs
  BY DEF OfferPcs
<1>2. ASSUME r.pc \in OfferPcs PROVE Known(r.exec, r.tab, r.doc)'
  BY <1>2 DEF RunHolds, Known, ExecOnward
<1>3. ASSUME r.pc \in {"granted", "filling"} PROVE InMap(r.exec)'
  <2>1. r.exec \in Execs /\ exec[r.exec] # NULL /\ InMap(r.exec)
    BY <1>1, <1>3 DEF RunHolds, Known
  <2> QED BY <2>1 DEF ExecOnward
<1> QED BY <1>2, <1>3 DEF RunHolds

\* Runs that stay, end, go on with the same capability or are handed one know what they are about.
LEMMA RunsUnchanged ==
  ASSUME RunsFine, ExecOnward, loops' \in [Loops -> Run],
         \A l \in Loops : \/ loops'[l] = loops[l]
                          \/ loops'[l].pc \notin OfferPcs
                          \/ /\ loops'[l].exec = loops[l].exec /\ loops'[l].tab = loops[l].tab
                             /\ loops'[l].doc = loops[l].doc /\ loops[l].pc \in OfferPcs
                             /\ loops'[l].pc \in {"granted", "filling"} => loops[l].pc \in {"granted", "filling"}
                          \/ RunHolds(loops[l])'
  PROVE  RunsFine'
<1> SUFFICES ASSUME NEW l \in Loops PROVE RunHolds(loops[l])'
  BY DEF RunsFine
<1>1. PICK r \in Run : r = loops[l] /\ RunHolds(r) /\ RunHolds(r)'
  BY RunKept DEF RunsFine
<1>2. {"granted", "filling"} \subseteq OfferPcs
  BY DEF OfferPcs
<1> QED BY <1>1, <1>2 DEF RunHolds, Known

\* Requests are dropped or abandoned, and the rest are about what they were about.
Thinned ==
  /\ wire' \in [Ports -> Seq(Msg)]
  /\ \A p \in Ports : \A i \in DOMAIN wire'[p] :
       /\ i \in DOMAIN wire[p]
       /\ wire'[p][i].kind = wire[p][i].kind /\ wire'[p][i].exec = wire[p][i].exec

\* The lost port drops its queue, and the requests of the rejected runs are abandoned.
LEMMA DroppedWire ==
  ASSUME wire \in [Ports -> Seq(Msg)], NEW p \in Ports, NEW L, wire' = Abandon([wire EXCEPT ![p] = << >>], L)
  PROVE  Thinned
<1> DEFINE cut(s) == [i \in DOMAIN s |-> IF s[i].loop \in L THEN [s[i] EXCEPT !.loop = NULL] ELSE s[i]]
           w == [wire EXCEPT ![p] = << >>]
<1>1. wire' = [q \in Ports |-> cut(w[q])]
  BY DEF Abandon
<1>2. \A s \in Seq(Msg) :
        /\ cut(s) \in Seq(Msg) /\ DOMAIN cut(s) = DOMAIN s /\ Len(cut(s)) = Len(s)
        /\ \A i \in DOMAIN s :
             /\ cut(s)[i].kind = s[i].kind /\ cut(s)[i].exec = s[i].exec
             /\ \/ s[i].loop \in L /\ cut(s)[i].loop = NULL
                \/ s[i].loop \notin L /\ cut(s)[i].loop = s[i].loop
  BY AbandonedQueue
<1> HIDE DEF cut
<1>3. << >> \in Seq(Msg) /\ DOMAIN << >> = {}
  OBVIOUS
<1>4. \A q \in Ports : w[q] \in Seq(Msg) /\ (w[q] = wire[q] \/ w[q] = << >>)
  BY <1>3
<1> HIDE DEF w
<1>5. wire' \in [Ports -> Seq(Msg)] /\ \A q \in Ports : wire'[q] = cut(w[q])
  BY <1>1, <1>2, <1>4
<1> SUFFICES ASSUME NEW q \in Ports, NEW i \in DOMAIN wire'[q]
             PROVE  /\ i \in DOMAIN wire[q]
                    /\ wire'[q][i].kind = wire[q][i].kind /\ wire'[q][i].exec = wire[q][i].exec
  BY <1>5 DEF Thinned
<1>6. /\ i \in DOMAIN w[q] /\ wire'[q][i].kind = w[q][i].kind /\ wire'[q][i].exec = w[q][i].exec
  <2>1. PICK s \in Seq(Msg) : s = w[q]
    BY <1>4
  <2>2. wire'[q] = cut(s) /\ DOMAIN cut(s) = DOMAIN s
    BY <1>2, <1>5, <2>1
  <2> QED BY <1>2, <2>1, <2>2
<1>7. w[q] = wire[q]
  BY <1>3, <1>4, <1>6
<1> QED BY <1>6, <1>7

\* A request that is sent, answered or abandoned leaves the others about what they were about.
LEMMA WireKept ==
  ASSUME WireFine, ExecOnward,
         \/ UNCHANGED wire
         \/ \E p \in Ports : Popped(p)
         \/ Thinned
         \/ wire' = [p \in Ports |-> << >>]
         \/ \E p \in Ports, m \in Msg : Pushed(p, m) /\ MsgHolds(m)
  PROVE  WireFine'
<1>k. \A m \in Msg : MsgHolds(m) => MsgHolds(m)'
  BY DEF MsgHolds, ExecOnward
<1>t. \A p \in Ports : \A i \in DOMAIN wire[p] : wire[p][i] \in Msg /\ MsgHolds(wire[p][i])
  BY DEF WireFine
<1>1. CASE UNCHANGED wire
  BY <1>1, <1>k, <1>t DEF WireFine
<1>2. ASSUME NEW p \in Ports, Popped(p) PROVE WireFine'
  <2>1. \A q \in Ports : \A i \in DOMAIN wire'[q] : \E j \in DOMAIN wire[q] : wire'[q][i] = wire[q][j]
    <3> SUFFICES ASSUME NEW q \in Ports, NEW i \in DOMAIN wire'[q]
                 PROVE  \E j \in DOMAIN wire[q] : wire'[q][i] = wire[q][j]
      OBVIOUS
    <3>1. CASE q = p
      <4>1. i \in 1 .. (Len(wire[p]) - 1) /\ i + 1 \in DOMAIN wire[p] /\ wire'[p][i] = wire[p][i + 1]
        BY <1>2, <3>1 DEF Popped
      <4> QED BY <3>1, <4>1
    <3>2. CASE q # p
      BY <1>2, <3>2 DEF Popped
    <3> QED BY <3>1, <3>2
  <2> QED BY <1>2, <1>k, <1>t, <2>1 DEF WireFine, Popped
<1>3. CASE Thinned
  <2> SUFFICES ASSUME NEW p \in Ports, NEW i \in DOMAIN wire'[p] PROVE MsgHolds(wire[p][i])'
    BY <1>3 DEF WireFine, Thinned
  <2>1. i \in DOMAIN wire[p] /\ wire'[p][i].kind = wire[p][i].kind /\ wire'[p][i].exec = wire[p][i].exec
    BY <1>3 DEF Thinned
  <2>2. wire[p][i] \in Msg /\ MsgHolds(wire[p][i])
    BY <1>t, <2>1
  <2> QED BY <2>1, <2>2 DEF MsgHolds, ExecOnward
<1>4. CASE wire' = [p \in Ports |-> << >>]
  <2>1. wire' \in [Ports -> Seq(Msg)]
    BY <1>4
  <2>2. \A p \in Ports : DOMAIN wire'[p] = {}
    BY <1>4
  <2> QED BY <2>1, <2>2 DEF WireFine
<1>5. ASSUME NEW p \in Ports, NEW m \in Msg, Pushed(p, m), MsgHolds(m) PROVE WireFine'
  <2>1. \A q \in Ports : \A i \in DOMAIN wire'[q] :
          wire'[q][i] = m \/ \E j \in DOMAIN wire[q] : wire'[q][i] = wire[q][j]
    <3> SUFFICES ASSUME NEW q \in Ports, NEW i \in DOMAIN wire'[q]
                 PROVE  wire'[q][i] = m \/ \E j \in DOMAIN wire[q] : wire'[q][i] = wire[q][j]
      OBVIOUS
    <3>1. CASE q = p
      <4>1. i = Len(wire[p]) + 1 \/ i \in 1 .. Len(wire[p])
        BY <1>5, <3>1 DEF Pushed
      <4> QED BY <1>5, <3>1, <4>1 DEF Pushed
    <3>2. CASE q # p
      BY <1>5, <3>2 DEF Pushed
    <3> QED BY <3>1, <3>2
  <2>2. MsgHolds(m)'
    BY <1>5, <1>k
  <2>3. ASSUME NEW q \in Ports, NEW i \in DOMAIN wire'[q] PROVE MsgHolds(wire[q][i])'
    <3>1. CASE wire'[q][i] = m
      BY <2>2, <3>1 DEF MsgHolds
    <3>2. ASSUME NEW j \in DOMAIN wire[q], wire'[q][i] = wire[q][j] PROVE MsgHolds(wire[q][i])'
      <4>1. PICK u \in Msg : u = wire[q][j] /\ MsgHolds(u)
        BY <1>t
      <4>2. MsgHolds(u)' /\ wire'[q][i] = u
        BY <1>k, <3>2, <4>1
      <4> QED BY <4>2 DEF MsgHolds
    <3> QED BY <2>1, <3>1, <3>2
  <2> QED BY <1>5, <2>3 DEF WireFine, Pushed
<1> QED BY <1>1, <1>2, <1>3, <1>4, <1>5

(***************************************************************************)
(* Each step of the extension keeps its types.                             *)
(***************************************************************************)
\* A run that reports its result sends the request over the current port or ends.
LEMMA ReportKeeps ==
  ASSUME RunsFine, WireFine, LinkFine, ExecOnward, NEW l \in Loops,
         loops[l].pc \in {"granted", "filling"}, NEW st \in {"completed", "failed"},
         Report(l, loops[l].exec, st)
  PROVE  /\ RunsFine' /\ WireFine' /\ timer' \in BOOLEAN
         /\ \A k \in Loops : k # l => loops'[k] = loops[k]
         /\ \/ /\ nativePort # NULL /\ UNCHANGED timer /\ loops'[l].pc = "reporting"
               /\ loops'[l].exec = loops[l].exec /\ loops'[l].tab = loops[l].tab
               /\ \E m \in Msg : /\ Pushed(nativePort, m) /\ m.kind = "result" /\ m.loop = l
                                 /\ m.exec = loops[l].exec
            \/ /\ nativePort = NULL /\ timer' = TRUE /\ loops'[l].pc = "idle" /\ UNCHANGED wire
<1>1. loops \in [Loops -> Run] /\ wire \in [Ports -> Seq(Msg)] /\ nativePort \in Ports \cup {NULL} /\ timer \in BOOLEAN
  BY DEF RunsFine, WireFine, LinkFine
<1>2. {"granted", "filling"} \subseteq OfferPcs /\ "reporting" \in OfferPcs /\ "idle" \notin OfferPcs /\ "reporting" \in PCs
      /\ "reporting" \notin {"granted", "filling"}
  BY DEF OfferPcs, PCs
<1>3. loops[l].exec \in Execs /\ exec[loops[l].exec] # NULL
  BY <1>2 DEF RunsFine, RunHolds, Known
<1>4. CASE nativePort # NULL
  <2> DEFINE m == Message("result", l, loops[l].exec, NULL, st)
  <2>1. m \in Msg /\ m.kind = "result" /\ m.exec = loops[l].exec /\ m.loop = l
    BY <1>3 DEF Message, Msg
  <2>2. wire' = [wire EXCEPT ![nativePort] = Append(@, m)] /\ loops' = [loops EXCEPT ![l].pc = "reporting"]
        /\ UNCHANGED timer
    BY <1>4 DEF Report
  <2> HIDE DEF m
  <2>3. MsgHolds(m)
    BY <1>3, <2>1 DEF MsgHolds
  <2>4. PICK p \in Ports : p = nativePort
    BY <1>1, <1>4
  <2>5. Pushed(p, m)
    BY <1>1, <2>1, <2>2, <2>4, PushedWire
  <2>6. WireFine'
    BY <2>1, <2>3, <2>5, WireKept
  <2>7. /\ loops' \in [Loops -> Run]
        /\ \A k \in Loops : k # l => loops'[k] = loops[k]
        /\ loops'[l].pc = "reporting" /\ loops'[l].exec = loops[l].exec /\ loops'[l].tab = loops[l].tab
        /\ loops'[l].doc = loops[l].doc
    BY <1>1, <1>2, <2>2, RunSteps
  <2>8. RunsFine'
    <3>1. loops[l].pc \in OfferPcs /\ loops'[l].pc \notin {"granted", "filling"}
      BY <1>2, <2>7
    <3> QED BY <2>7, <3>1, RunsUnchanged
  <2> QED BY <1>1, <1>4, <2>1, <2>2, <2>4, <2>5, <2>6, <2>7, <2>8
<1>5. CASE nativePort = NULL
  <2>1. EndRun(l) /\ UNCHANGED wire
    BY <1>5 DEF Report
  <2>2. /\ loops' \in [Loops -> Run] /\ loops'[l].pc = "idle" /\ timer' = TRUE
        /\ \A k \in Loops : k # l => loops'[k] = loops[k]
    BY <1>1, <2>1, RunEnds
  <2>3. RunsFine'
    BY <1>2, <2>2, RunsUnchanged
  <2>4. WireFine'
    BY <2>1, WireKept
  <2> QED BY <1>5, <2>1, <2>2, <2>3, <2>4
<1> QED BY <1>4, <1>5

\* The links: what connects, breaks and registers.
LEMMA LinkTyped ==
  ASSUME RunsFine, WireFine, LinkFine, PageFine, ExecOnward,
         Breaks \/ \E p \in Ports : Connect(p) \/ \E l \in Loops : Registered(p, l)
  PROVE  RunsFine' /\ WireFine' /\ LinkFine' /\ PageFine'
<1>1. loops \in [Loops -> Run] /\ wire \in [Ports -> Seq(Msg)] /\ port \in [Ports -> {"new", "open", "closed"}]
  BY DEF RunsFine, WireFine, LinkFine
<1>r. ASSUME NEW L, EndRuns(L) PROVE RunsFine'
  <2>1. "idle" \notin OfferPcs
    BY DEF OfferPcs
  <2>2. /\ loops' \in [Loops -> Run]
        /\ \A k \in Loops : \/ k \in L /\ loops'[k].pc = "idle"
                            \/ k \notin L /\ loops'[k] = loops[k]
    BY <1>1, <1>r, RunsEnd
  <2> QED BY <2>1, <2>2, RunsUnchanged
<1>u. ASSUME UNCHANGED <<wire, pageVars>> PROVE WireFine' /\ PageFine'
  <2>1. UNCHANGED wire /\ doc' = doc /\ filled' = filled
    BY <1>u DEF pageVars
  <2>2. WireFine'
    BY <2>1, WireKept
  <2> QED BY <2>1, <2>2 DEF PageFine
<1>l. ASSUME UNCHANGED loops PROVE RunsFine'
  BY <1>1, <1>l, RunsUnchanged
<1>2. CASE BrowserEnds
  <2>1. RunsFine'
    BY <1>2, <1>r DEF BrowserEnds
  <2>2. WireFine'
    BY <1>2, WireKept DEF BrowserEnds
  <2>3. LinkFine'
    BY <1>2 DEF BrowserEnds, LinkFine
  <2> QED BY <1>2, <2>1, <2>2, <2>3 DEF BrowserEnds, PageFine
<1>3. CASE WorkerStops
  <2>1. RunsFine'
    BY <1>3, <1>r DEF WorkerStops
  <2>2. WireFine'
    BY <1>3, WireKept DEF WorkerStops
  <2>3. LinkFine'
    BY <1>3, <1>1 DEF WorkerStops, LinkFine
  <2> QED BY <1>3, <2>1, <2>2, <2>3 DEF WorkerStops, PageFine, pageVars
<1>4. ASSUME NEW p \in Ports, RegisterFails(p) PROVE RunsFine' /\ WireFine' /\ LinkFine' /\ PageFine'
  <2>1. RunsFine' /\ WireFine' /\ PageFine'
    BY <1>4, <1>u, <1>l DEF RegisterFails
  <2> QED BY <1>4, <2>1 DEF RegisterFails, LinkFine
<1>5. ASSUME NEW p \in Ports, Disconnect(p) PROVE RunsFine' /\ WireFine' /\ LinkFine' /\ PageFine'
  <2> DEFINE R == {l \in Loops : Waiting(l)}
  <2>1. /\ EndRuns(R) /\ wire' = Abandon([wire EXCEPT ![p] = << >>], R) /\ timer' = (R # {})
        /\ port' = [port EXCEPT ![p] = "closed"] /\ nativePort' = NULL /\ sessionId' = NULL /\ UNCHANGED pageVars
    BY <1>5 DEF Disconnect
  <2> HIDE DEF R
  <2>2. RunsFine'
    BY <2>1, <1>r
  <2>3. Thinned
    BY <1>1, <2>1, DroppedWire
  <2>4. WireFine'
    BY <2>3, WireKept
  <2>5. LinkFine'
    BY <1>1, <2>1 DEF LinkFine
  <2> QED BY <2>1, <2>2, <2>4, <2>5 DEF PageFine, pageVars
<1>6. ASSUME NEW p \in Ports, Connect(p) PROVE RunsFine' /\ WireFine' /\ LinkFine' /\ PageFine'
  <2>1. RunsFine' /\ WireFine' /\ PageFine'
    BY <1>6, <1>u, <1>l DEF Connect
  <2>2. LinkFine'
    BY <1>6, <1>1, IdsAssumption DEF Connect, LinkFine
  <2> QED BY <2>1, <2>2
<1>7. ASSUME NEW p \in Ports, NEW l \in Loops, Registered(p, l) PROVE RunsFine' /\ WireFine' /\ LinkFine' /\ PageFine'
  <2>1. WireFine' /\ PageFine'
    BY <1>7, <1>u DEF Registered
  <2>2. LinkFine'
    BY <1>7, IdsAssumption DEF Registered, LinkFine
  <2>3. "starting" \in PCs /\ "starting" \notin OfferPcs
    BY DEF PCs, OfferPcs
  <2>4. /\ loops' \in [Loops -> Run]
        /\ \A k \in Loops : k # l => loops'[k] = loops[k]
        /\ loops'[l].pc = "starting"
    BY <1>1, <1>7, <2>3, RunSteps DEF Registered
  <2>5. RunsFine'
    BY <2>3, <2>4, RunsUnchanged
  <2> QED BY <2>1, <2>2, <2>5
<1> QED BY <1>2, <1>3, <1>4, <1>5, <1>6, <1>7 DEF Breaks

\* Answers to the head of a queue.
LEMMA AnswerTyped ==
  ASSUME PathInv, ExecOnward,
         \/ \E p \in Ports : Closes(p) \/ \E x \in Execs : Offers(p, x)
         \/ \E x \in Execs : Grants(x)
  PROVE  RunsFine' /\ WireFine' /\ LinkFine' /\ PageFine'
<1>0. RunsFine /\ WireFine /\ LinkFine /\ PageFine /\ WindowTypeOK
  BY PathParts
<1>1. loops \in [Loops -> Run] /\ wire \in [Ports -> Seq(Msg)] /\ timer \in BOOLEAN
  BY <1>0 DEF RunsFine, WireFine, LinkFine
<1>k. ASSUME UNCHANGED <<linkVars, pageVars>>, timer' \in BOOLEAN PROVE LinkFine' /\ PageFine'
  BY <1>0, <1>k DEF LinkFine, PageFine, linkVars, pageVars
<1>p. ASSUME NEW p \in Ports, wire[p] # << >>, wire' = [wire EXCEPT ![p] = Tail(@)]
      PROVE  WireFine' /\ Head(wire[p]).loop \in Loops \cup {NULL}
  <2>1. Popped(p)
    BY <1>1, <1>p, PoppedWire
  <2>2. Head(wire[p]) \in Msg
    BY <1>1, <1>p, HeadOfWire
  <2> QED BY <1>0, <2>1, <2>2, WireKept DEF Msg
<1>2. ASSUME NEW p \in Ports, Closes(p) PROVE RunsFine' /\ WireFine' /\ LinkFine' /\ PageFine'
  <2>1. wire[p] # << >> /\ AnsweredLast(p)
    BY <1>2 DEF Closes, Serving
  <2>2. PICK l \in Loops \cup {NULL} : l = Head(wire[p]).loop /\ WireFine'
    BY <2>1, <1>p DEF AnsweredLast
  <2>3. UNCHANGED <<linkVars, pageVars>> /\ (UNCHANGED <<loops, timer>> \/ (l \in Loops /\ EndRun(l)))
    BY <2>1, <2>2 DEF AnsweredLast
  <2>4. RunsFine' /\ timer' \in BOOLEAN
    <3>1. CASE UNCHANGED <<loops, timer>>
      <4>1. RunsFine'
        BY <1>0, <1>1, <3>1, RunsUnchanged
      <4> QED BY <1>1, <3>1, <4>1
    <3>2. CASE l \in Loops /\ EndRun(l)
      <4>1. /\ loops' \in [Loops -> Run] /\ loops'[l].pc = "idle" /\ timer' = TRUE
            /\ \A k \in Loops : k # l => loops'[k] = loops[k]
        BY <1>1, <3>2, RunEnds
      <4>2. "idle" \notin OfferPcs
        BY DEF OfferPcs
      <4> QED BY <1>0, <4>1, <4>2, RunsUnchanged
    <3> QED BY <2>3, <3>1, <3>2
  <2> QED BY <1>k, <2>2, <2>3, <2>4
<1>3. ASSUME NEW p \in Ports, NEW x \in Execs, exec[x] # NULL, NEW pc \in {"offered", "granted"}, wire[p] # << >>,
             pc = "granted" => InMap(x)', Answered(p, pc, x, exec[x].tab, exec[x].doc)
      PROVE  RunsFine' /\ WireFine' /\ LinkFine' /\ PageFine'
  <2>1. PICK l \in Loops \cup {NULL} : l = Head(wire[p]).loop /\ WireFine'
    BY <1>3, <1>p DEF Answered
  <2>2. LinkFine' /\ PageFine'
    BY <1>3, <1>1, <1>k DEF Answered
  <2>3. CASE l = NULL
    <3>1. UNCHANGED loops
      BY <1>3, <2>1, <2>3 DEF Answered
    <3> QED BY <1>0, <1>1, <2>1, <2>2, <3>1, RunsUnchanged
  <2>4. CASE l # NULL
    <3> DEFINE u == [pc |-> pc, exec |-> x, tab |-> exec[x].tab, doc |-> exec[x].doc]
    <3>1. exec[x].tab \in Tabs /\ exec[x].doc \in Nat
      BY <1>0, <1>3 DEF WindowTypeOK, ActiveExecution
    <3>2. u \in Run /\ u.pc = pc /\ u.exec = x /\ u.tab = exec[x].tab /\ u.doc = exec[x].doc
      BY <3>1 DEF Run, PCs
    <3>3. l \in Loops /\ RunTo(l, u)
      BY <1>3, <2>1, <2>4 DEF Answered, RunTo
    <3> HIDE DEF u
    <3>4. /\ loops' \in [Loops -> Run] /\ loops'[l] = u
          /\ \A k \in Loops : k # l => loops'[k] = loops[k]
      BY <1>1, <3>2, <3>3, RunReplaced
    <3>5. exec'[x] # NULL /\ exec'[x].tab = exec[x].tab /\ exec'[x].doc = exec[x].doc
      BY <1>3 DEF ExecOnward
    <3>6. PICK r : r = loops'[l] /\ r.exec = x /\ r.tab = exec'[x].tab /\ r.doc = exec'[x].doc /\ r.pc = pc
      BY <3>2, <3>4, <3>5
    <3>7. RunHolds(loops[l])'
      <4>1. Known(x, exec[x].tab, exec[x].doc)'
        BY <3>1, <3>5 DEF Known
      <4>2. Known(loops[l].exec, loops[l].tab, loops[l].doc)'
        BY <3>6, <4>1
      <4>3. loops'[l].pc \in {"granted", "filling"} => InMap(loops[l].exec)'
        BY <1>3, <3>6 DEF InMap
      <4> QED BY <4>2, <4>3 DEF RunHolds
    <3> QED BY <1>0, <2>1, <2>2, <3>4, <3>7, RunsUnchanged
  <2> QED BY <2>3, <2>4
<1>4. ASSUME NEW p \in Ports, NEW x \in Execs, Offers(p, x) PROVE RunsFine' /\ WireFine' /\ LinkFine' /\ PageFine'
  BY <1>3, <1>4 DEF Offers, Serving
<1>5. ASSUME NEW x \in Execs, Grants(x) PROVE RunsFine' /\ WireFine' /\ LinkFine' /\ PageFine'
  <2>1. PICK p \in Ports : p = exec[x].sess
    BY <1>0, <1>5 DEF Grants, WindowTypeOK, ActiveExecution
  <2>2. exec[x] # NULL /\ InMap(x)' /\ wire[p] # << >> /\ Answered(p, "granted", x, exec[x].tab, exec[x].doc)
    BY <1>5, <2>1 DEF Grants, Listening, Serving
  <2> QED BY <1>3, <2>2
<1> QED BY <1>2, <1>4, <1>5

\* The runs and the page.
LEMMA RunTyped ==
  ASSUME PathInv, ExecOnward,
         \/ \E l \in Loops : RunGoesOn(l)
         \/ \E f \in filled, st \in {"completed", "failed"} : CommitEnds(f, st)
         \/ \E t \in Tabs : Navigate(t)
  PROVE  RunsFine' /\ WireFine' /\ LinkFine' /\ PageFine'
<1>0. RunsFine /\ WireFine /\ LinkFine /\ PageFine /\ WindowTypeOK
  BY PathParts
<1>1. loops \in [Loops -> Run] /\ wire \in [Ports -> Seq(Msg)] /\ timer \in BOOLEAN
      /\ nativePort \in Ports \cup {NULL} /\ doc \in [Tabs -> 1 .. MaxDocs]
  BY <1>0 DEF RunsFine, WireFine, LinkFine, PageFine
<1>k. ASSUME UNCHANGED linkVars, timer' \in BOOLEAN PROVE LinkFine'
  BY <1>0, <1>k DEF LinkFine, linkVars
<1>g. ASSUME UNCHANGED pageVars PROVE PageFine'
  BY <1>0, <1>g DEF PageFine, pageVars
<1>w. ASSUME UNCHANGED wire PROVE WireFine'
  BY <1>0, <1>w, WireKept
<1>e. ASSUME NEW l \in Loops, EndRun(l) PROVE RunsFine' /\ timer' \in BOOLEAN
  <2>1. /\ loops' \in [Loops -> Run] /\ loops'[l].pc = "idle" /\ timer' = TRUE
        /\ \A k \in Loops : k # l => loops'[k] = loops[k]
    BY <1>1, <1>e, RunEnds
  <2>2. "idle" \notin OfferPcs
    BY DEF OfferPcs
  <2> QED BY <1>0, <2>1, <2>2, RunsUnchanged
<1>s. ASSUME NEW l \in Loops, NEW c \in PCs, loops' = [loops EXCEPT ![l].pc = c],
             c \in OfferPcs => loops[l].pc \in OfferPcs,
             c \in {"granted", "filling"} => loops[l].pc \in {"granted", "filling"}
      PROVE  RunsFine'
  <2>1. /\ loops' \in [Loops -> Run]
        /\ \A k \in Loops : k # l => loops'[k] = loops[k]
        /\ loops'[l].pc = c /\ loops'[l].exec = loops[l].exec /\ loops'[l].tab = loops[l].tab
        /\ loops'[l].doc = loops[l].doc
    BY <1>1, <1>s, RunSteps
  <2> QED BY <1>0, <1>s, <2>1, RunsUnchanged
<1>o. {"offered", "prepared", "consuming", "granted", "filling"} \subseteq OfferPcs /\ "polling" \notin OfferPcs
      /\ {"polling", "prepared", "consuming", "filling"} \subseteq PCs
  BY DEF OfferPcs, PCs
<1>2. ASSUME NEW l \in Loops, Poll(l) PROVE RunsFine' /\ WireFine' /\ LinkFine' /\ PageFine'
  <2> DEFINE m == Message("next", l, NULL, NULL, NULL)
  <2>1. m \in Msg /\ m.kind = "next"
    BY DEF Message, Msg
  <2>2. PICK p \in Ports : p = nativePort
    BY <1>1, <1>2 DEF Poll
  <2>3. wire' = [wire EXCEPT ![p] = Append(@, m)]
    BY <1>2, <2>2 DEF Poll
  <2> HIDE DEF m
  <2>4. Pushed(p, m) /\ MsgHolds(m)
    BY <1>1, <2>1, <2>3, PushedWire DEF MsgHolds
  <2>5. WireFine'
    BY <1>0, <2>1, <2>4, WireKept
  <2>6. RunsFine'
    BY <1>2, <1>s, <1>o DEF Poll
  <2> QED BY <1>2, <1>k, <1>g, <2>5, <2>6 DEF Poll
<1>3. ASSUME NEW l \in Loops, StartPolling(l) \/ OfferDropped(l) PROVE RunsFine' /\ WireFine' /\ LinkFine' /\ PageFine'
  <2>1. EndRun(l) /\ UNCHANGED <<linkVars, wire, pageVars>>
    BY <1>3 DEF StartPolling, OfferDropped
  <2> QED BY <1>e, <1>k, <1>g, <1>w, <2>1
<1>4. ASSUME NEW l \in Loops, RequestTimesOut(l) PROVE RunsFine' /\ WireFine' /\ LinkFine' /\ PageFine'
  <2>1. EndRun(l) /\ UNCHANGED <<linkVars, pageVars>> /\ wire' = Abandon(wire, {l})
    BY <1>4 DEF RequestTimesOut
  <2>2. Relabelled({l})
    BY <1>1, <2>1, RelabelledWire
  <2>3. Thinned
    BY <2>2 DEF Relabelled, Thinned
  <2>4. WireFine'
    BY <1>0, <2>3, WireKept
  <2> QED BY <1>e, <1>k, <1>g, <2>1, <2>4
<1>5. ASSUME NEW l \in Loops, Preflight(l) PROVE RunsFine' /\ WireFine' /\ LinkFine' /\ PageFine'
  <2>1. RunsFine'
    BY <1>5, <1>s, <1>o DEF Preflight
  <2> QED BY <1>1, <1>5, <1>k, <1>g, <1>w, <2>1 DEF Preflight
<1>6. ASSUME NEW l \in Loops, SendConsume(l) PROVE RunsFine' /\ WireFine' /\ LinkFine' /\ PageFine'
  <2> DEFINE m == Message("consume", l, loops[l].exec, doc[loops[l].tab], NULL)
  <2>1. Known(loops[l].exec, loops[l].tab, loops[l].doc)
    BY <1>0, <1>6, <1>o DEF SendConsume, RunsFine, RunHolds
  <2>2. loops[l].exec \in Execs /\ exec[loops[l].exec] # NULL /\ loops[l].tab \in Tabs
    BY <2>1 DEF Known
  <2>3. doc[loops[l].tab] \in Nat
    BY <1>1, <2>2, ExtensionAssumption
  <2>4. m \in Msg /\ m.kind = "consume" /\ m.exec = loops[l].exec
    BY <2>2, <2>3 DEF Message, Msg
  <2>5. PICK p \in Ports : p = nativePort
    BY <1>1, <1>6 DEF SendConsume
  <2>6. wire' = [wire EXCEPT ![p] = Append(@, m)]
    BY <1>6, <2>5 DEF SendConsume
  <2> HIDE DEF m
  <2>7. Pushed(p, m) /\ MsgHolds(m)
    BY <1>1, <2>2, <2>4, <2>6, PushedWire DEF MsgHolds
  <2>8. WireFine'
    BY <1>0, <2>4, <2>7, WireKept
  <2>9. RunsFine'
    BY <1>6, <1>s, <1>o DEF SendConsume
  <2> QED BY <1>1, <1>6, <1>k, <1>g, <2>8, <2>9 DEF SendConsume
<1>7. ASSUME NEW l \in Loops, Fill(l) PROVE RunsFine' /\ WireFine' /\ LinkFine' /\ PageFine'
  <2>1. Known(loops[l].exec, loops[l].tab, loops[l].doc)
    BY <1>0, <1>7, <1>o DEF Fill, RunsFine, RunHolds
  <2>2. loops[l].exec \in Execs /\ loops[l].tab \in Tabs
    BY <2>1 DEF Known
  <2>3. doc[loops[l].tab] \in 1 .. MaxDocs
    BY <1>1, <2>2
  <2>4. PageFine'
    BY <1>0, <1>7, <2>2, <2>3 DEF Fill, PageFine
  <2>5. RunsFine'
    BY <1>7, <1>s, <1>o DEF Fill
  <2> QED BY <1>1, <1>7, <1>k, <1>w, <2>4, <2>5 DEF Fill
<1>8. ASSUME NEW l \in Loops, CommitRefused(l) PROVE RunsFine' /\ WireFine' /\ LinkFine' /\ PageFine'
  <2>1. loops[l].pc \in {"granted", "filling"} /\ Report(l, loops[l].exec, "failed") /\ UNCHANGED <<linkVars, pageVars>>
    BY <1>8 DEF CommitRefused
  <2>2. RunsFine' /\ WireFine' /\ timer' \in BOOLEAN
    BY <1>0, <2>1, ReportKeeps
  <2> QED BY <1>k, <1>g, <2>1, <2>2
<1>9. ASSUME NEW f \in filled, NEW st \in {"completed", "failed"}, CommitEnds(f, st)
      PROVE  RunsFine' /\ WireFine' /\ LinkFine' /\ PageFine'
  <2>1. filled' \subseteq filled /\ UNCHANGED <<linkVars, doc>>
    BY <1>9 DEF CommitEnds
  <2>2. PageFine'
    BY <1>0, <2>1 DEF PageFine
  <2>3. CASE UNCHANGED <<wire, loops, timer>>
    <3>1. RunsFine'
      BY <1>0, <1>1, <2>3, RunsUnchanged
    <3> QED BY <1>1, <1>k, <1>w, <2>1, <2>2, <2>3, <3>1
  <2>4. ASSUME NEW l \in Loops, loops[l].pc = "filling", loops[l].exec = f.exec, Report(l, f.exec, st)
        PROVE  RunsFine' /\ WireFine' /\ LinkFine' /\ PageFine'
    <3>1. RunsFine' /\ WireFine' /\ timer' \in BOOLEAN
      BY <1>0, <2>4, ReportKeeps
    <3> QED BY <1>k, <2>1, <2>2, <3>1
  <2> QED BY <1>9, <2>3, <2>4 DEF CommitEnds
<1>10. ASSUME NEW t \in Tabs, Navigate(t) PROVE RunsFine' /\ WireFine' /\ LinkFine' /\ PageFine'
  <2> DEFINE cut == {l \in Loops : loops[l].pc = "filling" /\ loops[l].tab = t}
  <2>1. /\ doc[t] < MaxDocs /\ doc' = [doc EXCEPT ![t] = @ + 1] /\ filled' = {f \in filled : f.tab # t}
        /\ EndRuns(cut) /\ timer' = (timer \/ cut # {}) /\ UNCHANGED <<linkVars, wire>>
    BY <1>10 DEF Navigate
  <2> HIDE DEF cut
  <2>2. doc[t] + 1 \in 1 .. MaxDocs
    BY <1>1, <2>1, ExtensionAssumption
  <2>3. PageFine'
    BY <1>0, <1>1, <2>1, <2>2 DEF PageFine
  <2>4. RunsFine'
    <3>1. /\ loops' \in [Loops -> Run]
          /\ \A k \in Loops : \/ k \in cut /\ loops'[k].pc = "idle"
                              \/ k \notin cut /\ loops'[k] = loops[k]
      BY <1>1, <2>1, RunsEnd
    <3>2. "idle" \notin OfferPcs
      BY DEF OfferPcs
    <3> QED BY <1>0, <3>1, <3>2, RunsUnchanged
  <2>5. timer' \in BOOLEAN
    BY <1>1, <2>1
  <2> QED BY <1>k, <1>w, <2>1, <2>3, <2>4, <2>5
<1> QED BY <1>2, <1>3, <1>4, <1>5, <1>6, <1>7, <1>8, <1>9, <1>10 DEF RunGoesOn

\* The types, what runs and requests are about, and the state of the link are preserved.
LEMMA PathKept ==
  ASSUME PathInv, [PathNext]_pathVars
  PROVE  PathInv'
<1>0. RunsFine /\ WireFine /\ LinkFine /\ PageFine
  BY PathParts
<1>1. WindowTypeOK' /\ ExecOnward /\ (ticker'.phase # "idle" => lapsed')
  BY PathWindow, WindowTyped
<1>2. ExtStep
  BY PathExt
<1>3. CASE UNCHANGED extVars
  <2>1. /\ UNCHANGED loops /\ UNCHANGED wire /\ UNCHANGED port /\ UNCHANGED nativePort /\ UNCHANGED sessionId
        /\ UNCHANGED timer /\ UNCHANGED doc /\ UNCHANGED filled
    BY <1>3 DEF extVars
  <2>2. RunsFine'
    <3>1. loops' \in [Loops -> Run]
      BY <1>0, <2>1 DEF RunsFine
    <3> QED BY <1>0, <1>1, <2>1, <3>1, RunsUnchanged
  <2>3. WireFine'
    BY <1>0, <1>1, <2>1, WireKept
  <2>4. LinkFine' /\ PageFine'
    BY <1>0, <2>1 DEF LinkFine, PageFine
  <2> QED BY <1>1, <2>2, <2>3, <2>4, PathParts
<1>4. (RunsFine' /\ WireFine' /\ LinkFine' /\ PageFine') \/ UNCHANGED extVars
  BY <1>0, <1>1, <1>2, LinkTyped, AnswerTyped, RunTyped DEF ExtStep
<1> QED BY <1>1, <1>3, <1>4, PathParts

(***************************************************************************)
(* A connected extension goes on polling.                                  *)
(***************************************************************************)
\* An answer that ends a run, or that nobody hears.
LEMMA ClosesShape ==
  ASSUME PathInv, NEW p \in Ports, Closes(p)
  PROVE  /\ wire[p] # << >> /\ Popped(p) /\ UNCHANGED <<linkVars, pageVars>>
         /\ \/ Head(wire[p]).loop = NULL /\ UNCHANGED <<loops, timer>>
            \/ \E l \in Loops : /\ l = Head(wire[p]).loop
                                /\ \A k \in Loops : k # l => loops'[k] = loops[k]
                                /\ loops'[l].pc = "idle" /\ timer' = TRUE
<1>1. loops \in [Loops -> Run] /\ wire \in [Ports -> Seq(Msg)]
  BY PathParts DEF RunsFine, WireFine
<1>2. wire[p] # << >> /\ AnsweredLast(p)
  BY DEF Closes, Serving
<1>3. Popped(p) /\ UNCHANGED <<linkVars, pageVars>>
  BY <1>1, <1>2, PoppedWire DEF AnsweredLast
<1>4. PICK l \in Loops \cup {NULL} : l = Head(wire[p]).loop
  BY <1>1, <1>2, HeadOfWire DEF Msg
<1>5. CASE l = NULL
  BY <1>2, <1>3, <1>4, <1>5 DEF AnsweredLast
<1>6. CASE l # NULL
  <2>1. l \in Loops /\ EndRun(l)
    BY <1>2, <1>4, <1>6 DEF AnsweredLast
  <2>2. /\ loops'[l].pc = "idle" /\ timer' = TRUE /\ \A k \in Loops : k # l => loops'[k] = loops[k]
    BY <1>1, <2>1, RunEnds
  <2> QED BY <1>2, <1>3, <1>4, <2>1, <2>2
<1> QED BY <1>5, <1>6

\* An answer that hands a run an offer or the secret.
LEMMA HandsShape ==
  ASSUME PathInv, NEW p \in Ports, NEW x \in Execs, NEW pc \in {"offered", "granted"},
         \/ pc = "offered" /\ Offers(p, x)
         \/ pc = "granted" /\ Grants(x) /\ p = exec[x].sess
  PROVE  /\ wire[p] # << >> /\ Popped(p) /\ UNCHANGED <<linkVars, pageVars, timer>>
         /\ \/ Head(wire[p]).loop = NULL /\ UNCHANGED loops
            \/ \E l \in Loops : /\ l = Head(wire[p]).loop
                                /\ \A k \in Loops : k # l => loops'[k] = loops[k]
                                /\ loops'[l].pc = pc /\ loops'[l].exec = x /\ loops'[l].tab = exec[x].tab
<1>1. loops \in [Loops -> Run] /\ wire \in [Ports -> Seq(Msg)] /\ WindowTypeOK
  BY PathParts DEF RunsFine, WireFine
<1>2. wire[p] # << >> /\ exec[x] # NULL /\ Answered(p, pc, x, exec[x].tab, exec[x].doc)
  BY DEF Offers, Grants, Listening, Serving
<1>3. Popped(p) /\ UNCHANGED <<linkVars, pageVars, timer>>
  BY <1>1, <1>2, PoppedWire DEF Answered
<1>4. PICK l \in Loops \cup {NULL} : l = Head(wire[p]).loop
  BY <1>1, <1>2, HeadOfWire DEF Msg
<1>5. CASE l = NULL
  BY <1>2, <1>3, <1>4, <1>5 DEF Answered
<1>6. CASE l # NULL
  <2> DEFINE u == [pc |-> pc, exec |-> x, tab |-> exec[x].tab, doc |-> exec[x].doc]
  <2>1. exec[x].tab \in Tabs /\ exec[x].doc \in Nat
    BY <1>1, <1>2 DEF WindowTypeOK, ActiveExecution
  <2>2. u \in Run /\ u.pc = pc /\ u.exec = x /\ u.tab = exec[x].tab
    BY <2>1 DEF Run, PCs
  <2>3. l \in Loops /\ RunTo(l, u)
    BY <1>2, <1>4, <1>6 DEF Answered, RunTo
  <2> HIDE DEF u
  <2>4. loops'[l] = u /\ \A k \in Loops : k # l => loops'[k] = loops[k]
    BY <1>1, <2>2, <2>3, RunReplaced
  <2> QED BY <1>2, <1>3, <1>4, <2>2, <2>3, <2>4
<1> QED BY <1>5, <1>6

\* Every step of the extension keeps it polling.
LEMMA PollingKept ==
  ASSUME PathInv, KeepsPolling, ExtStep
  PROVE  KeepsPolling'
<1>0. RunsFine /\ WireFine /\ LinkFine
  BY PathParts
<1>1. loops \in [Loops -> Run] /\ (nativePort = NULL => sessionId = NULL)
  BY <1>0 DEF RunsFine, LinkFine
<1>k. ASSUME UNCHANGED linkVars, \/ UNCHANGED <<loops, timer>>
                                 \/ timer' = TRUE
                                 \/ \E l \in Loops : loops'[l].pc # "idle"
      PROVE  KeepsPolling'
  BY <1>k DEF KeepsPolling, linkVars
<1>2. CASE UNCHANGED extVars
  BY <1>2, <1>k DEF extVars, linkVars
<1>3. CASE Breaks
  BY <1>3 DEF Breaks, BrowserEnds, WorkerStops, RegisterFails, Disconnect, KeepsPolling
<1>4. ASSUME NEW p \in Ports, Connect(p) PROVE KeepsPolling'
  BY <1>1, <1>4 DEF Connect, KeepsPolling
<1>5. ASSUME NEW p \in Ports, NEW l \in Loops, Registered(p, l) PROVE KeepsPolling'
  <2>1. "starting" \in PCs /\ loops' = [loops EXCEPT ![l].pc = "starting"]
    BY <1>5 DEF PCs, Registered
  <2>2. loops'[l].pc = "starting"
    BY <1>1, <2>1, RunSteps
  <2> QED BY <2>2 DEF KeepsPolling
<1>6. ASSUME NEW p \in Ports, Closes(p) PROVE KeepsPolling'
  BY <1>6, <1>k, ClosesShape
<1>7. ASSUME NEW p \in Ports, NEW x \in Execs, Offers(p, x) PROVE KeepsPolling'
  BY <1>7, <1>k, HandsShape
<1>8. ASSUME NEW x \in Execs, Grants(x) PROVE KeepsPolling'
  <2>1. PICK p \in Ports : p = exec[x].sess
    BY <1>8, PathParts DEF Grants, WindowTypeOK, ActiveExecution
  <2> QED BY <1>8, <1>k, <2>1, HandsShape
<1>s. ASSUME NEW l \in Loops, NEW c \in PCs, c # "idle", loops' = [loops EXCEPT ![l].pc = c], UNCHANGED linkVars
      PROVE  KeepsPolling'
  <2>1. loops'[l].pc = c
    BY <1>1, <1>s, RunSteps
  <2> QED BY <1>s, <1>k, <2>1
<1>9. ASSUME NEW l \in Loops, RunGoesOn(l) PROVE KeepsPolling'
  <2>1. CASE StartPolling(l) \/ OfferDropped(l) \/ RequestTimesOut(l)
    BY <1>k, <2>1 DEF StartPolling, OfferDropped, RequestTimesOut, EndRun
  <2>2. CASE Poll(l) \/ Preflight(l) \/ SendConsume(l) \/ Fill(l)
    <3>1. {"polling", "prepared", "consuming", "filling"} \subseteq PCs
      BY DEF PCs
    <3> QED BY <1>s, <2>2, <3>1 DEF Poll, Preflight, SendConsume, Fill
  <2>3. CASE CommitRefused(l)
    <3>1. "reporting" \in PCs
      BY DEF PCs
    <3> QED BY <1>k, <1>s, <2>3, <3>1 DEF CommitRefused, Report, EndRun
  <2> QED BY <1>9, <2>1, <2>2, <2>3 DEF RunGoesOn
<1>10. ASSUME NEW f \in filled, NEW st \in {"completed", "failed"}, CommitEnds(f, st) PROVE KeepsPolling'
  <2>1. CASE UNCHANGED <<wire, loops, timer>>
    BY <1>10, <1>k, <2>1 DEF CommitEnds
  <2>2. ASSUME NEW l \in Loops, Report(l, f.exec, st) PROVE KeepsPolling'
    <3>1. "reporting" \in PCs
      BY DEF PCs
    <3> QED BY <1>10, <1>k, <1>s, <2>2, <3>1 DEF CommitEnds, Report, EndRun
  <2> QED BY <1>10, <2>1, <2>2 DEF CommitEnds
<1>11. ASSUME NEW t \in Tabs, Navigate(t) PROVE KeepsPolling'
  <2> DEFINE cut == {l \in Loops : loops[l].pc = "filling" /\ loops[l].tab = t}
  <2>1. EndRuns(cut) /\ timer' = (timer \/ cut # {}) /\ UNCHANGED linkVars
    BY <1>11 DEF Navigate
  <2> HIDE DEF cut
  <2>2. CASE cut # {}
    BY <1>k, <2>1, <2>2
  <2>3. CASE cut = {}
    <3>1. /\ loops' \in [Loops -> Run]
          /\ \A k \in Loops : \/ k \in cut /\ loops'[k].pc = "idle"
                              \/ k \notin cut /\ loops'[k] = loops[k]
      BY <1>1, <2>1, RunsEnd
    <3>2. loops' = loops
      BY <1>1, <2>3, <3>1
    <3>3. timer' = timer
      BY <1>0, <2>1, <2>3 DEF LinkFine
    <3> QED BY <1>k, <2>1, <3>2, <3>3
  <2> QED BY <2>2, <2>3
<1> QED BY <1>2, <1>3, <1>4, <1>5, <1>6, <1>7, <1>8, <1>9, <1>10, <1>11 DEF ExtStep

(***************************************************************************)
(* A secret is only in the document it was granted for.                    *)
(***************************************************************************)
\* Every step keeps the secrets where they were granted.
LEMMA FilledKept ==
  ASSUME PathInv, FilledWhereGranted, ExecOnward, ExtStep
  PROVE  FilledWhereGranted'
<1>0. RunsFine /\ PageFine
  BY PathParts
<1>1. ASSUME NEW f \in filled, doc'[f.tab] = doc[f.tab]
      PROVE  /\ InMap(f.exec)' /\ exec'[f.exec].tab = f.tab
             /\ f.doc = exec'[f.exec].doc /\ doc'[f.tab] = f.doc
  <2>1. /\ InMap(f.exec) /\ exec[f.exec].tab = f.tab /\ f.doc = exec[f.exec].doc /\ doc[f.tab] = f.doc
        /\ f.exec \in Execs
    BY <1>0 DEF FilledWhereGranted, PageFine
  <2>2. exec[f.exec] # NULL
    BY <2>1 DEF InMap
  <2> QED BY <1>1, <2>1, <2>2 DEF ExecOnward
<1>2. CASE doc' = doc /\ filled' \subseteq filled
  <2> SUFFICES ASSUME NEW f \in filled'
               PROVE  /\ InMap(f.exec)' /\ exec'[f.exec].tab = f.tab
                      /\ f.doc = exec'[f.exec].doc /\ doc'[f.tab] = f.doc
    BY DEF FilledWhereGranted
  <2> QED BY <1>1, <1>2
<1>3. ASSUME NEW l \in Loops, Fill(l) PROVE FilledWhereGranted'
  <2>1. Known(loops[l].exec, loops[l].tab, loops[l].doc) /\ InMap(loops[l].exec)
    BY <1>0, <1>3 DEF Fill, RunsFine, RunHolds, OfferPcs
  <2>2. PICK x \in Execs, t \in Tabs, d \in Nat : /\ x = loops[l].exec /\ t = loops[l].tab /\ d = loops[l].doc
                                          /\ exec[x] # NULL /\ InMap(x) /\ exec[x].tab = t /\ exec[x].doc = d
    BY <2>1 DEF Known
  <2>3. doc[t] = d /\ doc' = doc /\ filled' = filled \cup {[exec |-> x, tab |-> t, doc |-> d]}
    BY <1>3, <2>2 DEF Fill, NonceKnown
  <2>4. InMap(x)' /\ exec'[x].tab = t /\ exec'[x].doc = d
    BY <2>2 DEF ExecOnward
  <2> SUFFICES ASSUME NEW f \in filled'
               PROVE  /\ InMap(f.exec)' /\ exec'[f.exec].tab = f.tab
                      /\ f.doc = exec'[f.exec].doc /\ doc'[f.tab] = f.doc
    BY DEF FilledWhereGranted
  <2>5. CASE f \in filled
    BY <1>1, <2>3, <2>5
  <2>6. CASE f = [exec |-> x, tab |-> t, doc |-> d]
    <3>1. f.exec = x /\ f.tab = t /\ f.doc = d
      BY <2>6
    <3> QED BY <2>3, <2>4, <3>1
  <2> QED BY <2>3, <2>5, <2>6
<1>4. ASSUME NEW t \in Tabs, Navigate(t) PROVE FilledWhereGranted'
  <2>1. filled' = {f \in filled : f.tab # t} /\ doc' = [doc EXCEPT ![t] = @ + 1]
    BY <1>4 DEF Navigate
  <2> SUFFICES ASSUME NEW f \in filled'
               PROVE  /\ InMap(f.exec)' /\ exec'[f.exec].tab = f.tab
                      /\ f.doc = exec'[f.exec].doc /\ doc'[f.tab] = f.doc
    BY DEF FilledWhereGranted
  <2>2. f \in filled /\ f.tab # t /\ f.tab \in Tabs
    BY <1>0, <2>1 DEF PageFine
  <2>3. doc'[f.tab] = doc[f.tab]
    BY <1>0, <2>1, <2>2 DEF PageFine
  <2> QED BY <1>1, <2>2, <2>3
<1>5. CASE UNCHANGED extVars \/ Breaks
  BY <1>2, <1>5 DEF extVars, Breaks, BrowserEnds, WorkerStops, RegisterFails, Disconnect, pageVars
<1>6. ASSUME NEW p \in Ports, \/ Connect(p) \/ Closes(p) \/ (\E l \in Loops : Registered(p, l))
                              \/ (\E x \in Execs : Offers(p, x))
      PROVE  FilledWhereGranted'
  <2>1. doc' = doc /\ filled' = filled
    BY <1>6 DEF Connect, Closes, Registered, Offers, AnsweredLast, Answered, pageVars
  <2> QED BY <1>2, <2>1
<1>7. ASSUME NEW l \in Loops, RunGoesOn(l), ~ Fill(l) PROVE FilledWhereGranted'
  <2>1. doc' = doc /\ filled' = filled
    BY <1>7 DEF RunGoesOn, Poll, StartPolling, Preflight, OfferDropped, SendConsume, CommitRefused, RequestTimesOut, pageVars
  <2> QED BY <1>2, <2>1
<1>8. ASSUME NEW f \in filled, NEW st \in {"completed", "failed"}, CommitEnds(f, st) PROVE FilledWhereGranted'
  BY <1>2, <1>8 DEF CommitEnds
<1>9. ASSUME NEW x \in Execs, Grants(x) PROVE FilledWhereGranted'
  <2>1. doc' = doc /\ filled' = filled
    BY <1>9 DEF Grants, Answered, pageVars
  <2> QED BY <1>2, <2>1
<1> QED BY <1>3, <1>4, <1>5, <1>6, <1>7, <1>8, <1>9 DEF ExtStep

(***************************************************************************)
(* The first connection: the extension's side.                             *)
(***************************************************************************)
\* What the extension's steps keep of it.
ExtKeeps == OneRun /\ InTurn /\ FilledByRun

\* A run that holds a secret after a step held it before.
Inherits ==
  \A l \in Loops : loops'[l].pc \in {"granted", "filling"} =>
    /\ loops[l].pc \in {"granted", "filling"}
    /\ loops'[l].exec = loops[l].exec /\ loops'[l].tab = loops[l].tab

\* A run that was under way goes on, or ends and sets the timer.
Goes(l) ==
  /\ l \in Loops /\ loops[l].pc # "idle" /\ UNCHANGED sessionId
  /\ \A k \in Loops : k # l => loops'[k] = loops[k]
  /\ \/ loops'[l].pc # "idle" /\ UNCHANGED timer
     \/ loops'[l].pc = "idle" /\ timer' = TRUE

\* One run at most stays under way.
LEMMA OneRunGoes ==
  ASSUME OneRun, NEW l, Goes(l)
  PROVE  OneRun'
<1>1. sessionId # NULL /\ ~ timer /\ \A k \in Loops : loops[k].pc # "idle" => k = l
  BY DEF OneRun, Goes
<1>2. \A k \in Loops : loops'[k].pc # "idle" => k = l
  BY <1>1 DEF Goes
<1> QED BY <1>1, <1>2 DEF OneRun, Goes

\* Nothing is on its way.
AllEmpty == \A p \in Ports : wire[p] = << >>

\* Empty queues are in turn.
LEMMA EmptyInTurn ==
  ASSUME AllEmpty' PROVE InTurn'
<1>1. \A p \in Ports : DOMAIN wire'[p] = {}
  BY DEF AllEmpty
<1> QED BY <1>1 DEF InTurn, AllEmpty

\* A run that is not filling a page leaves the secrets to the others.
LEMMA FilledGoes ==
  ASSUME FilledByRun, NEW l \in Loops, loops[l].pc # "filling",
         \A k \in Loops : k # l => loops'[k] = loops[k], UNCHANGED filled
  PROVE  FilledByRun'
<1> SUFFICES ASSUME NEW f \in filled
             PROVE  \E k \in Loops : loops'[k].pc = "filling" /\ loops'[k].exec = f.exec /\ loops'[k].tab = f.tab
  BY DEF FilledByRun
<1>1. PICK k \in Loops : loops[k].pc = "filling" /\ loops[k].exec = f.exec /\ loops[k].tab = f.tab
  BY DEF FilledByRun
<1>2. loops'[k] = loops[k]
  BY <1>1
<1> QED BY <1>1, <1>2

\* The head of a queue that somebody waits for is alone in it, and no other queue has any.
LEMMA AwaitedAlone ==
  ASSUME PathInv, InTurn, NEW p \in Ports, wire[p] # << >>
  PROVE  /\ p = nativePort /\ \A q \in Ports : q # p => wire[q] = << >>
         /\ \A l \in Loops : loops[l].pc \notin PagePcs
         /\ Head(wire[p]).loop # NULL =>
              /\ Len(wire[p]) = 1 /\ Head(wire[p]).loop \in Loops
              /\ loops[Head(wire[p]).loop].pc \in {"polling", "consuming", "reporting"}
<1>1. wire \in [Ports -> Seq(Msg)]
  BY PathParts DEF WireFine
<1>2. p = nativePort /\ \A q \in Ports : q # p => wire[q] = << >>
  BY DEF InTurn
<1>3. \A l \in Loops : loops[l].pc \notin PagePcs
  BY DEF InTurn
<1>4. 1 \in DOMAIN wire[p] /\ Head(wire[p]) = wire[p][1] /\ Head(wire[p]).loop \in Loops \cup {NULL}
  BY <1>1, HeadOfWire DEF Msg
<1>5. Head(wire[p]).loop # NULL =>
        1 = Len(wire[p]) /\ loops[Head(wire[p]).loop].pc \in {"polling", "consuming", "reporting"}
  BY <1>4 DEF InTurn
<1> QED BY <1>2, <1>3, <1>4, <1>5

\* An answer nobody waits for.
LEMMA UnheardInTurn ==
  ASSUME PathInv, InTurn, NEW p \in Ports, wire[p] # << >>, Popped(p), UNCHANGED loops, UNCHANGED nativePort
  PROVE  InTurn'
<1>1. p = nativePort /\ (\A q \in Ports : q # p => wire[q] = << >>) /\ \A l \in Loops : loops[l].pc \notin PagePcs
  BY AwaitedAlone
<1>2. \A q \in Ports : q # nativePort' => wire'[q] = << >>
  BY <1>1 DEF Popped
<1>3. ASSUME NEW q \in Ports, NEW i \in DOMAIN wire'[q], wire'[q][i].loop # NULL
      PROVE  i = Len(wire'[q]) /\ loops'[wire'[q][i].loop].pc \in {"polling", "consuming", "reporting"}
  <2>1. q = p
    <3>1. DOMAIN << >> = {}
      OBVIOUS
    <3> QED BY <1>1, <1>2, <1>3, <3>1
  <2>2. /\ Len(wire[p]) \in Nat /\ i \in 1 .. (Len(wire[p]) - 1) /\ wire'[p][i] = wire[p][i + 1]
        /\ Len(wire'[p]) = Len(wire[p]) - 1
    BY <1>3, <2>1 DEF Popped
  <2>3. i + 1 \in DOMAIN wire[p]
    BY <2>2 DEF Popped
  <2>4. i + 1 = Len(wire[p]) /\ loops[wire[p][i + 1].loop].pc \in {"polling", "consuming", "reporting"}
    BY <1>3, <2>1, <2>2, <2>3 DEF InTurn
  <2> QED BY <2>1, <2>2, <2>4
<1>4. \A l \in Loops : loops'[l].pc \notin PagePcs
  BY <1>1
<1> QED BY <1>2, <1>3, <1>4 DEF InTurn

\* The answer a run waits for empties the queues.
LEMMA HeardEmpty ==
  ASSUME PathInv, InTurn, NEW p \in Ports, wire[p] # << >>, Popped(p), Head(wire[p]).loop # NULL
  PROVE  AllEmpty'
<1>1. (\A q \in Ports : q # p => wire[q] = << >>) /\ Len(wire[p]) = 1
  BY AwaitedAlone
<1>2. Len(wire'[p]) = 0 /\ wire'[p] \in Seq(Msg)
  BY <1>1 DEF Popped
<1>3. wire'[p] = << >>
  BY <1>2
<1> QED BY <1>1, <1>3 DEF Popped, AllEmpty

\* Answers.
LEMMA AnswersKeep ==
  ASSUME PathInv, ExtKeeps, NEW p \in Ports, wire[p] # << >>, Popped(p), UNCHANGED <<linkVars, pageVars>>,
         \/ Head(wire[p]).loop = NULL /\ UNCHANGED <<loops, timer>>
         \/ \E l \in Loops : /\ l = Head(wire[p]).loop
                             /\ \A k \in Loops : k # l => loops'[k] = loops[k]
                             /\ \/ loops'[l].pc # "idle" /\ UNCHANGED timer
                                \/ loops'[l].pc = "idle" /\ timer' = TRUE
  PROVE  ExtKeeps'
<1>1. UNCHANGED nativePort /\ UNCHANGED sessionId /\ UNCHANGED filled
  BY DEF linkVars, pageVars
<1>2. CASE Head(wire[p]).loop = NULL /\ UNCHANGED <<loops, timer>>
  <2>1. InTurn'
    BY <1>1, <1>2, UnheardInTurn DEF ExtKeeps
  <2> QED BY <1>1, <1>2, <2>1 DEF ExtKeeps, OneRun, FilledByRun
<1>3. ASSUME NEW l \in Loops, l = Head(wire[p]).loop,
             \A k \in Loops : k # l => loops'[k] = loops[k],
             \/ loops'[l].pc # "idle" /\ UNCHANGED timer
             \/ loops'[l].pc = "idle" /\ timer' = TRUE
      PROVE  ExtKeeps'
  <2>1. Head(wire[p]).loop # NULL
    BY <1>3, ExtensionAssumption
  <2>2. loops[l].pc \in {"polling", "consuming", "reporting"}
    BY <1>3, <2>1, AwaitedAlone DEF ExtKeeps
  <2>3. Goes(l)
    BY <1>1, <1>3, <2>2 DEF Goes
  <2>4. OneRun'
    BY <2>3, OneRunGoes DEF ExtKeeps
  <2>5. InTurn'
    BY <2>1, HeardEmpty, EmptyInTurn DEF ExtKeeps
  <2>6. FilledByRun'
    BY <1>1, <1>3, <2>2, FilledGoes DEF ExtKeeps
  <2> QED BY <2>4, <2>5, <2>6 DEF ExtKeeps
<1> QED BY <1>2, <1>3

\* A run that waits for a page sends its next request: it is the only one on its way.
LEMMA SendInTurn ==
  ASSUME PathInv, OneRun, InTurn, NEW l \in Loops, loops[l].pc \in PagePcs \/ AllEmpty,
         NEW p \in Ports, p = nativePort, UNCHANGED nativePort, NEW m \in Msg, m.loop = l, Pushed(p, m),
         loops'[l].pc \in {"polling", "consuming", "reporting"},
         \A k \in Loops : k # l => loops'[k] = loops[k] /\ loops[k].pc = "idle"
  PROVE  InTurn'
<1>1. AllEmpty
  BY DEF InTurn, AllEmpty
<1>2. wire[p] = << >> /\ Len(wire[p]) = 0
  BY <1>1 DEF AllEmpty
<1>3. \A q \in Ports : q # nativePort' => wire'[q] = << >>
  BY <1>1 DEF AllEmpty, Pushed
<1>4. Len(wire'[p]) = 1 /\ DOMAIN wire'[p] = 1 .. 1 /\ wire'[p][1] = m
  BY <1>2 DEF Pushed
<1>5. ASSUME NEW q \in Ports, NEW i \in DOMAIN wire'[q]
      PROVE  i = Len(wire'[q]) /\ loops'[wire'[q][i].loop].pc \in {"polling", "consuming", "reporting"}
  <2>1. q = p
    <3>1. DOMAIN << >> = {}
      OBVIOUS
    <3> QED BY <1>3, <1>5, <3>1
  <2>2. i = 1
    BY <1>4, <2>1
  <2> QED BY <1>4, <2>1, <2>2
<1>6. \A k \in Loops : loops'[k].pc \notin PagePcs
  BY DEF PagePcs
<1> QED BY <1>3, <1>5, <1>6 DEF InTurn

\* A run that nobody else is beside sends its poll: what is still on its way nobody waits for.
LEMMA PollKeeps ==
  ASSUME PathInv, ExtKeeps, NEW l \in Loops, Poll(l)
  PROVE  ExtKeeps'
<1>0. RunsFine /\ WireFine /\ LinkFine
  BY PathParts
<1>1. loops \in [Loops -> Run] /\ wire \in [Ports -> Seq(Msg)] /\ nativePort \in Ports \cup {NULL}
  BY <1>0 DEF RunsFine, WireFine, LinkFine
<1>2. \A k \in Loops : loops[k].pc = "idle"
  BY DEF Poll, ExtKeeps, OneRun
<1> DEFINE m == Message("next", l, NULL, NULL, NULL)
<1>3. m \in Msg /\ m.loop = l
  BY DEF Message, Msg
<1>4. PICK p \in Ports : p = nativePort
  BY <1>1 DEF Poll
<1>5. wire' = [wire EXCEPT ![p] = Append(@, m)]
  BY <1>4 DEF Poll
<1> HIDE DEF m
<1>6. Pushed(p, m)
  BY <1>1, <1>3, <1>5, PushedWire
<1>7. /\ sessionId # NULL /\ timer' = FALSE /\ UNCHANGED sessionId /\ UNCHANGED nativePort /\ UNCHANGED filled
      /\ loops' = [loops EXCEPT ![l].pc = "polling"] /\ "polling" \in PCs
  BY DEF Poll, linkVars, pageVars, PCs
<1>8. loops'[l].pc = "polling" /\ \A k \in Loops : k # l => loops'[k] = loops[k]
  BY <1>1, <1>7, RunSteps
<1>9. OneRun'
  BY <1>2, <1>7, <1>8 DEF OneRun
<1>10. InTurn'
  <2>1. \A q \in Ports : q # nativePort' => wire'[q] = << >>
    BY <1>4, <1>6, <1>7 DEF ExtKeeps, InTurn, Pushed
  <2>2. ASSUME NEW q \in Ports, NEW i \in DOMAIN wire[q] PROVE wire[q][i].loop = NULL
    <3>1. wire[q][i] \in Msg
      BY <1>1, <2>2
    <3>2. wire[q][i].loop \in Loops \cup {NULL}
      BY <3>1 DEF Msg
    <3> QED BY <1>2, <3>2 DEF ExtKeeps, InTurn
  <2>3. ASSUME NEW q \in Ports, NEW i \in DOMAIN wire'[q], wire'[q][i].loop # NULL
        PROVE  i = Len(wire'[q]) /\ loops'[wire'[q][i].loop].pc \in {"polling", "consuming", "reporting"}
    <3>1. q = p
      <4>1. DOMAIN << >> = {}
        OBVIOUS
      <4> QED BY <1>4, <1>7, <2>1, <2>3, <4>1
    <3>2. i = Len(wire[p]) + 1 \/ i \in 1 .. Len(wire[p])
      BY <1>6, <2>3, <3>1 DEF Pushed
    <3>3. i \notin 1 .. Len(wire[p])
      BY <1>6, <2>2, <2>3, <3>1 DEF Pushed
    <3> QED BY <1>3, <1>6, <1>8, <3>1, <3>2, <3>3 DEF Pushed
  <2>4. \A k \in Loops : loops'[k].pc \notin PagePcs
    BY <1>2, <1>8 DEF PagePcs
  <2> QED BY <2>1, <2>3, <2>4 DEF InTurn
<1>11. FilledByRun'
  BY <1>2, <1>7, <1>8, FilledGoes DEF ExtKeeps
<1> QED BY <1>9, <1>10, <1>11 DEF ExtKeeps

\* A run that does not wait for an answer goes on, or ends, without a request.
LEMMA QuietKeeps ==
  ASSUME PathInv, OneRun, InTurn, NEW l \in Loops, Goes(l), UNCHANGED wire, UNCHANGED nativePort,
         loops[l].pc \notin {"polling", "consuming", "reporting"}, loops'[l].pc \in PagePcs => loops[l].pc \in PagePcs
  PROVE  OneRun' /\ InTurn'
<1>1. OneRun'
  BY OneRunGoes
<1>2. wire \in [Ports -> Seq(Msg)]
  BY PathParts DEF WireFine
<1>3. ASSUME NEW q \in Ports, NEW i \in DOMAIN wire[q], wire[q][i].loop # NULL
      PROVE  i = Len(wire[q]) /\ loops'[wire[q][i].loop].pc \in {"polling", "consuming", "reporting"}
  <2>1. wire[q][i] \in Msg
    BY <1>2
  <2>2. PICK k \in Loops : k = wire[q][i].loop
    BY <1>3, <2>1 DEF Msg
  <2>3. i = Len(wire[q]) /\ loops[k].pc \in {"polling", "consuming", "reporting"}
    BY <1>3, <2>2 DEF InTurn
  <2> QED BY <2>2, <2>3 DEF Goes
<1>4. ASSUME NEW k \in Loops, loops'[k].pc \in PagePcs PROVE AllEmpty
  BY <1>4 DEF InTurn, Goes, AllEmpty
<1> QED BY <1>1, <1>3, <1>4 DEF InTurn, AllEmpty

\* A request that times out is abandoned where it is.
LEMMA TimeoutKeeps ==
  ASSUME PathInv, ExtKeeps, NEW l \in Loops, RequestTimesOut(l)
  PROVE  ExtKeeps'
<1>1. loops \in [Loops -> Run] /\ wire \in [Ports -> Seq(Msg)]
  BY PathParts DEF RunsFine, WireFine
<1>2. /\ loops[l].pc \in {"polling", "consuming", "reporting"} /\ EndRun(l) /\ wire' = Abandon(wire, {l})
      /\ UNCHANGED sessionId /\ UNCHANGED nativePort /\ UNCHANGED filled
  BY DEF RequestTimesOut, Waiting, linkVars, pageVars
<1>3. /\ loops'[l].pc = "idle" /\ timer' = TRUE /\ \A k \in Loops : k # l => loops'[k] = loops[k]
  BY <1>1, <1>2, RunEnds
<1>4. Relabelled({l})
  BY <1>1, <1>2, RelabelledWire
<1>5. OneRun'
  <2>1. Goes(l)
    BY <1>2, <1>3 DEF Goes
  <2> QED BY <2>1, OneRunGoes DEF ExtKeeps
<1>6. \A q \in Ports : wire[q] = << >> => wire'[q] = << >>
  <2> SUFFICES ASSUME NEW q \in Ports, wire[q] = << >> PROVE wire'[q] = << >>
    OBVIOUS
  <2>1. Len(wire'[q]) = 0 /\ wire'[q] \in Seq(Msg)
    BY <1>4 DEF Relabelled
  <2> QED BY <2>1
<1>7. ASSUME NEW q \in Ports, NEW i \in DOMAIN wire'[q], wire'[q][i].loop # NULL
      PROVE  i = Len(wire'[q]) /\ loops'[wire'[q][i].loop].pc \in {"polling", "consuming", "reporting"}
  <2>1. i \in DOMAIN wire[q] /\ Len(wire'[q]) = Len(wire[q]) /\ wire[q][i].loop # l /\ wire'[q][i].loop = wire[q][i].loop
    BY <1>4, <1>7 DEF Relabelled
  <2>2. wire[q][i] \in Msg
    BY <1>1, <2>1
  <2>3. PICK k \in Loops : k = wire[q][i].loop /\ k # l
    BY <1>7, <2>1, <2>2 DEF Msg
  <2>4. i = Len(wire[q]) /\ loops[k].pc \in {"polling", "consuming", "reporting"}
    BY <1>7, <2>1, <2>3 DEF ExtKeeps, InTurn
  <2> QED BY <1>3, <2>1, <2>3, <2>4
<1>8. ASSUME NEW k \in Loops, loops'[k].pc \in PagePcs PROVE AllEmpty'
  <2>1. loops[k].pc \in PagePcs
    BY <1>3, <1>8 DEF PagePcs
  <2> QED BY <1>6, <2>1 DEF ExtKeeps, InTurn, AllEmpty
<1>9. InTurn'
  BY <1>2, <1>6, <1>7, <1>8 DEF ExtKeeps, InTurn, AllEmpty
<1>10. FilledByRun'
  BY <1>2, <1>3, FilledGoes DEF ExtKeeps
<1> QED BY <1>5, <1>9, <1>10 DEF ExtKeeps

\* A run reports its result, the secret gone from the page.
LEMMA ReportInTurn ==
  ASSUME PathInv, ExecOnward, OneRun, InTurn, NEW l \in Loops, loops[l].pc \in {"granted", "filling"},
         NEW st \in {"completed", "failed"}, Report(l, loops[l].exec, st), UNCHANGED linkVars
  PROVE  OneRun' /\ InTurn' /\ \A k \in Loops : k # l => loops'[k] = loops[k]
<1>0. RunsFine /\ WireFine /\ LinkFine
  BY PathParts
<1>1. sessionId # NULL /\ \A k \in Loops : k # l => loops[k].pc = "idle"
  BY DEF OneRun
<1>2. nativePort # NULL /\ nativePort \in Ports \cup {NULL}
  BY <1>0, <1>1 DEF LinkFine
<1>3. PICK p \in Ports : p = nativePort
  BY <1>2
<1>4. /\ \A k \in Loops : k # l => loops'[k] = loops[k]
      /\ UNCHANGED timer /\ loops'[l].pc = "reporting"
      /\ \E m \in Msg : Pushed(p, m) /\ m.loop = l
  BY <1>0, <1>2, <1>3, ReportKeeps
<1>5. PICK m \in Msg : Pushed(p, m) /\ m.loop = l
  BY <1>4
<1>6. InTurn'
  <2>1. loops[l].pc \in PagePcs
    BY DEF PagePcs
  <2>2. UNCHANGED nativePort
    BY DEF linkVars
  <2> QED BY <1>1, <1>3, <1>4, <1>5, <2>1, <2>2, SendInTurn
<1>7. Goes(l)
  BY <1>4 DEF Goes, linkVars
<1> QED BY <1>4, <1>6, <1>7, OneRunGoes

\* The steps of a run.
LEMMA RunsKeep ==
  ASSUME PathInv, ExecOnward, ExtKeeps, NEW l \in Loops, RunGoesOn(l)
  PROVE  ExtKeeps'
<1>0. RunsFine /\ WireFine /\ LinkFine
  BY PathParts
<1>1. loops \in [Loops -> Run] /\ wire \in [Ports -> Seq(Msg)] /\ nativePort \in Ports \cup {NULL}
  BY <1>0 DEF RunsFine, WireFine, LinkFine
<1>2. CASE Poll(l)
  BY <1>2, PollKeeps
<1>3. CASE RequestTimesOut(l)
  BY <1>3, TimeoutKeeps
<1>4. CASE StartPolling(l) \/ OfferDropped(l)
  <2>1. /\ loops[l].pc \in {"starting", "offered", "prepared", "granted"} /\ EndRun(l)
        /\ UNCHANGED sessionId /\ UNCHANGED nativePort /\ UNCHANGED wire /\ UNCHANGED filled
    BY <1>4 DEF StartPolling, OfferDropped, linkVars, pageVars
  <2>2. /\ loops'[l].pc = "idle" /\ timer' = TRUE /\ \A k \in Loops : k # l => loops'[k] = loops[k]
    BY <1>1, <2>1, RunEnds
  <2>3. Goes(l)
    BY <2>1, <2>2 DEF Goes
  <2>4. loops[l].pc \notin {"polling", "consuming", "reporting"} /\ loops'[l].pc \notin PagePcs
    BY <2>1, <2>2 DEF PagePcs
  <2>5. OneRun' /\ InTurn'
    BY <2>1, <2>3, <2>4, QuietKeeps DEF ExtKeeps
  <2>6. FilledByRun'
    BY <2>1, <2>2, FilledGoes DEF ExtKeeps
  <2> QED BY <2>5, <2>6 DEF ExtKeeps
<1>5. ASSUME NEW c \in {"prepared", "filling"}, loops[l].pc \in {"offered", "granted"},
             loops' = [loops EXCEPT ![l].pc = c], UNCHANGED <<linkVars, wire, timer>>
      PROVE  /\ OneRun' /\ InTurn' /\ \A k \in Loops : k # l => loops'[k] = loops[k]
             /\ loops'[l].pc = c /\ loops'[l].exec = loops[l].exec /\ loops'[l].tab = loops[l].tab
  <2>1. c \in PCs
    BY DEF PCs
  <2>2. /\ \A k \in Loops : k # l => loops'[k] = loops[k]
        /\ loops'[l].pc = c /\ loops'[l].exec = loops[l].exec /\ loops'[l].tab = loops[l].tab
    BY <1>1, <1>5, <2>1, RunSteps
  <2>3. Goes(l) /\ UNCHANGED wire /\ UNCHANGED nativePort
    BY <1>5, <2>2 DEF Goes, linkVars
  <2>4. loops[l].pc \notin {"polling", "consuming", "reporting"} /\ loops[l].pc \in PagePcs
    BY <1>5 DEF PagePcs
  <2> QED BY <2>2, <2>3, <2>4, QuietKeeps DEF ExtKeeps
<1>6. CASE Preflight(l)
  <2>1. /\ loops[l].pc = "offered" /\ loops' = [loops EXCEPT ![l].pc = "prepared"]
        /\ UNCHANGED <<linkVars, wire, timer>> /\ UNCHANGED filled
    BY <1>6 DEF Preflight, pageVars
  <2>2. OneRun' /\ InTurn' /\ \A k \in Loops : k # l => loops'[k] = loops[k]
    BY <1>5, <2>1
  <2>3. FilledByRun'
    BY <2>1, <2>2, FilledGoes DEF ExtKeeps
  <2> QED BY <2>2, <2>3 DEF ExtKeeps
<1>7. CASE Fill(l)
  <2>1. /\ loops[l].pc = "granted" /\ loops' = [loops EXCEPT ![l].pc = "filling"]
        /\ UNCHANGED <<linkVars, wire, timer>>
    BY <1>7 DEF Fill
  <2>2. /\ OneRun' /\ InTurn' /\ \A k \in Loops : k # l => loops'[k] = loops[k]
        /\ loops'[l].pc = "filling" /\ loops'[l].exec = loops[l].exec /\ loops'[l].tab = loops[l].tab
    BY <1>5, <2>1
  <2>3. FilledByRun'
    <3> SUFFICES ASSUME NEW f \in filled'
                 PROVE  \E k \in Loops : loops'[k].pc = "filling" /\ loops'[k].exec = f.exec /\ loops'[k].tab = f.tab
      BY DEF FilledByRun
    <3>1. CASE f \in filled
      <4>1. PICK k \in Loops : loops[k].pc = "filling" /\ loops[k].exec = f.exec /\ loops[k].tab = f.tab
        BY <3>1 DEF ExtKeeps, FilledByRun
      <4>2. loops'[k] = loops[k]
        BY <2>1, <2>2, <4>1
      <4> QED BY <4>1, <4>2
    <3>2. CASE f \notin filled
      <4>1. f.exec = loops[l].exec /\ f.tab = loops[l].tab
        BY <1>7, <3>2 DEF Fill
      <4> QED BY <2>2, <4>1
    <3> QED BY <3>1, <3>2
  <2> QED BY <2>2, <2>3 DEF ExtKeeps
<1>8. CASE SendConsume(l)
  <2>1. Known(loops[l].exec, loops[l].tab, loops[l].doc)
    BY <1>0, <1>8 DEF SendConsume, RunsFine, RunHolds, OfferPcs
  <2>2. loops[l].exec \in Execs /\ loops[l].tab \in Tabs
    BY <2>1 DEF Known
  <2>3. doc[loops[l].tab] \in Nat
    BY <2>2, ExtensionAssumption, PathParts DEF PageFine
  <2> DEFINE m == Message("consume", l, loops[l].exec, doc[loops[l].tab], NULL)
  <2>4. m \in Msg /\ m.loop = l
    BY <2>2, <2>3 DEF Message, Msg
  <2>5. PICK p \in Ports : p = nativePort
    BY <1>1, <1>8 DEF SendConsume
  <2>6. /\ loops[l].pc = "prepared" /\ wire' = [wire EXCEPT ![p] = Append(@, m)]
        /\ loops' = [loops EXCEPT ![l].pc = "consuming"] /\ UNCHANGED timer
        /\ UNCHANGED sessionId /\ UNCHANGED nativePort /\ UNCHANGED filled
    BY <1>8, <2>5 DEF SendConsume, linkVars, pageVars
  <2> HIDE DEF m
  <2>7. Pushed(p, m)
    BY <1>1, <2>4, <2>6, PushedWire
  <2>8. "consuming" \in PCs /\ loops[l].pc \in PagePcs
    BY <2>6 DEF PCs, PagePcs
  <2>9. loops'[l].pc = "consuming" /\ \A k \in Loops : k # l => loops'[k] = loops[k]
    BY <1>1, <2>6, <2>8, RunSteps
  <2>10. OneRun /\ InTurn /\ FilledByRun /\ \A k \in Loops : k # l => loops[k].pc = "idle"
    BY <2>6 DEF ExtKeeps, OneRun
  <2>11. InTurn'
    BY <2>4, <2>5, <2>6, <2>7, <2>8, <2>9, <2>10, SendInTurn
  <2>12. OneRun'
    <3>1. Goes(l)
      BY <2>6, <2>9 DEF Goes
    <3> QED BY <2>10, <3>1, OneRunGoes
  <2>13. FilledByRun'
    BY <2>6, <2>9, <2>10, FilledGoes
  <2> QED BY <2>11, <2>12, <2>13 DEF ExtKeeps
<1>9. CASE CommitRefused(l)
  <2>1. loops[l].pc = "granted" /\ Report(l, loops[l].exec, "failed") /\ UNCHANGED linkVars /\ UNCHANGED filled
    BY <1>9 DEF CommitRefused, pageVars
  <2>2. OneRun' /\ InTurn' /\ \A k \in Loops : k # l => loops'[k] = loops[k]
    BY <2>1, ReportInTurn DEF ExtKeeps
  <2>3. FilledByRun'
    BY <2>1, <2>2, FilledGoes DEF ExtKeeps
  <2> QED BY <2>2, <2>3 DEF ExtKeeps
<1> QED BY <1>2, <1>3, <1>4, <1>6, <1>7, <1>8, <1>9 DEF RunGoesOn

\* The page is done with the secret: no other is in it.
LEMMA CommitKeeps ==
  ASSUME PathInv, ExecOnward, FilledWhereGranted, ExtKeeps,
         NEW f \in filled, NEW st \in {"completed", "failed"}, CommitEnds(f, st)
  PROVE  ExtKeeps'
<1>0. PageFine /\ OneRun /\ InTurn /\ FilledByRun
  BY PathParts DEF ExtKeeps
<1>1. PICK l \in Loops : loops[l].pc = "filling" /\ loops[l].exec = f.exec /\ Report(l, f.exec, st)
  BY <1>0 DEF CommitEnds, FilledByRun
<1>2. \A k \in Loops : loops[k].pc = "filling" => k = l
  BY <1>0, <1>1 DEF OneRun
<1>3. ASSUME NEW g \in filled PROVE g = f
  <2>1. g.exec = loops[l].exec /\ g.tab = loops[l].tab /\ f.exec = loops[l].exec /\ f.tab = loops[l].tab
    BY <1>0, <1>2 DEF FilledByRun
  <2>2. g.doc = f.doc
    BY <2>1 DEF FilledWhereGranted
  <2>3. g \in [exec : Execs, tab : Tabs, doc : 1 .. MaxDocs] /\ f \in [exec : Execs, tab : Tabs, doc : 1 .. MaxDocs]
    BY <1>0 DEF PageFine
  <2>4. g.exec = f.exec /\ g.tab = f.tab
    BY <2>1
  <2> QED BY <2>2, <2>3, <2>4
<1>4. filled' = {}
  BY <1>3 DEF CommitEnds
<1>5. UNCHANGED linkVars
  BY DEF CommitEnds
<1>6. OneRun' /\ InTurn'
  BY <1>0, <1>1, <1>5, ReportInTurn
<1> QED BY <1>4, <1>6 DEF ExtKeeps, FilledByRun

\* A navigation ends the run that was filling the page.
LEMMA NavigateKeeps ==
  ASSUME PathInv, ExtKeeps, NEW t \in Tabs, Navigate(t)
  PROVE  ExtKeeps'
<1>0. OneRun /\ InTurn /\ FilledByRun /\ loops \in [Loops -> Run] /\ timer \in BOOLEAN
  BY PathParts DEF ExtKeeps, RunsFine, LinkFine
<1> DEFINE cut == {l \in Loops : loops[l].pc = "filling" /\ loops[l].tab = t}
<1>1. /\ filled' = {f \in filled : f.tab # t} /\ EndRuns(cut) /\ timer' = (timer \/ cut # {})
      /\ UNCHANGED <<linkVars, wire>>
  BY DEF Navigate
<1>2. /\ loops' \in [Loops -> Run]
      /\ \A k \in Loops : \/ k \in cut /\ loops'[k].pc = "idle"
                          \/ k \notin cut /\ loops'[k] = loops[k]
  BY <1>0, <1>1, RunsEnd
<1>3. FilledByRun'
  <2> SUFFICES ASSUME NEW f \in filled'
               PROVE  \E k \in Loops : loops'[k].pc = "filling" /\ loops'[k].exec = f.exec /\ loops'[k].tab = f.tab
    BY DEF FilledByRun
  <2>1. f \in filled /\ f.tab # t
    BY <1>1
  <2>2. PICK k \in Loops : loops[k].pc = "filling" /\ loops[k].exec = f.exec /\ loops[k].tab = f.tab
    BY <1>0, <2>1 DEF FilledByRun
  <2>3. loops'[k] = loops[k]
    BY <1>2, <2>1, <2>2
  <2> QED BY <2>2, <2>3
<1>4. CASE cut = {}
  <2>1. loops' = loops /\ timer' = timer
    BY <1>0, <1>1, <1>2, <1>4
  <2>2. UNCHANGED nativePort /\ UNCHANGED sessionId /\ UNCHANGED wire
    BY <1>1 DEF linkVars
  <2> QED BY <1>0, <1>3, <2>1, <2>2 DEF ExtKeeps, OneRun, InTurn
<1>5. ASSUME NEW l \in cut PROVE ExtKeeps'
  <2>1. l \in Loops /\ loops[l].pc = "filling" /\ loops'[l].pc = "idle"
    BY <1>2
  <2>2. timer' = TRUE
    BY <1>1
  <2>3. \A k \in Loops : k # l => loops'[k] = loops[k]
    BY <1>0, <1>2, <2>1 DEF OneRun
  <2>4. Goes(l) /\ UNCHANGED wire /\ UNCHANGED nativePort
    BY <1>1, <2>1, <2>2, <2>3 DEF Goes, linkVars
  <2>5. loops[l].pc \notin {"polling", "consuming", "reporting"} /\ loops'[l].pc \notin PagePcs
    BY <2>1 DEF PagePcs
  <2> QED BY <1>0, <1>3, <2>1, <2>4, <2>5, QuietKeeps DEF ExtKeeps
<1> QED BY <1>4, <1>5

\* While the connection lasts, every step of the extension keeps its side.
LEMMA ExtKept ==
  ASSUME PathInv, ExecOnward, FilledWhereGranted, ExtKeeps, ExtStep, ~ Breaks
  PROVE  ExtKeeps'
<1>0. LinkFine /\ OneRun /\ InTurn /\ FilledByRun /\ loops \in [Loops -> Run]
  BY PathParts DEF ExtKeeps, RunsFine
<1>1. CASE UNCHANGED extVars
  BY <1>0, <1>1 DEF extVars, ExtKeeps, OneRun, InTurn, FilledByRun
<1>2. ASSUME NEW p \in Ports, Connect(p) PROVE ExtKeeps'
  <2>1. AllEmpty
    BY <1>0, <1>2, IdsAssumption DEF Connect, InTurn, AllEmpty
  <2>2. AllEmpty'
    BY <1>2, <2>1 DEF Connect, AllEmpty
  <2>3. InTurn'
    BY <2>2, EmptyInTurn
  <2> QED BY <1>0, <1>2, <2>3 DEF Connect, ExtKeeps, OneRun, FilledByRun, pageVars
<1>3. ASSUME NEW p \in Ports, NEW l \in Loops, Registered(p, l) PROVE ExtKeeps'
  <2>1. ~ timer /\ \A k \in Loops : loops[k].pc = "idle"
    BY <1>0, <1>3 DEF Registered, OneRun
  <2>2. /\ sessionId' # NULL /\ UNCHANGED timer /\ loops' = [loops EXCEPT ![l].pc = "starting"] /\ "starting" \in PCs
        /\ UNCHANGED wire /\ UNCHANGED nativePort /\ UNCHANGED filled
    BY <1>3, IdsAssumption DEF Registered, PCs, pageVars
  <2>3. loops'[l].pc = "starting" /\ \A k \in Loops : k # l => loops'[k] = loops[k]
    BY <1>0, <2>2, RunSteps
  <2>4. OneRun'
    BY <2>1, <2>2, <2>3 DEF OneRun
  <2>5. FilledByRun'
    BY <1>0, <2>1, <2>2, <2>3, FilledGoes
  <2>6. InTurn'
    <3>1. wire \in [Ports -> Seq(Msg)]
      BY PathParts DEF WireFine
    <3>2. ASSUME NEW q \in Ports, NEW i \in DOMAIN wire[q] PROVE wire[q][i].loop = NULL
      <4>1. wire[q][i] \in Msg
        BY <3>1, <3>2
      <4>2. wire[q][i].loop \in Loops \cup {NULL}
        BY <4>1 DEF Msg
      <4> QED BY <1>0, <2>1, <4>2 DEF InTurn
    <3>3. \A k \in Loops : loops'[k].pc \notin PagePcs
      BY <2>1, <2>3 DEF PagePcs
    <3> QED BY <1>0, <2>2, <3>2, <3>3 DEF InTurn
  <2> QED BY <2>4, <2>5, <2>6 DEF ExtKeeps
<1>4. ASSUME NEW p \in Ports, Closes(p) PROVE ExtKeeps'
  BY <1>4, ClosesShape, AnswersKeep
<1>5. ASSUME NEW p \in Ports, NEW x \in Execs, NEW pc \in {"offered", "granted"},
             \/ pc = "offered" /\ Offers(p, x)
             \/ pc = "granted" /\ Grants(x) /\ p = exec[x].sess
      PROVE  ExtKeeps'
  <2>1. /\ wire[p] # << >> /\ Popped(p) /\ UNCHANGED <<linkVars, pageVars, timer>>
        /\ \/ Head(wire[p]).loop = NULL /\ UNCHANGED loops
           \/ \E l \in Loops : /\ l = Head(wire[p]).loop
                               /\ \A k \in Loops : k # l => loops'[k] = loops[k]
                               /\ loops'[l].pc = pc /\ loops'[l].exec = x /\ loops'[l].tab = exec[x].tab
    BY <1>5, HandsShape
  <2> QED BY <2>1, AnswersKeep
<1>6. ASSUME NEW x \in Execs, Grants(x) PROVE ExtKeeps'
  <2>1. PICK p \in Ports : p = exec[x].sess
    BY <1>6, PathParts DEF Grants, WindowTypeOK, ActiveExecution
  <2> QED BY <1>5, <1>6, <2>1
<1> QED BY <1>1, <1>2, <1>3, <1>4, <1>5, <1>6, RunsKeep, CommitKeeps, NavigateKeeps DEF ExtStep

\* The steps of the extension that neither end a connection nor answer a request.
ExtQuiet ==
  \/ UNCHANGED extVars
  \/ \E p \in Ports : Connect(p) \/ \E l \in Loops : Registered(p, l)
  \/ \E l \in Loops : RunGoesOn(l)
  \/ \E f \in filled, st \in {"completed", "failed"} : CommitEnds(f, st)
  \/ \E t \in Tabs : Navigate(t)

\* Only the answer to a consume hands a secret to a run.
LEMMA Inherited ==
  ASSUME PathInv, ExtQuiet \/ \E p \in Ports : Closes(p) \/ \E x \in Execs : Offers(p, x)
  PROVE  Inherits
<1>0. RunsFine /\ WireFine /\ LinkFine
  BY PathParts
<1>1. loops \in [Loops -> Run]
  BY <1>0 DEF RunsFine
<1>2. ASSUME NEW L, EndRuns(L) PROVE Inherits
  <2>1. \A k \in Loops : \/ k \in L /\ loops'[k].pc = "idle"
                         \/ k \notin L /\ loops'[k] = loops[k]
    BY <1>1, <1>2, RunsEnd
  <2> QED BY <2>1 DEF Inherits
<1>3. ASSUME NEW l \in Loops, EndRun(l) PROVE Inherits
  <2>1. loops'[l].pc = "idle" /\ \A k \in Loops : k # l => loops'[k] = loops[k]
    BY <1>1, <1>3, RunEnds
  <2> QED BY <2>1 DEF Inherits
<1>4. CASE UNCHANGED loops
  BY <1>4 DEF Inherits
<1>5. ASSUME NEW l \in Loops, NEW c \in PCs, loops' = [loops EXCEPT ![l].pc = c],
             c \in {"granted", "filling"} => loops[l].pc \in {"granted", "filling"}
      PROVE  Inherits
  <2>1. /\ \A k \in Loops : k # l => loops'[k] = loops[k]
        /\ loops'[l].pc = c /\ loops'[l].exec = loops[l].exec /\ loops'[l].tab = loops[l].tab
    BY <1>1, <1>5, RunSteps
  <2> QED BY <1>5, <2>1 DEF Inherits
<1>c. {"polling", "prepared", "consuming", "filling", "starting", "reporting"} \subseteq PCs
  BY DEF PCs
<1>6. CASE UNCHANGED extVars
  BY <1>4, <1>6 DEF extVars
<1>7. ASSUME NEW p \in Ports, Connect(p) \/ \E l \in Loops : Registered(p, l) PROVE Inherits
  BY <1>4, <1>5, <1>7, <1>c DEF Connect, Registered
<1>8. ASSUME NEW p \in Ports, Closes(p) PROVE Inherits
  <2>1. UNCHANGED loops \/ \E l \in Loops : /\ \A k \in Loops : k # l => loops'[k] = loops[k]
                                            /\ loops'[l].pc = "idle"
    BY <1>8, ClosesShape
  <2> QED BY <1>4, <2>1 DEF Inherits
<1>9. ASSUME NEW p \in Ports, NEW x \in Execs, Offers(p, x) PROVE Inherits
  <2>1. UNCHANGED loops \/ \E l \in Loops : /\ \A k \in Loops : k # l => loops'[k] = loops[k]
                                            /\ loops'[l].pc = "offered"
    BY <1>9, HandsShape
  <2> QED BY <1>4, <2>1 DEF Inherits
<1>10. ASSUME NEW l \in Loops, RunGoesOn(l) PROVE Inherits
  <2>1. CASE StartPolling(l) \/ OfferDropped(l) \/ RequestTimesOut(l)
    BY <1>3, <2>1 DEF StartPolling, OfferDropped, RequestTimesOut
  <2>2. CASE Poll(l) \/ Preflight(l) \/ SendConsume(l) \/ Fill(l)
    BY <1>5, <1>c, <2>2 DEF Poll, Preflight, SendConsume, Fill
  <2>3. CASE CommitRefused(l)
    BY <1>3, <1>5, <1>c, <2>3 DEF CommitRefused, Report
  <2> QED BY <1>10, <2>1, <2>2, <2>3 DEF RunGoesOn
<1>11. ASSUME NEW f \in filled, NEW st \in {"completed", "failed"}, CommitEnds(f, st) PROVE Inherits
  BY <1>3, <1>4, <1>5, <1>c, <1>11 DEF CommitEnds, Report
<1>12. ASSUME NEW t \in Tabs, Navigate(t) PROVE Inherits
  BY <1>2, <1>12 DEF Navigate
<1> QED BY <1>6, <1>7, <1>8, <1>9, <1>10, <1>11, <1>12 DEF ExtQuiet

(***************************************************************************)
(* The first connection: the broker's side.                                *)
(***************************************************************************)
\* A connection that is undisturbed after a step was so before it, and did not break.
LEMMA StillUndisturbed ==
  ASSUME PathInv, ExtStep, lapsed => lapsed', Undisturbed'
  PROVE  Undisturbed /\ (Breaks => BrowserEnds /\ Ports = {})
<1>0. LinkFine /\ ~ lapsed
  BY PathParts DEF Undisturbed
<1>1. \A p \in Ports : p # NULL
  BY IdsAssumption
<1>2. ASSUME Breaks PROVE BrowserEnds /\ Ports = {}
  <2>1. CASE BrowserEnds
    <3>1. \A p \in Ports : port'[p] = "closed" /\ nativePort' = NULL
      BY <2>1 DEF BrowserEnds
    <3> QED BY <1>1, <2>1, <3>1 DEF Undisturbed
  <2>2. CASE WorkerStops
    <3>1. \E p \in Ports : port'[p] = "closed" /\ nativePort' = NULL
      BY <2>2 DEF WorkerStops
    <3> QED BY <1>1, <3>1 DEF Undisturbed
  <2>3. ASSUME NEW p \in Ports, RegisterFails(p) PROVE FALSE
    <3>1. port'[p] # "new" /\ nativePort' = NULL
      BY <1>0, <1>1, <2>3 DEF RegisterFails, LinkFine
    <3> QED BY <1>1, <3>1 DEF Undisturbed
  <2>4. ASSUME NEW p \in Ports, Disconnect(p) PROVE FALSE
    <3>1. port'[p] = "closed" /\ nativePort' = NULL
      BY <1>0, <2>4 DEF Disconnect, LinkFine
    <3> QED BY <1>1, <3>1 DEF Undisturbed
  <2> QED BY <1>2, <2>1, <2>2, <2>3, <2>4 DEF Breaks
<1>3. CASE Ports = {}
  <2>1. Undisturbed
    BY <1>0, <1>3 DEF Undisturbed
  <2> QED BY <1>2, <2>1
<1>4. ASSUME NEW p \in Ports, Connect(p) PROVE Undisturbed
  <2>1. port[p] = "new" /\ nativePort' = p /\ \A q \in Ports : q # p => port'[q] = port[q]
    BY <1>0, <1>4 DEF Connect, LinkFine
  <2>2. \A q \in Ports : port'[q] # "new" => nativePort' = q
    BY DEF Undisturbed
  <2>3. \A q \in Ports : port[q] = "new"
    BY <2>1, <2>2
  <2> QED BY <1>0, <2>3 DEF Undisturbed
<1>5. ASSUME UNCHANGED port, UNCHANGED nativePort PROVE Undisturbed
  BY <1>0, <1>5 DEF Undisturbed
<1>6. Breaks \/ (\E p \in Ports : Connect(p)) \/ (UNCHANGED port /\ UNCHANGED nativePort)
  <2>1. ASSUME NEW p \in Ports, Closes(p) \/ (\E l \in Loops : Registered(p, l)) \/ (\E x \in Execs : Offers(p, x))
        PROVE  UNCHANGED port /\ UNCHANGED nativePort
    BY <2>1 DEF Closes, Registered, Offers, AnsweredLast, Answered, linkVars
  <2>2. ASSUME NEW x \in Execs, Grants(x) PROVE UNCHANGED port /\ UNCHANGED nativePort
    BY <2>2 DEF Grants, Answered, linkVars
  <2>3. ASSUME NEW l \in Loops, RunGoesOn(l) PROVE UNCHANGED port /\ UNCHANGED nativePort
    BY <2>3 DEF RunGoesOn, Poll, StartPolling, Preflight, OfferDropped, SendConsume, Fill, CommitRefused,
                RequestTimesOut, linkVars
  <2>4. ASSUME NEW f \in filled, NEW st \in {"completed", "failed"}, CommitEnds(f, st)
        PROVE  UNCHANGED port /\ UNCHANGED nativePort
    BY <2>4 DEF CommitEnds, linkVars
  <2>5. ASSUME NEW t \in Tabs, Navigate(t) PROVE UNCHANGED port /\ UNCHANGED nativePort
    BY <2>5 DEF Navigate, linkVars
  <2>6. CASE UNCHANGED extVars
    BY <2>6 DEF extVars
  <2> QED BY <2>1, <2>2, <2>3, <2>4, <2>5, <2>6 DEF ExtStep
<1> QED BY <1>2, <1>3, <1>4, <1>5, <1>6

\* The head of a queue is what it was.
HeadKept(q) ==
  /\ port[q] = "open" => port'[q] = "open"
  /\ wire[q] # << >> => /\ wire'[q] # << >> /\ Head(wire'[q]).kind = Head(wire[q]).kind
                        /\ Head(wire'[q]).exec = Head(wire[q]).exec

\* Sending and abandoning requests, and answers on other ports, leave the head of a queue.
LEMMA HeadStays ==
  ASSUME wire \in [Ports -> Seq(Msg)], NEW q \in Ports,
         \/ UNCHANGED wire
         \/ \E p \in Ports : Popped(p) /\ q # p
         \/ \E p \in Ports, m \in Msg : Pushed(p, m)
         \/ \E L : Relabelled(L)
  PROVE  wire[q] # << >> => /\ wire'[q] # << >> /\ Head(wire'[q]).kind = Head(wire[q]).kind
                            /\ Head(wire'[q]).exec = Head(wire[q]).exec
<1> SUFFICES ASSUME wire[q] # << >>
             PROVE  /\ wire'[q] # << >> /\ Head(wire'[q]).kind = Head(wire[q]).kind
                    /\ Head(wire'[q]).exec = Head(wire[q]).exec
  OBVIOUS
<1>1. CASE wire'[q] = wire[q]
  BY <1>1
<1>2. wire[q] \in Seq(Msg) /\ Len(wire[q]) \in Nat /\ Len(wire[q]) # 0 /\ Head(wire[q]) = wire[q][1]
      /\ DOMAIN wire[q] = 1 .. Len(wire[q])
  <2>1. PICK s \in Seq(Msg) : s = wire[q] /\ s # << >>
    OBVIOUS
  <2>2. Len(s) \in Nat /\ Len(s) # 0 /\ Head(s) = s[1] /\ DOMAIN s = 1 .. Len(s)
    BY <2>1
  <2> QED BY <2>1, <2>2
<1>3. ASSUME wire'[q] \in Seq(Msg), Len(wire'[q]) # 0, wire'[q][1].kind = wire[q][1].kind,
             wire'[q][1].exec = wire[q][1].exec
      PROVE  /\ wire'[q] # << >> /\ Head(wire'[q]).kind = Head(wire[q]).kind
             /\ Head(wire'[q]).exec = Head(wire[q]).exec
  <2>1. PICK s \in Seq(Msg) : s = wire'[q] /\ Len(s) # 0
    BY <1>3
  <2>2. s # << >> /\ Head(s) = s[1]
    BY <2>1
  <2> QED BY <1>2, <1>3, <2>1, <2>2
<1>4. ASSUME NEW p \in Ports, NEW m \in Msg, Pushed(p, m), q = p
      PROVE  /\ wire'[q] # << >> /\ Head(wire'[q]).kind = Head(wire[q]).kind
             /\ Head(wire'[q]).exec = Head(wire[q]).exec
  <2>1. wire'[q] \in Seq(Msg) /\ Len(wire'[q]) # 0 /\ wire'[q][1] = wire[q][1]
    <3>1. Len(wire'[q]) = Len(wire[q]) + 1 /\ wire'[q] \in Seq(Msg) /\ \A i \in 1 .. Len(wire[q]) : wire'[q][i] = wire[q][i]
      BY <1>4 DEF Pushed
    <3>2. 1 \in 1 .. Len(wire[q]) /\ Len(wire[q]) + 1 # 0
      BY <1>2
    <3> QED BY <3>1, <3>2
  <2> QED BY <1>3, <2>1
<1>5. ASSUME NEW L, Relabelled(L)
      PROVE  /\ wire'[q] # << >> /\ Head(wire'[q]).kind = Head(wire[q]).kind
             /\ Head(wire'[q]).exec = Head(wire[q]).exec
  <2>1. 1 \in DOMAIN wire[q]
    BY <1>2
  <2>2. wire'[q] \in Seq(Msg) /\ Len(wire'[q]) # 0 /\ wire'[q][1].kind = wire[q][1].kind
        /\ wire'[q][1].exec = wire[q][1].exec
    BY <1>2, <1>5, <2>1 DEF Relabelled
  <2> QED BY <1>3, <2>2
<1> QED BY <1>1, <1>4, <1>5 DEF Popped, Pushed

\* Only an answer changes the head of a queue, while the connection lasts.
LEMMA HeadsKept ==
  ASSUME PathInv, ExecOnward, NEW q \in Ports,
         ExtQuiet \/ \E p \in Ports : q # p /\ (Closes(p) \/ \E x \in Execs : Offers(p, x))
  PROVE  HeadKept(q)
<1>0. RunsFine /\ WireFine /\ LinkFine
  BY PathParts
<1>1. wire \in [Ports -> Seq(Msg)] /\ port \in [Ports -> {"new", "open", "closed"}] /\ nativePort \in Ports \cup {NULL}
      /\ loops \in [Loops -> Run]
  BY <1>0 DEF WireFine, LinkFine, RunsFine
<1>h. ASSUME UNCHANGED port, \/ UNCHANGED wire
                             \/ \E p \in Ports : Popped(p) /\ q # p
                             \/ \E p \in Ports, m \in Msg : Pushed(p, m)
                             \/ \E L : Relabelled(L)
      PROVE  HeadKept(q)
  <2>1. wire[q] # << >> => /\ wire'[q] # << >> /\ Head(wire'[q]).kind = Head(wire[q]).kind
                           /\ Head(wire'[q]).exec = Head(wire[q]).exec
    BY <1>1, <1>h, HeadStays
  <2> QED BY <1>h, <2>1 DEF HeadKept
<1>2. CASE UNCHANGED extVars
  BY <1>h, <1>2 DEF extVars
<1>3. ASSUME NEW p \in Ports, Connect(p) PROVE HeadKept(q)
  BY <1>1, <1>3 DEF Connect, HeadKept
<1>4. ASSUME NEW p \in Ports, NEW l \in Loops, Registered(p, l) PROVE HeadKept(q)
  BY <1>h, <1>4 DEF Registered
<1>5. ASSUME NEW p \in Ports, Closes(p), q # p PROVE HeadKept(q)
  <2>1. Popped(p) /\ UNCHANGED port
    BY <1>5, ClosesShape DEF linkVars
  <2> QED BY <1>h, <1>5, <2>1
<1>6. ASSUME NEW p \in Ports, NEW x \in Execs, Offers(p, x), q # p PROVE HeadKept(q)
  <2>1. Popped(p) /\ UNCHANGED <<linkVars, pageVars, timer>>
    BY <1>6, HandsShape
  <2> QED BY <1>h, <1>6, <2>1 DEF linkVars
<1>r. ASSUME NEW l \in Loops, loops[l].pc \in {"granted", "filling"}, NEW st \in {"completed", "failed"},
             Report(l, loops[l].exec, st), UNCHANGED port
      PROVE  HeadKept(q)
  <2>1. UNCHANGED wire \/ (nativePort # NULL /\ \E m \in Msg : Pushed(nativePort, m))
    BY <1>0, <1>r, ReportKeeps
  <2> QED BY <1>1, <1>h, <1>r, <2>1
<1>7. ASSUME NEW l \in Loops, RunGoesOn(l) PROVE HeadKept(q)
  <2>1. CASE Poll(l)
    <3> DEFINE m == Message("next", l, NULL, NULL, NULL)
    <3>1. m \in Msg
      BY DEF Message, Msg
    <3>2. PICK p \in Ports : p = nativePort
      BY <1>1, <2>1 DEF Poll
    <3>3. wire' = [wire EXCEPT ![p] = Append(@, m)] /\ UNCHANGED port
      BY <2>1, <3>2 DEF Poll, linkVars
    <3> HIDE DEF m
    <3>4. Pushed(p, m)
      BY <1>1, <3>1, <3>3, PushedWire
    <3> QED BY <1>h, <3>1, <3>3, <3>4
  <2>2. CASE SendConsume(l)
    <3>1. Known(loops[l].exec, loops[l].tab, loops[l].doc)
      BY <1>0, <2>2 DEF SendConsume, RunsFine, RunHolds, OfferPcs
    <3>2. loops[l].exec \in Execs /\ loops[l].tab \in Tabs
      BY <3>1 DEF Known
    <3>3. doc[loops[l].tab] \in Nat
      BY <3>2, ExtensionAssumption, PathParts DEF PageFine
    <3> DEFINE m == Message("consume", l, loops[l].exec, doc[loops[l].tab], NULL)
    <3>4. m \in Msg
      BY <3>2, <3>3 DEF Message, Msg
    <3>5. PICK p \in Ports : p = nativePort
      BY <1>1, <2>2 DEF SendConsume
    <3>6. wire' = [wire EXCEPT ![p] = Append(@, m)] /\ UNCHANGED port
      BY <2>2, <3>5 DEF SendConsume, linkVars
    <3> HIDE DEF m
    <3>7. Pushed(p, m)
      BY <1>1, <3>4, <3>6, PushedWire
    <3> QED BY <1>h, <3>4, <3>6, <3>7
  <2>3. CASE RequestTimesOut(l)
    <3>1. wire' = Abandon(wire, {l}) /\ UNCHANGED port
      BY <2>3 DEF RequestTimesOut, linkVars
    <3>2. Relabelled({l})
      BY <1>1, <3>1, RelabelledWire
    <3> QED BY <1>h, <3>1, <3>2
  <2>4. CASE CommitRefused(l)
    BY <1>r, <2>4 DEF CommitRefused, linkVars
  <2>5. CASE StartPolling(l) \/ Preflight(l) \/ OfferDropped(l) \/ Fill(l)
    BY <1>h, <2>5 DEF StartPolling, Preflight, OfferDropped, Fill, linkVars
  <2> QED BY <1>7, <2>1, <2>2, <2>3, <2>4, <2>5 DEF RunGoesOn
<1>8. ASSUME NEW f \in filled, NEW st \in {"completed", "failed"}, CommitEnds(f, st) PROVE HeadKept(q)
  <2>1. UNCHANGED port
    BY <1>8 DEF CommitEnds, linkVars
  <2>2. CASE UNCHANGED <<wire, loops, timer>>
    BY <1>h, <2>1, <2>2
  <2>3. ASSUME NEW l \in Loops, loops[l].pc = "filling", loops[l].exec = f.exec, Report(l, f.exec, st) PROVE HeadKept(q)
    BY <1>r, <2>1, <2>3
  <2> QED BY <1>8, <2>2, <2>3 DEF CommitEnds
<1>9. ASSUME NEW t \in Tabs, Navigate(t) PROVE HeadKept(q)
  BY <1>h, <1>9 DEF Navigate, linkVars
<1> QED BY <1>2, <1>3, <1>4, <1>5, <1>6, <1>7, <1>8, <1>9 DEF ExtQuiet

\* The consume of x was accepted and is not answered.
InService(x) == exec[x] # NULL /\ exec[x].state \in {"consumed", "retrieving"}

\* What is being served stays at the head of its queue.
LEMMA ServedKept ==
  ASSUME PathInv, Served, ExecOnward,
         \A x \in Execs : InService(x)' => (InService(x) /\ HeadKept(exec[x].sess)) \/ Listening(x)'
  PROVE  Served'
<1> SUFFICES ASSUME NEW x \in Execs, InService(x)' PROVE Listening(x)'
  BY DEF Served, InService
<1> SUFFICES ASSUME InService(x), HeadKept(exec[x].sess) PROVE Listening(x)'
  OBVIOUS
<1>1. exec[x] # NULL /\ Listening(x)
  BY DEF Served, InService
<1>2. exec'[x].sess = exec[x].sess
  BY <1>1 DEF ExecOnward
<1> QED BY <1>1, <1>2 DEF HeadKept, Listening, Serving

\* A secret stays under its window when no window is left and no guard changes.
LEMMA CoveredKept ==
  ASSUME PathInv, Covered, ExecOnward, Inherits, windows \subseteq windows',
         \A x \in Execs : exec[x] # NULL => exec'[x].guarded = exec[x].guarded,
         \A x \in Execs : exec'[x] # NULL /\ exec'[x].state = "retrieving" =>
           exec[x] # NULL /\ exec[x].state = "retrieving"
  PROVE  Covered'
<1>1. ASSUME NEW x \in Execs, exec'[x] # NULL, exec'[x].state = "retrieving", exec'[x].guarded
      PROVE  exec'[x].tab \in windows'
  <2>1. exec[x] # NULL /\ exec[x].state = "retrieving" /\ exec[x].guarded /\ exec'[x].tab = exec[x].tab
    BY <1>1 DEF ExecOnward
  <2> QED BY <2>1 DEF Covered
<1>2. ASSUME NEW l \in Loops, loops'[l].pc \in {"granted", "filling"}, exec'[loops'[l].exec].guarded
      PROVE  loops'[l].tab \in windows'
  <2>1. loops[l].pc \in {"granted", "filling"} /\ loops'[l].exec = loops[l].exec /\ loops'[l].tab = loops[l].tab
    BY <1>2 DEF Inherits
  <2>2. Known(loops[l].exec, loops[l].tab, loops[l].doc)
    BY <2>1, PathParts DEF RunsFine, RunHolds, OfferPcs
  <2>3. exec[loops[l].exec].guarded
    BY <1>2, <2>1, <2>2 DEF Known
  <2> QED BY <2>1, <2>3 DEF Covered
<1> QED BY <1>1, <1>2 DEF Covered

\* A step that leaves the executions and the windows alone keeps what was covered.
LEMMA AsideKeeps ==
  ASSUME PathInv, ExecOnward, Served, Covered, UNCHANGED <<exec, windows>>,
         ExtQuiet \/ \E p \in Ports : Closes(p) /\ \A x \in Execs : InService(x) => exec[x].sess # p
  PROVE  Served' /\ Covered'
<1>1. ASSUME NEW x \in Execs, InService(x)' PROVE InService(x) /\ HeadKept(exec[x].sess)
  <2>1. InService(x)
    BY <1>1 DEF InService
  <2>2. exec[x].sess \in Ports
    BY <2>1, PathParts DEF InService, WindowTypeOK, ActiveExecution
  <2> QED BY <2>1, <2>2, HeadsKept
<1>2. Served'
  BY <1>1, ServedKept
<1>3. Inherits
  BY Inherited
<1>4. Covered'
  BY <1>3, CoveredKept
<1> QED BY <1>2, <1>4

\* One execution moves to a state in which it is not being served, the windows stay.
LEMMA MoveKeeps ==
  ASSUME PathInv, ExecOnward, Served, Covered, UNCHANGED windows, NEW x \in Execs,
         exec'[x].state \notin {"consumed", "retrieving"}, exec[x] # NULL => exec'[x].guarded = exec[x].guarded,
         \A y \in Execs : y # x => exec'[y] = exec[y],
         \/ UNCHANGED extVars
         \/ \E p \in Ports : /\ \E z \in Execs : Offers(p, z)
                             /\ \A y \in Execs : y # x /\ InService(y) => exec[y].sess # p
  PROVE  Served' /\ Covered'
<1>0. ExtQuiet \/ \E p \in Ports : \E z \in Execs : Offers(p, z)
  BY DEF ExtQuiet
<1>1. ASSUME NEW y \in Execs, InService(y)' PROVE InService(y) /\ HeadKept(exec[y].sess)
  <2>1. InService(y) /\ y # x
    BY <1>1 DEF InService
  <2>2. exec[y].sess \in Ports
    BY <2>1, PathParts DEF InService, WindowTypeOK, ActiveExecution
  <2> QED BY <2>1, <2>2, HeadsKept DEF ExtQuiet
<1>2. Served'
  BY <1>1, ServedKept
<1>3. Inherits
  BY <1>0, Inherited
<1>4. \A y \in Execs : exec'[y] # NULL /\ exec'[y].state = "retrieving" => exec[y] # NULL /\ exec[y].state = "retrieving"
  OBVIOUS
<1>5. Covered'
  BY <1>3, <1>4, CoveredKept
<1> QED BY <1>2, <1>5

\* An execution in service is at the head of the one queue that is in use: nothing else is
\* in service, and no run holds a secret.
LEMMA ServedAlone ==
  ASSUME PathInv, InTurn, Served, NEW x \in Execs, InService(x)
  PROVE  /\ exec[x].sess \in Ports /\ exec[x].sess = nativePort
         /\ wire[nativePort] # << >> /\ Head(wire[nativePort]).kind = "consume" /\ Head(wire[nativePort]).exec = x
         /\ \A l \in Loops : loops[l].pc \notin {"granted", "filling"}
         /\ \A y \in Execs : InService(y) => y = x
<1>1. ASSUME NEW y \in Execs, InService(y)
      PROVE  /\ exec[y].sess \in Ports /\ exec[y].sess = nativePort
             /\ wire[nativePort] # << >> /\ Head(wire[nativePort]).kind = "consume" /\ Head(wire[nativePort]).exec = y
  <2>1. Listening(y) /\ exec[y].sess \in Ports
    BY <1>1, PathParts DEF Served, InService, WindowTypeOK, ActiveExecution
  <2>2. wire[exec[y].sess] # << >> /\ Head(wire[exec[y].sess]).kind = "consume" /\ Head(wire[exec[y].sess]).exec = y
    BY <2>1 DEF Listening, Serving
  <2>3. exec[y].sess = nativePort
    BY <2>1, <2>2 DEF InTurn
  <2> QED BY <2>1, <2>2, <2>3
<1>2. \A l \in Loops : loops[l].pc \notin PagePcs
  BY <1>1, AwaitedAlone
<1>3. \A l \in Loops : loops[l].pc \notin {"granted", "filling"}
  BY <1>2 DEF PagePcs
<1> QED BY <1>1, <1>3

\* The handler of a result and a failing consume leave a window nobody needs.
LEMMA ExitKeeps ==
  ASSUME PathInv, NEW p \in Ports, Closes(p),
         \A y \in Execs : ~ InService(y)', \A l \in Loops : loops[l].pc \notin {"granted", "filling"}
  PROVE  Served' /\ Covered'
<1>1. Served'
  BY DEF Served, InService
<1>2. \A l \in Loops : loops'[l].pc \notin {"granted", "filling"}
  BY Inherited DEF Inherits
<1>3. Covered'
  BY <1>2 DEF Covered, InService
<1> QED BY <1>1, <1>3

\* The steps of a consume.
LEMMA ConsumeCovered ==
  ASSUME PathInv, ExecOnward, InTurn, Served, Covered, NEW x \in Execs, ConsumeStep(x)
  PROVE  Served' /\ Covered'
<1>0. WindowTypeOK /\ RunsFine
  BY PathParts
<1>1. exec[x] # NULL /\ InService(x)
  BY DEF ConsumeStep, ConsumeGranted, ConsumeFailed, EnterWindow, RetrieveSucceeds, RetrieveFails, InService
<1>2. /\ exec[x].sess \in Ports /\ exec[x].sess = nativePort /\ Listening(x)
      /\ wire[nativePort] # << >> /\ Head(wire[nativePort]).kind = "consume" /\ Head(wire[nativePort]).exec = x
      /\ \A l \in Loops : loops[l].pc \notin {"granted", "filling"}
      /\ \A y \in Execs : InService(y) => y = x
  BY <1>1, ServedAlone DEF Served, InService
<1>3. CASE EnterWindow(x) /\ UNCHANGED extVars
  <2>1. Managed \in BOOLEAN
    BY DEF Managed
  <2>2. PICK g \in BOOLEAN : g = Managed
    BY <2>1
  <2>3. exec' = [exec EXCEPT ![x] = [exec[x] EXCEPT !.state = "retrieving", !.guarded = g]]
        /\ "retrieving" \in ExecStates
    BY <1>3, <2>2 DEF EnterWindow, ExecStates
  <2>4. /\ exec'[x].state = "retrieving" /\ exec'[x].guarded = g /\ \A y \in Execs : y # x => exec'[y] = exec[y]
    BY <1>0, <1>1, <2>3, ExecMoved
  <2>5. exec'[x].tab = exec[x].tab /\ exec'[x].sess = exec[x].sess /\ (g => exec[x].tab \in windows')
    BY <1>1, <1>3, <2>2 DEF ExecOnward, EnterWindow
  <2>6. UNCHANGED wire /\ UNCHANGED port /\ UNCHANGED loops
    BY <1>3 DEF extVars
  <2>7. \A y \in Execs : InService(y)' => y = x
    BY <1>2, <2>4 DEF InService
  <2>8. Listening(x)'
    BY <1>2, <2>5, <2>6 DEF Listening, Serving
  <2>9. Served'
    BY <2>7, <2>8 DEF Served, InService
  <2>10. Covered'
    BY <1>2, <2>4, <2>5, <2>6, <2>7 DEF Covered, InService
  <2> QED BY <2>9, <2>10
<1>4. CASE ConsumeGranted(x)
  <2>1. /\ SetExec(x, "running") /\ exec[x].state = "retrieving" /\ UNCHANGED windows
        /\ Answered(exec[x].sess, "granted", x, exec[x].tab, exec[x].doc)
    BY <1>2, <1>4 DEF ConsumeGranted, RetrieveSucceeds
  <2>2. "running" \in ExecStates /\ "running" \notin {"offered", "taken", "revoked"}
    BY DEF ExecStates
  <2>3. /\ exec'[x].state = "running" /\ exec'[x].guarded = exec[x].guarded
        /\ \A y \in Execs : y # x => exec'[y] = exec[y]
    BY <1>0, <1>1, <2>1, <2>2, SetExecMoves
  <2>4. \A y \in Execs : ~ InService(y)'
    BY <1>2, <2>3 DEF InService
  <2>5. Grants(x)
    BY <1>1, <1>2, <2>1, <2>3 DEF Grants, InMap, ExecOnward
  <2>6. \/ UNCHANGED loops
        \/ \E l \in Loops : /\ \A k \in Loops : k # l => loops'[k] = loops[k]
                            /\ loops'[l].pc = "granted" /\ loops'[l].exec = x /\ loops'[l].tab = exec[x].tab
    BY <1>2, <2>5, HandsShape
  <2>7. \A l \in Loops : loops'[l].pc \in {"granted", "filling"} => loops'[l].exec = x /\ loops'[l].tab = exec[x].tab
    BY <1>2, <2>6
  <2>8. exec[x].guarded => exec[x].tab \in windows
    BY <1>1, <2>1 DEF Covered
  <2>9. Covered'
    BY <2>1, <2>3, <2>4, <2>7, <2>8 DEF Covered, InService
  <2> QED BY <2>4, <2>9 DEF Served, InService
<1>5. CASE ConsumeFailed(x)
  <2>1. SetExec(x, "spoiled") /\ AnsweredLast(exec[x].sess)
    BY <1>2, <1>5 DEF ConsumeFailed, RetrieveFails
  <2>2. "spoiled" \in ExecStates /\ "spoiled" \notin {"offered", "taken", "revoked"}
    BY DEF ExecStates
  <2>3. exec'[x].state = "spoiled" /\ \A y \in Execs : y # x => exec'[y] = exec[y]
    BY <1>0, <1>1, <2>1, <2>2, SetExecMoves
  <2>4. \A y \in Execs : ~ InService(y)'
    BY <1>2, <2>3 DEF InService
  <2>5. PICK p \in Ports : p = exec[x].sess
    BY <1>2
  <2>6. Closes(p)
    BY <1>2, <2>1, <2>5 DEF Closes, Listening
  <2> QED BY <1>2, <2>4, <2>6, ExitKeeps
<1> QED BY <1>3, <1>4, <1>5 DEF ConsumeStep

\* The answers to polls, consumes that are refused and results, and an accepted consume.
LEMMA ServeCovered ==
  ASSUME PathInv, ExecOnward, InTurn, Served, Covered, NEW p \in Ports, ServeStep(p)
  PROVE  Served' /\ Covered'
<1>0. WindowTypeOK /\ WireFine /\ wire \in [Ports -> Seq(Msg)]
  BY PathParts DEF WireFine
<1>s. /\ wire[p] # << >> /\ port[p] = "open" /\ Head(wire[p]) \in Msg /\ MsgHolds(Head(wire[p]))
      /\ p = nativePort /\ \A l \in Loops : loops[l].pc \notin {"granted", "filling"}
  <2>1. wire[p] # << >> /\ port[p] = "open"
    BY DEF ServeStep, ServeNext, ServeNextEmpty, ServeConsume, ServeConsumeRejected, ServeResult, Serving
  <2>2. 1 \in DOMAIN wire[p] /\ Head(wire[p]) = wire[p][1] /\ Head(wire[p]) \in Msg
    BY <1>0, <2>1, HeadOfWire
  <2>3. MsgHolds(Head(wire[p]))
    BY <1>0, <2>2 DEF WireFine
  <2>4. p = nativePort /\ \A l \in Loops : loops[l].pc \notin PagePcs
    BY <2>1, AwaitedAlone
  <2> QED BY <2>1, <2>2, <2>3, <2>4 DEF PagePcs
<1>i. ASSUME NEW y \in Execs, InService(y) PROVE Head(wire[p]).kind = "consume" /\ Head(wire[p]).exec = y
  BY <1>i, <1>s, ServedAlone
<1>1. CASE ServeNext(p)
  <2>1. PICK x \in Execs : NextOffer(p, x) /\ Answered(p, "offered", x, exec[x].tab, exec[x].doc)
    BY <1>1 DEF ServeNext
  <2>2. exec[x] # NULL /\ SetExec(x, "taken") /\ ~ InMap(x) /\ "taken" \in ExecStates /\ UNCHANGED windows
    BY <2>1 DEF NextOffer, InMap, ExecStates
  <2>3. /\ exec'[x].state = "taken" /\ exec'[x].guarded = exec[x].guarded
        /\ \A y \in Execs : y # x => exec'[y] = exec[y]
    BY <1>0, <2>2, SetExecMoves
  <2>4. Offers(p, x)
    BY <1>1, <2>1, <2>2 DEF ServeNext, Offers
  <2>5. \A y \in Execs : ~ InService(y)
    <3>1. Head(wire[p]).kind = "next"
      BY <1>1 DEF ServeNext, Serving
    <3> QED BY <1>i, <3>1
  <2> QED BY <2>2, <2>3, <2>4, <2>5, MoveKeeps
<1>2. CASE ServeNextEmpty(p) \/ ServeConsumeRejected(p) \/ (ServeResult(p) /\ UNCHANGED windowVars)
  <2>1. Closes(p) /\ UNCHANGED <<exec, windows>>
    BY <1>2 DEF ServeNextEmpty, ServeConsumeRejected, ServeResult, Closes, windowVars
  <2>2. ASSUME NEW x \in Execs, InService(x) PROVE FALSE
    <3>1. Head(wire[p]).kind = "consume" /\ Head(wire[p]).exec = x
      BY <1>i, <2>2
    <3>2. ServeConsumeRejected(p)
      BY <1>2, <3>1 DEF ServeNextEmpty, ServeResult, Serving
    <3> QED BY <2>2, <3>1, <3>2 DEF ServeConsumeRejected, InService
  <2> QED BY <2>1, <2>2, AsideKeeps
<1>3. CASE ServeConsume(p)
  <2>1. PICK x \in Execs : x = Head(wire[p]).exec /\ exec[x] # NULL
    BY <1>3, <1>s DEF ServeConsume, Serving, MsgHolds
  <2>2. /\ exec[x].state = "taken" /\ exec[x].sess = p /\ SetExec(x, "consumed") /\ UNCHANGED windows
        /\ Serving(p, "consume") /\ UNCHANGED extVars
    BY <1>3, <2>1 DEF ServeConsume, AcceptConsume, MayConsume
  <2>3. "consumed" \in ExecStates /\ "consumed" \notin {"offered", "taken", "revoked"}
    BY DEF ExecStates
  <2>4. /\ exec'[x].state = "consumed" /\ exec'[x].guarded = exec[x].guarded
        /\ \A y \in Execs : y # x => exec'[y] = exec[y]
    BY <1>0, <2>1, <2>2, <2>3, SetExecMoves
  <2>5. UNCHANGED wire /\ UNCHANGED port /\ UNCHANGED loops
    BY <2>2 DEF extVars
  <2>6. \A y \in Execs : ~ InService(y)
    BY <1>i, <2>1, <2>2 DEF InService
  <2>7. exec'[x].sess = p
    BY <2>1, <2>2 DEF ExecOnward
  <2>8. Listening(x)'
    BY <2>1, <2>2, <2>5, <2>7 DEF Listening, Serving
  <2>9. \A y \in Execs : InService(y)' => y = x
    BY <2>4, <2>6 DEF InService
  <2>10. Served'
    BY <2>8, <2>9 DEF Served, InService
  <2>11. Covered'
    BY <1>s, <2>4, <2>5, <2>9 DEF Covered, InService
  <2> QED BY <2>10, <2>11
<1>4. CASE ServeResult(p) /\ ~ UNCHANGED windowVars
  <2>1. Head(wire[p]).kind = "result" /\ Closes(p)
    BY <1>4 DEF ServeResult, Serving, Closes
  <2>2. PICK x \in Execs : x = Head(wire[p]).exec /\ exec[x] # NULL
    BY <1>s, <2>1 DEF MsgHolds
  <2>3. SetExec(x, "done")
    BY <1>4, <2>2 DEF ServeResult, ResultRecorded, EvidenceLost
  <2>4. "done" \in ExecStates /\ "done" \notin {"offered", "taken", "revoked"}
    BY DEF ExecStates
  <2>5. exec'[x].state = "done" /\ \A y \in Execs : y # x => exec'[y] = exec[y]
    BY <1>0, <2>2, <2>3, <2>4, SetExecMoves
  <2>6. \A y \in Execs : ~ InService(y)'
    BY <1>i, <2>1, <2>5 DEF InService
  <2> QED BY <1>s, <2>1, <2>6, ExitKeeps
<1> QED BY <1>1, <1>2, <1>3, <1>4 DEF ServeStep

\* While the first connection lasts, every step keeps what it was found to be.
LEMMA CoverKept ==
  ASSUME PathInv, PathInv', FilledWhereGranted, CoverInv, [PathNext]_pathVars
  PROVE  CoverInv'
<1> SUFFICES ASSUME Undisturbed' PROVE (OneRun /\ InTurn /\ Served /\ Covered /\ FilledByRun)'
  BY DEF CoverInv
<1>1. ExecOnward /\ (lapsed => lapsed')
  BY PathWindow, WindowTyped
<1>2. ExtStep
  BY PathExt
<1>3. Undisturbed /\ (Breaks => BrowserEnds /\ Ports = {})
  BY <1>1, <1>2, StillUndisturbed
<1>4. CASE Breaks
  <2>1. BrowserEnds /\ Ports = {} /\ loops \in [Loops -> Run]
    BY <1>3, <1>4, PathParts DEF RunsFine
  <2>2. \A l \in Loops : loops'[l].pc = "idle"
    BY <2>1, RunsEnd DEF BrowserEnds
  <2>3. \A x \in Execs : exec'[x] = NULL
    BY <2>1, PathParts DEF WindowTypeOK, ActiveExecution
  <2>4. OneRun' /\ FilledByRun'
    BY <2>1, <2>2 DEF BrowserEnds, OneRun, FilledByRun
  <2>5. InTurn'
    BY <2>1, EmptyInTurn DEF AllEmpty
  <2> QED BY <2>2, <2>3, <2>4, <2>5 DEF Served, Covered
<1>5. CASE ~ Breaks
  <2>0. ExtKeeps /\ InTurn /\ Served /\ Covered
    BY <1>3 DEF CoverInv, ExtKeeps
  <2>1. ExtKeeps'
    BY <1>1, <1>2, <1>5, <2>0, ExtKept
  <2>2. ticker.phase = "idle" /\ ~ lapsed /\ ~ lapsed'
    BY <1>3, PathParts DEF Undisturbed
  <2>s. ASSUME UNCHANGED <<exec, windows>>, ExtQuiet PROVE Served' /\ Covered'
    BY <1>1, <2>0, <2>s, AsideKeeps
  <2>3. ASSUME UNCHANGED pathVars PROVE Served' /\ Covered'
    BY <2>s, <2>3 DEF pathVars, windowVars, ExtQuiet
  <2>4. ASSUME BrowserStep \/ BrowserQuits \/ TickerStep PROVE Served' /\ Covered'
    <3>1. ASSUME UNCHANGED <<exec, windows>>, UNCHANGED extVars PROVE Served' /\ Covered'
      BY <2>s, <3>1 DEF ExtQuiet
    <3>2. CASE BrowserStep \/ BrowserQuits
      <4>1. UNCHANGED <<exec, windows>> /\ UNCHANGED extVars
        BY <1>5, <3>2 DEF BrowserStep, BrowserQuits, LaunchSpawn, LaunchInsert, CloseRemove, Breaks
      <4> QED BY <3>1, <4>1
    <3>3. CASE TickerStep
      <4>1. FALSE
        BY <2>2, <3>3 DEF TickerStep, MarkStale, ExpireWindows, RevokeOffers
      <4> QED BY <4>1
    <3> QED BY <2>4, <3>2, <3>3
  <2>5. ASSUME NEW p \in Ports, \/ Alive /\ Connect(p) /\ UNCHANGED windowVars
                                \/ Disconnect(p) /\ UNCHANGED windowVars
                                \/ ServeRegister(p) \/ ServeHeartbeat(p)
        PROVE  Served' /\ Covered'
    <3>1. UNCHANGED <<exec, windows>> /\ ExtQuiet
      BY <1>5, <2>5 DEF ServeRegister, ServeHeartbeat, RegisterSession, Heartbeat, windowVars, Breaks, ExtQuiet
    <3> QED BY <2>s, <3>1
  <2>6. ASSUME NEW p \in Ports, ServeStep(p) PROVE Served' /\ Covered'
    BY <1>1, <2>0, <2>6, ServeCovered
  <2>7. ASSUME WorkerStops PROVE Served' /\ Covered'
    BY <1>5, <2>7 DEF Breaks
  <2>8. ASSUME NEW x \in Execs, NEW p \in Ports, NEW t \in Tabs, MintOffer(x, p, t) PROVE Served' /\ Covered'
    <3>1. PICK d : Offer(x, p, t, d) /\ UNCHANGED extVars
      BY <2>8 DEF MintOffer
    <3> DEFINE u == [sess |-> p, tab |-> t, doc |-> d, state |-> "offered", guarded |-> FALSE]
    <3>2. exec' = [exec EXCEPT ![x] = u] /\ exec[x] = NULL /\ UNCHANGED windows /\ u.state = "offered"
      BY <3>1 DEF Offer
    <3> HIDE DEF u
    <3>3. exec'[x] = u /\ \A y \in Execs : y # x => exec'[y] = exec[y]
      BY <3>2, PathParts DEF WindowTypeOK
    <3>4. exec'[x].state = "offered"
      BY <3>2, <3>3
    <3> QED BY <1>1, <2>0, <3>1, <3>2, <3>3, <3>4, MoveKeeps
  <2>9. ASSUME NEW x \in Execs, ConsumeStep(x) PROVE Served' /\ Covered'
    BY <1>1, <2>0, <2>9, ConsumeCovered
  <2>10. ASSUME NEW l \in Loops, RunStep(l) \/ (RequestTimesOut(l) /\ UNCHANGED windowVars) PROVE Served' /\ Covered'
    <3>1. RunGoesOn(l) /\ UNCHANGED <<exec, windows>>
      BY <2>10 DEF RunStep, RunGoesOn, windowVars
    <3> QED BY <2>s, <3>1 DEF ExtQuiet
  <2>11. ASSUME PageStep PROVE Served' /\ Covered'
    <3>1. ExtQuiet /\ UNCHANGED <<exec, windows>>
      BY <2>11 DEF PageStep, ExtQuiet, windowVars
    <3> QED BY <2>s, <3>1
  <2>12. ASSUME NEW t \in Tabs, PageNavigates(t) PROVE Served' /\ Covered'
    <3>1. ExtQuiet /\ UNCHANGED <<exec, windows>>
      BY <2>12 DEF PageNavigates, ExtQuiet, windowVars
    <3> QED BY <2>s, <3>1
  <2>13. Served' /\ Covered'
    BY <2>3, <2>4, <2>5, <2>6, <2>7, <2>8, <2>9, <2>10, <2>11, <2>12 DEF PathNext
  <2> QED BY <2>1, <2>13 DEF ExtKeeps
<1> QED BY <1>4, <1>5

(***************************************************************************)
(* The theorems.                                                           *)
(***************************************************************************)
\* What is true when the broker and the browser start.
LEMMA PathStart ==
  ASSUME PathInit
  PROVE  PathInv /\ KeepsPolling /\ FilledWhereGranted /\ CoverInv
<1>1. WindowTypeOK /\ ticker.phase = "idle"
  BY DEF PathInit, WindowInit, WindowTypeOK, BrowserStates
<1>2. \A l \in Loops : loops[l] = NoLoop /\ loops[l].pc = "idle"
  BY NoLoopRun DEF PathInit, ExtInit
<1>3. RunsFine
  <2>1. loops \in [Loops -> Run]
    BY NoLoopRun DEF PathInit, ExtInit
  <2> QED BY <1>2, <2>1 DEF RunsFine, RunHolds, OfferPcs
<1>4. wire \in [Ports -> Seq(Msg)] /\ \A p \in Ports : wire[p] = << >> /\ DOMAIN wire[p] = {}
  BY DEF PathInit, ExtInit
<1>5. WireFine
  BY <1>4 DEF WireFine
<1>6. LinkFine /\ PageFine
  <2>1. 1 \in 1 .. MaxDocs
    BY ExtensionAssumption
  <2>2. PageFine
    BY <2>1 DEF PathInit, ExtInit, PageFine
  <2> QED BY <2>2 DEF PathInit, ExtInit, LinkFine
<1>7. PathInv
  BY <1>1, <1>3, <1>5, <1>6, PathParts
<1>8. KeepsPolling /\ FilledWhereGranted
  BY DEF PathInit, ExtInit, KeepsPolling, FilledWhereGranted
<1>9. OneRun /\ FilledByRun
  BY <1>2 DEF PathInit, ExtInit, OneRun, FilledByRun
<1>10. InTurn
  BY <1>2, <1>4 DEF InTurn, PagePcs
<1>11. Served /\ Covered
  BY <1>2 DEF PathInit, WindowInit, Served, Covered
<1> QED BY <1>7, <1>8, <1>9, <1>10, <1>11 DEF CoverInv

\* The invariant the theorems rest on: the types and what every run and request is about, and the
\* state of the first connection while it is undisturbed.
THEOREM PathInvariant == PathSpec => [](PathInv /\ KeepsPolling /\ FilledWhereGranted /\ CoverInv)
<1>1. PathInit => PathInv /\ KeepsPolling /\ FilledWhereGranted /\ CoverInv
  BY PathStart
<1>2. PathInv /\ KeepsPolling /\ FilledWhereGranted /\ CoverInv /\ [PathNext]_pathVars
      => (PathInv /\ KeepsPolling /\ FilledWhereGranted /\ CoverInv)'
  <2> SUFFICES ASSUME PathInv, KeepsPolling, FilledWhereGranted, CoverInv, [PathNext]_pathVars
               PROVE  (PathInv /\ KeepsPolling /\ FilledWhereGranted /\ CoverInv)'
    OBVIOUS
  <2>1. ExecOnward /\ ExtStep
    BY PathWindow, WindowTyped, PathExt
  <2>2. PathInv'
    BY PathKept
  <2>3. KeepsPolling' /\ FilledWhereGranted'
    BY <2>1, PollingKept, FilledKept
  <2>4. CoverInv'
    BY <2>2, CoverKept
  <2> QED BY <2>2, <2>3, <2>4
<1> QED BY <1>1, <1>2, PTL DEF PathSpec

\* PathTypeOK holds of every behaviour of the path: the broker's windows, sessions and executions, the
\* worker's globals and the pages keep their shape.
THEOREM PathTypeCorrect == PathSpec => []PathTypeOK
<1>1. PathInv => PathTypeOK
  BY DEF PathInv
<1> QED BY <1>1, PathInvariant, PTL

\* FilledWhereGranted: however the user, the page and agents navigate, ports are lost and workers stopped
\* between the offer, the preflight, the consume and the fill, a secret is only in the document its
\* capability was minted for.
THEOREM PathFilledWhereGranted == PathSpec => []FilledWhereGranted
BY PathInvariant, PTL

\* WindowCovers: on an undisturbed connection a secret handed out under a window is in the page only while
\* the window of its tab is closed to observation, though several executions share the set of windows.
THEOREM PathWindowCovers == PathSpec => []WindowCovers
<1>1. PathInv /\ CoverInv => WindowCovers
  <2> SUFFICES ASSUME PathInv, CoverInv, NEW f \in filled, Undisturbed, exec[f.exec].guarded PROVE f.tab \in windows
    BY DEF WindowCovers
  <2>1. PICK l \in Loops : loops[l].pc = "filling" /\ loops[l].exec = f.exec /\ loops[l].tab = f.tab
    BY DEF CoverInv, FilledByRun
  <2> QED BY <2>1 DEF CoverInv, Covered
<1> QED BY <1>1, PathInvariant, PTL

\* KeepsPolling: whatever disconnects, timeouts and failing runs do to the shared timer, a connected
\* extension has its timer set or a run under way.
THEOREM PathKeepsPolling == PathSpec => []KeepsPolling
BY PathInvariant, PTL
============================================================================
