---------------------------- MODULE BrowserPath ----------------------------
(***************************************************************************)
(* A managed browser, its extension and the broker together: from the      *)
(* launch of the browser to the secret in the page and the report of the   *)
(* result.                                                                 *)
(***************************************************************************)
EXTENDS SensitiveWindow, Extension

pathVars == <<windowVars, extVars>>

(***************************************************************************)
(* The executor connection of one port: requests are served in order, one  *)
(* at a time.  A consume is several steps; the head of the queue stays     *)
(* until it is answered, and its handler goes on when the port is lost.    *)
(***************************************************************************)
ServeRegister(p) ==
  /\ Alive
  /\ \/ RegisterSession(p) /\ \E l \in Loops : Registered(p, l)
     \/ RegisterSession(p) /\ RegisterFails(p)
     \/ RegisterFails(p) /\ UNCHANGED windowVars

ServeHeartbeat(p) ==
  /\ nativePort = p /\ sessionId = p
  /\ \A x \in Execs : exec[x] # NULL /\ exec[x].sess = p =>
        exec[x].state \notin {"consumed", "retrieving"}
  /\ Heartbeat(p)
  /\ UNCHANGED extVars

ServeNext(p) ==
  /\ Serving(p, "next")
  /\ \E x \in Execs :
        /\ NextOffer(p, x)
        /\ Answered(p, "offered", x, exec[x].tab, exec[x].doc)

\* There is no offer, or the session counts as stale: the ticker found it so, or it is
\* ten seconds since its last heartbeat and the ticker has not come round.
ServeNextEmpty(p) ==
  /\ Serving(p, "next")
  /\ AnsweredLast(p)
  /\ UNCHANGED windowVars

ServeConsume(p) ==
  /\ Serving(p, "consume")
  /\ AcceptConsume(Head(wire[p]).exec, p, Head(wire[p]).doc)
  /\ UNCHANGED extVars

\* Revoked, past its deadline, or presented for another document or session.
ServeConsumeRejected(p) ==
  /\ Serving(p, "consume")
  /\ sess[p] # "none"
  /\ exec[Head(wire[p]).exec].state \in {"taken", "revoked"}
  /\ AnsweredLast(p)
  /\ UNCHANGED windowVars

\* The consume of x is still at the head of its port's queue.
Listening(x) ==
  LET p == exec[x].sess IN Serving(p, "consume") /\ Head(wire[p]).exec = x

ConsumeGranted(x) ==
  /\ RetrieveSucceeds(x)
  /\ IF Listening(x)
     THEN Answered(exec[x].sess, "granted", x, exec[x].tab, exec[x].doc)
     ELSE UNCHANGED extVars

ConsumeFailed(x) ==
  /\ RetrieveFails(x)
  /\ IF Listening(x) THEN AnsweredLast(exec[x].sess) ELSE UNCHANGED extVars

ServeResult(p) ==
  /\ Serving(p, "result")
  /\ LET m == Head(wire[p]) IN
     \/ ResultRecorded(m.exec)
     \/ EvidenceLost(m.exec, m.status)
     \/ m.status = "failed" /\ UNCHANGED windowVars
  /\ AnsweredLast(p)

(***************************************************************************)
(* The browser, its pages and the agents' calls.                           *)
(***************************************************************************)
BrowserStep ==
  \/ LaunchSpawn /\ UNCHANGED extVars
  \/ LaunchInsert /\ UNCHANGED extVars
  \/ CloseRemove /\ UNCHANGED extVars
  \/ (LaunchFails \/ Shutdown) /\ BrowserEnds

\* Chrome is closed by the user or crashes; the broker is not told.
BrowserQuits == Alive /\ (\E p \in Ports : port[p] = "open") /\ BrowserEnds /\ UNCHANGED windowVars

\* The capability names the document of the last context the extension reported, which
\* the tab may have left since.  (One for a session whose port is lost is never asked for.)
MintOffer(x, p, t) ==
  /\ port[p] = "open"
  /\ \E d \in 1..doc[t] : Offer(x, p, t, d)
  /\ UNCHANGED extVars

\* Until the browser has ended or the last of its ports is gone.
PageNavigates(t) == (\E p \in Ports : port[p] # "closed") /\ Alive /\ Navigate(t) /\ UNCHANGED windowVars

TickerStep ==
  \/ \E S \in SUBSET Ports : MarkStale(S) /\ UNCHANGED extVars
  \/ (ExpireWindows \/ RevokeOffers) /\ UNCHANGED extVars

ConsumeStep(x) ==
  \/ EnterWindow(x) /\ UNCHANGED extVars
  \/ ConsumeGranted(x)
  \/ ConsumeFailed(x)

ServeStep(p) ==
  \/ ServeNext(p)
  \/ ServeNextEmpty(p)
  \/ ServeConsume(p)
  \/ ServeConsumeRejected(p)
  \/ ServeResult(p)

RunStep(l) ==
  /\ \/ Poll(l)
     \/ StartPolling(l)
     \/ Preflight(l)
     \/ OfferDropped(l)
     \/ SendConsume(l)
     \/ Fill(l)
     \/ CommitRefused(l)
  /\ UNCHANGED windowVars

PageStep == \E f \in filled, st \in {"completed", "failed"} :
  CommitEnds(f, st) /\ UNCHANGED windowVars

PathInit == WindowInit /\ ExtInit

PathNext ==
  \/ BrowserStep
  \/ BrowserQuits
  \/ TickerStep
  \/ \E p \in Ports : (Alive /\ Connect(p) /\ UNCHANGED windowVars) \/ ServeRegister(p)
  \/ \E p \in Ports : ServeHeartbeat(p) \/ ServeStep(p)
  \/ \E p \in Ports : Disconnect(p) /\ UNCHANGED windowVars
  \/ WorkerStops /\ UNCHANGED windowVars
  \/ \E x \in Execs, p \in Ports, t \in Tabs : MintOffer(x, p, t)
  \/ \E x \in Execs : ConsumeStep(x)
  \/ \E l \in Loops : RunStep(l) \/ (RequestTimesOut(l) /\ UNCHANGED windowVars)
  \/ PageStep
  \/ \E t \in Tabs : PageNavigates(t)

PathSpec == PathInit /\ [][PathNext]_pathVars

(***************************************************************************)
(* Properties.                                                             *)
(***************************************************************************)
PCs == {"idle", "starting", "polling", "offered", "prepared", "consuming", "granted", "filling", "reporting"}

\* The broker's, the worker's and the page's state have the shape their code gives them.
PathTypeOK ==
  /\ WindowTypeOK
  /\ port \in [Ports -> {"new", "open", "closed"}]
  /\ nativePort \in Ports \cup {NULL} /\ sessionId \in Ports \cup {NULL}
  /\ timer \in BOOLEAN
  /\ loops \in [Loops -> [pc : PCs, exec : Execs \cup {NULL}, tab : Tabs \cup {NULL},
                          doc : Nat \cup {NULL}]]
  /\ doc \in [Tabs -> 1..MaxDocs]
  /\ filled \subseteq [exec : Execs, tab : Tabs, doc : 1..MaxDocs]

\* A secret is only ever in the document its capability was minted for, although the offer,
\* the preflight, the consume and the fill are four round trips during which the user, the
\* page and agents may navigate, the port may be lost and the worker stopped.
FilledWhereGranted ==
  \A f \in filled :
     /\ InMap(f.exec) /\ exec[f.exec].tab = f.tab
     /\ f.doc = exec[f.exec].doc /\ doc[f.tab] = f.doc

\* Nothing has yet come between the extension and the broker: the first port is the only
\* one there was, and no session has missed its heartbeats.
Undisturbed == ~ lapsed /\ \A p \in Ports : port[p] # "new" => nativePort = p

\* While the connection is undisturbed, a secret that was handed out under a window is in
\* the page only while its tab is in the window, so every observation is refused.  The
\* window is entered by one handler and left by another, in a set several executions of
\* the same tab share.
WindowCovers ==
  \A f \in filled : Undisturbed /\ exec[f.exec].guarded => f.tab \in windows

\* A connected extension goes on polling: the timer is set or a run is under way that will
\* set it, whatever disconnects, timeouts and failed runs did to the shared timer.
KeepsPolling ==
  nativePort # NULL /\ sessionId # NULL => timer \/ \E l \in Loops : loops[l].pc # "idle"
============================================================================
