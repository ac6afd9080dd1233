----------------------------- MODULE Extension -----------------------------
(***************************************************************************)
(* The managed browser's extension: the service worker that talks to the   *)
(* broker through the native messaging host, and the content script that   *)
(* fills a page.  The worker's globals are shared by all its callbacks:    *)
(* nativePort, browserSessionId, the table of pending requests and one     *)
(* poll timer.  A callback runs to its next await; a step here is one such *)
(* run.                                                                    *)
(*                                                                         *)
(* The native host relays one frame at a time and waits for the broker's   *)
(* answer before it reads the next, so what was sent over a port is a      *)
(* queue whose head is being served.  A run of pollExecution is a loop:    *)
(* usually there is one, but a run that is waiting for a page outlives the *)
(* loss of the port, and the next connection starts another.               *)
(***************************************************************************)
EXTENDS Naturals, FiniteSets, Sequences, BrowserIds

CONSTANTS
  Loops,          \* runs of pollExecution that may overlap
  MaxDocs,        \* bound on the documents a tab shows
  MaxWire         \* bound on the unanswered requests of a port when another poll starts

ASSUME ExtensionAssumption ==
  /\ NULL \notin Loops
  /\ MaxDocs \in Nat \ {0} /\ MaxWire \in Nat

VARIABLES
  port,           \* native ports: "new", "open" or "closed"
  nativePort,     \* the worker's current port
  sessionId,      \* browserSessionId
  wire,           \* requests sent over each port and not answered
  timer,          \* pollTimer is set
  loops,          \* runs of pollExecution
  doc,            \* the document each tab shows
  filled          \* secrets in the fields of a page: [exec, tab, doc]

extVars == <<port, nativePort, sessionId, wire, timer, loops, doc, filled>>
linkVars == <<port, nativePort, sessionId>>
pageVars == <<doc, filled>>

NoLoop == [pc |-> "idle", exec |-> NULL, tab |-> NULL, doc |-> NULL]
\* The run awaits an answer of the broker: it is in pendingRequests.
Waiting(l) == loops[l].pc \in {"polling", "consuming", "reporting"}

Message(kind, l, x, d, status) ==
  [kind |-> kind, loop |-> l, exec |-> x, doc |-> d, status |-> status]

\* The answers to the requests of the runs in L will find nobody waiting.
Abandon(w, L) ==
  [p \in Ports |-> [i \in DOMAIN w[p] |->
      IF w[p][i].loop \in L THEN [w[p][i] EXCEPT !.loop = NULL] ELSE w[p][i]]]

(***************************************************************************)
(* connectNative.  A run in L has thrown or finished: it schedules the     *)
(* next poll.                                                              *)
(***************************************************************************)
EndRuns(L) == loops' = [l \in Loops |-> IF l \in L THEN NoLoop ELSE loops[l]]

Connect(p) ==
  /\ nativePort = NULL
  /\ port[p] = "new"
  /\ port' = [port EXCEPT ![p] = "open"]
  /\ nativePort' = p
  /\ UNCHANGED <<sessionId, wire, timer, loops, pageVars>>

\* The challenge was signed and browser.register answered.  connectNative goes on in a run
\* of its own that reports the page contexts before it sets the timer.
Registered(p, l) ==
  /\ nativePort = p /\ sessionId = NULL /\ port[p] = "open"
  /\ loops[l] = NoLoop
  /\ sessionId' = p
  /\ loops' = [loops EXCEPT ![l].pc = "starting"]
  /\ UNCHANGED <<port, nativePort, wire, timer, pageVars>>

\* An error or a timeout on the way: the port is forgotten, but nobody closes it.
RegisterFails(p) ==
  /\ nativePort = p /\ sessionId = NULL
  /\ nativePort' = NULL
  /\ UNCHANGED <<port, sessionId, wire, timer, loops, pageVars>>

\* onDisconnect of any port that was opened, the current one or a forgotten one: the
\* listener resets the shared globals without looking whose port it was.
Disconnect(p) ==
  LET rejected == {l \in Loops : Waiting(l)} IN
  /\ port[p] = "open"
  /\ port' = [port EXCEPT ![p] = "closed"]
  /\ nativePort' = NULL
  /\ sessionId' = NULL
  /\ EndRuns(rejected)
  /\ timer' = (rejected # {})
  /\ wire' = Abandon([wire EXCEPT ![p] = << >>], rejected)
  /\ UNCHANGED pageVars

\* Chrome stops the service worker: all its globals are gone, the page is not.
WorkerStops ==
  /\ \E p \in Ports : port[p] = "open"
  /\ port' = [p \in Ports |-> IF port[p] = "open" THEN "closed" ELSE port[p]]
  /\ nativePort' = NULL
  /\ sessionId' = NULL
  /\ EndRuns(Loops)
  /\ timer' = FALSE
  /\ wire' = [p \in Ports |-> << >>]
  /\ UNCHANGED pageVars

\* The browser process ends, and the pages with it.
BrowserEnds ==
  /\ port' = [p \in Ports |-> "closed"]
  /\ nativePort' = NULL
  /\ sessionId' = NULL
  /\ EndRuns(Loops)
  /\ timer' = FALSE
  /\ wire' = [p \in Ports |-> << >>]
  /\ filled' = {}
  /\ UNCHANGED doc

(***************************************************************************)
(* pollExecution and runOffer.                                             *)
(***************************************************************************)
Poll(l) ==
  /\ timer /\ loops[l] = NoLoop
  /\ nativePort # NULL /\ sessionId # NULL
  /\ Len(wire[nativePort]) < MaxWire
  /\ timer' = FALSE
  /\ wire' = [wire EXCEPT ![nativePort] = Append(@, Message("next", l, NULL, NULL, NULL))]
  /\ loops' = [loops EXCEPT ![l].pc = "polling"]
  /\ UNCHANGED <<linkVars, pageVars>>

\* Seeded fault: a run that fails does not schedule the next poll.
EndRunSilently(l) ==
  /\ loops' = [loops EXCEPT ![l] = NoLoop]
  /\ UNCHANGED timer

EndRun(l) ==
  /\ loops' = [loops EXCEPT ![l] = NoLoop]
  /\ timer' = TRUE

StartPolling(l) ==
  /\ loops[l].pc = "starting"
  /\ EndRun(l)
  /\ UNCHANGED <<linkVars, wire, pageVars>>

\* sendNativeRequest gives up after its timeout; the request is still on its way.
RequestTimesOut(l) ==
  /\ Waiting(l)
  /\ EndRun(l)
  /\ wire' = Abandon(wire, {l})
  /\ UNCHANGED <<linkVars, pageVars>>

\* measureContext agrees with the offer, and the content script prepares a nonce in that
\* very document.
Preflight(l) ==
  /\ loops[l].pc = "offered"
  /\ doc[loops[l].tab] = loops[l].doc
  /\ loops' = [loops EXCEPT ![l].pc = "prepared"]
  /\ UNCHANGED <<linkVars, wire, timer, pageVars>>

\* The context changed, the preflight was rejected or the tab could not be asked.
OfferDropped(l) ==
  /\ loops[l].pc \in {"offered", "prepared", "granted"}
  /\ EndRun(l)
  /\ UNCHANGED <<linkVars, wire, pageVars>>

SendConsume(l) ==
  /\ loops[l].pc = "prepared" /\ nativePort # NULL
  /\ wire' = [wire EXCEPT ![nativePort] =
        Append(@, Message("consume", l, loops[l].exec, doc[loops[l].tab], NULL))]
  /\ loops' = [loops EXCEPT ![l].pc = "consuming"]
  /\ UNCHANGED <<linkVars, timer, pageVars>>

\* executor.result goes over whatever port is current by now.
Report(l, x, status) ==
  IF nativePort # NULL
  THEN /\ wire' = [wire EXCEPT ![nativePort] = Append(@, Message("result", l, x, NULL, status))]
       /\ loops' = [loops EXCEPT ![l].pc = "reporting"]
       /\ UNCHANGED timer
  ELSE EndRun(l) /\ UNCHANGED wire

\* Seeded fault: any document of the tab accepts the nonce.
NonceIgnored(l) == TRUE

\* commit: the nonce is known only to the document that prepared it.
NonceKnown(l) == doc[loops[l].tab] = loops[l].doc

Fill(l) ==
  /\ loops[l].pc = "granted" /\ NonceKnown(l)
  /\ filled' = filled \cup {[exec |-> loops[l].exec, tab |-> loops[l].tab,
                             doc |-> doc[loops[l].tab]]}
  /\ loops' = [loops EXCEPT ![l].pc = "filling"]
  /\ UNCHANGED <<linkVars, wire, timer, doc>>

\* The nonce is unknown or has expired, or a field is not the one that was verified.
CommitRefused(l) ==
  /\ loops[l].pc = "granted"
  /\ Report(l, loops[l].exec, "failed")
  /\ UNCHANGED <<linkVars, pageVars>>

\* The fields are cleared, after success or on error, and the worker hears of it if the
\* run that asked is still there.
CommitEnds(f, status) ==
  /\ f \in filled
  /\ filled' = filled \ {f}
  /\ \/ \E l \in Loops : /\ loops[l].pc = "filling" /\ loops[l].exec = f.exec
                         /\ Report(l, f.exec, status)
     \/ /\ ~ \E l \in Loops : loops[l].pc = "filling" /\ loops[l].exec = f.exec
        /\ UNCHANGED <<wire, loops, timer>>
  /\ UNCHANGED <<linkVars, doc>>

\* The tab shows another document, because the form was submitted, the user or an agent
\* navigated, or the page did.  The content script is gone with the fields, and a run that
\* waited for it is rejected.
Navigate(t) ==
  LET cut == {l \in Loops : loops[l].pc = "filling" /\ loops[l].tab = t} IN
  /\ doc[t] < MaxDocs
  /\ doc' = [doc EXCEPT ![t] = @ + 1]
  /\ filled' = {f \in filled : f.tab # t}
  /\ EndRuns(cut)
  /\ timer' = (timer \/ cut # {})
  /\ UNCHANGED <<linkVars, wire>>

(***************************************************************************)
(* The broker's answer to the head of a port's queue.                      *)
(***************************************************************************)
Serving(p, kind) == port[p] = "open" /\ wire[p] # << >> /\ Head(wire[p]).kind = kind

Answered(p, pc, x, t, d) ==
  LET l == Head(wire[p]).loop IN
  /\ wire' = [wire EXCEPT ![p] = Tail(@)]
  /\ IF l = NULL THEN UNCHANGED loops
     ELSE loops' = [loops EXCEPT ![l] = [pc |-> pc, exec |-> x, tab |-> t, doc |-> d]]
  /\ UNCHANGED <<linkVars, timer, pageVars>>

\* An error, an empty answer or the acknowledgement of a result: the run is over.
AnsweredLast(p) ==
  LET l == Head(wire[p]).loop IN
  /\ wire' = [wire EXCEPT ![p] = Tail(@)]
  /\ IF l = NULL THEN UNCHANGED <<loops, timer>> ELSE EndRun(l)
  /\ UNCHANGED <<linkVars, pageVars>>

ExtInit ==
  /\ port = [p \in Ports |-> "new"]
  /\ nativePort = NULL
  /\ sessionId = NULL
  /\ wire = [p \in Ports |-> << >>]
  /\ timer = FALSE
  /\ loops = [l \in Loops |-> NoLoop]
  /\ doc = [t \in Tabs |-> 1]
  /\ filled = {}
============================================================================
