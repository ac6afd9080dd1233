------------------------------ MODULE PageCalls ----------------------------
(***************************************************************************)
(* What agents do with the pages of a managed browser: browser.* and       *)
(* page.* calls of several connections, each a series of commands sent     *)
(* through the one pipe to Chrome, while executions put secrets into the   *)
(* page.                                                                   *)
(*                                                                         *)
(* The window and the executions are those of SensitiveWindow, driven here *)
(* by an extension that runs one execution at a time; the sessions of this *)
(* module keep up their heartbeats.                                        *)
(***************************************************************************)
EXTENDS SensitiveWindow, PageView

CONSTANTS
  Callers,       \* agent connections
  Kinds,         \* caller -> the calls it makes
  Documents,     \* what the tab may show
  SnapshotNodes, \* max_nodes of a snapshot
  ResolveNodes,  \* the limit a locator is resolved with
  TextRuns       \* max_chars of a text, in runs

CallKinds == {"read", "readAt", "snapshot", "wait", "click", "type", "select",
              "navigate", "history", "tabs"}

ASSUME PagesAssumption ==
  /\ SnapshotNodes \in Nat /\ ResolveNodes \in Nat /\ TextRuns \in Nat
  /\ Kinds \in [Callers -> SUBSET CallKinds] /\ NULL \notin CallKinds
  /\ \A d \in Documents : WellFormed(d)
ASSUME DocumentsAssumption == \A d \in Documents : TextsApart(d)

VARIABLES
  page,        \* the document the tab shows
  call,        \* caller -> the call it has in progress, or Resting
  nextId,      \* next_id of the pipe
  outbound,    \* commands written to the pipe and not yet run
  inbound      \* answers of Chrome not yet read

callVars == <<page, call, nextId, outbound, inbound>>
pageVars == <<windowVars, callVars>>

(***************************************************************************)
(* The calls.  Every handler is a fixed series of commands; the observing  *)
(* ones ask guard_observation first.                                       *)
(***************************************************************************)
Observing == {"read", "readAt", "snapshot", "wait"}
Located == {"readAt", "click", "type", "select"}

\* resolve_locator: a selector is Chrome's to find, the others are matched in a fresh view.
Resolve(by) == IF by = "css" THEN <<"root", "query">> ELSE <<"document">>

ReadText == <<"attach", "document">>
ReadTextAt(by) == <<"attach">> \o Resolve(by) \o <<"describe">>
SnapshotSafe == <<"attach", "document", "box", "history">>
WaitFor == <<"attach", "document">>               \* one look, whatever the condition
Click(by) == <<"attach">> \o Resolve(by) \o <<"box", "mouse">>
TypePublic(by) == <<"attach">> \o Resolve(by) \o <<"describe", "focus", "insert">>
Select(by) == TypePublic(by) \o <<"key">>
BrowserNavigate == <<"attach", "navigate">>         \* and reload
NavigateHistory == <<"attach", "history", "navigate">>
BrowserTabs == <<"targets">>                        \* and opening and closing a tab

Script(k, by) ==
  CASE k = "read"     -> ReadText
    [] k = "readAt"   -> ReadTextAt(by)
    [] k = "snapshot" -> SnapshotSafe
    [] k = "wait"     -> WaitFor
    [] k = "click"    -> Click(by)
    [] k = "type"     -> TypePublic(by)
    [] k = "select"   -> Select(by)
    [] k = "navigate" -> BrowserNavigate
    [] k = "history"  -> NavigateHistory
    [] k = "tabs"     -> BrowserTabs

NoLocator == [by |-> "none", view |-> <<>>, k |-> 0]
\* pc counts the commands, id is that of the command whose answer is awaited, node the node
\* the locator led to, saw the document the answer to the agent is taken from.
Resting == [kind |-> NULL, loc |-> NoLocator, pc |-> 0, id |-> 0, saw |-> <<>>,
            node |-> 0, under |-> {}]

\* An agent names an element by an entry of a snapshot it has, or by a selector.
Shown(loc) == ProjectedNodes(loc.view, SnapshotNodes)[loc.k]
Locators ==
  {[by |-> "css", view |-> <<>>, k |-> 0]}
    \cup UNION {{[by |-> b, view |-> d, k |-> k] :
                   b \in {"ref", "role", "text"},
                   k \in 1 .. Len(ProjectedNodes(d, SnapshotNodes))} : d \in Documents}

Found(loc, d) ==
  CASE loc.by = "ref"  -> ResolveReference(d, ResolveNodes, Shown(loc).ref)
    [] loc.by = "role" -> ResolveRole(d, ResolveNodes, Shown(loc).role, Shown(loc).name)
    [] loc.by = "text" -> ResolveText(d, ResolveNodes, Shown(loc).name)

Commands(c) == Script(call[c].kind, call[c].loc.by)
Command(c) == Commands(c)[call[c].pc]
\* The call is at one of its commands.
Asking(c) == call[c].pc > 0 /\ call[c].pc <= Len(Commands(c))

(***************************************************************************)
(* Beginning a call.                                                       *)
(***************************************************************************)
GuardObservation == ~ (Managed /\ windows # {})

\* Executions a call was admitted under: history only.
Guarded == {x \in Execs : exec[x] # NULL /\ exec[x].guarded /\ Open(x)}

BeginCall(c, k, loc) ==
  /\ call[c] = Resting
  /\ k \in Observing => GuardObservation
  /\ call' = [call EXCEPT ![c] = [Resting EXCEPT !.kind = k, !.loc = loc,
                                    !.under = IF k \in Observing THEN Guarded ELSE {}]]
  /\ UNCHANGED <<windowVars, page, nextId, outbound, inbound>>

\* browser_transport: an active session and a browser in the map.
Transport(c) ==
  /\ call[c].kind # NULL /\ call[c].pc = 0
  /\ call' = [call EXCEPT ![c] =
        IF Managed /\ \E p \in Ports : sess[p] = "active"
        THEN [@ EXCEPT !.pc = 1] ELSE Resting]
  /\ UNCHANGED <<windowVars, page, nextId, outbound, inbound>>

(***************************************************************************)
(* The pipe.  Every caller reads the one stream of frames until it meets   *)
(* the id of its own command.                                              *)
(***************************************************************************)
\* Seeded fault: the counter is read and not advanced.
NoFetchAdd == nextId' = nextId
FetchAdd == nextId' = nextId + 1

Send(c) ==
  /\ Asking(c) /\ call[c].id = 0
  /\ Alive
  /\ FetchAdd
  /\ outbound' = Append(outbound,
       [id |-> nextId, by |-> c, cmd |-> Command(c), node |-> call[c].node])
  /\ call' = [call EXCEPT ![c].id = nextId]
  /\ UNCHANGED <<windowVars, page, inbound>>

\* Chrome runs a command.  Those that name a node fail when the page has it no longer; what
\* shows the page may be longer than a frame may be, and is then no answer at all.
NamesNode == {"describe", "box", "focus"}
Elements(d) == {d[i].id : i \in {j \in Positions(d) : d[j].role # "text"}}
ShowsPage == {"document", "describe"}
ChromeRuns ==
  /\ Alive /\ outbound # <<>>
  /\ LET m == Head(outbound) IN
     \E res \in {"ok", "error", "garbled"} :
     \E node \in IF m.cmd = "query" /\ res = "ok" THEN Elements(page) ELSE {m.node} :
        /\ m.cmd \in NamesNode /\ m.node # 0 => (res = "error") = ~ Has(page, m.node)
        /\ res = "garbled" => m.cmd \in ShowsPage
        /\ inbound' = Append(inbound,
             [id |-> m.id, by |-> m.by, cmd |-> m.cmd, res |-> res,
              doc |-> IF m.cmd \in ShowsPage /\ res = "ok" THEN page ELSE <<>>,
              node |-> node])
        /\ outbound' = Tail(outbound)
        /\ page' \in IF res = "ok" /\ m.cmd = "navigate" THEN Documents ELSE {page}
  /\ UNCHANGED <<windowVars, call, nextId>>

\* The request failed.  A probe of the layout may, and so may the look of a wait for a
\* locator: page.wait_for then counts it as absent.
Failed(c) ==
  LET next == [call[c] EXCEPT !.pc = @ + 1, !.id = 0]
  IN CASE call[c].kind = "snapshot" /\ Command(c) = "box" -> {next}
       [] call[c].kind = "wait" /\ Command(c) = "document" -> {Resting, next}
       [] OTHER -> {Resting}

\* What the handler makes of an answer: the call as it is then.
After(c, f) ==
  LET next == [call[c] EXCEPT !.pc = @ + 1, !.id = 0, !.node = f.node]
      kind == call[c].kind
  IN IF f.res = "error" THEN Failed(c)
     ELSE CASE f.cmd = "document" /\ kind \in Located ->
                 IF Found(call[c].loc, f.doc) = {} THEN {Resting}
                 ELSE {[next EXCEPT !.node = n] : n \in Found(call[c].loc, f.doc)}
            [] f.cmd = "describe" /\ kind \in {"type", "select"} ->
                 {IF NodeIsProtected(f.doc, f.node) THEN Resting ELSE next}
            [] \/ f.cmd = "document" /\ kind \in {"read", "snapshot"}
               \/ f.cmd = "describe" /\ kind = "readAt" ->
                 {[next EXCEPT !.saw = f.doc]}
            [] OTHER -> {next}

\* The id of the frame is the id of the caller's command; other frames are dropped.
Takes(c, f) == f.id = call[c].id

\* A frame that is too long or does not parse fails the request of whoever reads it: that
\* caller leaves its own answer in the pipe.
ReadFrame(c) ==
  /\ call[c].id # 0 /\ inbound # <<>>
  /\ inbound' = Tail(inbound)
  /\ LET f == Head(inbound) IN
     \E n \in IF f.res = "garbled" THEN Failed(c)
              ELSE IF Takes(c, f) THEN After(c, f) ELSE {call[c]} :
       call' = [call EXCEPT ![c] = n]
  /\ UNCHANGED <<windowVars, page, nextId, outbound>>

(***************************************************************************)
(* The end of a call.                                                      *)
(***************************************************************************)
\* Seeded fault: page.wait_for asks the guard once, before it starts to poll.
WaitUnguarded(r) ==
  {Resting, [Resting EXCEPT !.kind = "wait", !.loc = r.loc, !.under = Guarded]}

\* page.wait_for evaluated its condition: satisfied or past the deadline; or it slept, and
\* then asks the guard again and repeats everything from the transport on.
WaitAgain(r) ==
  {Resting} \cup
    IF GuardObservation
    THEN {[Resting EXCEPT !.kind = "wait", !.loc = r.loc, !.under = Guarded]} ELSE {}

Reply(c) ==
  /\ call[c].kind # NULL /\ call[c].pc > Len(Commands(c))
  /\ \E r \in IF call[c].kind = "wait" THEN WaitAgain(call[c]) ELSE {Resting} :
       call' = [call EXCEPT ![c] = r]
  /\ UNCHANGED <<windowVars, page, nextId, outbound, inbound>>

\* The texts of the page in the answer of a call: page.wait_for answers that it is satisfied.
Told(r) ==
  IF r.saw = <<>> THEN {}
  ELSE CASE r.kind = "read" -> ToSet(ProjectedText(r.saw, TextRuns))
         [] r.kind = "readAt" ->
              ToSet(SubtreeText(r.saw, PositionOf(r.saw, r.node), TextRuns))
         [] r.kind = "snapshot" ->
              LET ns == ProjectedNodes(r.saw, SnapshotNodes)
              IN UNION {ToSet(ns[k].name) : k \in 1 .. Len(ns)}

\* The process is gone: reads and writes of the pipe fail.
Terminated(c) ==
  /\ Asking(c) /\ browser = "dead"
  /\ call' = [call EXCEPT ![c] = Resting]
  /\ UNCHANGED <<windowVars, page, nextId, outbound, inbound>>

\* A script, a person or the page's own navigation changes what the tab shows.
PageChanges ==
  /\ Alive
  /\ page' \in Documents \ {page}
  /\ UNCHANGED <<windowVars, call, nextId, outbound, inbound>>

(***************************************************************************)
(* The executions meanwhile.                                               *)
(***************************************************************************)
\* The steps up to an accepted consume touch neither the windows nor the page.
Consumed(x) ==
  /\ exec[x] = NULL /\ \A y \in Execs : ~ Open(y)
  /\ \E p \in Ports, t \in Tabs :
       /\ sess[p] = "active"
       /\ exec' = [exec EXCEPT ![x] = [sess |-> p, tab |-> t, doc |-> 1,
                                       state |-> "consumed", guarded |-> FALSE]]
  /\ UNCHANGED <<browser, windows, sess, ticker, lapsed>>

Execution(x) ==
  \/ Consumed(x)
  \/ EnterWindow(x)
  \/ RetrieveSucceeds(x)
  \/ RetrieveFails(x)
  \/ ResultRecorded(x)

Dies ==
  /\ Shutdown
  /\ outbound' = <<>> /\ inbound' = <<>>
  /\ UNCHANGED <<page, call, nextId>>

PagesInit ==
  /\ browser = "managed" /\ windows = {}
  /\ sess = [p \in Ports |-> "active"]
  /\ exec = [x \in Execs |-> NULL]
  /\ ticker = [phase |-> "idle", found |-> {}]
  /\ lapsed = FALSE
  /\ page \in Documents
  /\ call = [c \in Callers |-> Resting]
  /\ nextId = 1
  /\ outbound = <<>> /\ inbound = <<>>

PagesNext ==
  \/ \E c \in Callers :
       \/ \E k \in Kinds[c] : \E loc \in IF k \in Located THEN Locators ELSE {NoLocator} :
            BeginCall(c, k, loc)
       \/ Transport(c)
       \/ Send(c)
       \/ ReadFrame(c)
       \/ Reply(c)
       \/ Terminated(c)
  \/ ChromeRuns
  \/ PageChanges
  \/ CloseRemove /\ UNCHANGED callVars
  \/ Dies
  \/ \E x \in Execs : Execution(x) /\ UNCHANGED callVars

PagesSpec == PagesInit /\ [][PagesNext]_pageVars

(***************************************************************************)
(* Properties.                                                             *)
(***************************************************************************)
\* The calls, the pipe and the windows keep the shape the handlers give them.
PagesTypeOK ==
  /\ WindowTypeOK
  /\ page \in Documents
  /\ \A c \in Callers :
       /\ call[c].kind \in Kinds[c] \cup {NULL}
       /\ call[c].pc \in IF call[c].kind = NULL THEN {0} ELSE 0 .. Len(Commands(c)) + 1
       /\ call[c].id \in 0 .. nextId - 1
       /\ call[c].id # 0 => Asking(c)

\* A secret is on its way into the page, or in it, behind a window.
InFlight(x) ==
  /\ Managed /\ exec[x] # NULL /\ exec[x].guarded
  /\ exec[x].state \in {"retrieving", "running"}

\* "Observation APIs are globally blocked for this managed browser from immediately before
\* provider retrieval until the executor reports a terminal result": Chrome then never has
\* a command of an observing call to show it the page.
ObservationBlocked ==
  \A c \in Callers, x \in Execs :
    call[c].kind \in Observing /\ outbound # <<>> /\ InFlight(x) =>
      ~ (Head(outbound).id = call[c].id /\ Head(outbound).cmd \in ShowsPage)

\* guard_observation is asked once, and the commands follow later.  What still holds: a
\* call that reads the page while a secret is on its way into it, or is in it, was
\* admitted before the window of that secret opened; page.wait_for asks in every round.
AdmittedBefore ==
  \A c \in Callers, x \in Execs :
    call[c].kind \in Observing /\ call[c].id # 0 /\ InFlight(x) => x \notin call[c].under

\* Callers share one reader; each drops the answers of the others, and an unreadable frame
\* makes one leave with its own answer to come.  Still no answer is taken for that of
\* another command, of another caller or of an earlier call.
AnswersFit ==
  \A c \in Callers : \A i \in 1 .. Len(inbound) :
    call[c].id # 0 /\ Takes(c, inbound[i]) =>
      /\ inbound[i].by = c /\ inbound[i].cmd = Command(c)
      /\ inbound[i].cmd # "query" => inbound[i].node = call[c].node

\* "with protected subtrees elided before anything is serialized": no answer holds a text
\* that stands in a protected or a non-content element.
ProtectedElided == \A c \in Callers : Told(call[c]) \cap Hidden(call[c].saw) = {}

\* page.read_text at a locator walks from the element and not from the root.  What still
\* holds, whatever the page became between two commands: a hidden text is told only when
\* the element itself lies in what hides it.
ElidedOutside ==
  \A c \in Callers :
    Told(call[c]) \cap Hidden(call[c].saw) # {} =>
      /\ call[c].kind = "readAt"
      /\ Enclosed(call[c].saw, PositionOf(call[c].saw, call[c].node))
============================================================================
