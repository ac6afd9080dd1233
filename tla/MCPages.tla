------------------------------- MODULE MCPages ------------------------------
EXTENDS PageCalls
CONSTANTS p1, t1, x1, c1, c2, none, MaxCommands

MCKinds ==
  (c1 :> {"read", "readAt", "snapshot", "wait", "click", "type", "select", "navigate", "history", "tabs"})
    @@ (c2 :> {"wait"})
MCObserving == [c \in Callers |-> Observing]

\* The commands the pipe carries in a run; and executions run beside observing calls only,
\* which alone look at their windows.
Scenarios ==
  /\ nextId <= MaxCommands + 1
  /\ \/ \A x \in Execs : exec[x] = NULL
     \/ \A c \in Callers : call[c].kind \in Observing \cup {NULL}

Element(id, up, tag, role, own, label) ==
  [id |-> id, up |-> up, tag |-> tag, role |-> role, own |-> own, skip |-> tag = "script",
   label |-> label, text |-> none]
Text(id, up, text) ==
  [id |-> id, up |-> up, tag |-> "#text", role |-> "text", own |-> FALSE, skip |-> FALSE,
   label |-> none, text |-> text]
Div(id, up, own) == Element(id, up, "div", "generic", own, none)
Field(id, up) == Element(id, up, "input", "textbox", FALSE, "code")
Button(id, up) == Element(id, up, "button", "button", FALSE, none)

\* Two spellings of one name; and every button has the digest of every other.
MCFold(name) == [k \in 1 .. Len(name) |-> IF name[k] = "OK" THEN "ok" ELSE name[k]]
MCDigest(m) == <<m[1], m[2], Len(m[3])>>

\* A button, and a protected group around the field for a code, which echoes the code; and
\* the page after a script put another button, with a protected part, before the group.
MCDocuments == {
  << Div(1, 0, TRUE), Field(2, 1), Div(3, 1, FALSE), Text(4, 3, "1234"),
     Button(5, 0), Text(6, 5, "ok"),
     Element(11, 0, "script", "generic", FALSE, none), Text(12, 7, "var") >>,
  << Button(7, 0), Text(8, 1, "OK"), Div(9, 1, TRUE), Text(10, 3, "1234"),
     Div(1, 0, TRUE), Field(2, 5) >> }
============================================================================
