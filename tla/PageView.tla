------------------------------ MODULE PageView -----------------------------
(***************************************************************************)
(* The projection of a page that an agent is given in place of its DOM.    *)
(*                                                                         *)
(* A document is a sequence of nodes in document order, the order in which *)
(* the walker visits them:                                                 *)
(*   id     the node id Chrome gives it                                    *)
(*   up     the position of its parent, 0 for the root                     *)
(*   tag    its nodeName                                                   *)
(*   role   "text" for a text node, else what derive_role makes of the tag *)
(*          and the role attribute                                         *)
(*   own    its own attributes mark it as credential bearing               *)
(*   skip   its tag is one whose content is never page content             *)
(*   label  what its attributes say it is called, or NULL: the name and,   *)
(*          of a button-like one, the value of an input included           *)
(*   text   what a text node says, NULL for an element                     *)
(* Characters, white space and the depth of four at which a name stops     *)
(* being collected are left out: documents are shallower than that.        *)
(***************************************************************************)
EXTENDS Naturals, Sequences, FiniteSets, SequencesExt

CONSTANTS
  NoText,      \* the absent label, text or name
  Fold(_),     \* normalize_for_match: a name in lower case, its white space collapsed
  Digest(_)    \* the three bytes of SHA-256 a reference keeps; names may collide

Interactable == {"link", "button", "textbox", "checkbox", "radio", "combobox"}

Positions(d) == 1 .. Len(d)
\* A set of positions in document order.
InOrder(S) ==
  [k \in 1 .. Cardinality(S) |-> CHOOSE i \in S : Cardinality({j \in S : j <= i}) = k]

Children(d, i) == InOrder({j \in Positions(d) : d[j].up = i})

\* Seeded fault: protection is what the element's own attributes say.
OwnProtection(d) == [i \in Positions(d) |-> d[i].own]

\* The walker hands an element's protection down to its children.
Protection(d) ==
  LET P[i \in Positions(d)] == d[i].own \/ (d[i].up # 0 /\ P[d[i].up])
  IN P

\* Whether the walk comes to a node: it does not enter what is not content.
Visited(d) ==
  LET V[i \in Positions(d)] == ~ d[i].skip /\ (d[i].up # 0 => V[d[i].up])
  IN V

\* The text of an element's subtree, without its protected and its non-content elements.
DescendantText(d) ==
  LET T[i \in Positions(d)] ==
        FlattenSeq([k \in 1 .. Len(Children(d, i)) |->
            LET j == Children(d, i)[k] IN
            IF d[j].role = "text" THEN <<d[j].text>>
            ELSE IF d[j].skip \/ d[j].own THEN <<>> ELSE T[j]])
  IN T

\* A name in the order a screen reader prefers; a protected element has none, and an input
\* is never named by its content.
NameOf(d, i) ==
  IF Protection(d)[i] THEN <<>>
  ELSE IF d[i].label # NoText THEN <<d[i].label>>
  ELSE IF d[i].tag = "input" THEN <<>> ELSE DescendantText(d)[i]

\* make_reference: the position among the interactables, and a digest of what the element is.
Reference(k, tag, role, name) == <<k, Digest(<<tag, role, Fold(name)>>)>>

FirstOf(s, n) == SubSeq(s, 1, IF Len(s) < n THEN Len(s) ELSE n)

\* record_element: the first limit interactables, in document order.
ProjectedNodes(d, limit) ==
  LET found == FirstOf(InOrder({i \in Positions(d) :
                 Visited(d)[i] /\ d[i].role \in Interactable}), limit)
  IN [k \in 1 .. Len(found) |->
        LET i == found[k] IN
        [ref |-> Reference(k, d[i].tag, d[i].role, NameOf(d, i)), id |-> d[i].id,
         role |-> d[i].role, name |-> NameOf(d, i), protected |-> Protection(d)[i]]]

\* push_text: the runs of text in S that no element the walk came through protects.
TextIn(d, S, limit) ==
  LET runs == InOrder({i \in S : d[i].role = "text" /\ Visited(d)[i] /\ ~ Protection(d)[i]})
  IN FirstOf([k \in 1 .. Len(runs) |-> d[runs[k]].text], limit)

ProjectedText(d, limit) == TextIn(d, Positions(d), limit)

Above(d, i) ==
  LET A[j \in Positions(d)] == {j} \cup (IF d[j].up = 0 THEN {} ELSE A[d[j].up])
  IN A[i]

\* from_node on an element: a walk that starts there, and knows nothing of what is above.
Cut(d, r) == [d EXCEPT ![r].up = 0]
SubtreeText(d, r, limit) ==
  TextIn(Cut(d, r), {i \in Positions(d) : r \in Above(d, i)}, limit)

(***************************************************************************)
(* Locators: the set of node ids each one resolves to, empty on failure.   *)
(***************************************************************************)
Matches(d, limit, Test(_)) ==
  LET ns == ProjectedNodes(d, limit)
  IN {ns[k].id : k \in {j \in 1 .. Len(ns) : Test(ns[j])}}

ExactlyOne(S) == IF \E n \in S : S = {n} THEN S ELSE {}

ResolveReference(d, limit, ref) == Matches(d, limit, LAMBDA n : n.ref = ref)
ResolveRole(d, limit, role, name) ==
  ExactlyOne(Matches(d, limit, LAMBDA n : n.role = role /\ Fold(n.name) = Fold(name)))
ResolveText(d, limit, name) ==
  ExactlyOne(Matches(d, limit, LAMBDA n : Fold(n.name) = Fold(name)))

PositionOf(d, id) == CHOOSE i \in Positions(d) : d[i].id = id
Has(d, id) == \E i \in Positions(d) : d[i].id = id
\* node_is_protected: what DOM.describeNode says of the node alone.
NodeIsProtected(d, id) == \E i \in Positions(d) : d[i].id = id /\ d[i].own

(***************************************************************************)
(* The reference: what a document must keep from an agent, from the chain  *)
(* of elements above each node.                                            *)
(***************************************************************************)
InTheOpen(d) == {i \in Positions(d) : \A k \in Above(d, i) : ~ d[k].own /\ ~ d[k].skip}

Hidden(d) ==
  (UNION {{d[i].text, d[i].label} : i \in Positions(d) \ InTheOpen(d)}) \ {NoText}

ShownBy(d, limit) ==
  ToSet(ProjectedText(d, limit))
    \cup UNION {ToSet(ProjectedNodes(d, limit)[k].name) :
                  k \in 1 .. Len(ProjectedNodes(d, limit))}

\* Protected by, or no content because of, an element it lies in.
Enclosed(d, i) == \E k \in Above(d, i) \ {i} : d[k].own \/ d[k].skip

\* A document as the walker meets it: parents come before their children, ids are unique,
\* and only text nodes, which have neither tag nor attributes, have text.
WellFormed(d) ==
  /\ d \in Seq(ToSet(d))
  /\ \A i, j \in Positions(d) : d[i].id # 0 /\ (d[i].id = d[j].id => i = j)
  /\ \A i \in Positions(d) :
       /\ DOMAIN d[i] = {"id", "up", "tag", "role", "own", "skip", "label", "text"}
       /\ d[i].up \in 0 .. i - 1
       /\ d[i].own \in BOOLEAN /\ d[i].skip \in BOOLEAN
       /\ d[i].role = "text" => ~ d[i].own /\ ~ d[i].skip
       /\ d[i].text # NoText => d[i].role = "text"

\* No text stands both in a protected element and in the open.
TextsApart(d) == \A i \in InTheOpen(d) : {d[i].text, d[i].label} \cap Hidden(d) = {}

\* The text in the open is not more than a view may hold.
Fits(d, limit) == Cardinality({i \in InTheOpen(d) : d[i].role = "text"}) <= limit
============================================================================
