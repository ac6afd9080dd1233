----------------------------- MODULE PageProofs -----------------------------
(***************************************************************************)
(* Proofs about PageCalls for any sets of callers, documents and           *)
(* executions: the types, that the observation guard admits no call under  *)
(* a secret, that no answer is taken for that of another command, that the *)
(* view of a document of any size and depth holds what is in the open and  *)
(* no more, and that a hidden text is told only of an element that lies in *)
(* what hides it.                                                          *)
(*                                                                         *)
(* The invariant says that ids in the pipe are used once and below the     *)
(* counter, and that an entry with the id a caller waits for is about the  *)
(* call as it is, whatever earlier calls left behind (CallsInv, PipeInv);  *)
(* and of every execution that it is alone and behind its window until it  *)
(* is over (ShieldInv, UnderInv).                                          *)
(***************************************************************************)
EXTENDS PageCalls, ProofLemmas, FiniteSetTheorems

(***************************************************************************)
(* The invariant.                                                          *)
(***************************************************************************)
CommandNames == {"attach", "document", "root", "query", "describe", "box", "history", "mouse",
                 "focus", "insert", "key", "navigate", "targets"}

\* Ids of nodes, and 0 while a call has found none.
NodeIds == {0} \cup UNION {{d[i].id : i \in Positions(d)} : d \in Documents}

CallRecord ==
  [kind : CallKinds \cup {NULL}, loc : Locators \cup {NoLocator}, pc : Nat, id : Nat,
   saw : Documents \cup {<<>>}, node : NodeIds, under : SUBSET Execs]
CommandMsg == [id : Nat \ {0}, by : Callers, cmd : CommandNames, node : NodeIds]
Frame == [id : Nat \ {0}, by : Callers, cmd : CommandNames, res : {"ok", "error", "garbled"},
          doc : Documents \cup {<<>>}, node : NodeIds]
AnswerMsg == {f \in Frame : f.cmd \in ShowsPage /\ f.res = "ok" => f.doc \in Documents}

\* The command a call is at.
CommandOf(r) == Script(r.kind, r.loc.by)[r.pc]

CallHolds(c, r) ==
  /\ r \in CallRecord
  /\ r.kind \in Kinds[c] \cup {NULL}
  /\ r.kind = NULL => r.pc = 0
  /\ r.kind # NULL => r.pc <= Len(Script(r.kind, r.loc.by)) + 1
  /\ r.kind \in Located => r.loc \in Locators
  /\ r.id # 0 => r.pc > 0 /\ r.pc <= Len(Script(r.kind, r.loc.by))
  /\ r.saw # <<>> => r.kind \in {"read", "readAt", "snapshot"}

\* Nobody waits for an id that is yet to be given out, nor two for the same.
CallsInv ==
  /\ page \in Documents
  /\ nextId \in Nat \ {0}
  /\ call \in [Callers -> CallRecord]
  /\ \A c \in Callers : CallHolds(c, call[c]) /\ call[c].id < nextId
  /\ \A c, d \in Callers : call[c].id # 0 /\ call[c].id = call[d].id => c = d

\* A command and an answer in the pipe whose id a caller waits for are about its call as it
\* is.  Those that nobody waits for any more may be anything.
SentBy(m) ==
  \A c \in Callers : m.id = call[c].id =>
    m.by = c /\ m.cmd = CommandOf(call[c]) /\ m.node = call[c].node
AnswerTo(f) ==
  \A c \in Callers : f.id = call[c].id =>
    f.by = c /\ f.cmd = CommandOf(call[c]) /\ (f.cmd # "query" => f.node = call[c].node)

\* No id is twice in the pipe.
OnePerId ==
  /\ \A i, j \in 1 .. Len(outbound) : outbound[i].id = outbound[j].id => i = j
  /\ \A i, j \in 1 .. Len(inbound) : inbound[i].id = inbound[j].id => i = j
  /\ \A i \in 1 .. Len(outbound), j \in 1 .. Len(inbound) : outbound[i].id # inbound[j].id

PipeInv ==
  /\ outbound \in Seq(CommandMsg) /\ inbound \in Seq(AnswerMsg)
  /\ \A i \in 1 .. Len(outbound) : SentBy(outbound[i]) /\ outbound[i].id < nextId
  /\ \A i \in 1 .. Len(inbound) : AnswerTo(inbound[i]) /\ inbound[i].id < nextId
  /\ OnePerId
  /\ browser = "dead" => outbound = <<>> /\ inbound = <<>>

\* Executions run one at a time, and the window of the one that has or gets the secret is
\* closed while the browser is managed.
ShieldInv ==
  /\ WindowTypeOK
  /\ \A x \in Execs : exec[x] # NULL =>
       /\ exec[x].state \in {"consumed", "retrieving", "running", "spoiled", "done"}
       /\ exec[x].state = "consumed" => ~ exec[x].guarded
       /\ Managed /\ exec[x].guarded /\ exec[x].state \in {"retrieving", "running"}
            => exec[x].tab \in windows
  /\ \A x, y \in Execs : Open(x) /\ Open(y) => x = y

\* The executions a call was admitted under are over, as far as the page goes.
UnderInv ==
  Managed => \A c \in Callers : \A x \in call[c].under :
               exec[x] # NULL /\ exec[x].state \in {"spoiled", "done"}

PageInv == CallsInv /\ PipeInv /\ ShieldInv /\ UnderInv

(***************************************************************************)
(* The view.                                                               *)
(***************************************************************************)
\* The rank of an element, the number of elements up to it, is its own.
LEMMA Ranks ==
  ASSUME NEW S \in SUBSET Nat, IsFiniteSet(S)
  PROVE  /\ Cardinality(S) \in Nat
         /\ \A i \in S : Cardinality({j \in S : j <= i}) \in 1 .. Cardinality(S)
         /\ \A i, m \in S : Cardinality({j \in S : j <= i}) = Cardinality({j \in S : j <= m}) => i = m
<1> DEFINE Upto(i) == {j \in S : j <= i}
           n == Cardinality(S)
<1>1. n \in Nat
  BY FS_CardinalityType
<1>2. ASSUME NEW i \in S
      PROVE  IsFiniteSet(Upto(i)) /\ Cardinality(Upto(i)) \in 1 .. n
  <2>1. Upto(i) \in SUBSET S /\ i \in Upto(i)
    OBVIOUS
  <2>2. IsFiniteSet(Upto(i)) /\ Cardinality(Upto(i)) <= n
    BY <2>1, FS_Subset
  <2> HIDE DEF Upto
  <2>3. Cardinality(Upto(i)) \in Nat
    BY <2>2, FS_CardinalityType
  <2>4. Cardinality(Upto(i)) # 0
    BY <2>1, <2>2, FS_EmptySet
  <2> QED BY <1>1, <2>2, <2>3, <2>4
<1>3. ASSUME NEW i \in S, NEW j \in S, i < j
      PROVE  Cardinality(Upto(i)) # Cardinality(Upto(j))
  <2>1. Upto(i) \in SUBSET Upto(j)
    <3>1. \A m \in S : m <= i => m <= j
      BY <1>3
    <3> QED BY <3>1
  <2>2. j \in Upto(j) /\ j \notin Upto(i)
    BY <1>3
  <2>3. IsFiniteSet(Upto(j))
    BY <1>2
  <2> HIDE DEF Upto
  <2> QED BY <2>1, <2>2, <2>3, FS_Subset
<1>4. ASSUME NEW i \in S, NEW m \in S, Cardinality(Upto(i)) = Cardinality(Upto(m)) PROVE i = m
  <2>1. i < m \/ m < i \/ i = m
    OBVIOUS
  <2> HIDE DEF Upto
  <2> QED BY <1>3, <1>4, <2>1
<1> QED BY <1>1, <1>2, <1>4

\* There are as many ranks as elements, so every rank is somebody's.
LEMMA RankExists ==
  ASSUME NEW S \in SUBSET Nat, IsFiniteSet(S), NEW k \in 1 .. Cardinality(S)
  PROVE  \E i \in S : Cardinality({j \in S : j <= i}) = k
<1> DEFINE n == Cardinality(S)
           rank == [i \in S |-> Cardinality({j \in S : j <= i})]
<1>1. /\ n \in Nat /\ rank \in [S -> 1 .. n]
      /\ \A i, m \in S : rank[i] = rank[m] => i = m
  BY Ranks
<1>2. IsFiniteSet(1 .. n) /\ Cardinality(1 .. n) = n
  BY <1>1, FS_Interval
<1>3. rank \in Surjection(S, 1 .. n)
  <2> HIDE DEF rank
  <2>1. rank \in Injection(S, 1 .. n)
    BY <1>1 DEF Injection, IsInjective
  <2> QED BY <1>2, <2>1, FS_Injection
<1>4. PICK i \in S : rank[i] = k
  <2> HIDE DEF rank
  <2> QED BY <1>3 DEF Surjection
<1> QED BY <1>4

\* A set of positions in order is a sequence of its elements.
LEMMA InOrderSeq ==
  ASSUME NEW S \in SUBSET Nat, IsFiniteSet(S)
  PROVE  InOrder(S) \in Seq(S) /\ Len(InOrder(S)) = Cardinality(S)
<1>1. Cardinality(S) \in Nat
  BY FS_CardinalityType
<1>2. ASSUME NEW k \in 1 .. Cardinality(S)
      PROVE  (CHOOSE i \in S : Cardinality({j \in S : j <= i}) = k) \in S
  BY RankExists
<1> DEFINE at(k) == CHOOSE i \in S : Cardinality({j \in S : j <= i}) = k
<1>3. InOrder(S) = [k \in 1 .. Cardinality(S) |-> at(k)]
  BY DEF InOrder
<1>4. \A k \in 1 .. Cardinality(S) : at(k) \in S
  BY <1>2
<1> HIDE DEF at
<1> QED BY <1>1, <1>3, <1>4

\* Every position of the set has its place in the order.
LEMMA InOrderHits ==
  ASSUME NEW S \in SUBSET Nat, IsFiniteSet(S), NEW i \in S
  PROVE  \E k \in 1 .. Cardinality(S) : InOrder(S)[k] = i
<1> DEFINE rank(j) == Cardinality({m \in S : m <= j})
           at == CHOOSE j \in S : rank(j) = rank(i)
<1>1. rank(i) \in 1 .. Cardinality(S) /\ \A j \in S : rank(j) = rank(i) => j = i
  BY Ranks
<1>2. InOrder(S)[rank(i)] = at
  BY <1>1 DEF InOrder
<1> HIDE DEF rank
<1>3. at = i
  BY <1>1
<1> QED BY <1>1, <1>2, <1>3

\* The first elements of a sequence.
LEMMA FirstOfSeq ==
  ASSUME NEW S, NEW s \in Seq(S), NEW n \in Nat
  PROVE  FirstOf(s, n) \in Seq(S)
BY DEF FirstOf

\* What the view lists: interactables of the document.
LEMMA ProjectedNode ==
  ASSUME NEW d, Len(d) \in Nat, NEW limit \in Nat
  PROVE  LET ns == ProjectedNodes(d, limit) IN
         /\ Len(ns) \in Nat
         /\ \A k \in 1 .. Len(ns) : \E i \in Positions(d) :
              Visited(d)[i] /\ ns[k].id = d[i].id /\ ns[k].name = NameOf(d, i)
<1> DEFINE S == {i \in Positions(d) : Visited(d)[i] /\ d[i].role \in Interactable}
           found == FirstOf(InOrder(S), limit)
           ns == ProjectedNodes(d, limit)
<1>1. S \in SUBSET Nat /\ S \in SUBSET (1 .. Len(d)) /\ IsFiniteSet(S)
  <2>1. S \in SUBSET (1 .. Len(d))
    BY DEF Positions
  <2>2. IsFiniteSet(1 .. Len(d))
    BY FS_Interval
  <2> HIDE DEF S
  <2>3. IsFiniteSet(S)
    BY <2>1, <2>2, FS_Subset
  <2>4. S \in SUBSET Nat
    BY <2>1
  <2> QED BY <2>1, <2>3, <2>4
<1>2. found \in Seq(S)
  <2> HIDE DEF S
  <2>1. InOrder(S) \in Seq(S)
    BY <1>1, InOrderSeq
  <2> QED BY <2>1, FirstOfSeq
<1>3. ns = [k \in 1 .. Len(found) |->
        [ref |-> Reference(k, d[found[k]].tag, d[found[k]].role, NameOf(d, found[k])),
         id |-> d[found[k]].id,
         role |-> d[found[k]].role, name |-> NameOf(d, found[k]),
         protected |-> Protection(d)[found[k]]]]
  BY DEF ProjectedNodes
<1> HIDE DEF found, ns
<1>4. Len(found) \in Nat /\ \A k \in 1 .. Len(found) : found[k] \in S
  BY <1>2
<1>5. Len(ns) = Len(found)
  BY <1>3, <1>4
<1>6. \A k \in 1 .. Len(ns) : ns[k].id = d[found[k]].id /\ ns[k].name = NameOf(d, found[k])
  BY <1>3, <1>5
<1>7. \A k \in 1 .. Len(ns) : found[k] \in Positions(d) /\ Visited(d)[found[k]]
  BY <1>4, <1>5, <1>1 DEF Positions
<1> QED BY <1>4, <1>5, <1>6, <1>7 DEF ns

(***************************************************************************)
(* The recursive functions of the view, by what they compute.  Each is the *)
(* solution of an equation, so it is shown that there is one and that all  *)
(* agree with a definition that is not recursive.                          *)
(***************************************************************************)
\* The chain of elements from a node upwards: what every set that holds the node and, with
\* a node, its parent, has in common.
UpClosed(d, U) == \A u \in U : d[u].up # 0 => d[u].up \in U
Chain(d, i) == {j \in Positions(d) : \A U \in SUBSET Positions(d) : i \in U /\ UpClosed(d, U) => j \in U}

\* What the shape of a document says of a node.
LEMMA NodeShape ==
  ASSUME NEW d, WellFormed(d)
  PROVE  /\ Len(d) \in Nat
         /\ \A i \in Positions(d) :
              /\ i \in Nat /\ d[i].up \in Nat /\ d[i].up < i
              /\ d[i].up # 0 => d[i].up \in Positions(d)
<1>1. Len(d) \in Nat
  BY DEF WellFormed
<1>2. ASSUME NEW i \in Positions(d)
      PROVE  /\ i \in Nat /\ d[i].up \in Nat /\ d[i].up < i
             /\ d[i].up # 0 => d[i].up \in Positions(d)
  <2>1. i \in 1 .. Len(d) /\ d[i].up \in 0 .. i - 1
    BY DEF WellFormed, Positions
  <2> QED BY <1>1, <2>1 DEF Positions
<1> QED BY <1>1, <1>2

\* A chain is the node, and the chain of its parent.
LEMMA ChainStep ==
  ASSUME NEW d, WellFormed(d), NEW i \in Positions(d)
  PROVE  Chain(d, i) = {i} \cup (IF d[i].up = 0 THEN {} ELSE Chain(d, d[i].up))
<1> DEFINE p == d[i].up
           U == {i} \cup (IF p = 0 THEN {} ELSE Chain(d, p))
<1>1. p # 0 => p \in Positions(d)
  BY NodeShape
<1>2. U \in SUBSET Positions(d)
  BY DEF Chain
<1>3. UpClosed(d, U)
  <2> SUFFICES ASSUME NEW u \in U, d[u].up # 0 PROVE d[u].up \in U
    BY DEF UpClosed
  <2>1. CASE u = i
    <3>1. p # 0 /\ p \in Positions(d)
      BY <2>1, <1>1
    <3>2. p \in Chain(d, p)
      BY <3>1 DEF Chain
    <3> QED BY <2>1, <3>1, <3>2
  <2>2. CASE u # i
    <3>1. p # 0 /\ u \in Chain(d, p)
      BY <2>2
    <3>2. d[u].up \in Positions(d)
      BY <3>1, NodeShape DEF Chain
    <3>3. d[u].up \in Chain(d, p)
      BY <3>1, <3>2 DEF Chain, UpClosed
    <3> QED BY <3>1, <3>3
  <2> QED BY <2>1, <2>2
<1>4. Chain(d, i) \subseteq U
  <2>1. i \in U
    OBVIOUS
  <2> HIDE DEF U
  <2> QED BY <1>2, <1>3, <2>1 DEF Chain
<1>5. i \in Chain(d, i)
  BY DEF Chain
<1>6. p # 0 => Chain(d, p) \subseteq Chain(d, i)
  <2> SUFFICES ASSUME p # 0, NEW j \in Chain(d, p), NEW W \in SUBSET Positions(d),
                      i \in W, UpClosed(d, W)
               PROVE  j \in W
    BY DEF Chain
  <2>1. p \in W
    BY DEF UpClosed
  <2> QED BY <2>1 DEF Chain
<1> QED BY <1>4, <1>5, <1>6

\* Above is the chain.
LEMMA AboveIsChain ==
  ASSUME NEW d, WellFormed(d), NEW i \in Positions(d)
  PROVE  Above(d, i) = Chain(d, i)
<1> DEFINE Solves(f) == f = [j \in Positions(d) |-> {j} \cup (IF d[j].up = 0 THEN {} ELSE f[d[j].up])]
           A == CHOOSE f : Solves(f)
           C == [j \in Positions(d) |-> Chain(d, j)]
<1>1. Solves(C)
  <2>1. \A j \in Positions(d) : C[j] = {j} \cup (IF d[j].up = 0 THEN {} ELSE C[d[j].up])
    BY ChainStep, NodeShape
  <2>2. C = [j \in Positions(d) |-> C[j]]
    OBVIOUS
  <2> HIDE DEF C
  <2> QED BY <2>1, <2>2
<1>2. Solves(A)
  <2> HIDE DEF Solves, C
  <2> QED BY <1>1
<1>3. Above(d, i) = A[i]
  BY DEF Above
<1> HIDE DEF A
<1>4. \A j \in Positions(d) : A[j] = {j} \cup (IF d[j].up = 0 THEN {} ELSE A[d[j].up])
  BY <1>2
<1> DEFINE Wrong == {j \in Positions(d) : A[j] # Chain(d, j)}
<1>5. Wrong = {}
  <2> SUFFICES ASSUME Wrong # {} PROVE FALSE
    OBVIOUS
  <2>1. Wrong \in SUBSET Nat
    BY NodeShape
  <2>2. PICK j \in Wrong : \A k \in Wrong : j <= k
    BY <2>1, LeastNatural
  <2>3. j \in Positions(d) /\ j \in Nat /\ d[j].up \in Nat /\ d[j].up < j
        /\ (d[j].up # 0 => d[j].up \in Positions(d))
    BY <2>2, NodeShape
  <2>4. d[j].up # 0 => A[d[j].up] = Chain(d, d[j].up)
    BY <2>2, <2>3
  <2>5. A[j] = Chain(d, j)
    BY <1>4, <2>3, <2>4, ChainStep
  <2> QED BY <2>2, <2>5
<1> QED BY <1>3, <1>5

\* A node is protected when an element of its chain is.
LEMMA ProtectionInherited ==
  ASSUME NEW d, WellFormed(d), NEW i \in Positions(d)
  PROVE  Protection(d)[i] <=> \E k \in Chain(d, i) : d[k].own
<1> DEFINE Solves(f) == f = [j \in Positions(d) |-> d[j].own \/ (d[j].up # 0 /\ f[d[j].up])]
           P == CHOOSE f : Solves(f)
           C == [j \in Positions(d) |-> \E k \in Chain(d, j) : d[k].own]
<1>0. \A j \in Positions(d) : d[j].own \in BOOLEAN
  BY DEF WellFormed
<1>1. Solves(C)
  <2>1. ASSUME NEW j \in Positions(d)
        PROVE  C[j] = (d[j].own \/ (d[j].up # 0 /\ C[d[j].up]))
    <3>1. CASE d[j].up = 0
      <4>1. Chain(d, j) = {j}
        BY <3>1, ChainStep
      <4> QED BY <3>1, <4>1, <1>0
    <3>2. CASE d[j].up # 0
      <4>1. Chain(d, j) = {j} \cup Chain(d, d[j].up) /\ d[j].up \in Positions(d)
        BY <3>2, ChainStep, NodeShape
      <4> QED BY <3>2, <4>1, <1>0
    <3> QED BY <3>1, <3>2
  <2>2. C = [j \in Positions(d) |-> C[j]]
    OBVIOUS
  <2> HIDE DEF C
  <2> QED BY <2>1, <2>2
<1>2. Solves(P)
  <2> HIDE DEF Solves, C
  <2> QED BY <1>1
<1>3. Protection(d)[i] = P[i]
  BY DEF Protection
<1> HIDE DEF P
<1>4. \A j \in Positions(d) : P[j] = (d[j].own \/ (d[j].up # 0 /\ P[d[j].up]))
  BY <1>2
<1> DEFINE Wrong == {j \in Positions(d) : ~ (P[j] <=> \E k \in Chain(d, j) : d[k].own)}
<1>5. Wrong = {}
  <2> SUFFICES ASSUME Wrong # {} PROVE FALSE
    OBVIOUS
  <2>1. Wrong \in SUBSET Nat
    BY NodeShape
  <2>2. PICK j \in Wrong : \A k \in Wrong : j <= k
    BY <2>1, LeastNatural
  <2>3. j \in Positions(d) /\ j \in Nat /\ d[j].up \in Nat /\ d[j].up < j
        /\ (d[j].up # 0 => d[j].up \in Positions(d))
    BY <2>2, NodeShape
  <2>4. d[j].up # 0 => (P[d[j].up] <=> \E k \in Chain(d, d[j].up) : d[k].own)
    BY <2>2, <2>3
  <2>5. P[j] <=> \E k \in Chain(d, j) : d[k].own
    <3>1. CASE d[j].up = 0
      <4>1. Chain(d, j) = {j}
        BY <2>3, <3>1, ChainStep
      <4> QED BY <1>4, <2>3, <3>1, <4>1
    <3>2. CASE d[j].up # 0
      <4>1. Chain(d, j) = {j} \cup Chain(d, d[j].up)
        BY <2>3, <3>2, ChainStep
      <4> QED BY <1>4, <2>3, <2>4, <3>2, <4>1
    <3> QED BY <3>1, <3>2
  <2> QED BY <2>2, <2>5
<1> QED BY <1>3, <1>5

\* The walk comes to a node when its chain is all content.
LEMMA VisitedChain ==
  ASSUME NEW d, WellFormed(d), NEW i \in Positions(d)
  PROVE  Visited(d)[i] <=> \A k \in Chain(d, i) : ~ d[k].skip
<1> DEFINE Solves(f) == f = [j \in Positions(d) |-> ~ d[j].skip /\ (d[j].up # 0 => f[d[j].up])]
           V == CHOOSE f : Solves(f)
           C == [j \in Positions(d) |-> \A k \in Chain(d, j) : ~ d[k].skip]
<1>1. Solves(C)
  <2>1. ASSUME NEW j \in Positions(d)
        PROVE  C[j] = (~ d[j].skip /\ (d[j].up # 0 => C[d[j].up]))
    <3>1. CASE d[j].up = 0
      <4>1. Chain(d, j) = {j}
        BY <3>1, ChainStep
      <4> QED BY <3>1, <4>1
    <3>2. CASE d[j].up # 0
      <4>1. Chain(d, j) = {j} \cup Chain(d, d[j].up) /\ d[j].up \in Positions(d)
        BY <3>2, ChainStep, NodeShape
      <4> QED BY <3>2, <4>1
    <3> QED BY <3>1, <3>2
  <2>2. C = [j \in Positions(d) |-> C[j]]
    OBVIOUS
  <2> HIDE DEF C
  <2> QED BY <2>1, <2>2
<1>2. Solves(V)
  <2> HIDE DEF Solves, C
  <2> QED BY <1>1
<1>3. Visited(d)[i] = V[i]
  BY DEF Visited
<1> HIDE DEF V
<1>4. \A j \in Positions(d) : V[j] = (~ d[j].skip /\ (d[j].up # 0 => V[d[j].up]))
  BY <1>2
<1> DEFINE Wrong == {j \in Positions(d) : ~ (V[j] <=> \A k \in Chain(d, j) : ~ d[k].skip)}
<1>5. Wrong = {}
  <2> SUFFICES ASSUME Wrong # {} PROVE FALSE
    OBVIOUS
  <2>1. Wrong \in SUBSET Nat
    BY NodeShape
  <2>2. PICK j \in Wrong : \A k \in Wrong : j <= k
    BY <2>1, LeastNatural
  <2>3. j \in Positions(d) /\ j \in Nat /\ d[j].up \in Nat /\ d[j].up < j
        /\ (d[j].up # 0 => d[j].up \in Positions(d))
    BY <2>2, NodeShape
  <2>4. d[j].up # 0 => (V[d[j].up] <=> \A k \in Chain(d, d[j].up) : ~ d[k].skip)
    BY <2>2, <2>3
  <2>5. V[j] <=> \A k \in Chain(d, j) : ~ d[k].skip
    <3>1. CASE d[j].up = 0
      <4>1. Chain(d, j) = {j}
        BY <2>3, <3>1, ChainStep
      <4> QED BY <1>4, <2>3, <3>1, <4>1
    <3>2. CASE d[j].up # 0
      <4>1. Chain(d, j) = {j} \cup Chain(d, d[j].up)
        BY <2>3, <3>2, ChainStep
      <4> QED BY <1>4, <2>3, <2>4, <3>2, <4>1
    <3> QED BY <3>1, <3>2
  <2> QED BY <2>2, <2>5
<1> QED BY <1>3, <1>5

\* What is in the open: its whole chain is content and unprotected.
LEMMA OpenChain ==
  ASSUME NEW d, WellFormed(d), NEW i \in Positions(d)
  PROVE  /\ i \in InTheOpen(d) <=> Visited(d)[i] /\ ~ Protection(d)[i]
         /\ i \in InTheOpen(d) <=>
              ~ d[i].own /\ ~ d[i].skip /\ (d[i].up # 0 => d[i].up \in InTheOpen(d))
<1>1. \A j \in Positions(d) :
        j \in InTheOpen(d) <=> \A k \in Chain(d, j) : ~ d[k].own /\ ~ d[k].skip
  BY AboveIsChain DEF InTheOpen
<1>2. i \in InTheOpen(d) <=> Visited(d)[i] /\ ~ Protection(d)[i]
  BY <1>1, ProtectionInherited, VisitedChain
<1>3. i \in InTheOpen(d) <=>
        ~ d[i].own /\ ~ d[i].skip /\ (d[i].up # 0 => d[i].up \in InTheOpen(d))
  <2>1. CASE d[i].up = 0
    <3>1. Chain(d, i) = {i}
      BY <2>1, ChainStep
    <3> QED BY <1>1, <2>1, <3>1
  <2>2. CASE d[i].up # 0
    <3>1. Chain(d, i) = {i} \cup Chain(d, d[i].up) /\ d[i].up \in Positions(d)
      BY <2>2, ChainStep, NodeShape
    <3> QED BY <1>1, <2>2, <3>1
  <2> QED BY <2>1, <2>2
<1> QED BY <1>2, <1>3

\* A flattened sequence of sequences has the elements of its parts.
LEMMA FlattenTyped ==
  ASSUME NEW X, NEW s \in Seq(Seq(X))
  PROVE  FlattenSeq(s) \in Seq(X)
<1> DEFINE N == Len(s)
           Solves(f, n) == f = [i \in 1 .. n |-> IF i = 1 THEN s[i] ELSE f[i - 1] \o s[i]]
           F == CHOOSE f : Solves(f, N)
<1>0. N \in Nat /\ \A i \in 1 .. N : s[i] \in Seq(X)
  OBVIOUS
<1>1. CASE N = 0
  <2>1. FlattenSeq(s) = s /\ s = <<>>
    BY <1>1 DEF FlattenSeq
  <2> QED BY <2>1
<1>2. CASE N # 0
  <2> DEFINE Stuck == {n \in Nat : ~ \E f : Solves(f, n)}
  <2>1. Stuck = {}
    <3> SUFFICES ASSUME Stuck # {} PROVE FALSE
      OBVIOUS
    <3>1. PICK n \in Stuck : \A m \in Stuck : n <= m
      BY LeastNatural
    <3>2. n # 0
      <4>1. Solves(<<>>, 0)
        OBVIOUS
      <4> QED BY <3>1, <4>1
    <3>3. n \in Nat /\ n - 1 \in Nat /\ n - 1 \notin Stuck
      <4>0. Stuck \subseteq Nat
        OBVIOUS
      <4> HIDE DEF Stuck
      <4> QED BY <4>0, <3>1, <3>2
    <3>4. PICK g : Solves(g, n - 1)
      BY <3>3
    <3> DEFINE h == [i \in 1 .. n |-> IF i = n THEN (IF n = 1 THEN s[n] ELSE g[n - 1] \o s[n]) ELSE g[i]]
    <3>5. \A i \in 1 .. n : h[i] = IF i = 1 THEN s[i] ELSE h[i - 1] \o s[i]
      <4> SUFFICES ASSUME NEW i \in 1 .. n PROVE h[i] = IF i = 1 THEN s[i] ELSE h[i - 1] \o s[i]
        OBVIOUS
      <4>1. CASE i = n
        <5>1. h[i] = IF n = 1 THEN s[n] ELSE g[n - 1] \o s[n]
          BY <4>1, <3>3
        <5>2. n # 1 => h[n - 1] = g[n - 1]
          BY <3>3, <3>2
        <5> HIDE DEF h
        <5> QED BY <4>1, <5>1, <5>2
      <4>2. CASE i # n
        <5>1. i \in 1 .. (n - 1) /\ (i # 1 => i - 1 \in 1 .. n /\ i - 1 # n)
          BY <4>2, <3>3
        <5>2. h[i] = g[i] /\ (i # 1 => h[i - 1] = g[i - 1])
          BY <5>1, <4>2
        <5> HIDE DEF h
        <5>3. g[i] = IF i = 1 THEN s[i] ELSE g[i - 1] \o s[i]
          BY <5>1, <3>4
        <5> QED BY <5>2, <5>3
      <4> QED BY <4>1, <4>2
    <3>6. h = [i \in 1 .. n |-> h[i]]
      OBVIOUS
    <3> HIDE DEF h
    <3>7. Solves(h, n)
      BY <3>5, <3>6
    <3> QED BY <3>1, <3>7
  <2>2. Solves(F, N)
    <3>1. \E f : Solves(f, N)
      BY <2>1, <1>0
    <3> HIDE DEF Solves
    <3> QED BY <3>1
  <2>3. FlattenSeq(s) = F[N]
    BY <1>2 DEF FlattenSeq
  <2> HIDE DEF F
  <2>4. \A i \in 1 .. N : F[i] = IF i = 1 THEN s[i] ELSE F[i - 1] \o s[i]
    BY <2>2
  <2> DEFINE Wrong == {i \in 1 .. N : F[i] \notin Seq(X)}
  <2>5. Wrong = {}
    <3> SUFFICES ASSUME Wrong # {} PROVE FALSE
      OBVIOUS
    <3>1. PICK i \in Wrong : \A j \in Wrong : i <= j
      <4>1. Wrong \in SUBSET Nat
        BY <1>0
      <4> QED BY <4>1, LeastNatural
    <3>2. i \in 1 .. N /\ s[i] \in Seq(X)
      BY <1>0, <3>1
    <3>3. CASE i = 1
      BY <2>4, <3>1, <3>2, <3>3
    <3>4. CASE i # 1
      <4>1. i - 1 \in 1 .. N /\ ~ (i <= i - 1)
        BY <1>0, <3>2, <3>4
      <4>2. F[i - 1] \in Seq(X)
        BY <3>1, <4>1
      <4>3. F[i] = F[i - 1] \o s[i]
        BY <2>4, <3>2, <3>4
      <4>4. F[i] \in Seq(X)
        BY <3>2, <4>2, <4>3
      <4> QED BY <3>1, <4>4
    <3> QED BY <3>3, <3>4
  <2> QED BY <1>0, <1>2, <2>3, <2>5
<1> QED BY <1>1, <1>2

\* The children of a node come after it.
LEMMA ChildrenSeq ==
  ASSUME NEW d, WellFormed(d), NEW i \in Positions(d)
  PROVE  /\ Len(Children(d, i)) \in Nat
         /\ \A k \in 1 .. Len(Children(d, i)) :
              LET j == Children(d, i)[k] IN j \in Positions(d) /\ d[j].up = i /\ j > i
<1> DEFINE S == {j \in Positions(d) : d[j].up = i}
<1>1. S \in SUBSET Nat /\ IsFiniteSet(S)
  <2>1. Len(d) \in Nat
    BY NodeShape
  <2>2. S \in SUBSET (1 .. Len(d))
    BY DEF Positions
  <2>3. IsFiniteSet(1 .. Len(d))
    BY <2>1, FS_Interval
  <2> HIDE DEF S
  <2>4. IsFiniteSet(S)
    BY <2>2, <2>3, FS_Subset
  <2>5. S \in SUBSET Nat
    BY <2>1, <2>2
  <2> QED BY <2>4, <2>5
<1>2. \A j \in S : j \in Positions(d) /\ d[j].up = i /\ j > i
  BY NodeShape
<1>3. Children(d, i) = InOrder(S)
  BY DEF Children
<1> HIDE DEF S
<1>4. Children(d, i) \in Seq(S)
  BY <1>1, <1>3, InOrderSeq
<1> QED BY <1>2, <1>4

\* The part of a child in the text of its parent, when f gives the text of each element.
PartOf(d, f, j) ==
  IF d[j].role = "text" THEN <<d[j].text>> ELSE IF d[j].skip \/ d[j].own THEN <<>> ELSE f[j]
TextFrom(d, f, i) ==
  FlattenSeq([k \in 1 .. Len(Children(d, i)) |-> PartOf(d, f, Children(d, i)[k])])

\* The text of an element depends on the nodes after it only.
LEMMA TextFromLater ==
  ASSUME NEW d, WellFormed(d), NEW i \in Positions(d), NEW f, NEW g,
         \A j \in Positions(d) : j > i => f[j] = g[j]
  PROVE  TextFrom(d, f, i) = TextFrom(d, g, i)
<1> DEFINE ch == Children(d, i)
<1>1. \A k \in 1 .. Len(ch) : ch[k] \in Positions(d) /\ ch[k] > i
  BY ChildrenSeq
<1> HIDE DEF ch
<1>2. \A k \in 1 .. Len(ch) : PartOf(d, f, ch[k]) = PartOf(d, g, ch[k])
  BY <1>1 DEF PartOf
<1>3. [k \in 1 .. Len(ch) |-> PartOf(d, f, ch[k])] = [k \in 1 .. Len(ch) |-> PartOf(d, g, ch[k])]
  BY <1>2
<1> QED BY <1>3 DEF TextFrom, ch

\* DescendantText solves its equation.
LEMMA DescendantTextSolves ==
  ASSUME NEW d, WellFormed(d)
  PROVE  \A i \in Positions(d) : DescendantText(d)[i] = TextFrom(d, DescendantText(d), i)
<1> DEFINE N == Len(d)
           Solves(f, n) == f = [i \in Positions(d) |-> IF i > N - n THEN TextFrom(d, f, i) ELSE <<>>]
           Whole(f) == f = [i \in Positions(d) |-> TextFrom(d, f, i)]
           T == CHOOSE f : Whole(f)
           Stuck == {n \in 0 .. N : ~ \E f : Solves(f, n)}
<1>0. N \in Nat /\ Positions(d) = 1 .. N
  BY NodeShape DEF Positions
<1>1. Stuck = {}
  <2> SUFFICES ASSUME Stuck # {} PROVE FALSE
    OBVIOUS
  <2>0. Stuck \in SUBSET Nat /\ Stuck \subseteq 0 .. N
    BY <1>0
  <2>1. PICK n \in Stuck : \A m \in Stuck : n <= m
    BY <2>0, LeastNatural
  <2>2. n # 0
    <3> DEFINE e == [i \in Positions(d) |-> <<>>]
    <3>1. \A i \in Positions(d) : ~ (i > N - 0)
      BY <1>0
    <3>2. \A i \in Positions(d) : e[i] = IF i > N - 0 THEN TextFrom(d, e, i) ELSE <<>>
      BY <3>1
    <3>3. e = [i \in Positions(d) |-> e[i]]
      OBVIOUS
    <3> HIDE DEF e
    <3>4. Solves(e, 0)
      BY <3>2, <3>3
    <3> QED BY <2>1, <3>4
  <2>3. n \in Nat /\ n - 1 \in 0 .. N /\ n \in 0 .. N /\ n - 1 \notin Stuck
    <3> HIDE DEF Stuck
    <3> QED BY <1>0, <2>0, <2>1, <2>2
  <2>4. PICK g : Solves(g, n - 1)
    BY <2>3
  <2> DEFINE m == N - n + 1
  <2> DEFINE h == [i \in Positions(d) |-> IF i = m THEN TextFrom(d, g, m) ELSE g[i]]
  <2>5. m \in Positions(d) /\ m \in Nat /\ (\A i \in Positions(d) : i > N - (n - 1) <=> i > m)
        /\ (\A i \in Positions(d) : i > N - n <=> i > m \/ i = m)
    BY <1>0, <2>2, <2>3
  <2>6. \A i \in Positions(d) : i > m => h[i] = g[i]
    BY <2>5
  <2>7. \A i \in Positions(d) : h[i] = IF i > N - n THEN TextFrom(d, h, i) ELSE <<>>
    <3> SUFFICES ASSUME NEW i \in Positions(d)
                 PROVE  h[i] = IF i > N - n THEN TextFrom(d, h, i) ELSE <<>>
      OBVIOUS
    <3>1. i \in Nat
      BY <1>0
    <3>2. h[i] = IF i = m THEN TextFrom(d, g, m) ELSE g[i]
      OBVIOUS
    <3>3. g[i] = IF i > N - (n - 1) THEN TextFrom(d, g, i) ELSE <<>>
      BY <2>4
    <3> HIDE DEF h
    <3>4. i >= m => \A j \in Positions(d) : j > i => h[j] = g[j]
      BY <1>0, <2>5, <2>6, <3>1
    <3>5. i >= m => TextFrom(d, h, i) = TextFrom(d, g, i)
      BY <3>4, TextFromLater
    <3>6. CASE i = m
      BY <2>5, <3>1, <3>2, <3>5, <3>6
    <3>7. CASE i > m
      BY <2>5, <3>1, <3>2, <3>3, <3>5, <3>7
    <3>8. CASE i < m
      BY <2>5, <3>1, <3>2, <3>3, <3>8
    <3> QED BY <2>5, <3>1, <3>6, <3>7, <3>8
  <2>8. h = [i \in Positions(d) |-> h[i]]
    OBVIOUS
  <2> HIDE DEF h
  <2>9. Solves(h, n)
    BY <2>7, <2>8
  <2> QED BY <2>1, <2>9
<1>2. PICK f : Solves(f, N)
  BY <1>0, <1>1
<1>3. Whole(f)
  <2>1. \A i \in Positions(d) : i > N - N
    BY <1>0
  <2> QED BY <1>2, <2>1
<1>4. Whole(T)
  <2> HIDE DEF Whole
  <2> QED BY <1>3
<1>5. DescendantText(d) = T
  BY DEF DescendantText, TextFrom, PartOf
<1> HIDE DEF T
<1>6. \A i \in Positions(d) : T[i] = TextFrom(d, T, i)
  BY <1>4
<1> QED BY <1>5, <1>6

OpenTexts(d) == {d[i].text : i \in {j \in InTheOpen(d) : d[j].role = "text"}}

\* The text of an element in the open is text in the open.
LEMMA DescendantTextOpen ==
  ASSUME NEW d, WellFormed(d), NEW i \in InTheOpen(d)
  PROVE  DescendantText(d)[i] \in Seq(OpenTexts(d))
<1> DEFINE T == DescendantText(d)
           X == OpenTexts(d)
           N == Len(d)
           Wrong == {j \in InTheOpen(d) : T[j] \notin Seq(X)}
<1>0. N \in Nat /\ InTheOpen(d) \subseteq 1 .. N /\ Positions(d) = 1 .. N
  BY NodeShape DEF Positions, InTheOpen
<1>1. Wrong = {}
  <2> SUFFICES ASSUME Wrong # {} PROVE FALSE
    OBVIOUS
  <2>1. PICK j \in Wrong : \A k \in Wrong : k <= j
    <3>1. Wrong \in SUBSET (1 .. N)
      BY <1>0
    <3> QED BY <1>0, <3>1, GreatestNatural
  <2>2. j \in InTheOpen(d) /\ j \in Positions(d) /\ j \in Nat
    BY <1>0, <2>1
  <2> DEFINE ch == Children(d, j)
  <2>3. /\ Len(ch) \in Nat
        /\ \A k \in 1 .. Len(ch) : ch[k] \in Positions(d) /\ d[ch[k]].up = j /\ ch[k] > j
    BY <2>2, ChildrenSeq
  <2> HIDE DEF ch, T
  <2>4. ASSUME NEW k \in 1 .. Len(ch) PROVE PartOf(d, T, ch[k]) \in Seq(X)
    <3> DEFINE c == ch[k]
    <3>1. c \in Positions(d) /\ d[c].up = j /\ c > j /\ c \in Nat
      BY <1>0, <2>3
    <3> HIDE DEF c
    <3>2. c \in InTheOpen(d) <=> ~ d[c].own /\ ~ d[c].skip
      BY <2>2, <3>1, OpenChain
    <3>3. CASE d[c].role = "text"
      <4>1. c \in InTheOpen(d)
        BY <3>1, <3>2, <3>3 DEF WellFormed
      <4>2. d[c].text \in X
        BY <3>3, <4>1 DEF OpenTexts
      <4>3. PartOf(d, T, c) = <<d[c].text>>
        BY <3>3 DEF PartOf
      <4> HIDE DEF X
      <4> QED BY <4>2, <4>3 DEF c
    <3>4. CASE d[c].role # "text" /\ (d[c].skip \/ d[c].own)
      <4>1. PartOf(d, T, c) = <<>>
        BY <3>4 DEF PartOf
      <4> QED BY <4>1 DEF c
    <3>5. CASE d[c].role # "text" /\ ~ d[c].skip /\ ~ d[c].own
      <4>1. PartOf(d, T, c) = T[c]
        BY <3>5 DEF PartOf
      <4>2. c \in InTheOpen(d) /\ c \notin Wrong
        BY <2>1, <2>2, <3>1, <3>2, <3>5
      <4> QED BY <4>1, <4>2 DEF c
    <3> QED BY <3>3, <3>4, <3>5
  <2>5. T[j] = FlattenSeq([k \in 1 .. Len(ch) |-> PartOf(d, T, ch[k])])
    BY <2>2, DescendantTextSolves DEF T, TextFrom, ch
  <2> HIDE DEF X
  <2>6. [k \in 1 .. Len(ch) |-> PartOf(d, T, ch[k])] \in Seq(Seq(X))
    BY <2>3, <2>4
  <2>7. T[j] \in Seq(X)
    BY <2>5, <2>6, FlattenTyped
  <2> QED BY <2>1, <2>7
<1> QED BY <1>1

\* A name is made of text and labels in the open.
LEMMA NameOpen ==
  ASSUME NEW d, WellFormed(d), NEW i \in Positions(d), Visited(d)[i]
  PROVE  ToSet(NameOf(d, i)) \subseteq UNION {{d[j].text, d[j].label} : j \in InTheOpen(d)}
<1> DEFINE O == UNION {{d[j].text, d[j].label} : j \in InTheOpen(d)}
<1>1. CASE Protection(d)[i]
  <2>1. NameOf(d, i) = <<>>
    BY <1>1 DEF NameOf
  <2> QED BY <2>1 DEF ToSet
<1>2. CASE ~ Protection(d)[i]
  <2>1. i \in InTheOpen(d)
    BY <1>2, OpenChain
  <2>2. \/ NameOf(d, i) = <<d[i].label>>
        \/ NameOf(d, i) = <<>>
        \/ NameOf(d, i) = DescendantText(d)[i]
    BY <1>2 DEF NameOf
  <2>3. CASE NameOf(d, i) = <<d[i].label>>
    <3>1. d[i].label \in O
      BY <2>1
    <3> HIDE DEF O
    <3>2. <<d[i].label>> \in Seq(O)
      BY <3>1
    <3>3. ToSet(NameOf(d, i)) \subseteq O
      BY <2>3, <3>2 DEF ToSet
    <3> QED BY <3>3 DEF O
  <2>4. CASE NameOf(d, i) = <<>>
    BY <2>4 DEF ToSet
  <2>5. CASE NameOf(d, i) = DescendantText(d)[i]
    <3>1. NameOf(d, i) \in Seq(OpenTexts(d))
      BY <2>1, <2>5, DescendantTextOpen
    <3>2. ToSet(NameOf(d, i)) \subseteq OpenTexts(d)
      BY <3>1 DEF ToSet
    <3>3. OpenTexts(d) \subseteq O
      BY DEF OpenTexts
    <3> QED BY <3>2, <3>3
  <2> QED BY <2>2, <2>3, <2>4, <2>5
<1> QED BY <1>1, <1>2

\* The text of a view is text in the open, and when it fits, all of it.
LEMMA TextOpen ==
  ASSUME NEW d, WellFormed(d), NEW limit \in Nat
  PROVE  /\ ToSet(ProjectedText(d, limit)) \subseteq OpenTexts(d)
         /\ Fits(d, limit) => OpenTexts(d) \subseteq ToSet(ProjectedText(d, limit))
<1> DEFINE S == {i \in Positions(d) : d[i].role = "text" /\ Visited(d)[i] /\ ~ Protection(d)[i]}
           runs == InOrder(S)
           texts == [k \in 1 .. Len(runs) |-> d[runs[k]].text]
<1>1. S = {i \in InTheOpen(d) : d[i].role = "text"}
  <2>1. InTheOpen(d) \subseteq Positions(d)
    BY DEF InTheOpen
  <2> QED BY <2>1, OpenChain
<1>2. S \in SUBSET Nat /\ IsFiniteSet(S)
  <2>1. Len(d) \in Nat
    BY NodeShape
  <2>2. S \in SUBSET (1 .. Len(d))
    BY DEF Positions
  <2>3. IsFiniteSet(1 .. Len(d))
    BY <2>1, FS_Interval
  <2> HIDE DEF S
  <2>4. IsFiniteSet(S)
    BY <2>2, <2>3, FS_Subset
  <2>5. S \in SUBSET Nat
    BY <2>1, <2>2
  <2> QED BY <2>4, <2>5
<1>3. ProjectedText(d, limit) = FirstOf(texts, limit)
  BY DEF ProjectedText, TextIn
<1>4. OpenTexts(d) = {d[i].text : i \in S}
  BY <1>1 DEF OpenTexts
<1>5. Fits(d, limit) <=> Cardinality(S) <= limit
  BY <1>1 DEF Fits
<1> HIDE DEF S
<1>6. runs \in Seq(S) /\ Len(runs) = Cardinality(S) /\ Cardinality(S) \in Nat
  BY <1>2, InOrderSeq, FS_CardinalityType
<1>7. \A i \in S : \E k \in 1 .. Len(runs) : runs[k] = i
  BY <1>2, <1>6, InOrderHits
<1> HIDE DEF runs
<1>8. texts \in Seq(OpenTexts(d)) /\ Len(texts) = Len(runs)
  BY <1>4, <1>6
<1>9. \A k \in 1 .. Len(runs) : texts[k] = d[runs[k]].text
  OBVIOUS
<1> HIDE DEF texts
<1>10. ToSet(ProjectedText(d, limit)) \subseteq OpenTexts(d)
  <2>1. ProjectedText(d, limit) \in Seq(OpenTexts(d))
    BY <1>3, <1>8, FirstOfSeq
  <2> QED BY <2>1 DEF ToSet
<1>11. ASSUME Fits(d, limit), NEW t \in OpenTexts(d) PROVE t \in ToSet(ProjectedText(d, limit))
  <2>1. PICK i \in S : t = d[i].text
    BY <1>4
  <2>2. PICK k \in 1 .. Len(runs) : runs[k] = i
    BY <1>7
  <2>3. FirstOf(texts, limit) = SubSeq(texts, 1, Len(texts))
    BY <1>5, <1>6, <1>8, <1>11 DEF FirstOf
  <2>4. k \in DOMAIN FirstOf(texts, limit) /\ FirstOf(texts, limit)[k] = texts[k]
    BY <1>6, <1>8, <2>3
  <2> QED BY <1>3, <1>9, <2>1, <2>2, <2>4 DEF ToSet
<1> QED BY <1>10, <1>11

\* For every document of any size and depth: the view of Walker holds nothing that stands
\* in a protected or a non-content element, however deep, neither as text nor in a name;
\* and when the text in the open fits the limit, it holds all of it.
THEOREM ViewExact ==
  ASSUME NEW d, WellFormed(d), TextsApart(d), NEW limit \in Nat
  PROVE  /\ ShownBy(d, limit) \cap Hidden(d) = {}
         /\ Fits(d, limit) =>
              {d[i].text : i \in Positions(d)} \ (Hidden(d) \cup {NoText}) \subseteq ShownBy(d, limit)
<1> DEFINE O == UNION {{d[j].text, d[j].label} : j \in InTheOpen(d)}
           ns == ProjectedNodes(d, limit)
<1>1. ToSet(ProjectedText(d, limit)) \subseteq O
  <2>1. OpenTexts(d) \subseteq O
    BY DEF OpenTexts
  <2> QED BY <2>1, TextOpen
<1>2. ASSUME NEW k \in 1 .. Len(ns) PROVE ToSet(ns[k].name) \subseteq O
  <2>1. Len(d) \in Nat
    BY NodeShape
  <2>2. PICK i \in Positions(d) : ns[k].name = NameOf(d, i) /\ Visited(d)[i]
    BY <2>1, ProjectedNode
  <2> QED BY <2>2, NameOpen
<1>3. ShownBy(d, limit) \subseteq O
  BY <1>1, <1>2 DEF ShownBy
<1>4. O \cap Hidden(d) = {}
  BY DEF TextsApart
<1>5. ASSUME Fits(d, limit), NEW i \in Positions(d), d[i].text \notin Hidden(d), d[i].text # NoText
      PROVE  d[i].text \in ShownBy(d, limit)
  <2>1. i \in InTheOpen(d)
    <3> SUFFICES ASSUME i \in Positions(d) \ InTheOpen(d) PROVE FALSE
      OBVIOUS
    <3>1. d[i].text \in UNION {{d[j].text, d[j].label} : j \in Positions(d) \ InTheOpen(d)}
      OBVIOUS
    <3> QED BY <1>5, <3>1 DEF Hidden
  <2>2. d[i].role = "text"
    BY <1>5 DEF WellFormed
  <2>3. d[i].text \in OpenTexts(d)
    BY <2>1, <2>2 DEF OpenTexts
  <2>4. d[i].text \in ToSet(ProjectedText(d, limit))
    BY <1>5, <2>3, TextOpen
  <2> QED BY <2>4 DEF ShownBy
<1> HIDE DEF O
<1> QED BY <1>3, <1>4, <1>5

(***************************************************************************)
(* A part of the view.                                                     *)
(***************************************************************************)
\* The text of a walk is that of nodes it came to.
LEMMA TextInOf ==
  ASSUME NEW e, NEW S \in SUBSET Nat, IsFiniteSet(S), NEW limit \in Nat,
         NEW t \in ToSet(TextIn(e, S, limit))
  PROVE  \E i \in S : Visited(e)[i] /\ ~ Protection(e)[i] /\ t = e[i].text
<1> DEFINE R == {i \in S : e[i].role = "text" /\ Visited(e)[i] /\ ~ Protection(e)[i]}
           runs == InOrder(R)
           texts == [k \in 1 .. Len(runs) |-> e[runs[k]].text]
           T == {e[i].text : i \in R}
<1>1. R \in SUBSET Nat /\ IsFiniteSet(R)
  <2>1. R \in SUBSET S
    OBVIOUS
  <2> HIDE DEF R
  <2> QED BY <2>1, FS_Subset
<1>2. TextIn(e, S, limit) = FirstOf(texts, limit)
  BY DEF TextIn
<1>3. runs \in Seq(R)
  <2> HIDE DEF R
  <2> QED BY <1>1, InOrderSeq
<1> HIDE DEF runs
<1>4. texts \in Seq(T)
  <2> HIDE DEF R
  <2>1. Len(runs) \in Nat /\ \A k \in 1 .. Len(runs) : e[runs[k]].text \in T
    BY <1>3
  <2> HIDE DEF T
  <2> QED BY <2>1
<1> HIDE DEF texts
<1>5. TextIn(e, S, limit) \in Seq(T)
  <2> HIDE DEF T
  <2> QED BY <1>2, <1>4, FirstOfSeq
<1>6. t \in T
  <2> HIDE DEF T
  <2> QED BY <1>5 DEF ToSet
<1> QED BY <1>6

\* A document cut above a node is a document.
LEMMA CutWellFormed ==
  ASSUME NEW d, WellFormed(d), NEW r \in Positions(d)
  PROVE  /\ WellFormed(Cut(d, r)) /\ Positions(Cut(d, r)) = Positions(d)
         /\ \A i \in Positions(d) :
              /\ Cut(d, r)[i].own = d[i].own /\ Cut(d, r)[i].skip = d[i].skip
              /\ Cut(d, r)[i].text = d[i].text
              /\ Cut(d, r)[i].up = IF i = r THEN 0 ELSE d[i].up
<1> DEFINE e == Cut(d, r)
           n == Len(d)
<1>1. n \in Nat /\ DOMAIN d = 1 .. n /\ Positions(d) = 1 .. n
  BY DEF WellFormed, Positions
<1>2. e = [i \in 1 .. n |-> IF i = r THEN [d[r] EXCEPT !.up = 0] ELSE d[i]]
  BY <1>1 DEF Cut
<1>3. DOMAIN d[r] = {"id", "up", "tag", "role", "own", "skip", "label", "text"}
  BY DEF WellFormed
<1>4. PICK q : q = [d[r] EXCEPT !.up = 0]
  OBVIOUS
<1>5. /\ q.up = 0 /\ q.id = d[r].id /\ q.own = d[r].own /\ q.skip = d[r].skip
      /\ q.role = d[r].role /\ q.text = d[r].text /\ DOMAIN q = DOMAIN d[r]
  BY <1>3, <1>4
<1>6. \A i \in 1 .. n : e[i] = IF i = r THEN q ELSE d[i]
  BY <1>2, <1>4
<1>7. /\ DOMAIN e = 1 .. n /\ e = [i \in 1 .. n |-> e[i]]
  BY <1>2
<1> HIDE DEF e
<1>8. e \in Seq(ToSet(e)) /\ Len(e) = n
  <2>1. \A i \in 1 .. n : e[i] \in ToSet(e)
    BY <1>7 DEF ToSet
  <2>2. e \in [1 .. n -> ToSet(e)]
    BY <1>7, <2>1
  <2> QED BY <1>1, <1>7, <2>2
<1>9. Positions(e) = 1 .. n
  BY <1>8 DEF Positions
<1>10. \A i \in Positions(d) :
         /\ e[i].own = d[i].own /\ e[i].skip = d[i].skip /\ e[i].text = d[i].text
         /\ e[i].up = (IF i = r THEN 0 ELSE d[i].up)
         /\ e[i].id = d[i].id /\ e[i].role = d[i].role /\ DOMAIN e[i] = DOMAIN d[i]
  BY <1>1, <1>5, <1>6
<1>11. WellFormed(e)
  <2>1. \A i, j \in Positions(e) : e[i].id # 0 /\ (e[i].id = e[j].id => i = j)
    BY <1>1, <1>9, <1>10 DEF WellFormed
  <2>2. ASSUME NEW i \in Positions(e)
        PROVE  /\ DOMAIN e[i] = {"id", "up", "tag", "role", "own", "skip", "label", "text"}
               /\ e[i].up \in 0 .. i - 1
               /\ e[i].own \in BOOLEAN /\ e[i].skip \in BOOLEAN
               /\ e[i].role = "text" => ~ e[i].own /\ ~ e[i].skip
               /\ e[i].text # NoText => e[i].role = "text"
    <3>1. i \in Positions(d) /\ i \in 1 .. n
      BY <1>1, <1>9
    <3>2. /\ DOMAIN d[i] = {"id", "up", "tag", "role", "own", "skip", "label", "text"}
          /\ d[i].up \in 0 .. i - 1
          /\ d[i].own \in BOOLEAN /\ d[i].skip \in BOOLEAN
          /\ d[i].role = "text" => ~ d[i].own /\ ~ d[i].skip
          /\ d[i].text # NoText => d[i].role = "text"
      BY <3>1 DEF WellFormed
    <3>3. e[i].up \in 0 .. i - 1
      BY <1>1, <1>10, <3>1, <3>2
    <3> QED BY <1>10, <3>1, <3>2, <3>3
  <2> QED BY <1>8, <2>1, <2>2 DEF WellFormed
<1> QED BY <1>1, <1>9, <1>10, <1>11 DEF e

\* The text of a subtree is in the open, unless its root lies in something hidden: between
\* the text and the root nothing hides it, and nothing above the root does.
LEMMA SubtreeOpen ==
  ASSUME NEW d, WellFormed(d), TextsApart(d), NEW r, NEW limit \in Nat, ~ Enclosed(d, r)
  PROVE  ToSet(SubtreeText(d, r, limit)) \cap Hidden(d) = {}
<1> DEFINE e == Cut(d, r)
           S == {i \in Positions(d) : r \in Above(d, i)}
<1> SUFFICES ASSUME NEW t \in ToSet(SubtreeText(d, r, limit)) PROVE t \notin Hidden(d)
  OBVIOUS
<1>1. S \in SUBSET Nat /\ IsFiniteSet(S)
  <2>1. Len(d) \in Nat
    BY NodeShape
  <2>2. S \in SUBSET (1 .. Len(d))
    BY DEF Positions
  <2>3. IsFiniteSet(1 .. Len(d))
    BY <2>1, FS_Interval
  <2> HIDE DEF S
  <2>4. IsFiniteSet(S)
    BY <2>2, <2>3, FS_Subset
  <2>5. S \in SUBSET Nat
    BY <2>1, <2>2
  <2> QED BY <2>4, <2>5
<1>2. PICK i \in S : Visited(e)[i] /\ ~ Protection(e)[i] /\ t = e[i].text
  <2>1. t \in ToSet(TextIn(e, S, limit))
    BY DEF SubtreeText
  <2> HIDE DEF e, S
  <2> QED BY <1>1, <2>1, TextInOf
<1>3. i \in Positions(d) /\ r \in Chain(d, i) /\ r \in Positions(d)
  <2>1. i \in Positions(d) /\ r \in Above(d, i)
    BY <1>2
  <2>2. r \in Chain(d, i)
    BY <2>1, AboveIsChain
  <2> QED BY <2>1, <2>2 DEF Chain
<1>4. /\ WellFormed(e) /\ Positions(e) = Positions(d)
      /\ \A k \in Positions(d) : /\ e[k].own = d[k].own /\ e[k].skip = d[k].skip
                                 /\ e[k].text = d[k].text
                                 /\ e[k].up = IF k = r THEN 0 ELSE d[k].up
  BY <1>3, CutWellFormed
<1> HIDE DEF e, S
<1>5. \A k \in Chain(e, i) : ~ d[k].own /\ ~ d[k].skip
  <2>1. i \in InTheOpen(e)
    BY <1>2, <1>3, <1>4, OpenChain
  <2>2. \A k \in Chain(e, i) : ~ e[k].own /\ ~ e[k].skip
    BY <1>3, <1>4, <2>1, AboveIsChain DEF InTheOpen
  <2>3. Chain(e, i) \subseteq Positions(d)
    BY <1>4 DEF Chain
  <2> QED BY <1>4, <2>2, <2>3
<1>6. /\ Chain(e, i) \in SUBSET Positions(d) /\ i \in Chain(e, i)
      /\ \A u \in Chain(e, i) : u # r /\ d[u].up # 0 => d[u].up \in Chain(e, i)
  <2>1. Chain(e, i) \in SUBSET Positions(d) /\ i \in Chain(e, i)
    BY <1>3, <1>4 DEF Chain
  <2>2. ASSUME NEW u \in Chain(e, i), u # r, d[u].up # 0 PROVE d[u].up \in Chain(e, i)
    <3>1. u \in Positions(e) /\ e[u].up = d[u].up
      BY <1>4, <2>1, <2>2
    <3>2. e[u].up \in Positions(e)
      BY <1>4, <2>2, <3>1, NodeShape
    <3> QED BY <2>2, <3>1, <3>2 DEF Chain, UpClosed
  <2> QED BY <2>1, <2>2
<1>7. r \in Chain(e, i)
  <2> SUFFICES ASSUME r \notin Chain(e, i) PROVE FALSE
    OBVIOUS
  <2>1. UpClosed(d, Chain(e, i))
    BY <1>6 DEF UpClosed
  <2> QED BY <1>3, <1>6, <2>1 DEF Chain
<1>8. \A k \in Chain(d, r) : ~ d[k].own /\ ~ d[k].skip
  <2>1. ~ d[r].own /\ ~ d[r].skip
    BY <1>5, <1>7
  <2> QED BY <1>3, <2>1, AboveIsChain DEF Enclosed
<1>9. Chain(d, i) \subseteq Chain(e, i) \cup Chain(d, r)
  <2> DEFINE U == Chain(e, i) \cup Chain(d, r)
  <2>1. U \in SUBSET Positions(d) /\ i \in U
    BY <1>6 DEF Chain
  <2>2. ASSUME NEW u \in U, d[u].up # 0 PROVE d[u].up \in U
    <3>1. d[u].up \in Positions(d)
      BY <2>1, <2>2, NodeShape
    <3>2. CASE u \in Chain(d, r)
      BY <2>2, <3>1, <3>2 DEF Chain, UpClosed
    <3>3. r \in Chain(d, r)
      BY <1>3 DEF Chain
    <3> QED BY <1>6, <2>2, <3>2, <3>3
  <2> HIDE DEF U
  <2>3. UpClosed(d, U)
    BY <2>2 DEF UpClosed
  <2>4. Chain(d, i) \subseteq U
    BY <2>1, <2>3 DEF Chain
  <2> QED BY <2>4 DEF U
<1>10. i \in InTheOpen(d)
  <2>1. \A k \in Chain(d, i) : ~ d[k].own /\ ~ d[k].skip
    BY <1>5, <1>8, <1>9
  <2> QED BY <1>3, <2>1, AboveIsChain DEF InTheOpen
<1> QED BY <1>2, <1>3, <1>4, <1>10 DEF TextsApart

(***************************************************************************)
(* The series of commands.                                                 *)
(***************************************************************************)
\* Every handler sends at least one command; only a selector is looked up by Chrome, and
\* what is looked up by Chrome is not matched in a view.
LEMMA Scripts ==
  ASSUME NEW k \in CallKinds, NEW by
  PROVE  /\ Len(Script(k, by)) \in Nat \ {0}
         /\ \A i \in 1 .. Len(Script(k, by)) :
              /\ Script(k, by)[i] \in CommandNames
              /\ by # "css" => Script(k, by)[i] # "query"
              /\ by = "css" /\ k \in Located => Script(k, by)[i] # "document"
<1>2. CASE k = "read"
  BY <1>2 DEF Script, ReadText, Located, CommandNames
<1>3. CASE k = "snapshot"
  BY <1>3 DEF Script, SnapshotSafe, Located, CommandNames
<1>4. CASE k = "wait"
  BY <1>4 DEF Script, WaitFor, Located, CommandNames
<1>5. CASE k = "navigate"
  BY <1>5 DEF Script, BrowserNavigate, Located, CommandNames
<1>6. CASE k = "history"
  BY <1>6 DEF Script, NavigateHistory, Located, CommandNames
<1>7. CASE k = "tabs"
  BY <1>7 DEF Script, BrowserTabs, Located, CommandNames
<1>8. CASE k = "readAt"
  <2>1. CASE by = "css"
    <3>1. Script(k, by) = <<"attach">> \o <<"root", "query">> \o <<"describe">>
      BY <1>8, <2>1 DEF Script, ReadTextAt, Resolve
    <3> QED BY <2>1, <3>1 DEF Located, CommandNames
  <2>2. CASE by # "css"
    <3>1. Script(k, by) = <<"attach">> \o <<"document">> \o <<"describe">>
      BY <1>8, <2>2 DEF Script, ReadTextAt, Resolve
    <3> QED BY <2>2, <3>1 DEF Located, CommandNames
  <2> QED BY <2>1, <2>2
<1>9. CASE k = "click"
  <2>1. CASE by = "css"
    <3>1. Script(k, by) = <<"attach">> \o <<"root", "query">> \o <<"box", "mouse">>
      BY <1>9, <2>1 DEF Script, Click, Resolve
    <3> QED BY <2>1, <3>1 DEF Located, CommandNames
  <2>2. CASE by # "css"
    <3>1. Script(k, by) = <<"attach">> \o <<"document">> \o <<"box", "mouse">>
      BY <1>9, <2>2 DEF Script, Click, Resolve
    <3> QED BY <2>2, <3>1 DEF Located, CommandNames
  <2> QED BY <2>1, <2>2
<1>10. CASE k = "type"
  <2>1. CASE by = "css"
    <3>1. Script(k, by) = <<"attach">> \o <<"root", "query">> \o <<"describe", "focus", "insert">>
      BY <1>10, <2>1 DEF Script, TypePublic, Resolve
    <3> QED BY <2>1, <3>1 DEF Located, CommandNames
  <2>2. CASE by # "css"
    <3>1. Script(k, by) = <<"attach">> \o <<"document">> \o <<"describe", "focus", "insert">>
      BY <1>10, <2>2 DEF Script, TypePublic, Resolve
    <3> QED BY <2>2, <3>1 DEF Located, CommandNames
  <2> QED BY <2>1, <2>2
<1>11. CASE k = "select"
  <2>1. CASE by = "css"
    <3>1. Script(k, by) =
            <<"attach">> \o <<"root", "query">> \o <<"describe", "focus", "insert">> \o <<"key">>
      BY <1>11, <2>1 DEF Script, Select, TypePublic, Resolve
    <3> QED BY <2>1, <3>1 DEF Located, CommandNames
  <2>2. CASE by # "css"
    <3>1. Script(k, by) =
            <<"attach">> \o <<"document">> \o <<"describe", "focus", "insert">> \o <<"key">>
      BY <1>11, <2>2 DEF Script, Select, TypePublic, Resolve
    <3> QED BY <2>2, <3>1 DEF Located, CommandNames
  <2> QED BY <2>1, <2>2
<1> QED BY <1>2, <1>3, <1>4, <1>5, <1>6, <1>7, <1>8, <1>9, <1>10, <1>11 DEF CallKinds

(***************************************************************************)
(* Locators.                                                               *)
(***************************************************************************)
\* Documents are sequences.
LEMMA DocumentLength ==
  ASSUME NEW d \in Documents PROVE Len(d) \in Nat
BY PagesAssumption DEF WellFormed

\* A locator other than a selector is an entry of a snapshot.
LEMMA LocatorEntry ==
  ASSUME NEW loc \in Locators
  PROVE  /\ loc.by \in {"css", "ref", "role", "text"}
         /\ loc.by # "css" => /\ loc.view \in Documents
                              /\ loc.k \in 1 .. Len(ProjectedNodes(loc.view, SnapshotNodes))
BY DEF Locators

\* What a locator matches are nodes of the document.
LEMMA FoundNodes ==
  ASSUME NEW loc \in Locators, loc.by # "css", NEW d \in Documents, NEW n \in Found(loc, d)
  PROVE  n \in NodeIds
<1> DEFINE ns == ProjectedNodes(d, ResolveNodes)
<1>1. Len(d) \in Nat /\ ResolveNodes \in Nat
  BY DocumentLength, PagesAssumption
<1>2. /\ Len(ns) \in Nat
      /\ \A k \in 1 .. Len(ns) : \E i \in Positions(d) : ns[k].id = d[i].id
  BY <1>1, ProjectedNode
<1>3. loc.by \in {"ref", "role", "text"}
  BY LocatorEntry
<1> HIDE DEF ns
<1>4. PICK k \in 1 .. Len(ns) : n = ns[k].id
  <2>1. CASE loc.by = "ref"
    BY <2>1 DEF Found, ResolveReference, Matches, ns
  <2>2. CASE loc.by = "role"
    BY <2>2 DEF Found, ResolveRole, ExactlyOne, Matches, ns
  <2>3. CASE loc.by = "text"
    BY <2>3 DEF Found, ResolveText, ExactlyOne, Matches, ns
  <2> QED BY <1>3, <2>1, <2>2, <2>3
<1>5. PICK i \in Positions(d) : n = d[i].id
  BY <1>2, <1>4
<1> QED BY <1>5 DEF NodeIds

(***************************************************************************)
(* The steps of a call.                                                    *)
(***************************************************************************)
\* What is left of a sequence without its first element.
LEMMA TailOf ==
  ASSUME NEW S, NEW s \in Seq(S), s # <<>>
  PROVE  /\ Head(s) \in S /\ Head(s) = s[1] /\ Len(s) \in Nat \ {0}
         /\ Tail(s) \in Seq(S) /\ Len(Tail(s)) = Len(s) - 1
         /\ \A i \in 1 .. Len(s) - 1 : Tail(s)[i] = s[i + 1] /\ i + 1 \in 1 .. Len(s)
OBVIOUS

\* A sequence with one more element.
LEMMA AppendOf ==
  ASSUME NEW S, NEW s \in Seq(S), NEW e \in S
  PROVE  /\ Len(s) \in Nat /\ Append(s, e) \in Seq(S) /\ Len(Append(s, e)) = Len(s) + 1
         /\ Append(s, e)[Len(s) + 1] = e
         /\ \A i \in 1 .. Len(s) + 1 : i = Len(s) + 1 \/ (i \in 1 .. Len(s) /\ Append(s, e)[i] = s[i])
OBVIOUS

\* A call may have been admitted under these executions.
MayBeUnder(X) == Managed => \A x \in X : exec[x] # NULL /\ exec[x].state \in {"spoiled", "done"}

\* A call goes on, ends or begins, and waits for nothing then, or it goes on waiting; a
\* frame may have been read.  What it leaves in the pipe is nobody's.
LEMMA CallChanges ==
  ASSUME PageInv, NEW c \in Callers, NEW r, CallHolds(c, r), MayBeUnder(r.under),
         r.id = 0 \/ r = call[c],
         call' = [call EXCEPT ![c] = r], UNCHANGED <<windowVars, page, nextId, outbound>>,
         inbound' = inbound \/ (inbound # <<>> /\ inbound' = Tail(inbound))
  PROVE  PageInv'
<1>1. /\ call' \in [Callers -> CallRecord] /\ call'[c] = r
      /\ \A d \in Callers : d # c => call'[d] = call[d]
  BY DEF PageInv, CallsInv, CallHolds
<1>2. CallsInv'
  <2>1. \A d \in Callers : call'[d].id = 0 \/ call'[d] = call[d]
    BY <1>1
  <2>2. nextId \in Nat \ {0} /\ \A d \in Callers : call[d].id < nextId
    BY DEF PageInv, CallsInv
  <2>3. \A d \in Callers : call'[d].id < nextId
    BY <2>1, <2>2
  <2>4. \A d \in Callers : CallHolds(d, call'[d])
    BY <1>1 DEF PageInv, CallsInv
  <2>5. \A d, g \in Callers : call'[d].id # 0 /\ call'[d].id = call'[g].id => d = g
    BY <2>1 DEF PageInv, CallsInv
  <2> QED BY <1>1, <2>3, <2>4, <2>5 DEF PageInv, CallsInv, CallHolds
<1>3. PipeInv'
  <2>0. outbound \in Seq(CommandMsg) /\ inbound \in Seq(AnswerMsg)
    BY DEF PageInv, PipeInv
  <2>1. PICK k \in {0, 1} : /\ Len(inbound') = Len(inbound) - k /\ Len(inbound) \in Nat
                           /\ inbound' \in Seq(AnswerMsg)
                           /\ \A i \in 1 .. Len(inbound') :
                                i + k \in 1 .. Len(inbound) /\ inbound'[i] = inbound[i + k]
    <3>1. CASE inbound' = inbound
      BY <2>0, <3>1
    <3>2. CASE inbound # <<>> /\ inbound' = Tail(inbound)
      BY <2>0, <3>2, TailOf
    <3> QED BY <3>1, <3>2
  <2>2. ASSUME NEW i \in 1 .. Len(outbound) PROVE SentBy(outbound[i])'
    <3>1. outbound[i] \in CommandMsg /\ SentBy(outbound[i]) /\ outbound'[i] = outbound[i]
      BY <2>0 DEF PageInv, PipeInv
    <3>2. outbound[i].id # 0
      BY <3>1 DEF CommandMsg
    <3> QED BY <1>1, <3>1, <3>2 DEF SentBy, CommandOf
  <2>3. ASSUME NEW i \in 1 .. Len(inbound') PROVE AnswerTo(inbound[i])' /\ inbound'[i].id < nextId
    <3>1. i + k \in 1 .. Len(inbound) /\ inbound'[i] = inbound[i + k]
      BY <2>1
    <3>2. inbound[i + k] \in AnswerMsg /\ AnswerTo(inbound[i + k]) /\ inbound[i + k].id < nextId
      BY <2>0, <3>1 DEF PageInv, PipeInv
    <3>3. inbound[i + k].id # 0
      BY <3>2 DEF AnswerMsg, Frame
    <3> QED BY <1>1, <3>1, <3>2, <3>3 DEF AnswerTo, CommandOf
  <2>4. OnePerId'
    <3>1. \A i, j \in 1 .. Len(inbound') : inbound'[i].id = inbound'[j].id => i = j
      <4> SUFFICES ASSUME NEW i \in 1 .. Len(inbound'), NEW j \in 1 .. Len(inbound'),
                          inbound'[i].id = inbound'[j].id
                   PROVE  i = j
        OBVIOUS
      <4>1. i + k = j + k
        BY <2>1 DEF PageInv, PipeInv, OnePerId
      <4> QED BY <4>1, <2>1
    <3>2. \A i \in 1 .. Len(outbound), j \in 1 .. Len(inbound') : outbound[i].id # inbound'[j].id
      BY <2>1 DEF PageInv, PipeInv, OnePerId
    <3> QED BY <3>1, <3>2 DEF PageInv, PipeInv, OnePerId
  <2>5. browser' = "dead" => inbound' = <<>>
    BY DEF PageInv, PipeInv, windowVars
  <2> QED BY <2>0, <2>1, <2>2, <2>3, <2>4, <2>5 DEF PageInv, PipeInv, windowVars
<1>4. ShieldInv'
  BY DEF PageInv, ShieldInv, WindowTypeOK, windowVars, Managed, Open, InMap
<1>5. UnderInv'
  BY <1>1 DEF PageInv, UnderInv, MayBeUnder, Managed, windowVars
<1> QED BY <1>2, <1>3, <1>4, <1>5 DEF PageInv

\* No call in progress.
LEMMA RestingHolds ==
  ASSUME NEW c \in Callers
  PROVE  CallHolds(c, Resting) /\ Resting.under = {} /\ Resting.id = 0
BY PagesAssumption DEF CallHolds, Resting, CallRecord, NoLocator, NodeIds, Located, CallKinds

\* A call that begins is in order.
LEMMA BegunHolds ==
  ASSUME NEW c \in Callers, NEW k \in Kinds[c], NEW X \in SUBSET Execs,
         NEW loc \in Locators \cup {NoLocator}, k \in Located => loc \in Locators
  PROVE  LET r == [Resting EXCEPT !.kind = k, !.loc = loc, !.under = X]
         IN  CallHolds(c, r) /\ r.id = 0
<1> DEFINE r == [Resting EXCEPT !.kind = k, !.loc = loc, !.under = X]
<1>1. k \in CallKinds
  BY PagesAssumption
<1>2. PICK z : z = Resting
  OBVIOUS
<1>3. z \in CallRecord /\ z.pc = 0 /\ z.id = 0 /\ z.node = 0 /\ z.saw = <<>>
  BY <1>2, RestingHolds DEF CallHolds, Resting
<1>4. /\ r \in CallRecord
      /\ r.kind = k /\ r.loc = loc /\ r.pc = 0 /\ r.id = 0 /\ r.saw = <<>>
  <2>1. r = [z EXCEPT !.kind = k, !.loc = loc, !.under = X]
    BY <1>2
  <2> HIDE DEF r
  <2> QED BY <1>1, <1>3, <2>1 DEF CallRecord
<1> HIDE DEF r
<1>5. Len(Script(k, loc.by)) \in Nat \ {0}
  BY <1>1, Scripts
<1>6. CallHolds(c, r) /\ r.id = 0
  BY <1>4, <1>5 DEF CallHolds
<1> QED BY <1>6 DEF r

\* When guard_observation lets a call pass, the executions it is admitted under are over.
LEMMA GuardPasses ==
  ASSUME PageInv, GuardObservation
  PROVE  MayBeUnder(Guarded) /\ Guarded \in SUBSET Execs
<1>1. Guarded \in SUBSET Execs
  BY DEF Guarded
<1>2. ASSUME Managed, NEW x \in Guarded
      PROVE  exec[x] # NULL /\ exec[x].state \in {"spoiled", "done"}
  <2>1. windows = {}
    BY <1>2 DEF GuardObservation
  <2>2. x \in Execs /\ exec[x] # NULL /\ exec[x].guarded
    BY <1>2 DEF Guarded
  <2> QED BY <1>2, <2>1, <2>2 DEF PageInv, ShieldInv
<1> QED BY <1>1, <1>2 DEF MayBeUnder

\* A call begins, past the guard if it observes.
LEMMA BeginCallKeeps ==
  ASSUME PageInv, NEW c \in Callers, NEW k \in Kinds[c],
         NEW loc \in IF k \in Located THEN Locators ELSE {NoLocator},
         BeginCall(c, k, loc)
  PROVE  PageInv'
<1>1. PICK X : X = IF k \in Observing THEN Guarded ELSE {}
  OBVIOUS
<1>2. X \in SUBSET Execs /\ MayBeUnder(X)
  BY <1>1, GuardPasses DEF BeginCall, MayBeUnder
<1>3. loc \in Locators \cup {NoLocator} /\ (k \in Located => loc \in Locators)
  OBVIOUS
<1>4. PICK r : r = [Resting EXCEPT !.kind = k, !.loc = loc, !.under = X]
  OBVIOUS
<1>5. CallHolds(c, r) /\ r.id = 0
  BY <1>2, <1>3, <1>4, BegunHolds
<1>6. r.under = X
  BY <1>4 DEF Resting
<1>7. call' = [call EXCEPT ![c] = r] /\ UNCHANGED <<windowVars, page, nextId, outbound, inbound>>
  BY <1>1, <1>4 DEF BeginCall
<1> QED BY <1>2, <1>5, <1>6, <1>7, CallChanges

\* A call ends, having read a frame or not.
LEMMA RestingKeeps ==
  ASSUME PageInv, NEW c \in Callers, call' = [call EXCEPT ![c] = Resting],
         UNCHANGED <<windowVars, page, nextId, outbound>>,
         inbound' = inbound \/ (inbound # <<>> /\ inbound' = Tail(inbound))
  PROVE  PageInv'
<1>1. PICK r : r = Resting
  OBVIOUS
<1>2. CallHolds(c, r) /\ r.id = 0 /\ r.under = {}
  BY <1>1, RestingHolds
<1>3. MayBeUnder(r.under)
  BY <1>2 DEF MayBeUnder
<1> QED BY <1>1, <1>2, <1>3, CallChanges

\* It finds the browser, or ends.
LEMMA TransportKeeps ==
  ASSUME PageInv, NEW c \in Callers, Transport(c)
  PROVE  PageInv'
<1>1. CallHolds(c, call[c]) /\ call[c] \in CallRecord /\ call[c].kind # NULL /\ call[c].pc = 0
  BY DEF PageInv, CallsInv, Transport
<1>2. call[c].id = 0
  BY <1>1 DEF CallHolds, CallRecord
<1>3. MayBeUnder(call[c].under)
  BY DEF PageInv, UnderInv, MayBeUnder
<1>4. PICK q : q = call[c]
  OBVIOUS
<1>5. PICK r : r = [q EXCEPT !.pc = 1]
  OBVIOUS
<1>6. CallHolds(c, r) /\ MayBeUnder(r.under) /\ r.id = 0
  <2>1. CallHolds(c, q) /\ q.kind # NULL
    BY <1>1, <1>4
  <2>2. q \in CallRecord /\ q.kind \in CallKinds
    BY <2>1 DEF CallHolds, CallRecord
  <2>3. /\ r \in CallRecord /\ r.kind = q.kind /\ r.loc = q.loc /\ r.pc = 1 /\ r.id = q.id
        /\ r.saw = q.saw /\ r.under = q.under
    BY <1>5, <2>2 DEF CallRecord
  <2>4. Len(Script(q.kind, q.loc.by)) \in Nat \ {0}
    BY <2>2, Scripts
  <2>5. CallHolds(c, r)
    BY <2>1, <2>2, <2>3, <2>4 DEF CallHolds
  <2> QED BY <2>3, <2>5, <1>2, <1>3, <1>4
<1>7. CASE call' = [call EXCEPT ![c] = r]
  BY <1>6, <1>7, CallChanges DEF Transport
<1>8. CASE call' = [call EXCEPT ![c] = Resting]
  BY <1>8, RestingKeeps DEF Transport
<1> QED BY <1>4, <1>5, <1>7, <1>8 DEF Transport

\* It ends with the process.
LEMMA TerminatedKeeps ==
  ASSUME PageInv, NEW c \in Callers, Terminated(c)
  PROVE  PageInv'
BY RestingKeeps DEF Terminated

\* It is answered; page.wait_for may go round once more, past the guard.
LEMMA ReplyKeeps ==
  ASSUME PageInv, NEW c \in Callers, Reply(c)
  PROVE  PageInv'
<1>0. UNCHANGED <<windowVars, page, nextId, outbound, inbound>>
  BY DEF Reply
<1>1. CASE call' = [call EXCEPT ![c] = Resting]
  BY <1>0, <1>1, RestingKeeps
<1>2. ASSUME call[c].kind = "wait", GuardObservation,
             call' = [call EXCEPT ![c] = [Resting EXCEPT !.kind = "wait", !.loc = call[c].loc,
                                                         !.under = Guarded]]
      PROVE  PageInv'
  <2>1. PICK X : X = Guarded
    OBVIOUS
  <2>2. X \in SUBSET Execs /\ MayBeUnder(X)
    BY <1>2, <2>1, GuardPasses
  <2>3. PICK l : l = call[c].loc
    OBVIOUS
  <2>4. l \in Locators \cup {NoLocator} /\ "wait" \in Kinds[c] /\ "wait" \notin Located
    <3>1. CallHolds(c, call[c]) /\ "wait" # NULL
      BY PagesAssumption DEF PageInv, CallsInv, CallKinds
    <3> QED BY <1>2, <2>3, <3>1 DEF CallHolds, CallRecord, Located
  <2>5. PICK r : r = [Resting EXCEPT !.kind = "wait", !.loc = l, !.under = X]
    OBVIOUS
  <2>6. CallHolds(c, r) /\ r.id = 0
    BY <2>2, <2>4, <2>5, BegunHolds
  <2>7. r.under = X
    BY <2>5 DEF Resting
  <2>8. call' = [call EXCEPT ![c] = r]
    BY <1>2, <2>1, <2>3, <2>5
  <2> QED BY <1>0, <2>2, <2>6, <2>7, <2>8, CallChanges
<1> QED BY <1>1, <1>2 DEF Reply, WaitAgain

(***************************************************************************)
(* The pipe.                                                               *)
(***************************************************************************)
\* A command enters the pipe under a new id, and its caller waits for that.
LEMMA SendKeeps ==
  ASSUME PageInv, NEW c \in Callers, Send(c)
  PROVE  PageInv'
<1>1. PICK q : q = call[c]
  OBVIOUS
<1>2. CallHolds(c, q) /\ q \in CallRecord /\ q.pc > 0 /\ q.pc <= Len(Script(q.kind, q.loc.by)) /\ q.id = 0
  BY <1>1 DEF PageInv, CallsInv, Send, Asking, Commands
<1>3. q.kind \in CallKinds /\ q.pc \in 1 .. Len(Script(q.kind, q.loc.by))
  <2>1. q.kind # NULL
    BY <1>2 DEF CallHolds, CallRecord
  <2>2. q.kind \in CallKinds /\ q.pc \in Nat
    BY <1>2, <2>1 DEF CallHolds, CallRecord
  <2>3. Len(Script(q.kind, q.loc.by)) \in Nat
    BY <2>2, Scripts
  <2> QED BY <1>2, <2>2, <2>3
<1>4. PICK n : n = nextId
  OBVIOUS
<1>5. n \in Nat \ {0} /\ nextId' = n + 1
  BY <1>4 DEF PageInv, CallsInv, Send, FetchAdd
<1>6. PICK r : r = [q EXCEPT !.id = n]
  OBVIOUS
<1>7. /\ r \in CallRecord /\ r.kind = q.kind /\ r.loc = q.loc /\ r.pc = q.pc /\ r.id = n
      /\ r.node = q.node /\ r.saw = q.saw /\ r.under = q.under
  BY <1>2, <1>5, <1>6 DEF CallRecord
<1>8. PICK m : m = [id |-> n, by |-> c, cmd |-> CommandOf(q), node |-> q.node]
  OBVIOUS
<1>9. m \in CommandMsg /\ m.id = n /\ m.by = c /\ m.cmd = CommandOf(r) /\ m.node = r.node
  <2>1. CommandOf(q) \in CommandNames
    BY <1>3, Scripts DEF CommandOf
  <2>2. CommandOf(q) = CommandOf(r)
    BY <1>7 DEF CommandOf
  <2> QED BY <1>2, <1>5, <1>7, <1>8, <2>1, <2>2 DEF CommandMsg, CallRecord
<1>10. /\ outbound' = Append(outbound, m)
       /\ call' = [call EXCEPT ![c] = r]
       /\ UNCHANGED <<windowVars, page, inbound>>
       /\ browser # "dead"
  BY <1>1, <1>4, <1>6, <1>8 DEF Send, Command, Commands, CommandOf, Alive
<1>11. /\ call' \in [Callers -> CallRecord] /\ call'[c] = r
       /\ \A d \in Callers : d # c => call'[d] = call[d]
  BY <1>7, <1>10 DEF PageInv, CallsInv
<1>12. \A d \in Callers : call[d].id \in Nat /\ call[d].id < n
  BY <1>4 DEF PageInv, CallsInv, CallRecord
<1>13. CallsInv'
  <2>1. CallHolds(c, r)
    BY <1>2, <1>7 DEF CallHolds
  <2>2. \A d \in Callers : CallHolds(d, call'[d])
    BY <1>11, <2>1 DEF PageInv, CallsInv
  <2>3. \A d \in Callers : call'[d].id < nextId'
    BY <1>5, <1>7, <1>11, <1>12
  <2>4. \A d, g \in Callers : call'[d].id # 0 /\ call'[d].id = call'[g].id => d = g
    <3> SUFFICES ASSUME NEW d \in Callers, NEW g \in Callers, call'[d].id # 0,
                        call'[d].id = call'[g].id, d # g
                 PROVE  FALSE
      OBVIOUS
    <3>1. d # c /\ g # c
      BY <1>5, <1>7, <1>11, <1>12
    <3> QED BY <1>11, <3>1 DEF PageInv, CallsInv
  <2> QED BY <1>5, <1>10, <1>11, <2>2, <2>3, <2>4 DEF PageInv, CallsInv, CallHolds
<1>14. PipeInv'
  <2>0. outbound \in Seq(CommandMsg) /\ inbound \in Seq(AnswerMsg)
    BY DEF PageInv, PipeInv
  <2>1. /\ Len(outbound) \in Nat /\ outbound' \in Seq(CommandMsg)
        /\ Len(outbound') = Len(outbound) + 1 /\ outbound'[Len(outbound) + 1] = m
        /\ \A i \in 1 .. Len(outbound) + 1 :
              i = Len(outbound) + 1 \/ (i \in 1 .. Len(outbound) /\ outbound'[i] = outbound[i])
    BY <1>9, <1>10, <2>0, AppendOf
  <2>2. ASSUME NEW i \in 1 .. Len(outbound)
        PROVE  SentBy(outbound[i]) /\ outbound[i].id \in Nat /\ outbound[i].id < n
    <3>1. outbound[i] \in CommandMsg
      BY <2>0
    <3> QED BY <1>4, <3>1 DEF PageInv, PipeInv, CommandMsg
  <2>3. ASSUME NEW i \in 1 .. Len(inbound)
        PROVE  AnswerTo(inbound[i]) /\ inbound[i].id \in Nat /\ inbound[i].id < n
    <3>1. inbound[i] \in AnswerMsg
      BY <2>0
    <3> QED BY <1>4, <3>1 DEF PageInv, PipeInv, AnswerMsg, Frame
  <2>4. SentBy(m)' /\ m.id < nextId'
    <3>1. \A d \in Callers : m.id = call'[d].id => d = c
      BY <1>5, <1>9, <1>11, <1>12
    <3> QED BY <1>5, <1>9, <1>11, <3>1 DEF SentBy, CommandOf
  <2>5. \A i \in 1 .. Len(outbound') : SentBy(outbound[i])' /\ outbound'[i].id < nextId'
    <3> SUFFICES ASSUME NEW i \in 1 .. Len(outbound')
                 PROVE  SentBy(outbound[i])' /\ outbound'[i].id < nextId'
      OBVIOUS
    <3>1. CASE i = Len(outbound) + 1
      BY <2>1, <2>4, <3>1 DEF SentBy
    <3>2. CASE i \in 1 .. Len(outbound) /\ outbound'[i] = outbound[i]
      <4>1. SentBy(outbound[i]) /\ outbound[i].id \in Nat /\ outbound[i].id < n
        BY <2>2, <3>2
      <4>2. outbound[i].id # call'[c].id
        BY <1>5, <1>7, <1>11, <4>1
      <4> QED BY <1>5, <1>11, <3>2, <4>1, <4>2 DEF SentBy, CommandOf
    <3> QED BY <2>1, <3>1, <3>2
  <2>6. \A i \in 1 .. Len(inbound') : AnswerTo(inbound[i])' /\ inbound'[i].id < nextId'
    <3> SUFFICES ASSUME NEW i \in 1 .. Len(inbound)
                 PROVE  AnswerTo(inbound[i])' /\ inbound'[i].id < nextId'
      BY <1>10
    <3>1. AnswerTo(inbound[i]) /\ inbound[i].id \in Nat /\ inbound[i].id < n /\ inbound'[i] = inbound[i]
      BY <1>10, <2>3
    <3>2. inbound[i].id # call'[c].id
      BY <1>5, <1>7, <1>11, <3>1
    <3> QED BY <1>5, <1>11, <3>1, <3>2 DEF AnswerTo, CommandOf
  <2>7. OnePerId'
    <3>1. \A i \in 1 .. Len(outbound) : outbound[i].id # n
      BY <1>5, <2>2
    <3>2. \A i \in 1 .. Len(inbound) : inbound[i].id # n
      BY <1>5, <2>3
    <3>3. \A i, j \in 1 .. Len(outbound') : outbound'[i].id = outbound'[j].id => i = j
      BY <1>9, <2>1, <3>1 DEF PageInv, PipeInv, OnePerId
    <3>4. \A i \in 1 .. Len(outbound'), j \in 1 .. Len(inbound) : outbound'[i].id # inbound[j].id
      BY <1>9, <2>1, <3>2 DEF PageInv, PipeInv, OnePerId
    <3> QED BY <1>10, <3>3, <3>4 DEF PageInv, PipeInv, OnePerId
  <2> QED BY <1>10, <2>0, <2>1, <2>5, <2>6, <2>7 DEF PipeInv, windowVars
<1>15. ShieldInv'
  BY <1>10 DEF PageInv, ShieldInv, WindowTypeOK, windowVars, Managed, Open, InMap
<1>16. UnderInv'
  <2>1. MayBeUnder(r.under)
    BY <1>1, <1>7 DEF PageInv, UnderInv, MayBeUnder
  <2> QED BY <1>10, <1>11, <2>1 DEF PageInv, UnderInv, MayBeUnder, Managed, windowVars
<1> QED BY <1>13, <1>14, <1>15, <1>16 DEF PageInv

\* Chrome's answer takes the place of the command.
LEMMA ChromeRunsKeeps ==
  ASSUME PageInv, ChromeRuns
  PROVE  PageInv'
<1>0. outbound \in Seq(CommandMsg) /\ inbound \in Seq(AnswerMsg) /\ page \in Documents /\ outbound # <<>>
      /\ browser # "dead"
  BY DEF PageInv, PipeInv, CallsInv, ChromeRuns, Alive
<1>1. PICK m : m = Head(outbound)
  OBVIOUS
<1>2. /\ m \in CommandMsg /\ m = outbound[1] /\ Len(outbound) \in Nat \ {0}
      /\ Tail(outbound) \in Seq(CommandMsg) /\ Len(Tail(outbound)) = Len(outbound) - 1
      /\ \A i \in 1 .. Len(outbound) - 1 : Tail(outbound)[i] = outbound[i + 1] /\ i + 1 \in 1 .. Len(outbound)
  BY <1>0, <1>1, TailOf
<1>21. PICK res \in {"ok", "error", "garbled"} :
        \E node \in IF m.cmd = "query" /\ res = "ok" THEN Elements(page) ELSE {m.node} :
        /\ inbound' = Append(inbound,
             [id |-> m.id, by |-> m.by, cmd |-> m.cmd, res |-> res,
              doc |-> IF m.cmd \in ShowsPage /\ res = "ok" THEN page ELSE <<>>,
              node |-> node])
        /\ outbound' = Tail(outbound)
        /\ page' \in IF res = "ok" /\ m.cmd = "navigate" THEN Documents ELSE {page}
  BY <1>1 DEF ChromeRuns
<1>3. PICK node \in IF m.cmd = "query" /\ res = "ok" THEN Elements(page) ELSE {m.node} :
        /\ inbound' = Append(inbound,
             [id |-> m.id, by |-> m.by, cmd |-> m.cmd, res |-> res,
              doc |-> IF m.cmd \in ShowsPage /\ res = "ok" THEN page ELSE <<>>,
              node |-> node])
        /\ outbound' = Tail(outbound)
        /\ page' \in IF res = "ok" /\ m.cmd = "navigate" THEN Documents ELSE {page}
  BY <1>21
<1>4. UNCHANGED <<windowVars, call, nextId>>
  BY DEF ChromeRuns
<1>5. PICK f : f = [id |-> m.id, by |-> m.by, cmd |-> m.cmd, res |-> res,
              doc |-> IF m.cmd \in ShowsPage /\ res = "ok" THEN page ELSE <<>>,
              node |-> node]
  OBVIOUS
<1>6. f \in AnswerMsg /\ f.id = m.id /\ f.by = m.by /\ f.cmd = m.cmd /\ (m.cmd # "query" => f.node = m.node)
  <2>1. node \in NodeIds
    <3>1. Elements(page) \subseteq NodeIds
      BY <1>0 DEF NodeIds, Elements
    <3> QED BY <1>2, <1>3, <3>1 DEF CommandMsg
  <2>2. m.id \in Nat \ {0} /\ m.by \in Callers /\ m.cmd \in CommandNames
    BY <1>2 DEF CommandMsg
  <2>3. f \in Frame
    BY <1>0, <1>3, <1>5, <2>1, <2>2 DEF Frame
  <2>4. f.cmd \in ShowsPage /\ f.res = "ok" => f.doc \in Documents
    BY <1>0, <1>5
  <2>5. f.id = m.id /\ f.by = m.by /\ f.cmd = m.cmd /\ (m.cmd # "query" => f.node = m.node)
    BY <1>3, <1>5
  <2> QED BY <2>3, <2>4, <2>5 DEF AnswerMsg
<1>7. /\ Len(inbound) \in Nat /\ inbound' \in Seq(AnswerMsg)
      /\ Len(inbound') = Len(inbound) + 1 /\ inbound'[Len(inbound) + 1] = f
      /\ \A i \in 1 .. Len(inbound) + 1 :
            i = Len(inbound) + 1 \/ (i \in 1 .. Len(inbound) /\ inbound'[i] = inbound[i])
  BY <1>0, <1>3, <1>5, <1>6, AppendOf
<1>8. /\ outbound' \in Seq(CommandMsg) /\ Len(outbound') = Len(outbound) - 1
      /\ \A i \in 1 .. Len(outbound) - 1 : outbound'[i] = outbound[i + 1] /\ i + 1 \in 1 .. Len(outbound)
  BY <1>2, <1>3
<1>9. CallsInv'
  BY <1>0, <1>3, <1>4 DEF PageInv, CallsInv, CallHolds
<1>10. PipeInv'
  <2>1. SentBy(m) /\ m.id < nextId
    <3>1. 1 \in 1 .. Len(outbound)
      BY <1>2
    <3> QED BY <1>2, <3>1 DEF PageInv, PipeInv
  <2>2. AnswerTo(f) /\ f.id < nextId
    BY <1>6, <2>1 DEF SentBy, AnswerTo
  <2>3. \A i \in 1 .. Len(inbound') : AnswerTo(inbound[i])' /\ inbound'[i].id < nextId'
    <3> SUFFICES ASSUME NEW i \in 1 .. Len(inbound')
                 PROVE  AnswerTo(inbound[i])' /\ inbound'[i].id < nextId'
      OBVIOUS
    <3>1. inbound'[i] = f \/ (i \in 1 .. Len(inbound) /\ inbound'[i] = inbound[i])
      BY <1>7
    <3>2. CASE inbound'[i] = f
      BY <1>4, <2>2, <3>2 DEF AnswerTo, CommandOf
    <3>3. CASE i \in 1 .. Len(inbound) /\ inbound'[i] = inbound[i]
      BY <1>4, <3>3 DEF PageInv, PipeInv, AnswerTo, CommandOf
    <3> QED BY <3>1, <3>2, <3>3
  <2>4. \A i \in 1 .. Len(outbound') : SentBy(outbound[i])' /\ outbound'[i].id < nextId'
    <3> SUFFICES ASSUME NEW i \in 1 .. Len(outbound')
                 PROVE  SentBy(outbound[i])' /\ outbound'[i].id < nextId'
      OBVIOUS
    <3>1. i + 1 \in 1 .. Len(outbound) /\ outbound'[i] = outbound[i + 1]
      BY <1>8
    <3> QED BY <1>4, <3>1 DEF PageInv, PipeInv, SentBy, CommandOf
  <2>5. OnePerId'
    <3>0. 1 \in 1 .. Len(outbound) /\ outbound[1] = m
      BY <1>2
    <3>1. \A i, j \in 1 .. Len(outbound') : outbound'[i].id = outbound'[j].id => i = j
      <4> SUFFICES ASSUME NEW i \in 1 .. Len(outbound'), NEW j \in 1 .. Len(outbound'),
                          outbound'[i].id = outbound'[j].id
                   PROVE  i = j
        OBVIOUS
      <4>0. /\ i + 1 \in 1 .. Len(outbound) /\ outbound'[i] = outbound[i + 1]
            /\ j + 1 \in 1 .. Len(outbound) /\ outbound'[j] = outbound[j + 1]
        BY <1>8
      <4>1. i + 1 = j + 1
        BY <4>0 DEF PageInv, PipeInv, OnePerId
      <4> QED BY <4>1, <1>8
    <3>2. \A i \in 1 .. Len(outbound') : outbound'[i].id # f.id
      <4> SUFFICES ASSUME NEW i \in 1 .. Len(outbound'), outbound'[i].id = f.id PROVE FALSE
        OBVIOUS
      <4>1. i + 1 \in 1 .. Len(outbound) /\ outbound[i + 1].id = outbound[1].id
        BY <1>6, <1>8, <3>0
      <4>2. i + 1 = 1
        BY <3>0, <4>1 DEF PageInv, PipeInv, OnePerId
      <4> QED BY <4>2, <1>8
    <3>3. \A j \in 1 .. Len(inbound) : inbound[j].id # f.id
      BY <1>6, <3>0 DEF PageInv, PipeInv, OnePerId
    <3>4. \A i, j \in 1 .. Len(inbound') : inbound'[i].id = inbound'[j].id => i = j
      BY <1>7, <3>3 DEF PageInv, PipeInv, OnePerId
    <3>5. \A i \in 1 .. Len(outbound'), j \in 1 .. Len(inbound') : outbound'[i].id # inbound'[j].id
      <4> SUFFICES ASSUME NEW i \in 1 .. Len(outbound'), NEW j \in 1 .. Len(inbound'),
                          outbound'[i].id = inbound'[j].id
                   PROVE  FALSE
        OBVIOUS
      <4>1. i + 1 \in 1 .. Len(outbound) /\ outbound'[i] = outbound[i + 1]
        BY <1>8
      <4>2. inbound'[j] = f \/ (j \in 1 .. Len(inbound) /\ inbound'[j] = inbound[j])
        BY <1>7
      <4> QED BY <4>1, <4>2, <3>2 DEF PageInv, PipeInv, OnePerId
    <3> QED BY <3>1, <3>4, <3>5 DEF OnePerId
  <2> QED BY <1>0, <1>4, <1>7, <1>8, <2>3, <2>4, <2>5 DEF PipeInv, windowVars
<1>11. ShieldInv'
  BY <1>4 DEF PageInv, ShieldInv, WindowTypeOK, windowVars, Managed, Open, InMap
<1>12. UnderInv'
  BY <1>4 DEF PageInv, UnderInv, Managed, windowVars
<1> QED BY <1>9, <1>10, <1>11, <1>12 DEF PageInv

\* A call that is one command further on, with another node and another document, is in
\* order.
LEMMA NextHolds ==
  ASSUME PageInv, NEW c \in Callers, call[c].id # 0, NEW n \in NodeIds, NEW d \in Documents \cup {<<>>},
         d # <<>> => call[c].kind \in {"read", "readAt", "snapshot"}
  PROVE  LET r == [call[c] EXCEPT !.pc = @ + 1, !.id = 0, !.node = n, !.saw = d]
         IN  CallHolds(c, r) /\ MayBeUnder(r.under) /\ r.id = 0
<1>1. PICK q : q = call[c]
  OBVIOUS
<1>2. CallHolds(c, q) /\ q \in CallRecord /\ q.id # 0
  BY <1>1 DEF PageInv, CallsInv
<1>3. q.pc > 0 /\ q.pc <= Len(Script(q.kind, q.loc.by)) /\ q.kind # NULL /\ q.kind \in CallKinds
  BY <1>2 DEF CallHolds, CallRecord
<1>4. Len(Script(q.kind, q.loc.by)) \in Nat
  BY <1>3, Scripts
<1>5. PICK p : p = q.pc + 1
  OBVIOUS
<1>6. p \in Nat /\ p <= Len(Script(q.kind, q.loc.by)) + 1
  BY <1>2, <1>3, <1>4, <1>5 DEF CallRecord
<1>7. PICK r : r = [q EXCEPT !.pc = p, !.id = 0, !.node = n, !.saw = d]
  OBVIOUS
<1>8. /\ r \in CallRecord /\ r.kind = q.kind /\ r.loc = q.loc /\ r.pc = p
      /\ r.id = 0 /\ r.under = q.under /\ r.saw = d
  <2>1. q \in CallRecord /\ p \in Nat
    BY <1>2, <1>6
  <2>2. LET s == [q EXCEPT !.pc = p, !.id = 0, !.node = n, !.saw = d]
        IN  /\ s \in CallRecord /\ s.kind = q.kind /\ s.loc = q.loc /\ s.pc = p
            /\ s.id = 0 /\ s.under = q.under /\ s.saw = d
    BY <2>1 DEF CallRecord
  <2> QED BY <2>2, <1>7
<1>9. CallHolds(c, r)
  BY <1>1, <1>2, <1>3, <1>6, <1>8 DEF CallHolds
<1>10. MayBeUnder(r.under)
  BY <1>1, <1>8 DEF PageInv, UnderInv, MayBeUnder
<1>11. r = [call[c] EXCEPT !.pc = @ + 1, !.id = 0, !.node = n, !.saw = d]
  BY <1>1, <1>5, <1>7
<1> QED BY <1>8, <1>9, <1>10, <1>11

\* A failed request ends the call, or leaves it one command further on.
LEMMA FailedGoesOn ==
  ASSUME PageInv, NEW c \in Callers, call[c].id # 0, NEW r \in Failed(c)
  PROVE  CallHolds(c, r) /\ MayBeUnder(r.under) /\ r.id = 0
<1>1. CASE r = Resting
  BY <1>1, RestingHolds DEF MayBeUnder
<1>2. CASE r = [call[c] EXCEPT !.pc = @ + 1, !.id = 0]
  <2>1. PICK n, d : n = call[c].node /\ d = call[c].saw
    OBVIOUS
  <2>2. CallHolds(c, call[c]) /\ call[c] \in CallRecord
    BY DEF PageInv, CallsInv
  <2>3. /\ n \in NodeIds /\ d \in Documents \cup {<<>>}
        /\ d # <<>> => call[c].kind \in {"read", "readAt", "snapshot"}
    BY <2>1, <2>2 DEF CallHolds, CallRecord
  <2>4. r = [call[c] EXCEPT !.pc = @ + 1, !.id = 0, !.node = n, !.saw = d]
    BY <1>2, <2>1, <2>2 DEF CallRecord
  <2> QED BY <2>3, <2>4, NextHolds
<1> QED BY <1>1, <1>2 DEF Failed

\* The handler's call after its answer: ended, or one command further on, with the node the
\* locator found, or with the document its own answer will be taken from.
LEMMA AfterGoesOn ==
  ASSUME PageInv, NEW c \in Callers, call[c].id # 0, NEW f \in AnswerMsg, f.id = call[c].id,
         AnswerTo(f), f.res # "garbled", NEW r \in After(c, f)
  PROVE  CallHolds(c, r) /\ MayBeUnder(r.under) /\ r.id = 0
<1>1. PICK q : q = call[c]
  OBVIOUS
<1>2. /\ CallHolds(c, q) /\ q \in CallRecord /\ f.cmd = CommandOf(q)
  BY <1>1 DEF PageInv, CallsInv, AnswerTo
<1>3. q.kind \in CallKinds /\ q.pc \in 1 .. Len(Script(q.kind, q.loc.by))
  <2>1. q.kind # NULL /\ q.pc > 0 /\ q.pc <= Len(Script(q.kind, q.loc.by))
    BY <1>1, <1>2 DEF CallHolds, CallRecord
  <2>2. q.kind \in CallKinds /\ q.pc \in Nat
    BY <1>2, <2>1 DEF CallHolds, CallRecord
  <2>3. Len(Script(q.kind, q.loc.by)) \in Nat
    BY <2>2, Scripts
  <2> QED BY <2>1, <2>2, <2>3
<1>4. f.node \in NodeIds /\ f.doc \in Documents \cup {<<>>} /\ f.res \in {"ok", "error"}
      /\ (f.cmd \in ShowsPage /\ f.res = "ok" => f.doc \in Documents)
  BY DEF AnswerMsg, Frame
<1>5. PICK next : next = [q EXCEPT !.pc = @ + 1, !.id = 0, !.node = f.node]
  OBVIOUS
<1>6. \/ r \in Failed(c)
      \/ r = Resting
      \/ r = next
      \/ q.kind \in {"read", "readAt", "snapshot"} /\ r = [next EXCEPT !.saw = f.doc]
      \/ /\ f.cmd = "document" /\ q.kind \in Located /\ f.res = "ok"
         /\ \E e \in Found(q.loc, f.doc) : r = [next EXCEPT !.node = e]
  <2>1. next = [call[c] EXCEPT !.pc = @ + 1, !.id = 0, !.node = f.node]
    BY <1>1, <1>5
  <2>2. CASE f.res = "error"
    BY <2>2 DEF After
  <2>3. ASSUME f.res # "error", f.cmd = "document", q.kind \in Located
        PROVE  r = Resting \/ \E e \in Found(q.loc, f.doc) : r = [next EXCEPT !.node = e]
    BY <1>1, <2>1, <2>3 DEF After, Located
  <2>4. ASSUME f.res # "error", f.cmd = "describe", q.kind \in {"type", "select"}
        PROVE  r = Resting \/ r = next
    BY <1>1, <2>1, <2>4 DEF After, Located
  <2>5. ASSUME f.res # "error",
               \/ f.cmd = "document" /\ q.kind \in {"read", "snapshot"}
               \/ f.cmd = "describe" /\ q.kind = "readAt"
        PROVE  r = [next EXCEPT !.saw = f.doc]
    BY <1>1, <2>1, <2>5 DEF After, Located
  <2>6. ASSUME f.res # "error",
               ~ (f.cmd = "document" /\ q.kind \in Located),
               ~ (f.cmd = "describe" /\ q.kind \in {"type", "select"}),
               ~ (f.cmd = "document" /\ q.kind \in {"read", "snapshot"}),
               ~ (f.cmd = "describe" /\ q.kind = "readAt")
        PROVE  r = next
    BY <1>1, <2>1, <2>6 DEF After
  <2> QED BY <1>4, <2>2, <2>3, <2>4, <2>5, <2>6
<1>7. CASE r \in Failed(c)
  BY <1>7, FailedGoesOn
<1>8. CASE r = Resting
  BY <1>8, RestingHolds DEF MayBeUnder
<1>9. PICK s : s = q.saw
  OBVIOUS
<1>10. s \in Documents \cup {<<>>} /\ (s # <<>> => q.kind \in {"read", "readAt", "snapshot"})
  BY <1>2, <1>9 DEF CallHolds, CallRecord
<1>11. CASE r = next
  <2>1. r = [call[c] EXCEPT !.pc = @ + 1, !.id = 0, !.node = f.node, !.saw = s]
    BY <1>1, <1>2, <1>5, <1>9, <1>11 DEF CallRecord
  <2> QED BY <1>1, <1>4, <1>10, <2>1, NextHolds
<1>12. CASE q.kind \in {"read", "readAt", "snapshot"} /\ r = [next EXCEPT !.saw = f.doc]
  <2>1. r = [call[c] EXCEPT !.pc = @ + 1, !.id = 0, !.node = f.node, !.saw = f.doc]
    BY <1>1, <1>2, <1>5, <1>12 DEF CallRecord
  <2>2. /\ f.node \in NodeIds /\ f.doc \in Documents \cup {<<>>}
        /\ f.doc # <<>> => call[c].kind \in {"read", "readAt", "snapshot"}
    BY <1>1, <1>4, <1>12
  <2> QED BY <2>1, <2>2, NextHolds
<1>13. ASSUME f.cmd = "document", q.kind \in Located, f.res = "ok",
              NEW e \in Found(q.loc, f.doc), r = [next EXCEPT !.node = e]
       PROVE  CallHolds(c, r) /\ MayBeUnder(r.under) /\ r.id = 0
  <2>1. q.loc \in Locators /\ f.doc \in Documents
    BY <1>2, <1>4, <1>13 DEF CallHolds, ShowsPage
  <2>2. q.loc.by # "css"
    BY <1>2, <1>3, <1>13, Scripts DEF CommandOf
  <2>3. e \in NodeIds
    BY <2>1, <2>2, <1>13, FoundNodes
  <2>4. r = [call[c] EXCEPT !.pc = @ + 1, !.id = 0, !.node = e, !.saw = s]
    BY <1>1, <1>2, <1>5, <1>9, <1>13 DEF CallRecord
  <2> QED BY <1>1, <1>10, <2>3, <2>4, NextHolds
<1> QED BY <1>6, <1>7, <1>8, <1>11, <1>12, <1>13

\* Reading a frame: the pipe loses its first answer, and the call goes on if it is its own,
\* waits on if it is another's, and fails if it is none.
LEMMA ReadFrameKeeps ==
  ASSUME PageInv, NEW c \in Callers, ReadFrame(c)
  PROVE  PageInv'
<1>1. PICK f : f = Head(inbound)
  OBVIOUS
<1>2. inbound # <<>> /\ call[c].id # 0 /\ inbound' = Tail(inbound)
      /\ UNCHANGED <<windowVars, page, nextId, outbound>>
  BY DEF ReadFrame
<1>3. f \in AnswerMsg /\ AnswerTo(f)
  <2>1. inbound \in Seq(AnswerMsg)
    BY DEF PageInv, PipeInv
  <2>2. f \in AnswerMsg /\ f = inbound[1] /\ 1 \in 1 .. Len(inbound)
    BY <1>1, <1>2, <2>1, TailOf
  <2> QED BY <2>2 DEF PageInv, PipeInv
<1>4. PICK r \in IF f.res = "garbled" THEN Failed(c)
                 ELSE IF Takes(c, f) THEN After(c, f) ELSE {call[c]} :
        call' = [call EXCEPT ![c] = r]
  BY <1>1 DEF ReadFrame
<1>5. CASE f.res = "garbled"
  <2>1. CallHolds(c, r) /\ MayBeUnder(r.under) /\ r.id = 0
    BY <1>2, <1>4, <1>5, FailedGoesOn
  <2> QED BY <1>2, <1>4, <2>1, CallChanges
<1>6. CASE f.res # "garbled" /\ Takes(c, f)
  <2>1. CallHolds(c, r) /\ MayBeUnder(r.under) /\ r.id = 0
    BY <1>2, <1>3, <1>4, <1>6, AfterGoesOn DEF Takes
  <2> QED BY <1>2, <1>4, <2>1, CallChanges
<1>7. CASE f.res # "garbled" /\ ~ Takes(c, f)
  <2>1. r = call[c]
    BY <1>4, <1>7
  <2>2. CallHolds(c, r) /\ MayBeUnder(r.under)
    BY <2>1 DEF PageInv, CallsInv, UnderInv, MayBeUnder
  <2> QED BY <1>2, <1>4, <2>1, <2>2, CallChanges
<1> QED BY <1>5, <1>6, <1>7

(***************************************************************************)
(* The windows and the executions.                                         *)
(***************************************************************************)
\* A step that leaves the calls and the pipe alone, and does not end the browser.
LEMMA CallsKept ==
  ASSUME PageInv, UNCHANGED callVars, browser' = "dead" => browser = "dead"
  PROVE  CallsInv' /\ PipeInv'
<1>1. CallsInv'
  BY DEF PageInv, CallsInv, CallHolds, callVars
<1>2. PipeInv'
  BY DEF PageInv, PipeInv, SentBy, AnswerTo, CommandOf, OnePerId, callVars
<1> QED BY <1>1, <1>2

\* The tab shows another document: what is on its way was about the calls, not the page.
LEMMA PageChangesKeeps ==
  ASSUME PageInv, PageChanges
  PROVE  PageInv'
<1>1. CallsInv'
  BY DEF PageInv, PageChanges, CallsInv, CallHolds
<1>2. PipeInv'
  BY DEF PageInv, PageChanges, PipeInv, SentBy, AnswerTo, CommandOf, OnePerId, windowVars
<1>3. ShieldInv' /\ UnderInv'
  BY DEF PageInv, PageChanges, ShieldInv, UnderInv, WindowTypeOK, windowVars, Managed, Open, InMap
<1> QED BY <1>1, <1>2, <1>3 DEF PageInv

\* The browser leaves the map, and the guard with it; its end takes the pipe along.
LEMMA CloseKeeps ==
  ASSUME PageInv, (CloseRemove /\ UNCHANGED callVars) \/ Dies
  PROVE  PageInv'
<1>1. CASE CloseRemove /\ UNCHANGED callVars
  <2>1. CallsInv' /\ PipeInv'
    BY <1>1, CallsKept DEF CloseRemove
  <2>2. ~ Managed' /\ browser' \in BrowserStates
    BY <1>1 DEF CloseRemove, Managed, BrowserStates
  <2>3. ShieldInv'
    BY <1>1, <2>2 DEF PageInv, CloseRemove, ShieldInv, WindowTypeOK, Open, InMap
  <2> QED BY <2>1, <2>2, <2>3 DEF PageInv, UnderInv
<1>2. CASE Dies
  <2>1. CallsInv'
    BY <1>2 DEF PageInv, Dies, CallsInv, CallHolds
  <2>2. PipeInv'
    <3>1. outbound' = <<>> /\ inbound' = <<>>
      BY <1>2 DEF Dies
    <3> QED BY <3>1 DEF PipeInv, OnePerId
  <2>3. ~ Managed' /\ browser' \in BrowserStates
    BY <1>2 DEF Dies, Shutdown, Managed, BrowserStates
  <2>4. sess' \in [Ports -> {"none", "active", "stale", "terminated"}]
    BY <1>2 DEF Dies, Shutdown
  <2>5. UNCHANGED <<windows, exec, ticker, lapsed>>
    BY <1>2 DEF Dies, Shutdown
  <2>6. ShieldInv'
    BY <2>3, <2>4, <2>5 DEF PageInv, ShieldInv, WindowTypeOK, Open, InMap
  <2> QED BY <2>1, <2>2, <2>3, <2>6 DEF PageInv, UnderInv
<1> QED BY <1>1, <1>2

\* An execution x becomes e, and the windows W.
LEMMA ExecutionKeeps ==
  ASSUME PageInv, NEW x \in Execs, NEW e \in ActiveExecution, NEW W \in SUBSET Tabs,
         exec' = [exec EXCEPT ![x] = e], windows' = W, UNCHANGED <<browser, sess, ticker, lapsed>>,
         UNCHANGED callVars,
         e.state \in {"consumed", "retrieving", "running", "spoiled", "done"},
         e.state = "consumed" => ~ e.guarded,
         Managed /\ e.guarded /\ e.state \in {"retrieving", "running"} => e.tab \in W,
         \A y \in Execs : y # x /\ Open(y) => e.state = "done" /\ windows \ W = {},
         exec[x] = NULL \/ Open(x),
         exec[x] # NULL /\ exec[x].state = "spoiled" => e.state \in {"spoiled", "done"}
  PROVE  PageInv'
<1>1. CallsInv' /\ PipeInv'
  BY CallsKept
<1>2. /\ exec \in [Execs -> ActiveExecution \cup {NULL}] /\ exec'[x] = e
      /\ \A y \in Execs : y # x => exec'[y] = exec[y]
      /\ exec' \in [Execs -> ActiveExecution \cup {NULL}] /\ e # NULL
  BY ExecutionAssumption DEF PageInv, ShieldInv, WindowTypeOK
<1>3. WindowTypeOK'
  BY <1>2 DEF PageInv, ShieldInv, WindowTypeOK
<1>4. ASSUME NEW y \in Execs, exec'[y] # NULL
      PROVE  /\ exec'[y].state \in {"consumed", "retrieving", "running", "spoiled", "done"}
             /\ exec'[y].state = "consumed" => ~ exec'[y].guarded
             /\ Managed' /\ exec'[y].guarded /\ exec'[y].state \in {"retrieving", "running"}
                  => exec'[y].tab \in windows'
  <2>1. CASE y = x
    BY <1>2, <2>1 DEF Managed
  <2>2. CASE y # x
    <3>1. exec'[y] = exec[y] /\ exec[y] # NULL
      BY <1>2, <1>4, <2>2
    <3>2. exec[y].state \in {"retrieving", "running"} => Open(y)
      BY <3>1 DEF Open, InMap
    <3> QED BY <2>2, <3>1, <3>2 DEF PageInv, ShieldInv, Managed
  <2> QED BY <2>1, <2>2
<1>5. ASSUME NEW y \in Execs, NEW z \in Execs, Open(y)', Open(z)' PROVE y = z
  <2>1. Open(x)' => e.state # "done"
    BY <1>2 DEF Open, InMap
  <2>2. \A w \in Execs : w # x => (Open(w)' <=> Open(w))
    BY <1>2 DEF Open, InMap
  <2> QED BY <1>5, <2>1, <2>2 DEF PageInv, ShieldInv
<1>6. ShieldInv'
  BY <1>3, <1>4, <1>5 DEF ShieldInv
<1>7. UnderInv'
  <2> SUFFICES ASSUME Managed', NEW c \in Callers, NEW y \in call'[c].under
               PROVE  exec'[y] # NULL /\ exec'[y].state \in {"spoiled", "done"}
    BY DEF UnderInv
  <2>1. Managed /\ call' = call
    BY DEF Managed, callVars
  <2>2. y \in Execs /\ exec[y] # NULL /\ exec[y].state \in {"spoiled", "done"}
    BY <2>1 DEF PageInv, UnderInv, CallsInv, CallRecord
  <2>3. CASE y = x
    <3>1. e.state \in {"spoiled", "done"}
      BY <2>2, <2>3 DEF Open
    <3> QED BY <1>2, <2>3, <3>1
  <2>4. CASE y # x
    BY <1>2, <2>2, <2>4
  <2> QED BY <2>3, <2>4
<1> QED BY <1>1, <1>6, <1>7 DEF PageInv

\* An execution comes to an end before the next begins.
LEMMA ExecutionsKeep ==
  ASSUME PageInv, NEW x \in Execs, Execution(x), UNCHANGED callVars
  PROVE  PageInv'
<1>0. /\ exec \in [Execs -> ActiveExecution \cup {NULL}] /\ windows \in SUBSET Tabs
      /\ \A y, z \in Execs : Open(y) /\ Open(z) => y = z
  BY DEF PageInv, ShieldInv, WindowTypeOK
<1>1. CASE Consumed(x)
  <2>1. exec[x] = NULL /\ \A y \in Execs : ~ Open(y)
    BY <1>1 DEF Consumed
  <2>2. PICK p \in Ports, t \in Tabs :
          exec' = [exec EXCEPT ![x] = [sess |-> p, tab |-> t, doc |-> 1,
                                       state |-> "consumed", guarded |-> FALSE]]
    BY <1>1 DEF Consumed
  <2>3. PICK e : e = [sess |-> p, tab |-> t, doc |-> 1, state |-> "consumed", guarded |-> FALSE]
    OBVIOUS
  <2>4. e \in ActiveExecution /\ e.state = "consumed" /\ e.guarded = FALSE
    BY <2>3 DEF ActiveExecution, ExecStates
  <2>5. PICK W : W = windows
    OBVIOUS
  <2>6. windows' = W /\ UNCHANGED <<browser, sess, ticker, lapsed>> /\ exec' = [exec EXCEPT ![x] = e]
    BY <1>1, <2>2, <2>3, <2>5 DEF Consumed
  <2> QED BY <1>0, <2>1, <2>4, <2>5, <2>6, ExecutionKeeps
<1>2. CASE ~ Consumed(x)
  <2>1. exec[x] # NULL /\ Open(x)
    BY <1>2 DEF Execution, EnterWindow, RetrieveSucceeds, RetrieveFails, ResultRecorded, Open, InMap
  <2>2. PICK q : q = exec[x]
    OBVIOUS
  <2>3. q \in ActiveExecution /\ q.tab \in Tabs
    BY <1>0, <2>1, <2>2 DEF ActiveExecution
  <2>4. /\ \A y \in Execs : y # x => ~ Open(y)
        /\ q.state = "consumed" => ~ q.guarded
        /\ Managed /\ q.guarded /\ q.state \in {"retrieving", "running"} => q.tab \in windows
    BY <1>0, <2>1, <2>2 DEF PageInv, ShieldInv
  <2>5. CASE EnterWindow(x)
    <3>1. PICK g : g = Managed
      OBVIOUS
    <3>2. PICK e : e = [q EXCEPT !.state = "retrieving", !.guarded = g]
      OBVIOUS
    <3>3. PICK W : W = IF Managed THEN windows \cup {q.tab} ELSE windows
      OBVIOUS
    <3>4. /\ e \in ActiveExecution /\ e.state = "retrieving" /\ e.tab = q.tab
          /\ W \in SUBSET Tabs /\ (Managed => e.tab \in W)
      <4>1. g \in BOOLEAN
        BY <3>1 DEF Managed
      <4>2. e \in ActiveExecution /\ e.state = "retrieving" /\ e.tab = q.tab
        BY <2>3, <3>2, <4>1 DEF ActiveExecution, ExecStates
      <4> QED BY <1>0, <2>3, <3>3, <4>2
    <3>5. /\ exec' = [exec EXCEPT ![x] = e] /\ windows' = W /\ q.state = "consumed"
          /\ UNCHANGED <<browser, sess, ticker, lapsed>>
      BY <1>0, <2>2, <2>5, <3>1, <3>2, <3>3 DEF EnterWindow
    <3> QED BY <2>1, <2>2, <2>4, <3>4, <3>5, ExecutionKeeps
  <2>6. CASE RetrieveSucceeds(x)
    <3>1. PICK e : e = [q EXCEPT !.state = "running"]
      OBVIOUS
    <3>2. PICK W : W = windows
      OBVIOUS
    <3>3. /\ e \in ActiveExecution /\ e.state = "running" /\ e.tab = q.tab /\ e.guarded = q.guarded
      BY <2>3, <3>1 DEF ActiveExecution, ExecStates
    <3>4. /\ exec' = [exec EXCEPT ![x] = e] /\ windows' = W /\ q.state = "retrieving"
          /\ UNCHANGED <<browser, sess, ticker, lapsed>>
      BY <1>0, <2>2, <2>6, <3>1, <3>2 DEF RetrieveSucceeds, SetExec
    <3> QED BY <1>0, <2>1, <2>2, <2>4, <3>2, <3>3, <3>4, ExecutionKeeps
  <2>7. CASE RetrieveFails(x)
    <3>1. PICK e : e = [q EXCEPT !.state = "spoiled"]
      OBVIOUS
    <3>2. PICK W : W = IF q.guarded THEN windows \ {q.tab} ELSE windows
      OBVIOUS
    <3>3. e \in ActiveExecution /\ e.state = "spoiled" /\ W \in SUBSET Tabs
      BY <1>0, <2>3, <3>1, <3>2 DEF ActiveExecution, ExecStates
    <3>4. /\ exec' = [exec EXCEPT ![x] = e] /\ windows' = W
          /\ UNCHANGED <<browser, sess, ticker, lapsed>>
      BY <1>0, <2>2, <2>7, <3>1, <3>2 DEF RetrieveFails, SetExec
    <3> QED BY <2>1, <2>2, <2>4, <3>3, <3>4, ExecutionKeeps
  <2>8. CASE ResultRecorded(x)
    <3>1. PICK e : e = [q EXCEPT !.state = "done"]
      OBVIOUS
    <3>2. PICK W : W = IF Managed THEN windows \ {q.tab} ELSE windows
      OBVIOUS
    <3>3. e \in ActiveExecution /\ e.state = "done" /\ W \in SUBSET Tabs
      BY <1>0, <2>3, <3>1, <3>2 DEF ActiveExecution, ExecStates
    <3>4. /\ exec' = [exec EXCEPT ![x] = e] /\ windows' = W
          /\ UNCHANGED <<browser, sess, ticker, lapsed>>
      BY <1>0, <2>2, <2>8, <3>1, <3>2 DEF ResultRecorded, SetExec, Exit
    <3> QED BY <2>1, <2>2, <2>4, <3>3, <3>4, ExecutionKeeps
  <2> QED BY <1>2, <2>5, <2>6, <2>7, <2>8 DEF Execution
<1> QED BY <1>1, <1>2

(***************************************************************************)
(* The invariant and what follows from it.                                 *)
(***************************************************************************)
\* The invariant holds of a browser that was just launched.
LEMMA PageInit == PagesInit => PageInv
<1> SUFFICES ASSUME PagesInit PROVE PageInv
  OBVIOUS
<1>1. CallsInv
  <2>1. \A c \in Callers : CallHolds(c, Resting)
    BY RestingHolds
  <2>2. \A c \in Callers : call[c] = Resting
    BY DEF PagesInit
  <2>3. call \in [Callers -> CallRecord]
    BY <2>1 DEF PagesInit, CallHolds
  <2>4. \A c \in Callers : call[c].id = 0
    BY <2>2, RestingHolds
  <2>5. nextId = 1 /\ page \in Documents
    BY DEF PagesInit
  <2> QED BY <2>1, <2>2, <2>3, <2>4, <2>5 DEF CallsInv
<1>2. PipeInv
  BY DEF PagesInit, PipeInv, OnePerId
<1>3. ShieldInv
  BY DEF PagesInit, ShieldInv, WindowTypeOK, BrowserStates, Open, InMap
<1>4. UnderInv
  BY RestingHolds DEF PagesInit, UnderInv
<1> QED BY <1>1, <1>2, <1>3, <1>4 DEF PageInv

\* Every step keeps it.
LEMMA PageNext ==
  ASSUME PageInv, [PagesNext]_pageVars
  PROVE  PageInv'
<1>1. CASE UNCHANGED pageVars
  <2>1. UNCHANGED callVars /\ UNCHANGED windowVars
    BY <1>1 DEF pageVars
  <2>2. CallsInv' /\ PipeInv'
    BY <2>1, CallsKept DEF windowVars
  <2>3. ShieldInv' /\ UnderInv'
    BY <2>1 DEF PageInv, ShieldInv, UnderInv, WindowTypeOK, windowVars, callVars, Managed, Open, InMap
  <2> QED BY <2>2, <2>3 DEF PageInv
<1>2. ASSUME NEW c \in Callers,
             \/ \E k \in Kinds[c] : \E loc \in IF k \in Located THEN Locators ELSE {NoLocator} :
                  BeginCall(c, k, loc)
             \/ Transport(c)
             \/ Send(c)
             \/ ReadFrame(c)
             \/ Reply(c)
             \/ Terminated(c)
      PROVE  PageInv'
  BY <1>2, BeginCallKeeps, TransportKeeps, SendKeeps, ReadFrameKeeps, ReplyKeeps, TerminatedKeeps
<1>3. CASE ChromeRuns
  BY <1>3, ChromeRunsKeeps
<1>4. CASE PageChanges
  BY <1>4, PageChangesKeeps
<1>5. CASE (CloseRemove /\ UNCHANGED callVars) \/ Dies
  BY <1>5, CloseKeeps
<1>6. CASE \E x \in Execs : Execution(x) /\ UNCHANGED callVars
  BY <1>6, ExecutionsKeep
<1> QED BY <1>1, <1>2, <1>3, <1>4, <1>5, <1>6 DEF PagesNext

\* PageInv is an invariant of the calls of any number of agents on any documents.
THEOREM PageInvariant == PagesSpec => []PageInv
BY PageInit, PageNext, PTL DEF PagesSpec

\* Calls, pipe and windows keep the shape the handlers give them; no call runs past the
\* commands of its handler.
THEOREM PagesTypeCorrect == PagesSpec => []PagesTypeOK
<1>1. PageInv => PagesTypeOK
  <2> SUFFICES ASSUME PageInv PROVE PagesTypeOK
    OBVIOUS
  <2>1. ASSUME NEW c \in Callers
        PROVE  /\ call[c].kind \in Kinds[c] \cup {NULL}
               /\ call[c].pc \in IF call[c].kind = NULL THEN {0} ELSE 0 .. Len(Commands(c)) + 1
               /\ call[c].id \in 0 .. nextId - 1
               /\ call[c].id # 0 => Asking(c)
    <3>1. CallHolds(c, call[c]) /\ call[c].id < nextId /\ nextId \in Nat
      BY DEF PageInv, CallsInv
    <3>2. call[c].kind # NULL => Len(Commands(c)) \in Nat
      <4>1. call[c].kind # NULL => call[c].kind \in CallKinds
        BY <3>1 DEF CallHolds, CallRecord
      <4> QED BY <4>1, Scripts DEF Commands
    <3>3. call[c].pc \in Nat /\ call[c].id \in Nat
      BY <3>1 DEF CallHolds, CallRecord
    <3>4. call[c].id \in 0 .. nextId - 1
      BY <3>1, <3>3
    <3> QED BY <3>1, <3>2, <3>3, <3>4 DEF CallHolds, Commands, Asking
  <2> QED BY <2>1 DEF PageInv, ShieldInv, CallsInv, PagesTypeOK
<1> QED BY <1>1, PageInvariant, PTL

\* A call that observes the page while a secret is on its way into it or in it was let
\* through guard_observation before the window of that secret opened: what the guard let
\* it through beside was over by then, and an execution that is over stays so.
THEOREM PagesAdmittedBefore == PagesSpec => []AdmittedBefore
<1>1. PageInv => AdmittedBefore
  BY DEF PageInv, UnderInv, AdmittedBefore, InFlight
<1> QED BY <1>1, PageInvariant, PTL

\* CdpPipe::request_with_session never takes a frame for the answer to a command that it
\* did not send, whatever callers that failed have left in the pipe and whoever reads it:
\* ids are given out once, and what is in the pipe under the id a caller waits for is about
\* the command its call is at.
THEOREM PagesAnswersFit == PagesSpec => []AnswersFit
<1>1. PageInv => AnswersFit
  <2> SUFFICES ASSUME PageInv, NEW c \in Callers, NEW i \in 1 .. Len(inbound), Takes(c, inbound[i])
               PROVE  /\ inbound[i].by = c /\ inbound[i].cmd = Command(c)
                      /\ inbound[i].cmd # "query" => inbound[i].node = call[c].node
    BY DEF AnswersFit
  <2> QED BY DEF PageInv, PipeInv, AnswerTo, CommandOf, Command, Commands, Takes
<1> QED BY <1>1, PageInvariant, PTL

\* An answer holds a text that stands in a protected or a non-content element only when it
\* is the answer of page.read_text at an element which itself lies in one: the walk from
\* the root keeps everything hidden back, and so does the walk from an element in the open.
THEOREM PagesElidedOutside == PagesSpec => []ElidedOutside
<1>1. PageInv => ElidedOutside
  <2> SUFFICES ASSUME PageInv, NEW c \in Callers,
                      Told(call[c]) \cap Hidden(call[c].saw) # {}
               PROVE  /\ call[c].kind = "readAt"
                      /\ Enclosed(call[c].saw, PositionOf(call[c].saw, call[c].node))
    BY DEF ElidedOutside
  <2>1. PICK d, kind, r : d = call[c].saw /\ kind = call[c].kind /\ r = PositionOf(d, call[c].node)
    OBVIOUS
  <2>2. CallHolds(c, call[c])
    BY DEF PageInv, CallsInv
  <2>3. d # <<>>
    BY <2>1 DEF Told
  <2>4. kind \in {"read", "readAt", "snapshot"} /\ d \in Documents
    BY <2>1, <2>2, <2>3 DEF CallHolds, CallRecord
  <2>5. WellFormed(d) /\ TextsApart(d) /\ SnapshotNodes \in Nat /\ TextRuns \in Nat
    BY <2>4, PagesAssumption, DocumentsAssumption
  <2>6. CASE kind = "read"
    <3>1. Told(call[c]) = ToSet(ProjectedText(d, TextRuns))
      BY <2>1, <2>3, <2>6 DEF Told
    <3>2. Told(call[c]) \subseteq ShownBy(d, TextRuns)
      BY <3>1 DEF ShownBy
    <3>3. ShownBy(d, TextRuns) \cap Hidden(d) = {}
      BY <2>5, ViewExact
    <3> QED BY <2>1, <3>2, <3>3
  <2>7. CASE kind = "snapshot"
    <3>1. Told(call[c]) \subseteq ShownBy(d, SnapshotNodes)
      BY <2>1, <2>3, <2>7 DEF Told, ShownBy
    <3>2. ShownBy(d, SnapshotNodes) \cap Hidden(d) = {}
      BY <2>5, ViewExact
    <3> QED BY <2>1, <3>1, <3>2
  <2>8. CASE kind = "readAt"
    <3>1. Told(call[c]) = ToSet(SubtreeText(d, r, TextRuns))
      BY <2>1, <2>3, <2>8 DEF Told
    <3>2. Enclosed(d, r)
      BY <2>1, <2>5, <3>1, SubtreeOpen
    <3> QED BY <2>1, <2>8, <3>2
  <2> QED BY <2>4, <2>6, <2>7, <2>8
<1> QED BY <1>1, PageInvariant, PTL
=============================================================================
