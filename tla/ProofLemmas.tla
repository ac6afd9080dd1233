---------------------------- MODULE ProofLemmas ----------------------------
(***************************************************************************)
(* Facts about numbers and sequences that the proofs of several components *)
(* use: extreme elements of sets of numbers, and sequences whose elements  *)
(* have no type of their own.                                              *)
(***************************************************************************)
EXTENDS Naturals, Sequences, WellFoundedInduction, TLAPS

RangeOf(s) == {s[i] : i \in DOMAIN s}

\* A set of natural numbers that is not empty has a least element.
LEMMA LeastNatural ==
  ASSUME NEW T \in SUBSET Nat, T # {}
  PROVE  \E x \in T : \A y \in T : x <= y
<1>1. IsWellFoundedOn(OpToRel(<, Nat), Nat)
  BY NatLessThanWellFounded
<1>2. PICK x \in T : \A y \in T : ~ (<<y, x>> \in OpToRel(<, Nat))
  BY <1>1, WFMin
<1>3. \A y \in T : ~ (y < x)
  BY <1>2 DEF OpToRel
<1> QED BY <1>3

\* A bounded one has a greatest: the least of its upper bounds.
LEMMA GreatestNatural ==
  ASSUME NEW N \in Nat, NEW T \in SUBSET (1..N), T # {}
  PROVE  \E x \in T : \A y \in T : y <= x
<1> DEFINE Bounds == {u \in Nat : \A y \in T : y <= u}
<1>1. N \in Bounds
  OBVIOUS
<1>2. PICK u \in Bounds : \A w \in Bounds : u <= w
  BY <1>1, LeastNatural
<1>3. PICK t \in T : TRUE
  OBVIOUS
<1>4. u \in T
  <2> SUFFICES ASSUME u \notin T PROVE FALSE
    OBVIOUS
  <2>1. u # 0
    BY <1>3
  <2>2. u - 1 \in Bounds
    BY <2>1
  <2> QED BY <1>2, <2>2
<1> QED BY <1>4

\* What Append does to a sequence, whatever its elements are.
LEMMA AppendSeq ==
  ASSUME NEW s, s \in Seq(RangeOf(s)), NEW e
  PROVE  /\ Append(s, e) \in Seq(RangeOf(Append(s, e)))
         /\ Len(s) \in Nat /\ DOMAIN s = 1..Len(s)
         /\ Len(Append(s, e)) = Len(s) + 1
         /\ DOMAIN Append(s, e) = 1..(Len(s) + 1)
         /\ Append(s, e)[Len(s) + 1] = e
         /\ \A i \in 1..Len(s) : Append(s, e)[i] = s[i]
<1>1. s \in Seq(RangeOf(s) \cup {e})
  OBVIOUS
<1>2. Append(s, e) \in Seq(RangeOf(s) \cup {e})
  BY <1>1
<1>3. /\ Len(s) \in Nat /\ DOMAIN s = 1..Len(s)
      /\ Len(Append(s, e)) = Len(s) + 1
      /\ DOMAIN Append(s, e) = 1..(Len(s) + 1)
      /\ Append(s, e)[Len(s) + 1] = e
      /\ \A i \in 1..Len(s) : Append(s, e)[i] = s[i]
  BY <1>1, <1>2
<1>4. Append(s, e) \in Seq(RangeOf(Append(s, e)))
  BY <1>2, <1>3 DEF RangeOf
<1> QED BY <1>3, <1>4
============================================================================
