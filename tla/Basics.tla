------------------------------- MODULE Basics -------------------------------
(***************************************************************************)
(* Lemmas about numbers and sequences that the other proofs rest on.  In   *)
(* place of induction: a nonempty set of naturals has a least element, so  *)
(* what holds of a number as soon as it holds of those below holds of all. *)
(***************************************************************************)
EXTENDS Integers, Sequences, WellFoundedInduction, TLAPS

\* A nonempty set of naturals has a least element.
LEMMA LeastElement ==
    ASSUME NEW T, T \subseteq Nat, T # {}
    PROVE  \E x \in T : \A y \in T : x <= y
<1> DEFINE R == {ss \in Nat \X Nat : ss[1] < ss[2]}
<1>1. OpToRel(<, Nat) = R
      BY Zenon DEF OpToRel
<1>2. IsWellFoundedOn(R, Nat)
      BY <1>1, NatLessThanWellFounded
<1>3. \A x, y \in Nat : (<<x, y>> \in R) <=> x < y
      BY SMT
<1> HIDE DEF R
<1>4. \E x \in T : \A y \in T : ~ (<<y, x>> \in R)
      BY <1>2, WFMin
<1>5. PICK x \in T : \A y \in T : ~ (<<y, x>> \in R)
      BY <1>4
<1>6. \A y \in T : ~ (y < x)
      BY <1>3, <1>5
<1> QED BY <1>6

\* What holds of a number as soon as it holds of those below holds of all: S is
\* the set of those up to m of which it holds.
LEMMA UpTo ==
    ASSUME NEW m \in Nat, NEW S,
           \A n \in 0..m : (\A k \in 0..(n - 1) : k \in S) => n \in S
    PROVE  \A n \in 0..m : n \in S
<1> DEFINE T == {n \in 0..m : n \notin S}
<1> SUFFICES ASSUME T # {} PROVE FALSE
    OBVIOUS
<1>1. T \subseteq Nat
      OBVIOUS
<1>2. \E x \in T : \A y \in T : x <= y
  <2> HIDE DEF T
  <2> QED BY <1>1, LeastElement
<1>3. PICK x \in T : \A y \in T : x <= y
      BY <1>2
<1>4. ASSUME NEW k \in 0..(x - 1) PROVE k \in S
      BY <1>3
<1> QED BY <1>3, <1>4

\* A nonempty set of naturals with an upper bound has a greatest element.
LEMMA GreatestElement ==
    ASSUME NEW m \in Nat, NEW T, T \subseteq 0..m, T # {}
    PROVE  \E x \in T : \A y \in T : y <= x
<1> DEFINE D == {d \in 0..m : m - d \in T}
<1>1. D \subseteq Nat
      OBVIOUS
<1>2. D # {}
  <2>1. PICK t \in T : TRUE
        OBVIOUS
  <2>2. m - t \in D
        BY <2>1
  <2> QED BY <2>2
<1>3. \E d \in D : \A e \in D : d <= e
  <2> HIDE DEF D
  <2> QED BY <1>1, <1>2, LeastElement
<1>4. PICK d \in D : \A e \in D : d <= e
      BY <1>3
<1>5. \A y \in T : m - y \in D
      OBVIOUS
<1>6. ASSUME NEW y \in T PROVE y <= m - d
  <2>1. d <= m - y
        BY <1>4, <1>5
  <2>2. y \in 0..m /\ d \in 0..m
        OBVIOUS
  <2> QED BY <2>1, <2>2
<1> QED BY <1>4, <1>6

-----------------------------------------------------------------------------
\* An element of a sequence is of the sequence's set.
LEMMA ElementIn ==
    ASSUME NEW A, NEW s \in Seq(A), NEW i \in 1..Len(s)
    PROVE  s[i] \in A
OBVIOUS

\* A sequence over a set is one over every larger set.
LEMMA SeqMono ==
    ASSUME NEW A, NEW B, A \subseteq B, NEW s \in Seq(A)
    PROVE  s \in Seq(B) /\ Len(s) \in Nat
<1>1. Len(s) \in Nat /\ \A i \in 1..Len(s) : s[i] \in A
      OBVIOUS
<1>2. s = [i \in 1..Len(s) |-> s[i]]
      OBVIOUS
<1>3. [i \in 1..Len(s) |-> s[i]] \in Seq(B)
      BY <1>1
<1> QED BY <1>1, <1>2, <1>3

\* Appending leaves what was there where it was.
LEMMA GrownByAppend ==
    ASSUME NEW S, NEW gs \in Seq(S), NEW g \in S
    PROVE  \A i \in 1..Len(gs) : i \in 1..Len(Append(gs, g)) /\ Append(gs, g)[i] = gs[i]
OBVIOUS

\* Append, written as a function.
LEMMA AppendIs ==
    ASSUME NEW S, NEW s \in Seq(S), NEW e \in S
    PROVE  Append(s, e) = [i \in 1..(Len(s) + 1) |-> IF i = Len(s) + 1 THEN e ELSE s[i]]
<1> DEFINE more == Append(s, e)
<1>1. /\ more \in Seq(S) /\ Len(s) \in Nat /\ Len(more) = Len(s) + 1 /\ more[Len(s) + 1] = e
      /\ \A i \in 1..Len(s) : more[i] = s[i]
      OBVIOUS
<1> HIDE DEF more
<1>2. more = [i \in 1..Len(more) |-> more[i]]
      BY <1>1
<1>3. \A i \in 1..Len(more) : more[i] = IF i = Len(s) + 1 THEN e ELSE s[i]
      BY <1>1
<1>4. more = [i \in 1..(Len(s) + 1) |-> IF i = Len(s) + 1 THEN e ELSE s[i]]
      BY <1>1, <1>2, <1>3
<1> QED BY <1>4 DEF more
=============================================================================
