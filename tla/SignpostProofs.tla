--------------------------- MODULE SignpostProofs ---------------------------
(***************************************************************************)
(* Theorems of Signpost, for any number of terminals, moves, people,       *)
(* closes, epochs and killed `point`s.  The lower half of the inductive    *)
(* invariant is Drawer's; the upper half says what a stored move and a     *)
(* `point` half way through must look like for the journals to fold.       *)
(*                                                                         *)
(* Trails and Behind are recursive functions: what they return is proved   *)
(* by going up to their argument one number at a time (UpTo).              *)
(***************************************************************************)
EXTENDS Signpost, DrawerProofs, FiniteSetTheorems

-----------------------------------------------------------------------------
\* The journal that ends in each move.

\* The equation of Trails, over the moves st.
TrailEq(st, f) == [n \in 0..Len(st) |-> IF n = 0 THEN <<>> ELSE Append(f[st[n].prev], n)]
TrailsIn(st) == CHOOSE f : f = TrailEq(st, f)

\* Every move was made on an earlier one, or on none.
Linked(st) ==
    /\ Len(st) \in Nat
    /\ \A n \in 1..Len(st) : st[n].prev \in 0..(n - 1)

\* The equation up to k.
TrailUpTo(st, k, f) == f = [n \in 0..k |-> IF n = 0 THEN <<>> ELSE Append(f[st[n].prev], n)]

\* The function that maps a move to its trail exists.
LEMMA TrailExists ==
    ASSUME NEW st, Linked(st)
    PROVE  \E f : f = TrailEq(st, f)
<1> DEFINE S == {k \in 0..Len(st) : \E f : TrailUpTo(st, k, f)}
<1>1. Len(st) \in Nat
      BY DEF Linked
<1>2. ASSUME NEW k \in 0..Len(st), \A j \in 0..(k - 1) : j \in S
      PROVE  k \in S
  <2>1. CASE k = 0
    <3> DEFINE one == [n \in 0..0 |-> <<>>]
    <3>1. TrailUpTo(st, 0, one)
          BY DEF TrailUpTo
    <3> QED BY <2>1, <3>1
  <2>2. CASE k # 0
    <3>1. k - 1 \in 0..(k - 1)
          BY <2>2
    <3>2. PICK f : TrailUpTo(st, k - 1, f)
          BY <1>2, <3>1
    <3> DEFINE g == [n \in 0..k |-> IF n = k THEN Append(f[st[k].prev], k) ELSE f[n]]
    <3>3. ASSUME NEW n \in 0..k
          PROVE  g[n] = IF n = 0 THEN <<>> ELSE Append(g[st[n].prev], n)
      <4>1. n # 0 => st[n].prev \in 0..(n - 1)
            BY DEF Linked
      <4>2. CASE n = k
        <5>1. st[k].prev \in 0..(k - 1) /\ st[k].prev # k
              BY <2>2, <4>1, <4>2
        <5>2. g[st[k].prev] = f[st[k].prev]
              BY <5>1
        <5> QED BY <2>2, <4>2, <5>2
      <4>3. CASE n # k
        <5>1. n \in 0..(k - 1)
              BY <4>3
        <5>2. f[n] = IF n = 0 THEN <<>> ELSE Append(f[st[n].prev], n)
              BY <3>2, <5>1 DEF TrailUpTo
        <5>3. n # 0 => st[n].prev \in 0..k /\ st[n].prev # k
              BY <4>1, <5>1
        <5> QED BY <4>3, <5>2, <5>3
      <4> QED BY <4>2, <4>3
    <3>4. TrailUpTo(st, k, g)
      <4> DEFINE h == [n \in 0..k |-> IF n = 0 THEN <<>> ELSE Append(g[st[n].prev], n)]
      <4>1. g = h
            BY <3>3
      <4> QED BY <4>1 DEF TrailUpTo
    <3> HIDE DEF g
    <3> QED BY <3>4
  <2> QED BY <2>1, <2>2
<1>3. \A k \in 0..Len(st) : k \in S
  <2> HIDE DEF S
  <2> QED BY <1>1, <1>2, UpTo
<1>4. PICK f : TrailUpTo(st, Len(st), f)
      BY <1>1, <1>3
<1> QED BY <1>4 DEF TrailUpTo, TrailEq

\* It satisfies its recursive definition.
LEMMA TrailsSolve ==
    ASSUME NEW st, Linked(st)
    PROVE  /\ TrailsIn(st)[0] = <<>>
           /\ \A n \in 1..Len(st) : TrailsIn(st)[n] = Append(TrailsIn(st)[st[n].prev], n)
<1>1. TrailsIn(st) = TrailEq(st, TrailsIn(st))
      BY TrailExists DEF TrailsIn
<1> DEFINE f == TrailsIn(st)
<1>2. f = TrailEq(st, f)
      BY <1>1
<1> HIDE DEF f
<1>3. Len(st) \in Nat
      BY DEF Linked
<1> DEFINE rhs(n) == IF n = 0 THEN <<>> ELSE Append(f[st[n].prev], n)
<1>4. f = [n \in 0..Len(st) |-> rhs(n)]
      BY <1>2 DEF TrailEq
<1> HIDE DEF rhs
<1>5. \A n \in 0..Len(st) : f[n] = rhs(n)
      BY <1>4
<1>6. f[0] = <<>>
  <2>1. f[0] = rhs(0)
        BY <1>3, <1>5
  <2> QED BY <2>1 DEF rhs
<1>7. ASSUME NEW n \in 1..Len(st) PROVE f[n] = Append(f[st[n].prev], n)
  <2>1. f[n] = rhs(n) /\ n # 0
        BY <1>3, <1>5
  <2> QED BY <2>1 DEF rhs
<1> QED BY <1>6, <1>7 DEF f

\* A trail leads from a first move, link by link, to the move it is of.
LeadsTo(st, t, n) ==
    /\ t \in Seq(1..n) /\ Len(t) >= 1 /\ t[Len(t)] = n
    /\ st[t[1]].prev = 0
    /\ \A i \in 2..Len(t) : st[t[i]].prev = t[i - 1]

\* Each trail leads from nothing to its move, link by link.
LEMMA TrailLeads ==
    ASSUME NEW st, Linked(st)
    PROVE  \A n \in 1..Len(st) : LeadsTo(st, TrailsIn(st)[n], n)
<1> DEFINE f == TrailsIn(st)
           S == {n \in 0..Len(st) : n = 0 \/ LeadsTo(st, f[n], n)}
<1>1. /\ Len(st) \in Nat /\ f[0] = <<>>
      /\ \A n \in 1..Len(st) : st[n].prev \in 0..(n - 1) /\ f[n] = Append(f[st[n].prev], n)
      BY TrailsSolve DEF Linked
<1> HIDE DEF f
<1>2. ASSUME NEW n \in 0..Len(st), \A k \in 0..(n - 1) : k \in S
      PROVE  n \in S
  <2>1. CASE n = 0
        BY <2>1
  <2>2. CASE n # 0
    <3>1. n \in 1..Len(st) /\ st[n].prev \in 0..(n - 1) /\ f[n] = Append(f[st[n].prev], n)
          BY <1>1, <2>2
    <3>2. CASE st[n].prev = 0
      <4>1. f[n] = Append(<<>>, n)
            BY <1>1, <3>1, <3>2
      <4>2. Append(<<>>, n) = <<n>> /\ <<n>> \in Seq(1..n) /\ Len(<<n>>) = 1 /\ <<n>>[1] = n
            BY <3>1
      <4>3. LeadsTo(st, <<n>>, n)
            BY <3>2, <4>2 DEF LeadsTo
      <4> QED BY <4>1, <4>2, <4>3
    <3>3. CASE st[n].prev # 0
      <4> DEFINE p == st[n].prev
                 t == f[p]
      <4>1. p \in 1..(n - 1) /\ LeadsTo(st, t, p)
            BY <1>2, <3>1, <3>3
      <4>2. f[n] = Append(t, n)
            BY <3>1
      <4> HIDE DEF t, p
      <4>3. t \in Seq(1..n) /\ Len(t) \in Nat /\ Len(t) >= 1
        <5>1. t \in Seq(1..p) /\ Len(t) >= 1
              BY <4>1 DEF LeadsTo
        <5>2. 1..p \subseteq 1..n
              BY <4>1
        <5> QED BY <5>1, <5>2, SeqMono
      <4>4. /\ Append(t, n) \in Seq(1..n) /\ Len(Append(t, n)) = Len(t) + 1
            /\ Append(t, n)[Len(t) + 1] = n /\ \A i \in 1..Len(t) : Append(t, n)[i] = t[i]
            BY <4>3, <3>1
      <4>5. \A i \in 2..(Len(t) + 1) : st[Append(t, n)[i]].prev = Append(t, n)[i - 1]
        <5> SUFFICES ASSUME NEW i \in 2..(Len(t) + 1)
                     PROVE  st[Append(t, n)[i]].prev = Append(t, n)[i - 1]
            OBVIOUS
        <5>1. CASE i = Len(t) + 1
          <6>1. i - 1 = Len(t) /\ i - 1 \in 1..Len(t)
                BY <5>1, <4>3
          <6>2. Append(t, n)[i - 1] = t[Len(t)] /\ Append(t, n)[i] = n
                BY <6>1, <5>1, <4>4
          <6>3. t[Len(t)] = p /\ st[n].prev = p
                BY <4>1 DEF LeadsTo, p
          <6> QED BY <6>2, <6>3
        <5>2. CASE i # Len(t) + 1
          <6>1. i \in 2..Len(t) /\ i - 1 \in 1..Len(t) /\ i \in 1..Len(t)
                BY <5>2, <4>3
          <6>2. st[t[i]].prev = t[i - 1]
                BY <6>1, <4>1 DEF LeadsTo
          <6> QED BY <6>1, <6>2, <4>4
        <5> QED BY <5>1, <5>2
      <4>6. st[Append(t, n)[1]].prev = 0
            BY <4>1, <4>3, <4>4 DEF LeadsTo
      <4>7. LeadsTo(st, Append(t, n), n)
            BY <4>3, <4>4, <4>5, <4>6 DEF LeadsTo
      <4> QED BY <4>2, <4>7
    <3> QED BY <3>2, <3>3
  <2> QED BY <2>1, <2>2
<1>3. \A n \in 0..Len(st) : n \in S
  <2> HIDE DEF S
  <2> QED BY <1>1, <1>2, UpTo
<1>4. \A n \in 1..Len(st) : LeadsTo(st, f[n], n)
      BY <1>1, <1>3
<1> QED BY <1>4 DEF f

\* Moves added later leave the trails there were alone.
LEMMA TrailsKept ==
    ASSUME NEW st, NEW more, Linked(st), Linked(more), Len(st) <= Len(more),
           \A n \in 1..Len(st) : more[n] = st[n]
    PROVE  \A n \in 0..Len(st) : TrailsIn(more)[n] = TrailsIn(st)[n]
<1> DEFINE f == TrailsIn(st)
           g == TrailsIn(more)
           S == {n \in 0..Len(st) : g[n] = f[n]}
<1>1. /\ Len(st) \in Nat /\ Len(more) \in Nat /\ f[0] = <<>> /\ g[0] = <<>>
      /\ \A n \in 1..Len(st) : st[n].prev \in 0..(n - 1) /\ f[n] = Append(f[st[n].prev], n)
      /\ \A n \in 1..Len(more) : g[n] = Append(g[more[n].prev], n)
      BY TrailsSolve DEF Linked
<1> HIDE DEF f, g
<1>2. ASSUME NEW n \in 0..Len(st), \A k \in 0..(n - 1) : k \in S
      PROVE  n \in S
  <2>1. CASE n = 0
        BY <1>1, <2>1
  <2>2. CASE n # 0
    <3>1. n \in 1..Len(st) /\ n \in 1..Len(more)
          BY <1>1, <2>2
    <3>2. g[st[n].prev] = f[st[n].prev]
          BY <1>1, <1>2, <3>1
    <3> QED BY <1>1, <3>1, <3>2
  <2> QED BY <2>1, <2>2
<1>3. \A n \in 0..Len(st) : n \in S
  <2> HIDE DEF S
  <2> QED BY <1>1, <1>2, UpTo
<1> QED BY <1>3 DEF f, g

\* Trails of the model is that function of the store.
LEMMA TrailsAre == Trails = TrailsIn(store)
BY DEF Trails, TrailsIn, TrailEq

-----------------------------------------------------------------------------
\* What lies behind a commit.

Size == Cardinality(Commits)

\* A set with the parents of all in it.
Wider(M) == M \cup UNION {Parents[d] : d \in M}

\* The equation of Behind up to k, and what solves it.
MetUpTo(c, k, f) == f = [n \in 0..k |-> IF n = 0 THEN {c} ELSE Wider(f[n - 1])]
Met(c) == CHOOSE f : MetUpTo(c, Size, f)

\* There are finitely many commits.
LEMMA SizeType == Size \in Nat /\ IsFiniteSet(Commits)
BY SignpostAssumption, FS_CardinalityType DEF Size

\* The function that widens a set of ancestors exists.
LEMMA MetExists ==
    ASSUME NEW c
    PROVE  \E f : MetUpTo(c, Size, f)
<1> DEFINE S == {k \in 0..Size : \E f : MetUpTo(c, k, f)}
<1>1. ASSUME NEW k \in 0..Size, \A j \in 0..(k - 1) : j \in S
      PROVE  k \in S
  <2>1. CASE k = 0
    <3> DEFINE one == [n \in 0..0 |-> {c}]
    <3>1. MetUpTo(c, 0, one)
          BY DEF MetUpTo
    <3> QED BY <2>1, <3>1
  <2>2. CASE k # 0
    <3>1. k - 1 \in 0..(k - 1)
          BY <2>2
    <3>2. PICK f : MetUpTo(c, k - 1, f)
          BY <1>1, <3>1
    <3> DEFINE g == [n \in 0..k |-> IF n = k THEN Wider(f[k - 1]) ELSE f[n]]
    <3>3. ASSUME NEW n \in 0..k
          PROVE  g[n] = IF n = 0 THEN {c} ELSE Wider(g[n - 1])
      <4>1. CASE n = k
        <5>1. n # 0 /\ n - 1 \in 0..k /\ n - 1 # k
              BY <2>2, <4>1
        <5> QED BY <4>1, <5>1
      <4>2. CASE n # k
        <5>1. n \in 0..(k - 1)
              BY <4>2
        <5>2. f[n] = IF n = 0 THEN {c} ELSE Wider(f[n - 1])
              BY <3>2, <5>1 DEF MetUpTo
        <5>3. n # 0 => n - 1 \in 0..k /\ n - 1 # k
              BY <5>1
        <5> QED BY <4>2, <5>2, <5>3
      <4> QED BY <4>1, <4>2
    <3>4. MetUpTo(c, k, g)
      <4> DEFINE h == [n \in 0..k |-> IF n = 0 THEN {c} ELSE Wider(g[n - 1])]
      <4>1. g = h
            BY <3>3
      <4> QED BY <4>1 DEF MetUpTo
    <3> HIDE DEF g
    <3> QED BY <3>4
  <2> QED BY <2>1, <2>2
<1>2. \A k \in 0..Size : k \in S
  <2> HIDE DEF S
  <2> QED BY <1>1, SizeType, UpTo
<1> QED BY <1>2, SizeType

\* Behind is what it has reached when nothing more can be met.
LEMMA MetSolves ==
    ASSUME NEW c
    PROVE  /\ Behind(c, Parents) = Met(c)[Size]
           /\ Met(c)[0] = {c}
           /\ \A n \in 1..Size : Met(c)[n] = Wider(Met(c)[n - 1])
<1>1. MetUpTo(c, Size, Met(c))
      BY MetExists DEF Met
<1>2. Behind(c, Parents) = Met(c)[Size]
      BY DEF Behind, Met, MetUpTo, Size, Wider
<1> DEFINE f == Met(c)
           rhs(n) == IF n = 0 THEN {c} ELSE Wider(f[n - 1])
<1> HIDE DEF f
<1>3. f = [n \in 0..Size |-> rhs(n)]
      BY <1>1 DEF MetUpTo, f
<1> HIDE DEF rhs
<1>4. \A n \in 0..Size : f[n] = rhs(n)
      BY <1>3
<1>5. f[0] = {c}
  <2>1. f[0] = rhs(0)
        BY <1>4, SizeType
  <2> QED BY <2>1 DEF rhs
<1>6. ASSUME NEW n \in 1..Size PROVE f[n] = Wider(f[n - 1])
  <2>1. f[n] = rhs(n) /\ n # 0
        BY <1>4, SizeType
  <2> QED BY <2>1 DEF rhs
<1> QED BY <1>2, <1>5, <1>6 DEF f

\* What is met in n steps is met in more, and is a set of commits.
LEMMA MetGrows ==
    ASSUME NEW c \in Commits
    PROVE  \A n \in 0..Size : /\ Met(c)[n] \subseteq Commits
                              /\ \A k \in 0..n : Met(c)[k] \subseteq Met(c)[n]
<1> DEFINE f == Met(c)
           S == {n \in 0..Size : f[n] \subseteq Commits /\ \A k \in 0..n : f[k] \subseteq f[n]}
<1>1. /\ Size \in Nat /\ f[0] = {c} /\ \A n \in 1..Size : f[n] = Wider(f[n - 1])
      /\ Parents \in [Commits -> SUBSET Commits]
      BY MetSolves, SizeType, SignpostAssumption
<1> HIDE DEF f
<1>2. ASSUME NEW n \in 0..Size, \A k \in 0..(n - 1) : k \in S
      PROVE  n \in S
  <2>1. CASE n = 0
        BY <1>1, <2>1
  <2>2. CASE n # 0
    <3>1. n - 1 \in 0..(n - 1) /\ n \in 1..Size
          BY <2>2
    <3>2. f[n - 1] \subseteq Commits /\ \A k \in 0..(n - 1) : f[k] \subseteq f[n - 1]
          BY <1>2, <3>1
    <3>3. f[n] = f[n - 1] \cup UNION {Parents[d] : d \in f[n - 1]}
          BY <1>1, <3>1 DEF Wider
    <3>4. f[n] \subseteq Commits
          BY <1>1, <3>2, <3>3
    <3>5. ASSUME NEW k \in 0..n PROVE f[k] \subseteq f[n]
      <4>1. k = n \/ k \in 0..(n - 1)
            OBVIOUS
      <4> QED BY <4>1, <3>2, <3>3
    <3> QED BY <3>4, <3>5
  <2> QED BY <2>1, <2>2
<1>3. \A n \in 0..Size : n \in S
  <2> HIDE DEF S
  <2> QED BY <1>1, <1>2, UpTo
<1> QED BY <1>3 DEF f

\* As many steps as there are commits are enough: what is met by then has its
\* parents in it.
LEMMA MetClosed ==
    ASSUME NEW c \in Commits
    PROVE  Wider(Met(c)[Size]) = Met(c)[Size]
<1> DEFINE f == Met(c)
<1>1. /\ Size \in Nat /\ f[0] = {c} /\ \A n \in 1..Size : f[n] = Wider(f[n - 1])
      /\ \A n \in 0..Size : f[n] \subseteq Commits /\ \A k \in 0..n : f[k] \subseteq f[n]
      /\ IsFiniteSet(Commits)
      BY MetSolves, MetGrows, SizeType
<1> SUFFICES ASSUME Wider(f[Size]) # f[Size] PROVE FALSE
    OBVIOUS
<1> HIDE DEF f
<1>2. ASSUME NEW n \in 0..Size, Wider(f[n]) = f[n]
      PROVE  \A k \in 0..Size : k >= n => f[k] = f[n]
  <2> DEFINE S == {k \in 0..Size : k >= n => f[k] = f[n]}
  <2>1. ASSUME NEW k \in 0..Size, \A j \in 0..(k - 1) : j \in S
        PROVE  k \in S
    <3>1. CASE k <= n
          BY <3>1
    <3>2. CASE k > n
      <4>1. k - 1 \in 0..(k - 1) /\ k - 1 >= n /\ k \in 1..Size /\ k - 1 \in 0..Size
            BY <1>1, <3>2
      <4>2. f[k - 1] = f[n]
            BY <2>1, <4>1
      <4> QED BY <1>1, <1>2, <4>1, <4>2
    <3> QED BY <3>1, <3>2
  <2>2. \A k \in 0..Size : k \in S
    <3> HIDE DEF S
    <3> QED BY <1>1, <2>1, UpTo
  <2> QED BY <2>2
<1>3. \A n \in 0..Size : Wider(f[n]) # f[n]
  <2> SUFFICES ASSUME NEW n \in 0..Size, Wider(f[n]) = f[n] PROVE FALSE
      OBVIOUS
  <2>1. Size \in 0..Size /\ Size >= n
        BY <1>1
  <2>2. f[Size] = f[n]
        BY <1>2, <2>1
  <2> QED BY <2>2
<1> DEFINE S == {n \in 0..Size : Cardinality(f[n]) >= n + 1}
<1>4. \A n \in 0..Size : IsFiniteSet(f[n]) /\ Cardinality(f[n]) \in Nat /\ Cardinality(f[n]) <= Size
      BY <1>1, FS_Subset, FS_CardinalityType DEF Size
<1>5. ASSUME NEW n \in 0..Size, \A k \in 0..(n - 1) : k \in S
      PROVE  n \in S
  <2>1. CASE n = 0
        BY <1>1, <2>1, FS_Singleton
  <2>2. CASE n # 0
    <3>1. n - 1 \in 0..(n - 1) /\ n \in 1..Size /\ n - 1 \in 0..Size /\ n - 1 \in 0..n
          BY <1>1, <2>2
    <3>2. Cardinality(f[n - 1]) >= (n - 1) + 1
          BY <1>5, <3>1
    <3>3. f[n - 1] \in SUBSET f[n] /\ f[n - 1] # f[n]
          BY <1>1, <1>3, <3>1
    <3>4. /\ Cardinality(f[n - 1]) <= Cardinality(f[n])
          /\ Cardinality(f[n]) = Cardinality(f[n - 1]) => f[n] = f[n - 1]
          BY <1>4, <3>1, <3>3, FS_Subset
    <3> QED BY <1>4, <3>1, <3>2, <3>3, <3>4
  <2> QED BY <2>1, <2>2
<1>6. \A n \in 0..Size : n \in S
  <2> HIDE DEF S
  <2> QED BY <1>1, <1>5, UpTo
<1>7. Size \in 0..Size /\ Cardinality(f[Size]) >= Size + 1
      BY <1>1, <1>6
<1> QED BY <1>1, <1>4, <1>7

\* A commit is behind itself, and only commits are.
LEMMA BehindSelf ==
    ASSUME NEW c \in Commits
    PROVE  c \in Behind(c, Parents) /\ Behind(c, Parents) \subseteq Commits
<1>1. Size \in 0..Size /\ 0 \in 0..Size
      BY SizeType
<1> QED BY <1>1, MetSolves, MetGrows

\* What lies behind something behind a commit lies behind it.
LEMMA BehindTransitive ==
    ASSUME NEW c \in Commits, NEW b \in Behind(c, Parents), NEW a \in Behind(b, Parents)
    PROVE  a \in Behind(c, Parents)
<1> DEFINE all == Behind(c, Parents)
           f == Met(b)
           S == {n \in 0..Size : f[n] \subseteq all}
<1>1. b \in Commits /\ Size \in Nat
      BY BehindSelf, SizeType
<1>2. f[0] = {b} /\ Behind(b, Parents) = f[Size] /\ \A n \in 1..Size : f[n] = Wider(f[n - 1])
      BY <1>1, MetSolves
<1>3. b \in all /\ \A d \in all : Parents[d] \subseteq all
      BY MetSolves, MetClosed DEF Wider
<1> HIDE DEF f, all
<1>4. ASSUME NEW n \in 0..Size, \A k \in 0..(n - 1) : k \in S
      PROVE  n \in S
  <2>1. CASE n = 0
        BY <1>2, <1>3, <2>1
  <2>2. CASE n # 0
    <3>1. n - 1 \in 0..(n - 1) /\ n \in 1..Size
          BY <2>2
    <3>2. f[n - 1] \subseteq all /\ f[n] = f[n - 1] \cup UNION {Parents[d] : d \in f[n - 1]}
          BY <1>2, <1>4, <3>1 DEF Wider
    <3> QED BY <1>3, <3>2
  <2> QED BY <2>1, <2>2
<1>5. \A n \in 0..Size : n \in S
  <2> HIDE DEF S
  <2> QED BY <1>1, <1>4, UpTo
<1>6. a \in f[Size] /\ Size \in 0..Size
      BY <1>1, <1>2
<1> QED BY <1>5, <1>6 DEF all

-----------------------------------------------------------------------------
\* The inductive invariant.

Values == UNION {[S -> Commits] : S \in SUBSET Slots}

Move == [prev : Nat, seq : Nat, value : Values, by : People, when : Nat,
         grant : Grant, epoch : Nat, key : Key]

\* What a `point` may be at, with n moves in the store.
Looked == [doing : {"looked"}, who : People, pins : Values, when : Nat,
           grant : Grant, epoch : Nat, key : Key]
Moving(n) == [doing : {"made", "writing"}, move : 1..n, base : 0..n]

\* The key is the one the lock had at that epoch.
SealedTrue(epoch, key) ==
    /\ epoch \in 0..closes[decl.close].epoch
    /\ key = EpochKey(decl.close, Content, epoch)

\* A move keeps the slots there were, and takes the guarded ones forward.
Forward(n) ==
    LET old == store[store[n].prev].value
    IN  store[n].prev # 0 =>
           /\ DOMAIN old \subseteq DOMAIN store[n].value
           /\ \A s \in decl.guarded \cap DOMAIN old : old[s] \in Behind(store[n].value[s], Parents)

\* A stored move goes with the one it was made on, verifies on the record as
\* it stands, and is sealed under the key of its label.
MoveTrue(n) ==
    /\ store[n].prev \in 0..(n - 1)
    /\ CheckLink(store[n], store[n].prev)
    /\ VerifyMove(store[n], closes[decl.close])
    /\ SealedTrue(store[n].epoch, store[n].key)
    /\ Forward(n)

\* A signpost that was never raised has no moves.
Raised ==
    /\ Commons \in Founded
    /\ decl \in Decl \cup {NoDecl}
    /\ decl # NoDecl => decl.close \in Founded
    /\ decl = NoDecl => store = <<>> /\ \A t \in Terminals : point[t] = Idle

PointTrue ==
    /\ point \in [Terminals -> {Idle} \cup Looked \cup Moving(Len(store))]
    /\ \A t \in Terminals :
          point[t].doing = "looked" => SealedTrue(point[t].epoch, point[t].key)

StoreTrue ==
    /\ store \in Seq(Move)
    /\ head \in 0..Len(store)
    /\ announced \subseteq 1..Len(store)
    /\ \A n \in 1..Len(store) : MoveTrue(n)

SInv == IInv /\ Raised /\ PointTrue /\ StoreTrue

-----------------------------------------------------------------------------
\* Values.

\* A value is a function from some of the slots to commits.
LEMMA ValueFacts ==
    ASSUME NEW v
    PROVE  v \in Values <=> /\ v = [s \in DOMAIN v |-> v[s]]
                            /\ DOMAIN v \subseteq Slots
                            /\ \A s \in DOMAIN v : v[s] \in Commits
<1>1. ASSUME v \in Values
      PROVE  v = [s \in DOMAIN v |-> v[s]] /\ DOMAIN v \subseteq Slots
             /\ \A s \in DOMAIN v : v[s] \in Commits
  <2>1. PICK S \in SUBSET Slots : v \in [S -> Commits]
        BY <1>1 DEF Values
  <2> QED BY <2>1
<1>2. ASSUME v = [s \in DOMAIN v |-> v[s]], DOMAIN v \subseteq Slots,
             \A s \in DOMAIN v : v[s] \in Commits
      PROVE  v \in Values
  <2>1. v \in [DOMAIN v -> Commits] /\ DOMAIN v \in SUBSET Slots
        BY <1>2
  <2> QED BY <2>1 DEF Values
<1> QED BY <1>1, <1>2

\* What a point is asked to pin is a value.
LEMMA PinsAreValues == Pins \subseteq Values
BY SignpostAssumption DEF Values

\* The value after a move: where it stands, and what it keeps.
LEMMA ValueAfterFacts ==
    ASSUME StoreTrue, NEW base \in 0..Len(store), NEW pins \in Values
    PROVE  /\ ValueAfter(base, pins) \in Values
           /\ base # 0 => /\ store[base].value \in Values
                          /\ DOMAIN store[base].value \subseteq DOMAIN ValueAfter(base, pins)
<1> DEFINE old == IF base = 0 THEN <<>> ELSE store[base].value
           new == [s \in DOMAIN old \cup DOMAIN pins |-> IF s \in DOMAIN pins THEN pins[s] ELSE old[s]]
<1>1. base # 0 => store[base].value \in Values
  <2>1. base # 0 => base \in 1..Len(store)
        OBVIOUS
  <2>2. base # 0 => store[base] \in Move
        BY <2>1 DEF StoreTrue
  <2> QED BY <2>2 DEF Move
<1>2. DOMAIN old \subseteq Slots /\ \A s \in DOMAIN old : old[s] \in Commits
  <2>1. CASE base = 0
        BY <2>1
  <2>2. CASE base # 0
        BY <2>2, <1>1, ValueFacts
  <2> QED BY <2>1, <2>2
<1>3. DOMAIN pins \subseteq Slots /\ \A s \in DOMAIN pins : pins[s] \in Commits
      BY ValueFacts
<1>4. base # 0 => old = store[base].value
      OBVIOUS
<1>5. ValueAfter(base, pins) = new
      BY DEF ValueAfter
<1> HIDE DEF old
<1>6. /\ DOMAIN new = DOMAIN old \cup DOMAIN pins /\ new = [s \in DOMAIN new |-> new[s]]
      /\ DOMAIN new \subseteq Slots /\ \A s \in DOMAIN new : new[s] \in Commits
      BY <1>2, <1>3
<1> HIDE DEF new
<1>7. new \in Values
      BY <1>6, ValueFacts
<1> QED BY <1>1, <1>4, <1>5, <1>6, <1>7

-----------------------------------------------------------------------------
\* The initial states.

\* The invariant holds before anything is raised.
LEMMA InitSInv == SignpostInit => SInv
<1> SUFFICES ASSUME SignpostInit PROVE SInv
    OBVIOUS
<1>1. IInv /\ Commons \in Founded
      BY InitIInv DEF SignpostInit, Init, Founded
<1>2. /\ store = <<>> /\ head = 0 /\ announced = {} /\ decl = NoDecl
      /\ point = [t \in Terminals |-> Idle]
      BY DEF SignpostInit
<1>3. Len(store) = 0 /\ store \in Seq(Move)
      BY <1>2
<1>4. StoreTrue
      BY <1>2, <1>3 DEF StoreTrue
<1>5. PointTrue
      BY <1>2 DEF PointTrue, Idle
<1>6. Raised
      BY <1>1, <1>2 DEF Raised
<1> QED BY <1>1, <1>4, <1>5, <1>6 DEF SInv

-----------------------------------------------------------------------------
\* The commands of Drawer next to the signpost.

\* Every step of Signpost is a step of Drawer or leaves it alone.
LEMMA DrawerStep == [SignpostNext]_allVars => [Next]_vars
BY DEF SignpostNext, allVars, CellNew, Look, Make, GiveUp, Truncate, Write, Crash, drawer, vars

\* A key that was the true one for its epoch is, whatever was rotated since.
LEMMA SealedStays ==
    ASSUME IInv, [Next]_vars, decl.close \in Founded, decl' = decl, NEW e, NEW k, SealedTrue(e, k)
    PROVE  SealedTrue(e, k)'
<1> DEFINE c == decl.close
<1>1. /\ closes[c].epoch \in Nat /\ closes'[c].epoch \in Nat /\ closes[c].epoch <= closes'[c].epoch
      /\ \A facet, n : n \in 0..closes[c].epoch => EpochKey(c, facet, n)' = EpochKey(c, facet, n)
      BY EpochKeysStay
<1>2. e \in 0..closes[c].epoch /\ k = EpochKey(c, Content, e)
      BY DEF SealedTrue
<1>3. e \in 0..closes'[c].epoch /\ k = EpochKey(c, Content, e)'
      BY <1>1, <1>2
<1> QED BY <1>3 DEF SealedTrue, EpochKey

\* A move that verified verifies: all it asks of the record is the steward.
LEMMA VerifiedStays ==
    ASSUME IInv, [Next]_vars, decl.close \in Founded, decl' = decl,
           NEW m, VerifyMove(m, closes[decl.close])
    PROVE  VerifyMove(m, closes[decl.close])'
<1>1. closes'[decl.close].steward = closes[decl.close].steward
      BY StewardsStay
<1> QED BY <1>1 DEF VerifyMove, Verify

\* Moves that are there stay true when others are added behind them.
LEMMA MoveStays ==
    ASSUME IInv, [Next]_vars, decl.close \in Founded, decl' = decl,
           NEW n \in 1..Len(store), MoveTrue(n), store \in Seq(Move), store' \in Seq(Move),
           Len(store) <= Len(store'), \A i \in 1..Len(store) : store'[i] = store[i]
    PROVE  MoveTrue(n)'
<1>1. store[n].prev \in 0..(n - 1) /\ store'[n] = store[n]
      BY DEF MoveTrue
<1>2. store[n].prev # 0 => store'[store[n].prev] = store[store[n].prev]
      BY <1>1
<1>3. VerifyMove(store[n], closes[decl.close])'
  <2>1. PICK m : m = store[n]
        OBVIOUS
  <2>2. VerifyMove(m, closes[decl.close])
        BY <2>1 DEF MoveTrue
  <2>3. VerifyMove(m, closes[decl.close])'
        BY <2>2, VerifiedStays
  <2> QED BY <1>1, <2>1, <2>3
<1>4. SealedTrue(store[n].epoch, store[n].key)'
  <2>1. PICK e, k : e = store[n].epoch /\ k = store[n].key
        OBVIOUS
  <2>2. SealedTrue(e, k)
        BY <2>1 DEF MoveTrue
  <2>3. SealedTrue(e, k)'
        BY <2>2, SealedStays
  <2> QED BY <1>1, <2>1, <2>3
<1>5. CheckLink(store[n], store[n].prev)'
      BY <1>1, <1>2 DEF MoveTrue, CheckLink
<1>6. Forward(n)'
      BY <1>1, <1>2 DEF MoveTrue, Forward
<1> QED BY <1>1, <1>3, <1>4, <1>5, <1>6 DEF MoveTrue

\* What a `point` has read stays true while it stands still.
LEMMA PointStays ==
    ASSUME SInv, [Next]_vars, decl' = decl, NEW t \in Terminals, point'[t] = point[t],
           point[t].doing = "looked", decl # NoDecl
    PROVE  SealedTrue(point[t].epoch, point[t].key)'
<1>1. PICK e, k : e = point[t].epoch /\ k = point[t].key
      OBVIOUS
<1>2. IInv /\ SealedTrue(e, k) /\ decl.close \in Founded
      BY <1>1 DEF SInv, PointTrue, Raised
<1>3. SealedTrue(e, k)'
      BY <1>2, SealedStays
<1> QED BY <1>1, <1>3

\* A step that adds no move.
LEMMA NoMoveKeeps ==
    ASSUME SInv, [Next]_vars, decl' = decl, store' = store, decl # NoDecl,
           head' \in 0..Len(store), announced' \subseteq 1..Len(store)
    PROVE  StoreTrue'
<1>1. IInv /\ decl.close \in Founded /\ store \in Seq(Move) /\ \A n \in 1..Len(store) : MoveTrue(n)
      BY DEF SInv, Raised, StoreTrue
<1>2. Len(store) \in Nat
      BY <1>1
<1>3. \A n \in 1..Len(store) : MoveTrue(n)'
      BY <1>1, <1>2, MoveStays
<1> QED BY <1>1, <1>3 DEF StoreTrue

\* A step after which nothing stands that did not stand before.
LEMMA RaisedStays ==
    ASSUME SInv, [Next]_vars, decl' = decl, decl # NoDecl
    PROVE  Raised'
<1>1. IInv /\ Commons \in Founded /\ decl.close \in Founded /\ decl \in Decl \cup {NoDecl}
      BY DEF SInv, Raised
<1>2. Commons \in Founded' /\ decl.close \in Founded'
      BY <1>1, NextGrows DEF Grows
<1> QED BY <1>1, <1>2 DEF Raised

\* A command of Drawer, or nothing at all.
LEMMA DrawerKeeps ==
    ASSUME SInv, [Next]_vars, UNCHANGED signpost
    PROVE  SInv'
<1>1. /\ decl' = decl /\ store' = store /\ head' = head /\ point' = point
      /\ announced' = announced
      BY DEF signpost
<1>2. IInv' /\ Grows
      BY NextIInv, NextGrows DEF SInv
<1>3. CASE decl = NoDecl
  <2>1. store = <<>> /\ \A t \in Terminals : point[t] = Idle
        BY <1>3 DEF SInv, Raised
  <2>2. Raised'
    <3>1. Commons \in Founded'
          BY <1>2 DEF SInv, Raised, Grows
    <3> QED BY <1>1, <1>3, <2>1, <3>1 DEF Raised
  <2>3. PointTrue'
    <3>1. \A t \in Terminals : point[t].doing # "looked"
          BY <2>1 DEF Idle
    <3> QED BY <1>1, <3>1 DEF SInv, PointTrue
  <2>4. StoreTrue'
    <3>1. Len(store) = 0
          BY <2>1
    <3> QED BY <1>1, <3>1 DEF SInv, StoreTrue
  <2> QED BY <1>2, <2>2, <2>3, <2>4 DEF SInv
<1>4. CASE decl # NoDecl
  <2>1. Raised'
        BY <1>1, <1>4, RaisedStays
  <2>2. PointTrue'
    <3>1. \A t \in Terminals : (point[t].doing = "looked" => SealedTrue(point[t].epoch, point[t].key))'
          BY <1>1, <1>4, PointStays
    <3> QED BY <1>1, <3>1 DEF SInv, PointTrue
  <2>3. StoreTrue'
        BY <1>1, <1>4, NoMoveKeeps DEF SInv, StoreTrue
  <2> QED BY <1>2, <2>1, <2>2, <2>3 DEF SInv
<1> QED BY <1>3, <1>4

\* Raising a signpost keeps the invariant.
LEMMA CellNewKeeps ==
    ASSUME SInv, [Next]_vars, NEW guarded \in GuardSets, CellNew(guarded)
    PROVE  SInv'
<1>1. /\ decl = NoDecl /\ decl' = [close |-> Governing, guarded |-> guarded]
      /\ UNCHANGED <<ids, closes, grants, now, minted, store, head, point, announced>>
      BY DEF CellNew, drawer, vars
<1>2. store = <<>> /\ (\A t \in Terminals : point[t] = Idle) /\ Commons \in Founded
      BY <1>1 DEF SInv, Raised
<1>3. Governing \in Founded /\ Founded \subseteq Closes
      BY <1>2 DEF Governing, SInv, IInv, TypeOK
<1>4. decl' \in Decl /\ decl'.close \in Founded'
      BY <1>1, <1>3, SignpostAssumption DEF Decl, Founded
<1>5. Raised'
      BY <1>1, <1>2, <1>4, NoDeclIsNoDecl DEF Raised, Founded
<1>6. PointTrue'
  <2>1. \A t \in Terminals : point[t].doing # "looked"
        BY <1>2 DEF Idle
  <2> QED BY <1>1, <2>1 DEF SInv, PointTrue
<1>7. StoreTrue'
  <2>1. Len(store) = 0
        BY <1>2
  <2> QED BY <1>1, <2>1 DEF SInv, StoreTrue
<1> QED BY <1>5, <1>6, <1>7, NextIInv DEF SInv

-----------------------------------------------------------------------------
\* `close point`.

\* A step that only changes what terminal t is at.
LEMMA PointKeeps ==
    ASSUME SInv, [Next]_vars, decl' = decl, decl # NoDecl, store' = store,
           head' \in 0..Len(store), announced' \subseteq 1..Len(store),
           NEW t \in Terminals, NEW at \in {Idle} \cup Looked \cup Moving(Len(store)),
           point' = [point EXCEPT ![t] = at],
           at.doing = "looked" => SealedTrue(at.epoch, at.key)'
    PROVE  SInv'
<1>1. Raised' /\ StoreTrue' /\ IInv'
      BY RaisedStays, NoMoveKeeps, NextIInv DEF SInv
<1>2. point' \in [Terminals -> {Idle} \cup Looked \cup Moving(Len(store))]
      BY DEF SInv, PointTrue
<1>3. ASSUME NEW u \in Terminals, point'[u].doing = "looked"
      PROVE  SealedTrue(point[u].epoch, point[u].key)'
  <2>1. CASE u = t
    <3>1. point'[u] = at
          BY <2>1 DEF SInv, PointTrue
    <3> QED BY <1>3, <3>1
  <2>2. CASE u # t
    <3>1. point'[u] = point[u]
          BY <2>2 DEF SInv, PointTrue
    <3> QED BY <1>3, <3>1, PointStays
  <2> QED BY <2>1, <2>2
<1>4. PointTrue'
      BY <1>2, <1>3 DEF PointTrue
<1> QED BY <1>1, <1>4 DEF SInv

\* So does reading the head and checking the move,
LEMMA LookKeeps ==
    ASSUME SInv, [Next]_vars, NEW t \in Terminals, NEW who \in ids, NEW pins \in Pins,
           Look(t, who, pins)
    PROVE  SInv'
<1>1. /\ decl # NoDecl /\ MayPoint(who) # {} /\ CurrentKey(who, decl.close) # NoKey
      /\ UNCHANGED <<ids, closes, grants, now, minted, decl, store, head, announced>>
      BY DEF Look, drawer, vars
<1>2. IInv /\ decl.close \in Founded /\ who \in People /\ now \in Nat
      BY <1>1 DEF SInv, Raised, IInv, TypeOK
<1> DEFINE c == decl.close
           at == [doing |-> "looked", who |-> who, pins |-> pins, when |-> now,
                  grant |-> grants[who][First(MayPoint(who))],
                  epoch |-> closes[c].epoch, key |-> CurrentKey(who, c)]
<1>3. point' = [point EXCEPT ![t] = at]
      BY DEF Look
<1>4. grants[who][First(MayPoint(who))] \in Grant
  <2>1. Len(grants[who]) \in Nat /\ \A i \in 1..Len(grants[who]) : grants[who][i] \in Grant
        BY <1>2, GrantFacts DEF IInv
  <2>2. MayPoint(who) \subseteq 1..Len(grants[who])
        BY DEF MayPoint, Held, HeldOn
  <2>3. First(MayPoint(who)) \in MayPoint(who)
        BY <1>1, <2>1, <2>2, FirstIn
  <2> QED BY <2>1, <2>2, <2>3
<1>5. closes[c].epoch \in Nat /\ closes[c].epoch \in 0..closes[c].epoch
      BY <1>2, CloseFacts DEF IInv
<1>6. CurrentKey(who, c) = EpochKey(c, Content, closes[c].epoch)
      BY <1>1, <1>2, CurrentKeyTrue DEF EpochKey
<1>7. EpochKey(c, Content, closes[c].epoch) \in Key
  <2>1. Content \in Lanes
        BY DEF Lanes
  <2> QED BY <1>2, <1>5, <2>1, EpochKeyType
<1>8. at \in Looked
      BY <1>2, <1>4, <1>5, <1>6, <1>7, PinsAreValues DEF Looked
<1>9. SealedTrue(at.epoch, at.key)
      BY <1>5, <1>6 DEF SealedTrue
<1>10. PICK it \in Looked : it = at
      BY <1>8
<1>11. SealedTrue(it.epoch, it.key)
      BY <1>9, <1>10
<1>12. SealedTrue(it.epoch, it.key)'
      BY <1>1, <1>2, <1>11, SealedStays
<1>13. /\ head' \in 0..Len(store) /\ announced' \subseteq 1..Len(store) /\ decl' = decl
       /\ store' = store
      BY <1>1 DEF SInv, StoreTrue
<1>14. point' = [point EXCEPT ![t] = it]
      BY <1>3, <1>10
<1> HIDE DEF at, c
<1> QED BY <1>1, <1>12, <1>13, <1>14, PointKeeps

\* giving up or dying,
LEMMA GiveUpKeeps ==
    ASSUME SInv, [Next]_vars, NEW t \in Terminals, GiveUp(t) \/ Crash(t)
    PROVE  SInv'
<1>1. /\ point[t] # Idle /\ point' = [point EXCEPT ![t] = Idle]
      /\ UNCHANGED <<decl, store, head, announced>>
      BY DEF GiveUp, Crash, Idle
<1>2. decl # NoDecl
      BY <1>1 DEF SInv, Raised
<1>3. head' \in 0..Len(store) /\ announced' \subseteq 1..Len(store)
      BY <1>1 DEF SInv, StoreTrue
<1>4. PICK at : at = Idle
      OBVIOUS
<1>5. at.doing # "looked"
      BY <1>4 DEF Idle
<1> QED BY <1>1, <1>2, <1>3, <1>4, <1>5, PointKeeps

\* emptying and writing the ref,
LEMMA RefKeeps ==
    ASSUME SInv, [Next]_vars, NEW t \in Terminals, Truncate(t) \/ Write(t)
    PROVE  SInv'
<1>1. /\ UNCHANGED <<decl, store>> /\ point[t].doing \in {"made", "writing"}
      BY DEF Truncate, Write
<1>2. point[t] \in Moving(Len(store)) /\ decl # NoDecl
      BY <1>1 DEF SInv, PointTrue, Raised, Idle, Looked
<1>3. point[t].move \in 1..Len(store) /\ Len(store) \in Nat
      BY <1>2 DEF Moving, SInv, StoreTrue
<1>4. head' \in 0..Len(store) /\ announced' \subseteq 1..Len(store)
  <2>1. CASE Truncate(t)
        BY <1>3, <2>1 DEF Truncate, SInv, StoreTrue
  <2>2. CASE Write(t)
    <3>1. head' = point[t].move /\ announced' = announced \cup {point[t].move}
          BY <2>2 DEF Write
    <3>2. announced \subseteq 1..Len(store)
          BY DEF SInv, StoreTrue
    <3>3. PICK m \in 1..Len(store) : m = point[t].move
          BY <1>3
    <3>4. head' = m /\ announced' = announced \cup {m} /\ m \in 0..Len(store)
          BY <1>3, <3>1, <3>3
    <3> QED BY <3>2, <3>4
  <2> QED BY <2>1, <2>2
<1>5. \E at \in {Idle} \cup Looked \cup Moving(Len(store)) :
         at.doing # "looked" /\ point' = [point EXCEPT ![t] = at]
  <2>1. CASE Truncate(t)
    <3> DEFINE at == [point[t] EXCEPT !.doing = "writing"]
    <3>1. at \in Moving(Len(store)) /\ at.doing = "writing"
          BY <1>2 DEF Moving
    <3>2. point' = [point EXCEPT ![t] = at]
          BY <2>1 DEF Truncate
    <3> QED BY <3>1, <3>2
  <2>2. CASE Write(t)
        BY <2>2 DEF Write, Idle
  <2> QED BY <2>1, <2>2
<1>6. PICK at \in {Idle} \cup Looked \cup Moving(Len(store)) :
         at.doing # "looked" /\ point' = [point EXCEPT ![t] = at]
      BY <1>5
<1> QED BY <1>1, <1>2, <1>4, <1>6, PointKeeps

\* A move made on the head goes with it.
LEMMA MakeIsForward ==
    ASSUME SInv, NEW who, NEW pins \in Values, CheckForward(who, head, ValueAfter(head, pins)),
           head # 0
    PROVE  /\ DOMAIN store[head].value \subseteq DOMAIN ValueAfter(head, pins)
           /\ \A s \in decl.guarded \cap DOMAIN store[head].value :
                 store[head].value[s] \in Behind(ValueAfter(head, pins)[s], Parents)
<1>1. StoreTrue /\ head \in 0..Len(store)
      BY DEF SInv, StoreTrue
<1> DEFINE old == store[head].value
           value == ValueAfter(head, pins)
<1>2. value \in Values /\ old \in Values /\ DOMAIN old \subseteq DOMAIN value
      BY <1>1, ValueAfterFacts
<1>3. \A s \in decl.guarded \cap DOMAIN old \cap DOMAIN value :
         old[s] = value[s] \/ IsDescendant(who, old[s], value[s])
      BY DEF CheckForward
<1> HIDE DEF old, value
<1>4. ASSUME NEW s \in decl.guarded \cap DOMAIN old
      PROVE  old[s] \in Behind(value[s], Parents)
  <2>1. s \in DOMAIN value /\ (old[s] = value[s] \/ IsDescendant(who, old[s], value[s]))
        BY <1>2, <1>3
  <2>2. PICK c \in Commits : c = value[s]
        BY <1>2, <2>1, ValueFacts
  <2>3. c \in Behind(c, Parents)
        BY <2>2, BehindSelf
  <2> QED BY <2>1, <2>2, <2>3 DEF IsDescendant
<1> QED BY <1>2, <1>4 DEF old, value

\* and storing a move, signed and sealed by somebody who could.
LEMMA MakeKeeps ==
    ASSUME SInv, [Next]_vars, NEW t \in Terminals, Make(t)
    PROVE  SInv'
<1>0. PICK n : n = Len(store) + 1
      OBVIOUS
<1> DEFINE p == point[t]
           m == MoveFrom(p)
<1>1. /\ p.doing = "looked" /\ CheckForward(p.who, head, ValueAfter(head, p.pins))
      /\ VerifyMove(m, closes[decl.close])
      /\ store' = Append(store, m)
      /\ point' = [point EXCEPT ![t] = [doing |-> "made", move |-> n, base |-> head]]
      /\ UNCHANGED <<ids, closes, grants, now, minted, decl, head, announced>>
      BY <1>0 DEF Make, drawer, vars
<1>2. decl # NoDecl
      BY <1>1 DEF SInv, Raised, Idle
<1>3. /\ IInv /\ decl.close \in Founded /\ store \in Seq(Move) /\ head \in 0..Len(store)
      /\ announced \subseteq 1..Len(store)
      BY <1>2 DEF SInv, Raised, StoreTrue
<1>4. Len(store) \in Nat /\ n \in Nat /\ n = Len(store) + 1
      BY <1>0, <1>3
<1>5. p \in Looked /\ SealedTrue(p.epoch, p.key)
      BY <1>1 DEF SInv, PointTrue, Idle, Moving
<1>6. /\ p.pins \in Values /\ ValueAfter(head, p.pins) \in Values
  <2>1. p.pins \in Values
        BY <1>5 DEF Looked
  <2>2. PICK pins \in Values : pins = p.pins
        BY <2>1
  <2> QED BY <1>3, <2>1, <2>2, ValueAfterFacts DEF SInv
<1>7. LinkAfter(head).prev = head /\ LinkAfter(head).seq \in Nat
  <2>1. head # 0 => store[head] \in Move
        BY <1>3
  <2> QED BY <1>3, <2>1 DEF LinkAfter, Move
<1>8. m \in Move
      BY <1>3, <1>5, <1>6, <1>7 DEF MoveFrom, Looked, Move
<1>9. /\ m.prev = head /\ m.seq = (IF head = 0 THEN 0 ELSE store[head].seq + 1)
      /\ m.epoch = p.epoch /\ m.key = p.key /\ m.value = ValueAfter(head, p.pins)
      BY DEF MoveFrom, LinkAfter
<1>10. /\ store' \in Seq(Move) /\ Len(store') = n /\ store'[n] = m
       /\ \A i \in 1..Len(store) : store'[i] = store[i]
  <2> HIDE DEF m
  <2> QED BY <1>1, <1>3, <1>4, <1>8
<1> HIDE DEF m
<1>11. \A i \in 1..Len(store) : MoveTrue(i)'
  <2>1. \A i \in 1..Len(store) : MoveTrue(i)
        BY DEF SInv, StoreTrue
  <2>2. Len(store) <= Len(store') /\ decl' = decl
        BY <1>1, <1>4, <1>10
  <2> QED BY <1>3, <1>10, <2>1, <2>2, MoveStays
<1>12. MoveTrue(n)'
  <2>1. store'[n].prev \in 0..(n - 1) /\ (head # 0 => store'[head] = store[head])
        BY <1>3, <1>4, <1>9, <1>10
  <2>2. CheckLink(store[n], store[n].prev)'
        BY <1>9, <1>10, <2>1 DEF CheckLink
  <2>3. VerifyMove(store[n], closes[decl.close])'
        BY <1>1, <1>10 DEF VerifyMove
  <2>4. SealedTrue(store[n].epoch, store[n].key)'
        BY <1>1, <1>5, <1>9, <1>10 DEF SealedTrue, EpochKey
  <2>5. Forward(n)'
    <3>1. PICK who, pins : who = p.who /\ pins = p.pins
          OBVIOUS
    <3>2. head # 0 => /\ DOMAIN store[head].value \subseteq DOMAIN m.value
                      /\ \A s \in decl.guarded \cap DOMAIN store[head].value :
                            store[head].value[s] \in Behind(m.value[s], Parents)
          BY <1>1, <1>6, <1>9, <3>1, MakeIsForward
    <3> QED BY <1>1, <1>9, <1>10, <2>1, <3>2 DEF Forward
  <2> QED BY <2>1, <2>2, <2>3, <2>4, <2>5 DEF MoveTrue
<1>13. StoreTrue'
  <2>1. head' \in 0..Len(store') /\ announced' \subseteq 1..Len(store')
        BY <1>1, <1>3, <1>4, <1>10
  <2>2. \A i \in 1..Len(store') : i \in 1..Len(store) \/ i = n
        BY <1>4, <1>10
  <2>3. \A i \in 1..Len(store') : MoveTrue(i)'
        BY <1>11, <1>12, <2>2
  <2> QED BY <1>10, <2>1, <2>3 DEF StoreTrue
<1>14. PointTrue'
  <2> DEFINE at == [doing |-> "made", move |-> n, base |-> head]
  <2>1. at \in Moving(Len(store')) /\ Moving(Len(store)) \subseteq Moving(Len(store'))
    <3>1. 1..Len(store) \subseteq 1..Len(store') /\ 0..Len(store) \subseteq 0..Len(store')
          BY <1>4, <1>10
    <3>2. n \in 1..Len(store') /\ head \in 0..Len(store')
          BY <1>3, <1>4, <1>10
    <3> QED BY <3>1, <3>2 DEF Moving
  <2>2. at.doing # "looked" /\ point' = [point EXCEPT ![t] = at]
        BY <1>1
  <2> HIDE DEF at
  <2>3. point' \in [Terminals -> {Idle} \cup Looked \cup Moving(Len(store'))]
        BY <2>1, <2>2 DEF SInv, PointTrue
  <2>4. ASSUME NEW u \in Terminals, point'[u].doing = "looked"
        PROVE  SealedTrue(point[u].epoch, point[u].key)'
    <3>1. point'[u] = point[u]
          BY <2>2, <2>4 DEF SInv, PointTrue
    <3>2. decl' = decl
          BY <1>1
    <3> QED BY <1>2, <2>4, <3>1, <3>2, PointStays
  <2> QED BY <2>3, <2>4 DEF PointTrue
<1>15. Raised'
      BY <1>1, <1>2, RaisedStays
<1> QED BY <1>13, <1>14, <1>15, NextIInv DEF SInv

-----------------------------------------------------------------------------
\* The invariant.

\* Every step preserves it.
LEMMA NextSInv == SInv /\ [SignpostNext]_allVars => SInv'
<1> SUFFICES ASSUME SInv, [SignpostNext]_allVars PROVE SInv'
    OBVIOUS
<1>1. [Next]_vars
      BY DrawerStep
<1>2. CASE Next /\ UNCHANGED signpost
      BY <1>1, <1>2, DrawerKeeps
<1>3. CASE UNCHANGED allVars
      BY <1>1, <1>3, DrawerKeeps DEF allVars, signpost
<1>4. CASE \E guarded \in GuardSets : CellNew(guarded)
      BY <1>1, <1>4, CellNewKeeps
<1>5. CASE \E t \in Terminals, who \in ids, pins \in Pins : Look(t, who, pins)
      BY <1>1, <1>5, LookKeeps
<1>6. CASE \E t \in Terminals : Make(t)
      BY <1>1, <1>6, MakeKeeps
<1>7. CASE \E t \in Terminals : GiveUp(t) \/ Crash(t)
      BY <1>1, <1>7, GiveUpKeeps
<1>8. CASE \E t \in Terminals : Truncate(t) \/ Write(t)
      BY <1>1, <1>8, RefKeeps
<1> QED BY <1>2, <1>3, <1>4, <1>5, <1>6, <1>7, <1>8 DEF SignpostNext

\* What a stored move and a `point` half way through look like, whatever else
\* was run in between: the invariant that the theorems below rest on.
THEOREM JournalSound == SignpostSpec => []SInv
<1>1. SignpostInit => SInv
      BY InitSInv
<1>2. SInv /\ [SignpostNext]_allVars => SInv'
      BY NextSInv
<1> QED BY <1>1, <1>2, PTL DEF SignpostSpec

\* The journals of a state of the invariant.
LEMMA Journals ==
    ASSUME SInv
    PROVE  /\ Linked(store) /\ Len(store) \in Nat
           /\ \A n \in 1..Len(store) : LeadsTo(store, Trails[n], n)
           /\ Trails[0] = <<>>
           /\ \A n \in 1..Len(store) : Trails[n] = Append(Trails[store[n].prev], n)
<1>1. store \in Seq(Move) /\ \A n \in 1..Len(store) : MoveTrue(n)
      BY DEF SInv, StoreTrue
<1>2. Len(store) \in Nat
      BY <1>1
<1>3. Linked(store)
      BY <1>1, <1>2 DEF Linked, MoveTrue
<1> QED BY <1>2, <1>3, TrailLeads, TrailsSolve, TrailsAre

\* The number of a move is how far it is from the first of its journal.
LEMMA Numbered ==
    ASSUME SInv
    PROVE  \A n \in 1..Len(store) : store[n].seq = Len(Trails[n]) - 1
<1> DEFINE f == Trails
           S == {n \in 0..Len(store) : n = 0 \/ store[n].seq = Len(f[n]) - 1}
<1>1. /\ Len(store) \in Nat
      /\ \A n \in 1..Len(store) : LeadsTo(store, f[n], n)
      /\ f[0] = <<>>
      /\ \A n \in 1..Len(store) : f[n] = Append(f[store[n].prev], n)
      BY Journals
<1>2. \A n \in 1..Len(store) :
         /\ store[n].prev \in 0..(n - 1)
         /\ store[n].seq = IF store[n].prev = 0 THEN 0 ELSE store[store[n].prev].seq + 1
      BY DEF SInv, StoreTrue, MoveTrue, CheckLink
<1> HIDE DEF f
<1>3. ASSUME NEW n \in 0..Len(store), \A k \in 0..(n - 1) : k \in S
      PROVE  n \in S
  <2>1. CASE n = 0
        BY <2>1
  <2>2. CASE n # 0
    <3>1. n \in 1..Len(store) /\ store[n].prev \in 0..(n - 1)
          BY <1>1, <1>2, <2>2
    <3>2. CASE store[n].prev = 0
      <4>1. f[n] = Append(<<>>, n) /\ store[n].seq = 0
            BY <1>1, <1>2, <3>1, <3>2
      <4>2. Len(Append(<<>>, n)) = 1
            OBVIOUS
      <4>3. store[n].seq = Len(f[n]) - 1
            BY <4>1, <4>2
      <4> QED BY <4>3
    <3>3. CASE store[n].prev # 0
      <4> DEFINE p == store[n].prev
      <4>1. p \in 1..Len(store) /\ p \in 0..(n - 1)
            BY <1>1, <3>1, <3>3
      <4>2. store[p].seq = Len(f[p]) - 1
            BY <1>3, <4>1
      <4>3. f[p] \in Seq(1..p)
            BY <1>1, <4>1 DEF LeadsTo
      <4>4. Len(f[n]) = Len(f[p]) + 1 /\ Len(f[p]) \in Nat
        <5>1. f[n] = Append(f[p], n)
              BY <1>1, <3>1, <3>3
        <5> HIDE DEF p
        <5>2. PICK before : before = f[p]
              OBVIOUS
        <5>3. before \in Seq(1..p) /\ f[n] = Append(before, n)
              BY <4>3, <5>1, <5>2
        <5>4. Len(Append(before, n)) = Len(before) + 1 /\ Len(before) \in Nat
              BY <5>3
        <5> QED BY <5>2, <5>3, <5>4
      <4>5. store[n].seq = store[p].seq + 1
            BY <1>2, <3>1, <3>3
      <4> QED BY <4>2, <4>4, <4>5
    <3> QED BY <3>2, <3>3
  <2> QED BY <2>1, <2>2
<1>4. \A n \in 0..Len(store) : n \in S
  <2> HIDE DEF S
  <2> QED BY <1>1, <1>3, UpTo
<1>5. \A n \in 1..Len(store) : store[n].seq = Len(f[n]) - 1
      BY <1>1, <1>4
<1> QED BY <1>5 DEF f

-----------------------------------------------------------------------------
\* The variables keep their types, and the number of every move is the length
\* of the journal before it (Transition::make).
THEOREM SignpostTypeCorrect == SignpostSpec => []SignpostTypeOK
<1>1. ASSUME SInv
      PROVE  SignpostTypeOK
  <2>1. /\ decl \in Decl \cup {NoDecl} /\ head \in 0..Len(store)
        /\ announced \subseteq 1..Len(store) /\ store \in Seq(Move)
        /\ \A n \in 1..Len(store) : MoveTrue(n)
        BY <1>1 DEF SInv, Raised, StoreTrue
  <2>2. ASSUME NEW n \in 1..Len(store)
        PROVE  /\ store[n].prev \in 0..(n - 1)
               /\ store[n].seq = Len(Trails[n]) - 1
               /\ store[n].grant \in Grant /\ store[n].key \in Key
    <3>1. store[n] \in Move
          BY <2>1
    <3> QED BY <1>1, <2>1, <3>1, Numbered DEF MoveTrue, Move
  <2> QED BY <2>1, <2>2 DEF SignpostTypeOK
<1> QED BY JournalSound, <1>1, PTL

\* cc_cell::fold accepts, on the record as it stands, the journal that ends in
\* any move ever stored: whatever was rotated, ran out, was killed or
\* overlapped since, and for any number of terminals.
THEOREM JournalsAlwaysFold == SignpostSpec => []JournalFolds
<1>1. ASSUME SInv
      PROVE  JournalFolds
  <2> SUFFICES ASSUME NEW n \in 1..Len(store), NEW i \in 1..Len(Trails[n])
               PROVE  /\ VerifyMove(store[Trails[n][i]], closes[decl.close])
                      /\ CheckLink(store[Trails[n][i]], IF i = 1 THEN 0 ELSE Trails[n][i - 1])
      BY DEF JournalFolds
  <2>1. LeadsTo(store, Trails[n], n) /\ Len(store) \in Nat
        BY <1>1, Journals
  <2>2. PICK t \in Seq(1..n) : t = Trails[n]
        BY <2>1 DEF LeadsTo
  <2>3. t[i] \in 1..Len(store) /\ i \in 1..Len(t)
        BY <2>1, <2>2
  <2>4. MoveTrue(t[i])
        BY <1>1, <2>3 DEF SInv, StoreTrue
  <2>5. store[t[i]].prev = IF i = 1 THEN 0 ELSE t[i - 1]
    <3>1. CASE i = 1
          BY <2>1, <2>2, <3>1 DEF LeadsTo
    <3>2. CASE i # 1
      <4>1. i \in 2..Len(t)
            BY <2>2, <2>3, <3>2
      <4> QED BY <2>1, <2>2, <3>2, <4>1 DEF LeadsTo
    <3> QED BY <3>1, <3>2
  <2> QED BY <2>2, <2>4, <2>5 DEF MoveTrue
<1> QED BY JournalSound, <1>1, PTL

\* check_forward compares a move with the head only, and trusts whoever cannot
\* read the history no further than the same commit: along a journal of any
\* length a guarded slot still never goes back.
THEOREM GuardsHoldAlongJournals == SignpostSpec => []NeverBackAlongJournal
<1> DEFINE Kept(a, n) ==
              \A s \in decl.guarded \cap DOMAIN store[a].value :
                 s \in DOMAIN store[n].value /\ store[a].value[s] \in Behind(store[n].value[s], Parents)
<1>1. ASSUME SInv
      PROVE  NeverBackAlongJournal
  <2> DEFINE f == Trails
             S == {n \in 0..Len(store) : n = 0 \/ \A i \in 1..Len(f[n]) : Kept(f[n][i], n)}
  <2>1. /\ Len(store) \in Nat
        /\ \A n \in 1..Len(store) : LeadsTo(store, f[n], n)
        /\ f[0] = <<>>
        /\ \A n \in 1..Len(store) : f[n] = Append(f[store[n].prev], n)
        BY <1>1, Journals
  <2>2. \A n \in 1..Len(store) : store[n].prev \in 0..(n - 1) /\ Forward(n)
        BY <1>1 DEF SInv, StoreTrue, MoveTrue
  <2>3. ASSUME NEW n \in 1..Len(store), NEW s \in DOMAIN store[n].value
        PROVE  store[n].value[s] \in Commits
    <3>1. store[n] \in Move
          BY <1>1 DEF SInv, StoreTrue
    <3>2. PICK v \in Values : v = store[n].value
          BY <3>1 DEF Move
    <3> QED BY <3>2, ValueFacts
  <2> HIDE DEF f
  <2>4. ASSUME NEW n \in 1..Len(store)
        PROVE  Kept(n, n)
        BY <2>3, BehindSelf
  <2>5. ASSUME NEW n \in 0..Len(store), \A k \in 0..(n - 1) : k \in S
        PROVE  n \in S
    <3>1. CASE n = 0
          BY <3>1
    <3>2. CASE n # 0
      <4>1. n \in 1..Len(store) /\ store[n].prev \in 0..(n - 1) /\ Forward(n)
            BY <2>1, <2>2, <3>2
      <4>2. Kept(n, n)
            BY <2>4, <4>1
      <4>3. CASE store[n].prev = 0
        <5>1. f[n] = Append(<<>>, n)
              BY <2>1, <4>1, <4>3
        <5>2. Len(Append(<<>>, n)) = 1 /\ Append(<<>>, n)[1] = n
              OBVIOUS
        <5>3. \A i \in 1..Len(f[n]) : f[n][i] = n
              BY <5>1, <5>2
        <5> HIDE DEF Kept
        <5> QED BY <4>2, <5>3
      <4>4. CASE store[n].prev # 0
        <5> DEFINE p == store[n].prev
                   t == f[p]
        <5>1. p \in 1..Len(store) /\ p \in 0..(n - 1)
              BY <2>1, <4>1, <4>4
        <5>2. t \in Seq(1..p) /\ f[n] = Append(t, n)
              BY <2>1, <4>1, <5>1 DEF LeadsTo
        <5>3. \A i \in 1..Len(t) : Kept(t[i], p)
              BY <2>5, <4>4, <5>1
        <5> HIDE DEF p, t
        <5>4. ASSUME NEW a \in 1..p, Kept(a, p)
              PROVE  Kept(a, n)
          <6> SUFFICES ASSUME NEW s \in decl.guarded \cap DOMAIN store[a].value
                       PROVE  /\ s \in DOMAIN store[n].value
                              /\ store[a].value[s] \in Behind(store[n].value[s], Parents)
              OBVIOUS
          <6>1. s \in DOMAIN store[p].value /\ store[a].value[s] \in Behind(store[p].value[s], Parents)
                BY <5>4
          <6>2. s \in DOMAIN store[n].value /\ store[p].value[s] \in Behind(store[n].value[s], Parents)
                BY <4>1, <4>4, <6>1 DEF Forward, p
          <6>3. store[n].value[s] \in Commits
                BY <2>3, <4>1, <6>2
          <6> QED BY <6>1, <6>2, <6>3, BehindTransitive
        <5>5. ASSUME NEW i \in 1..Len(f[n])
              PROVE  Kept(f[n][i], n)
          <6>1. Len(t) \in Nat /\ Len(f[n]) = Len(t) + 1
                BY <5>2
          <6>2. CASE i = Len(t) + 1
            <7>1. f[n][i] = n
                  BY <5>2, <6>1, <6>2
            <7> HIDE DEF Kept
            <7> QED BY <4>2, <7>1
          <6>3. CASE i # Len(t) + 1
            <7>1. i \in 1..Len(t)
                  BY <6>1, <6>3
            <7>2. t[i] \in 1..p
              <8>1. t \in Seq(1..p)
                    BY <5>2
              <8> QED BY <7>1, <8>1, ElementIn
            <7>3. Append(t, n)[i] = t[i]
                  BY <5>2, <7>1
            <7> HIDE DEF Kept
            <7> QED BY <5>2, <5>3, <5>4, <7>1, <7>2, <7>3
          <6> QED BY <6>2, <6>3
        <5> QED BY <5>5
      <4> QED BY <4>3, <4>4
    <3> QED BY <3>1, <3>2
  <2>6. \A n \in 0..Len(store) : n \in S
    <3> HIDE DEF S
    <3> QED BY <2>1, <2>5, UpTo
  <2>7. \A n \in 1..Len(store) : \A i \in 1..Len(f[n]) : Kept(f[n][i], n)
    <3> SUFFICES ASSUME NEW n \in 1..Len(store)
                 PROVE  \A i \in 1..Len(f[n]) : Kept(f[n][i], n)
        OBVIOUS
    <3>1. n \in S /\ n # 0
          BY <2>1, <2>6
    <3> HIDE DEF Kept
    <3> QED BY <3>1
  <2> QED BY <2>7 DEF NeverBackAlongJournal, f
<1> QED BY JournalSound, <1>1, PTL

\* A lock change never splits a trail: whoever opens what is sealed today
\* opens every move behind the head, at whatever epoch it was sealed.
THEOREM TrailsStayReadable == SignpostSpec => []TrailReadable
<1>1. ASSUME SInv
      PROVE  TrailReadable
  <2> SUFFICES ASSUME NEW p \in ids, head # 0, CurrentKey(p, decl.close) # NoKey,
                      NEW i \in 1..Len(Trails[head])
               PROVE  KeyOf(p, decl.close, Content, store[Trails[head][i]].epoch)
                        = store[Trails[head][i]].key
      BY DEF TrailReadable
  <2> DEFINE c == decl.close
             m == store[Trails[head][i]]
  <2>1. head \in 1..Len(store) /\ store # <<>>
        BY <1>1 DEF SInv, StoreTrue
  <2>2. IInv /\ c \in Founded
        BY <1>1, <2>1 DEF SInv, Raised
  <2>3. Trails[head] \in Seq(1..head) /\ Len(store) \in Nat
        BY <1>1, <2>1, Journals DEF LeadsTo
  <2>4. Trails[head][i] \in 1..Len(store)
        BY <2>1, <2>3
  <2>5. SealedTrue(m.epoch, m.key)
        BY <1>1, <2>4 DEF SInv, StoreTrue, MoveTrue
  <2>6. PICK e \in 0..closes[c].epoch : e = m.epoch /\ m.key = EpochKey(c, Content, e)
        BY <2>5 DEF SealedTrue
  <2>7. closes[c].epoch \in Nat /\ closes[c].epoch \in 0..closes[c].epoch /\ Content \in Lanes
        BY <2>2, CloseFacts DEF IInv, Lanes
  <2>8. Entitled(p, c, Content, closes[c].epoch)
        BY <2>2, <2>7, KeyOfExact DEF CurrentKey
  <2>9. Entitled(p, c, Content, e)
    <3>1. PICK j \in 1..Len(grants[p]) :
             LET b == Leaf(grants[p][j])
             IN  b.close = c /\ b.facet >= Content /\ b.epoch >= closes[c].epoch /\ Alive(b.expires, now)
          BY <2>8 DEF Entitled
    <3>2. Leaf(grants[p][j]).epoch \in Nat
      <4>1. p \in People
            BY <2>2 DEF IInv, TypeOK
      <4> QED BY <2>2, <4>1, HeldBegun DEF Link
    <3>3. Leaf(grants[p][j]).epoch >= e
          BY <2>7, <3>1, <3>2
    <3> QED BY <3>1, <3>3 DEF Entitled
  <2> QED BY <2>2, <2>6, <2>7, <2>9, KeyOfExact
<1> QED BY JournalSound, <1>1, PTL

-----------------------------------------------------------------------------
\* Signpost implements Journal: with a single terminal whose `point` is never
\* killed, for any number of moves, people, closes and rotations in between.  A
\* move of the journal is the step that writes the head; every other step but
\* `cell new` leaves the journal as it was.

\* The journal behind a move, as the refinement shows it.

LogOf(st, n) ==
    [i \in 1..Len(TrailsIn(st)[n]) |->
        [by |-> st[TrailsIn(st)[n][i]].by, value |-> st[TrailsIn(st)[n][i]].value]]

\* The abstract log, of this state and of the next.
LEMMA LogIs == Log = LogOf(store, Standing) /\ Log' = LogOf(store', Standing')
<1>1. Trails = TrailsIn(store) /\ Trails' = TrailsIn(store')
      BY DEF Trails, TrailsIn, TrailEq
<1> QED BY <1>1 DEF Log, LogOf

\* The head, or while the only terminal is rewriting it the head it read.
LEMMA StandingIs ==
    ASSUME NEW T, Terminals = {T}
    PROVE  /\ Standing = IF point[T].doing = "writing" THEN point[T].base ELSE head
           /\ Standing' = IF point'[T].doing = "writing" THEN point'[T].base ELSE head'
BY DEF Standing

\* The journal of a move is that of the one it was made on, and the move.
LEMMA LogGrows ==
    ASSUME NEW st, Linked(st), NEW n \in 1..Len(st)
    PROVE  LogOf(st, n) = Append(LogOf(st, st[n].prev), [by |-> st[n].by, value |-> st[n].value])
<1> DEFINE t == TrailsIn(st)[st[n].prev]
           entry(k) == [by |-> st[k].by, value |-> st[k].value]
           old == [i \in 1..Len(t) |-> entry(t[i])]
<1>1. TrailsIn(st)[n] = Append(t, n) /\ TrailsIn(st)[0] = <<>>
      BY TrailsSolve
<1>2. t \in Seq(1..Len(st)) /\ Len(t) \in Nat
  <2>1. Len(st) \in Nat /\ st[n].prev \in 0..(n - 1)
        BY DEF Linked
  <2>2. CASE st[n].prev = 0
    <3>1. t = <<>>
          BY <1>1, <2>2
    <3> HIDE DEF t
    <3> QED BY <3>1
  <2>3. CASE st[n].prev # 0
    <3>1. PICK p \in 1..Len(st) : p = st[n].prev
          BY <2>1, <2>3
    <3>2. t \in Seq(1..p) /\ 1..p \subseteq 1..Len(st)
          BY <2>1, <3>1, TrailLeads DEF LeadsTo
    <3> QED BY <3>2, SeqMono
  <2> QED BY <2>2, <2>3
<1>3. LogOf(st, st[n].prev) = old /\ LogOf(st, n) = [i \in 1..Len(Append(t, n)) |-> entry(Append(t, n)[i])]
      BY <1>1 DEF LogOf
<1> HIDE DEF t
<1>4. /\ Len(Append(t, n)) = Len(t) + 1 /\ Append(t, n)[Len(t) + 1] = n
      /\ \A i \in 1..Len(t) : Append(t, n)[i] = t[i]
      BY <1>2
<1> HIDE DEF entry
<1>5. old \in Seq({entry(k) : k \in 1..Len(st)}) /\ Len(old) = Len(t)
  <2>1. \A i \in 1..Len(t) : old[i] \in {entry(k) : k \in 1..Len(st)}
        BY <1>2
  <2> QED BY <1>2, <2>1
<1>6. Append(old, entry(n)) = [i \in 1..(Len(t) + 1) |-> IF i = Len(t) + 1 THEN entry(n) ELSE old[i]]
  <2>1. entry(n) \in {entry(k) : k \in 1..Len(st)}
        OBVIOUS
  <2> HIDE DEF old
  <2> QED BY <1>5, <2>1, AppendIs
<1>7. \A i \in 1..(Len(t) + 1) :
         entry(Append(t, n)[i]) = IF i = Len(t) + 1 THEN entry(n) ELSE old[i]
  <2>1. ASSUME NEW i \in 1..(Len(t) + 1), i # Len(t) + 1
        PROVE  i \in 1..Len(t)
        BY <1>2, <2>1
  <2> QED BY <1>2, <1>4, <2>1
<1>8. LogOf(st, n) = Append(old, entry(n))
      BY <1>3, <1>4, <1>6, <1>7
<1> QED BY <1>3, <1>8 DEF entry

\* Moves added later change no journal that there was.
LEMMA LogKept ==
    ASSUME NEW st, NEW more, Linked(st), Linked(more), Len(st) <= Len(more),
           \A i \in 1..Len(st) : more[i] = st[i], NEW n \in 0..Len(st)
    PROVE  LogOf(more, n) = LogOf(st, n)
<1> DEFINE t == TrailsIn(st)[n]
<1>1. TrailsIn(more)[n] = t
      BY TrailsKept
<1>2. \A i \in 1..Len(t) : t[i] \in 1..Len(st)
  <2>1. Len(st) \in Nat
        BY DEF Linked
  <2>2. CASE n = 0
        BY <2>2, TrailsSolve
  <2>3. CASE n # 0
    <3>1. n \in 1..Len(st)
          BY <2>1, <2>3
    <3>2. t \in Seq(1..n) /\ 1..n \subseteq 1..Len(st)
          BY <2>1, <3>1, TrailLeads DEF LeadsTo
    <3> HIDE DEF t
    <3> QED BY <3>2, ElementIn
  <2> QED BY <2>2, <2>3
<1> QED BY <1>1, <1>2 DEF LogOf

\* Where the latest move of a journal says that the signpost points.
LEMMA LatestOf ==
    ASSUME NEW st, Linked(st), NEW n \in 0..Len(st)
    PROVE  /\ n = 0 => LogOf(st, n) = <<>>
           /\ n # 0 => /\ LogOf(st, n) # <<>>
                       /\ LogOf(st, n)[Len(LogOf(st, n))].value = st[n].value
<1>1. CASE n = 0
      BY <1>1, TrailsSolve DEF LogOf
<1>2. CASE n # 0
  <2> DEFINE t == TrailsIn(st)[n]
             log == [i \in 1..Len(t) |-> [by |-> st[t[i]].by, value |-> st[t[i]].value]]
  <2>1. n \in 1..Len(st)
        BY <1>2 DEF Linked
  <2>2. t \in Seq(1..n) /\ Len(t) >= 1 /\ t[Len(t)] = n
        BY <2>1, TrailLeads DEF LeadsTo
  <2>3. LogOf(st, n) = log
        BY DEF LogOf
  <2> HIDE DEF t
  <2>4. Len(t) \in Nat /\ Len(t) \in 1..Len(t)
        BY <2>2
  <2>5. Len(log) = Len(t) /\ log[Len(t)].value = st[n].value
        BY <2>2, <2>4
  <2> QED BY <1>2, <2>2, <2>3, <2>4, <2>5
<1> QED BY <1>1, <1>2

-----------------------------------------------------------------------------
\* The invariant of a single terminal: the head is the one its move was made
\* on until it is rewritten, for nobody else rewrites it.
Single(T) ==
    /\ crashes = 0
    /\ point[T].doing \in {"made", "writing"} => store[point[T].move].prev = point[T].base
    /\ point[T].doing = "made" => head = point[T].base

\* Single holds before anybody moves.
LEMMA SingleInit ==
    ASSUME NEW T, Terminals = {T}, SignpostInit
    PROVE  Single(T)
BY DEF Single, SignpostInit, Idle

\* What the only terminal is at.
LEMMA AtPoint ==
    ASSUME SInv, NEW T \in Terminals
    PROVE  /\ point[T] = Idle \/ point[T] \in Looked \/ point[T] \in Moving(Len(store))
           /\ point[T].doing = "looked" => point[T] \in Looked
           /\ point[T].doing \in {"made", "writing"} => point[T] \in Moving(Len(store))
BY DEF SInv, PointTrue, Idle, Looked, Moving

\* With one terminal and no crash, every step preserves it.
LEMMA SingleNext ==
    ASSUME NEW T, Terminals = {T}, MaxCrashes = 0, SInv, Single(T), [SignpostNext]_allVars
    PROVE  Single(T)'
<1> USE DEF Single
<1>0. point = [t \in {T} |-> point[t]]
      BY DEF SInv, PointTrue
<1>1. CASE UNCHANGED signpost
      BY <1>1 DEF signpost
<1>2. CASE \E guarded \in GuardSets : CellNew(guarded)
      BY <1>2 DEF CellNew
<1>3. CASE \E who \in ids, pins \in Pins : Look(T, who, pins)
      BY <1>0, <1>3 DEF Look
<1>4. CASE Make(T)
  <2>1. /\ store' = Append(store, MoveFrom(point[T]))
        /\ point'[T] = [doing |-> "made", move |-> Len(store) + 1, base |-> head]
        /\ head' = head /\ crashes' = crashes
        BY <1>0, <1>4 DEF Make
  <2>2. MoveFrom(point[T]).prev = head
        BY DEF MoveFrom, LinkAfter
  <2>3. store'[Len(store) + 1] = MoveFrom(point[T])
    <3>1. store \in Seq(Move) /\ store' \in Seq(Move)
          BY <1>4, NextSInv DEF SInv, StoreTrue
    <3> HIDE DEF Move
    <3> QED BY <2>1, <3>1
  <2> QED BY <2>1, <2>2, <2>3
<1>5. CASE GiveUp(T)
      BY <1>0, <1>5 DEF GiveUp, Idle
<1>6. CASE Truncate(T)
  <2>1. /\ point'[T] = [point[T] EXCEPT !.doing = "writing"]
        /\ store' = store /\ crashes' = crashes /\ point[T].doing = "made"
        BY <1>0, <1>6 DEF Truncate
  <2>2. point[T] \in Moving(Len(store))
        BY <2>1, AtPoint
  <2>3. point'[T].doing = "writing" /\ point'[T].move = point[T].move /\ point'[T].base = point[T].base
        BY <2>1, <2>2 DEF Moving
  <2> QED BY <2>1, <2>3
<1>7. CASE Write(T)
      BY <1>0, <1>7 DEF Write, Idle
<1>8. CASE Crash(T)
      BY <1>8 DEF Crash
<1>9. CASE UNCHANGED allVars
      BY <1>9 DEF allVars
<1> QED BY <1>1, <1>2, <1>3, <1>4, <1>5, <1>6, <1>7, <1>8, <1>9 DEF SignpostNext

-----------------------------------------------------------------------------
\* The steps.

\* A step that neither raises the signpost nor moves where readers see it.
LEMMA NoMove ==
    ASSUME SInv, SInv', decl' = decl, Standing' = Standing, Standing \in 0..Len(store),
           Len(store) <= Len(store'), \A i \in 1..Len(store) : store'[i] = store[i]
    PROVE  UNCHANGED Promised!vars
<1>1. Linked(store)
      BY Journals
<1>2. Linked(store')
  <2>1. store' \in Seq(Move) /\ \A n \in 1..Len(store') : MoveTrue(n)'
        BY DEF SInv, StoreTrue
  <2>2. Len(store') \in Nat
        BY <2>1
  <2> QED BY <2>1, <2>2 DEF Linked, MoveTrue
<1>3. LogOf(store', Standing) = LogOf(store, Standing)
      BY <1>1, <1>2, LogKept
<1>4. Log' = Log
      BY <1>3, LogIs
<1> QED BY <1>4 DEF Promised!vars

\* `cell new` raises the signpost, with no moves.
LEMMA RaiseStep ==
    ASSUME SInv, SInv', NEW T, Terminals = {T}, NEW guarded \in GuardSets, CellNew(guarded)
    PROVE  \E G \in SUBSET Slots : Promised!Raise(G)
<1>1. /\ decl = NoDecl /\ decl' = [close |-> Governing, guarded |-> guarded]
      /\ store' = store /\ head' = head /\ point' = point
      BY DEF CellNew
<1>2. decl' # NoDecl /\ decl'.guarded = guarded /\ guarded \in SUBSET Slots
  <2>1. Governing \in Closes
        BY DEF SInv, IInv, TypeOK, Raised, Governing
  <2>2. guarded \in SUBSET Slots
        BY SignpostAssumption
  <2>3. decl' \in Decl
        BY <1>1, <2>1, <2>2 DEF Decl
  <2> QED BY <1>1, <2>2, <2>3, NoDeclIsNoDecl
<1>3. Log' = Log
      BY <1>1, LogIs, StandingIs
<1>4. Promised!Raise(guarded)
      BY <1>1, <1>2, <1>3 DEF Promised!Raise
<1> QED BY <1>2, <1>4

\* Writing the head is the move.
LEMMA WriteStep ==
    ASSUME SInv, SInv', NEW T, Terminals = {T}, Single(T), Write(T)
    PROVE  \E by \in People, pins \in Values : Promised!Move(by, pins)
<1>1. /\ point[T].doing = "writing" /\ head' = point[T].move /\ store' = store /\ decl' = decl
      /\ point' = [point EXCEPT ![T] = Idle]
      BY DEF Write
<1>2. point[T] \in Moving(Len(store)) /\ point'[T] = Idle /\ decl # NoDecl
      BY <1>1, AtPoint DEF SInv, PointTrue, Raised, Idle
<1>3. PICK n \in 1..Len(store), b \in 0..Len(store) : n = point[T].move /\ b = point[T].base
      BY <1>2 DEF Moving
<1>4. Standing = b /\ Standing' = n /\ store[n].prev = b
      BY <1>1, <1>2, <1>3, StandingIs DEF Idle, Single
<1>5. Linked(store) /\ Len(store) \in Nat /\ MoveTrue(n) /\ store[n] \in Move
      BY Journals DEF SInv, StoreTrue
<1> DEFINE by == store[n].by
           value == store[n].value
           latest == IF Log = <<>> THEN <<>> ELSE Log[Len(Log)].value
<1>6. Log' = Append(Log, [by |-> by, value |-> value])
      BY <1>1, <1>4, <1>5, LogGrows, LogIs
<1>7. latest = IF b = 0 THEN <<>> ELSE store[b].value
      BY <1>4, <1>5, LatestOf, LogIs
<1>8. /\ DOMAIN latest \subseteq DOMAIN value
      /\ \A s \in decl.guarded \cap DOMAIN latest : latest[s] \in Behind(value[s], Parents)
  <2>1. CASE b = 0
        BY <1>7, <2>1
  <2>2. CASE b # 0
        BY <1>4, <1>5, <1>7, <2>2 DEF MoveTrue, Forward
  <2> QED BY <2>1, <2>2
<1>9. by \in People /\ value \in Values
      BY <1>5 DEF Move
<1>10. value = [s \in DOMAIN value |-> value[s]] /\ \A s \in DOMAIN value : value[s] \in Commits
      BY <1>9, ValueFacts
<1>11. value = [s \in DOMAIN latest \cup DOMAIN value |->
                   IF s \in DOMAIN value THEN value[s] ELSE latest[s]]
  <2>1. DOMAIN latest \cup DOMAIN value = DOMAIN value
        BY <1>8
  <2> HIDE DEF latest, value
  <2> QED BY <1>10, <2>1
<1>12. \A s \in decl.guarded \cap DOMAIN latest :
          <<latest[s], value[s]>> \in {w \in Commits \X Commits : w[1] \in Behind(w[2], Parents)}
  <2> SUFFICES ASSUME NEW s \in decl.guarded \cap DOMAIN latest
               PROVE  <<latest[s], value[s]>> \in
                         {w \in Commits \X Commits : w[1] \in Behind(w[2], Parents)}
      OBVIOUS
  <2> HIDE DEF latest, value
  <2>1. value[s] \in Commits /\ latest[s] \in Behind(value[s], Parents)
        BY <1>8, <1>10
  <2>2. latest[s] \in Commits
        BY <2>1, BehindSelf
  <2> QED BY <2>1, <2>2
<1>13. Promised!Latest = latest
      BY DEF Promised!Latest
<1> HIDE DEF latest, value, by
<1>14. Promised!Move(by, value)
      BY <1>1, <1>2, <1>6, <1>11, <1>12, <1>13 DEF Promised!Move, value, by
<1> QED BY <1>9, <1>14

\* Every step of the signpost and of Drawer is one of the journal, or none.
LEMMA JournalStep ==
    ASSUME NEW T, Terminals = {T}, MaxCrashes = 0, SInv, SInv', Single(T), [SignpostNext]_allVars
    PROVE  [Promised!Next]_(Promised!vars)
<1>0. /\ point = [t \in {T} |-> point[t]] /\ head \in 0..Len(store) /\ store \in Seq(Move)
      /\ Len(store) \in Nat
      BY DEF SInv, PointTrue, StoreTrue
<1>1. Standing \in 0..Len(store)
  <2>1. CASE point[T].doing = "writing"
    <3>1. point[T] \in Moving(Len(store))
          BY <2>1, AtPoint
    <3> QED BY <2>1, <3>1, StandingIs DEF Moving
  <2>2. CASE point[T].doing # "writing"
        BY <1>0, <2>2, StandingIs
  <2> QED BY <2>1, <2>2
<1>2. ASSUME decl' = decl, store' = store, Standing' = Standing
      PROVE  UNCHANGED Promised!vars
  <2>1. Len(store) <= Len(store') /\ \A i \in 1..Len(store) : store'[i] = store[i]
        BY <1>0, <1>2
  <2> QED BY <1>1, <1>2, <2>1, NoMove
<1>3. CASE UNCHANGED signpost
  <2>1. decl' = decl /\ store' = store /\ head' = head /\ point' = point
        BY <1>3 DEF signpost
  <2> QED BY <1>2, <2>1, StandingIs
<1>4. CASE \E guarded \in GuardSets : CellNew(guarded)
      BY <1>4, RaiseStep DEF Promised!Next
<1>5. CASE \E who \in ids, pins \in Pins : Look(T, who, pins)
  <2>1. /\ decl' = decl /\ store' = store /\ head' = head
        /\ point[T] = Idle /\ point'[T].doing = "looked"
        BY <1>0, <1>5 DEF Look
  <2> QED BY <1>2, <2>1, StandingIs DEF Idle
<1>6. CASE Make(T)
  <2>1. /\ decl' = decl /\ head' = head /\ store' = Append(store, MoveFrom(point[T]))
        /\ point[T].doing = "looked" /\ point'[T].doing = "made"
        BY <1>0, <1>6 DEF Make
  <2>2. Standing' = Standing
        BY <2>1, StandingIs
  <2>3. store' \in Seq(Move)
        BY DEF SInv, StoreTrue
  <2>4. Len(store) <= Len(store') /\ \A i \in 1..Len(store) : store'[i] = store[i]
    <3> HIDE DEF Move
    <3> QED BY <1>0, <2>1, <2>3
  <2> QED BY <1>1, <2>1, <2>2, <2>4, NoMove
<1>7. CASE GiveUp(T)
  <2>1. /\ decl' = decl /\ store' = store /\ head' = head
        /\ point[T].doing = "looked" /\ point'[T] = Idle
        BY <1>0, <1>7 DEF GiveUp
  <2> QED BY <1>2, <2>1, StandingIs DEF Idle
<1>8. CASE Truncate(T)
  <2>1. /\ decl' = decl /\ store' = store /\ point[T].doing = "made"
        /\ point'[T] = [point[T] EXCEPT !.doing = "writing"] /\ head = point[T].base
        BY <1>0, <1>8 DEF Truncate, Single
  <2>2. point[T] \in Moving(Len(store))
        BY <2>1, AtPoint
  <2>3. point'[T].doing = "writing" /\ point'[T].base = point[T].base
        BY <2>1, <2>2 DEF Moving
  <2> QED BY <1>2, <2>1, <2>3, StandingIs
<1>9. CASE Write(T)
  <2>1. Promised!Values = Values
        BY DEF Promised!Values, Values
  <2>2. \E by \in People, pins \in Promised!Values : Promised!Move(by, pins)
        BY <1>9, <2>1, WriteStep
  <2> QED BY <2>2 DEF Promised!Next
<1>10. CASE Crash(T)
  <2>1. crashes < MaxCrashes /\ crashes = 0
        BY <1>10 DEF Crash, Single
  <2> QED BY <2>1
<1>11. CASE UNCHANGED allVars
  <2>1. UNCHANGED signpost
        BY <1>11 DEF allVars, signpost
  <2> QED BY <1>3, <2>1
<1> QED BY <1>3, <1>4, <1>5, <1>6, <1>7, <1>8, <1>9, <1>10, <1>11 DEF SignpostNext

\* The initial states are initial states of the journal.
LEMMA JournalInit ==
    ASSUME NEW T, Terminals = {T}, SignpostInit
    PROVE  Promised!Init
<1>1. /\ decl = NoDecl /\ store = <<>> /\ head = 0 /\ point = [t \in Terminals |-> Idle]
      BY DEF SignpostInit
<1>2. Linked(store) /\ 0 \in 0..Len(store)
      BY <1>1 DEF Linked
<1>3. Standing = 0
      BY <1>1, StandingIs DEF Idle
<1>4. Log = <<>>
      BY <1>2, <1>3, LatestOf, LogIs
<1> QED BY <1>1, <1>4 DEF Promised!Init

\* What SIGNPOSTS.md promises of a signpost, the code keeps as long as one
\* `point` runs at a time and none is killed: the journal only ever grows, by
\* moves that keep the slots they do not set and take guarded ones forward,
\* whatever is protected, shared or rotated in between.
THEOREM PointKeepsTheJournal ==
    ASSUME NEW T, Terminals = {T}, MaxCrashes = 0
    PROVE  SignpostSpec => ImplementsJournal
<1>1. SignpostInit => Promised!Init /\ SInv /\ Single(T)
      BY JournalInit, InitSInv, SingleInit
<1>2. SInv /\ Single(T) /\ [SignpostNext]_allVars => SInv' /\ Single(T)'
      BY NextSInv, SingleNext
<1>3. SInv /\ SInv' /\ Single(T) /\ [SignpostNext]_allVars => [Promised!Next]_(Promised!vars)
      BY JournalStep
<1> QED BY <1>1, <1>2, <1>3, PTL DEF SignpostSpec, ImplementsJournal, Promised!Spec
=============================================================================
