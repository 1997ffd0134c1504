--------------------------- MODULE SnapshotProofs ---------------------------
(***************************************************************************)
(* Theorems about Snapshot.  The inductive invariant has four parts: the   *)
(* folder and its locks (WorldOK), what each keep has read and made so far *)
(* (KeepOK), what is in the store (StoreOK, WritersOK), and what the ref   *)
(* main has named (MainOK).                                                *)
(***************************************************************************)
EXTENDS Snapshot, Basics

-----------------------------------------------------------------------------
\* The walk.

Item_ == [do : {"enter", "snap"}, path : Seq(Names)]

\* The walk goes through paths of the tree and ends with the root.
LEMMA WalkFacts ==
    /\ Walk \in Seq(Item_) /\ Len(Walk) \in Nat /\ Len(Walk) >= 1
    /\ \A i \in 1..Len(Walk) :
          /\ Walk[i].do \in {"enter", "snap"} /\ Walk[i].path \in Seq(Names)
          /\ Walk[i].path \in Paths
          /\ Walk[i].do = "enter" => Walk[i].path \in Folders
    /\ Paths \subseteq Seq(Names)
    /\ Root \in Paths /\ Root \in Folders
<1>a. /\ Walk \in Seq(Item_) /\ Len(Walk) > 0
      /\ Root \in Folders /\ Folders \subseteq Paths
      BY SnapshotAssumption DEF Item_
<1>1. Walk \in Seq(Item_) /\ Len(Walk) \in Nat /\ Len(Walk) >= 1
      BY <1>a
<1>2. ASSUME NEW i \in 1..Len(Walk)
      PROVE  /\ Walk[i].do \in {"enter", "snap"} /\ Walk[i].path \in Seq(Names)
             /\ Walk[i].path \in Paths
             /\ Walk[i].do = "enter" => Walk[i].path \in Folders
  <2>1. Walk[i] \in Item_
        BY <1>1, ElementIn
  <2>2. Walk[i].do \in {"enter", "snap"} /\ Walk[i].path \in Seq(Names)
        BY <2>1 DEF Item_
  <2>3. Walk[i].do = "enter" => Walk[i].path \in Folders
        BY DEF Folders
  <2>4. Walk[i].do = "snap" => Walk[i].path \in Paths
        BY DEF Paths
  <2> QED BY <1>a, <2>2, <2>3, <2>4
<1>3. ASSUME NEW p \in Paths
      PROVE  p \in Seq(Names)
  <2>1. PICK i \in 1..Len(Walk) : p = Walk[i].path
        BY DEF Paths
  <2> QED BY <2>1, <1>2
<1> QED BY <1>a, <1>1, <1>2, <1>3

\* The bounds are numbers.
LEMMA MostIsNat ==
    ASSUME NEW field \in {"atOnce", "keeps", "changes", "kills"}
    PROVE  Most(field) \in Nat
<1>1. PICK most \in Budgets : \A b \in Budgets : b[field] <= most[field]
      BY SnapshotAssumption
<1>2. \A b \in Budgets : b[field] \in Nat
      BY SnapshotAssumption
<1>3. most[field] \in {b[field] : b \in Budgets} /\ \A b \in Budgets : b[field] <= most[field]
      BY <1>1
<1> QED BY <1>2, <1>3 DEF Most

-----------------------------------------------------------------------------
\* The folder and its locks.

LocksOK ==
    /\ DOMAIN epoch \subseteq Closes /\ Commons \in DOMAIN epoch
    /\ reach \in [DOMAIN epoch -> [People -> [Lanes -> Int]]]
    /\ \A c \in DOMAIN epoch :
          /\ epoch[c] \in Nat
          /\ \A p \in People :
                /\ \A lane \in Lanes : reach[c][p][lane] \in -1..epoch[c]
                /\ reach[c][p][Content] <= reach[c][p][Shape]
    /\ rotation = None \/ rotation.close \in DOMAIN epoch
    /\ founding = None \/ founding \in DOMAIN epoch \cap Drawers
    /\ torn \subseteq DOMAIN epoch \cup {Map}

MapOK ==
    /\ closemap \in Seq([path : Paths, close : DOMAIN epoch])
    /\ Len(closemap) \in Nat /\ Len(closemap) >= 1
    /\ closemap[1].path = Root

WorldOK == LocksOK /\ MapOK /\ work \in [Files -> Nat]

\* Nothing of it ever goes back.
Grown ==
    /\ DOMAIN epoch \subseteq DOMAIN epoch'
    /\ \A c \in DOMAIN epoch :
          /\ epoch[c] <= epoch'[c]
          /\ \A p \in People, lane \in Lanes : reach[c][p][lane] <= reach'[c][p][lane]
    /\ Len(closemap) <= Len(closemap')
    /\ \A i \in 1..Len(closemap) : closemap'[i] = closemap[i]
    /\ \A f \in Files : work[f] <= work'[f]

\* The empty folder is as WorldOK says.
LEMMA WorldInit ==
    ASSUME Init
    PROVE  WorldOK
<1>1. LocksOK
      BY SnapshotAssumption DEF Init, LocksOK, Closes, Lanes, Shape, Content
<1>2. MapOK
  <2>1. [path |-> Root, close |-> Commons] \in [path : Paths, close : DOMAIN epoch]
        BY <1>1, WalkFacts DEF LocksOK
  <2> QED BY <2>1 DEF Init, MapOK
<1>3. work \in [Files -> Nat]
      BY DEF Init
<1> QED BY <1>1, <1>2, <1>3 DEF WorldOK

-----------------------------------------------------------------------------
\* What governs a path (Repo::governing).

Above(i, path) == IsPrefix(closemap[i].path, path)
Best(i, n, path) ==
    /\ i \in 1..n /\ Above(i, path)
    /\ \A j \in 1..n : Above(j, path) =>
          \/ Len(closemap[j].path) < Len(closemap[i].path)
          \/ Len(closemap[j].path) = Len(closemap[i].path) /\ j <= i

\* Some entry of the map governs each path,
LEMMA BestExists ==
    ASSUME MapOK, NEW n \in 1..Len(closemap), NEW path \in Paths
    PROVE  \E i \in 1..n : Best(i, n, path)
<1>1. /\ Len(path) \in Nat /\ Len(closemap) \in Nat
      /\ \A i \in 1..n : Len(closemap[i].path) \in Nat
  <2>1. closemap \in Seq([path : Paths, close : DOMAIN epoch]) /\ Len(closemap) \in Nat
        BY DEF MapOK
  <2>2. ASSUME NEW i \in 1..n PROVE Len(closemap[i].path) \in Nat
    <3>1. i \in 1..Len(closemap)
          BY <2>1
    <3>2. closemap[i] \in [path : Paths, close : DOMAIN epoch]
          BY <2>1, <3>1, ElementIn
    <3>3. closemap[i].path \in Seq(Names)
          BY <3>2, WalkFacts
    <3> QED BY <3>3
  <2>3. path \in Seq(Names)
        BY WalkFacts
  <2> QED BY <2>1, <2>2, <2>3
<1>2. 1 \in 1..n /\ Above(1, path)
  <2>1. path \in Seq(Names)
        BY WalkFacts
  <2>2. Len(<<>>) <= Len(path) /\ <<>> = SubSeq(path, 1, 0)
        BY <2>1
  <2> QED BY <2>2 DEF Above, IsPrefix, MapOK, Root
<1> DEFINE lens == {Len(closemap[i].path) : i \in {j \in 1..n : Above(j, path)}}
<1>3. lens \subseteq 0..Len(path)
      BY <1>1 DEF Above, IsPrefix
<1>4. lens # {}
      BY <1>2
<1>5. PICK most \in lens : \A l \in lens : l <= most
  <2> HIDE DEF lens
  <2> QED BY <1>1, <1>3, <1>4, GreatestElement
<1> DEFINE longest == {i \in 1..n : Above(i, path) /\ Len(closemap[i].path) = most}
<1>6. longest \subseteq 0..n /\ longest # {} /\ n \in Nat
      BY <1>1, <1>5
<1>7. PICK i \in longest : \A j \in longest : j <= i
  <2> HIDE DEF longest
  <2> QED BY <1>6, GreatestElement
<1>8. ASSUME NEW j \in 1..n, Above(j, path)
      PROVE  \/ Len(closemap[j].path) < Len(closemap[i].path)
             \/ Len(closemap[j].path) = Len(closemap[i].path) /\ j <= i
  <2>1. Len(closemap[j].path) <= most
        BY <1>5, <1>8
  <2>2. Len(closemap[j].path) = most => j <= i
        BY <1>7, <1>8
  <2> QED BY <1>1, <1>7, <2>1, <2>2
<1> QED BY <1>7, <1>8 DEF Best

\* only one does,
LEMMA BestIsOne ==
    ASSUME MapOK, NEW n \in 1..Len(closemap), NEW path \in Paths,
           NEW i, Best(i, n, path), NEW j, Best(j, n, path)
    PROVE  i = j
<1>1. \A k \in 1..n : Len(closemap[k].path) \in Int
  <2>1. closemap \in Seq([path : Paths, close : DOMAIN epoch]) /\ Len(closemap) \in Nat
        BY DEF MapOK
  <2>2. ASSUME NEW k \in 1..n PROVE Len(closemap[k].path) \in Int
    <3>1. k \in 1..Len(closemap)
          BY <2>1
    <3>2. closemap[k] \in [path : Paths, close : DOMAIN epoch]
          BY <2>1, <3>1, ElementIn
    <3>3. closemap[k].path \in Seq(Names)
          BY <3>2, WalkFacts
    <3> QED BY <3>3
  <2> QED BY <2>2
<1> QED BY <1>1 DEF Best

\* and it is the one that governing finds.
LEMMA GoverningIsBest ==
    ASSUME MapOK, NEW n \in 1..Len(closemap), NEW path \in Paths
    PROVE  \E i \in 1..n : Best(i, n, path) /\ GoverningAt(n, path) = closemap[i].close
<1>1. PICK i \in 1..n : Best(i, n, path)
      BY BestExists
<1> DEFINE above == {k \in 1..n : IsPrefix(closemap[k].path, path)}
           P(k) == \A j \in above :
                       \/ Len(closemap[j].path) < Len(closemap[k].path)
                       \/ Len(closemap[j].path) = Len(closemap[k].path) /\ j <= k
           best == CHOOSE k \in above : P(k)
<1>2. i \in above /\ P(i)
      BY <1>1 DEF Best, Above
<1>3. best \in above /\ P(best)
  <2> HIDE DEF above, P
  <2> QED BY <1>2
<1>4. Best(best, n, path)
  <2> HIDE DEF best
  <2> QED BY <1>3 DEF Best, Above
<1>5. GoverningAt(n, path) = closemap[best].close
      BY DEF GoverningAt
<1>6. best = i
  <2> HIDE DEF best
  <2> QED BY <1>1, <1>4, BestIsOne
<1> HIDE DEF best
<1> QED BY <1>1, <1>5, <1>6

\* It is a close that was founded, and what it was stays what it was.
GovernedByBest ==
    \A n \in 1..Len(closemap), path \in Paths :
        \E i \in 1..n : Best(i, n, path) /\ GoverningAt(n, path) = closemap[i].close

\* The same of the state after a step.
LEMMA GovernedAfter == MapOK' => GovernedByBest'
<1>1. MapOK => GovernedByBest
      BY GoverningIsBest DEF GovernedByBest
<1> QED BY <1>1, PTL

\* What governs a path is a founded close.
LEMMA GoverningFounded ==
    ASSUME MapOK, NEW n \in 1..Len(closemap), NEW path \in Paths
    PROVE  GoverningAt(n, path) \in DOMAIN epoch
<1>1. closemap \in Seq([path : Paths, close : DOMAIN epoch]) /\ Len(closemap) \in Nat
      BY DEF MapOK
<1>2. PICK i \in 1..n : GoverningAt(n, path) = closemap[i].close
      BY GoverningIsBest
<1>3. i \in 1..Len(closemap)
      BY <1>1
<1>4. closemap[i] \in [path : Paths, close : DOMAIN epoch]
      BY <1>1, <1>3, ElementIn
<1> QED BY <1>2, <1>4

\* A close whose record can be loaded was founded.
LEMMA LoadsFounded ==
    ASSUME WorldOK, NEW c, Loads(c)
    PROVE  c \in DOMAIN epoch
<1>1. MapOK /\ Len(closemap) \in 1..Len(closemap)
      BY DEF WorldOK, MapOK
<1>2. PICK path \in Paths : Governing(path) = c
      BY DEF Loads
<1> QED BY <1>1, <1>2, GoverningFounded DEF Governing

-----------------------------------------------------------------------------
\* What the steps do to the folder and its locks.

\* Only these steps change it.
Quiet == UNCHANGED <<work, locks>>

\* A step that leaves the world alone keeps it.
LEMMA QuietWorld ==
    ASSUME WorldOK, Quiet
    PROVE  WorldOK' /\ Grown
<1>1. \A c \in DOMAIN epoch : epoch[c] \in Nat /\ \A p \in People, lane \in Lanes : reach[c][p][lane] \in Int
      BY DEF WorldOK, LocksOK
<1>2. Len(closemap) \in Nat /\ \A f \in Files : work[f] \in Nat
      BY DEF WorldOK, MapOK
<1>3. Grown
      BY <1>1, <1>2 DEF Grown, Quiet, locks
<1> QED BY <1>3 DEF WorldOK, LocksOK, MapOK, Quiet, locks

\* Nor does it take anything back where none of it changed.
LEMMA UnchangedGrown ==
    ASSUME WorldOK, UNCHANGED <<work, closemap, epoch, reach>>
    PROVE  Grown
<1>1. \A c \in DOMAIN epoch : epoch[c] \in Nat /\ \A p \in People, lane \in Lanes : reach[c][p][lane] \in Int
      BY DEF WorldOK, LocksOK
<1>2. Len(closemap) \in Nat /\ \A f \in Files : work[f] \in Nat
      BY DEF WorldOK, MapOK
<1> QED BY <1>1, <1>2 DEF Grown

\* So does one that founds a close and leaves the map alone.
LEMMA MapStays ==
    ASSUME MapOK, closemap' = closemap, DOMAIN epoch \subseteq DOMAIN epoch'
    PROVE  /\ MapOK' /\ Len(closemap) <= Len(closemap')
           /\ \A i \in 1..Len(closemap) : closemap'[i] = closemap[i]
<1>1. closemap \in Seq([path : Paths, close : DOMAIN epoch'])
  <2>1. [path : Paths, close : DOMAIN epoch] \subseteq [path : Paths, close : DOMAIN epoch']
        OBVIOUS
  <2> QED BY <2>1, SeqMono DEF MapOK
<1> QED BY <1>1 DEF MapOK

\* An edit of a file keeps the world, and takes nothing back.
LEMMA EditWorld ==
    ASSUME WorldOK, NEW f \in Files, Edit(f)
    PROVE  WorldOK' /\ Grown
<1>1. \A c \in DOMAIN epoch : epoch[c] \in Nat /\ \A p \in People, lane \in Lanes : reach[c][p][lane] \in Int
      BY DEF WorldOK, LocksOK
<1>2. work' \in [Files -> Nat] /\ \A g \in Files : work[g] <= work'[g]
      BY DEF WorldOK, Edit
<1>3. LocksOK'
      BY DEF WorldOK, LocksOK, Edit, locks
<1>4. MapOK' /\ Len(closemap) <= Len(closemap') /\ \A i \in 1..Len(closemap) : closemap'[i] = closemap[i]
      BY MapStays DEF WorldOK, Edit, locks
<1> QED BY <1>1, <1>2, <1>3, <1>4 DEF WorldOK, Grown, Edit, locks

\* So does protect,
LEMMA ProtectWorld ==
    ASSUME WorldOK, NEW me \in People, NEW c \in Drawers, Protect(me, c)
    PROVE  WorldOK' /\ Grown
<1> DEFINE given == [p \in People |-> [lane \in Lanes |-> IF p = me THEN 0 ELSE -1]]
<1>1. /\ c \notin DOMAIN epoch
      /\ epoch' = Set(epoch, c, 0) /\ reach' = Set(reach, c, given)
      /\ founding' = c /\ torn' = torn \cup {Map}
      /\ UNCHANGED <<work, closemap, rotation>>
      BY DEF Protect
<1>2. /\ DOMAIN epoch' = DOMAIN epoch \cup {c} /\ epoch'[c] = 0
      /\ \A d \in DOMAIN epoch : epoch'[d] = epoch[d]
      BY <1>1 DEF Set
<1>3. DOMAIN reach = DOMAIN epoch
      BY DEF WorldOK, LocksOK
<1>4. /\ reach' = [d \in DOMAIN epoch \cup {c} |-> IF d = c THEN given ELSE reach[d]]
      BY <1>1, <1>3 DEF Set
<1>5. given \in [People -> [Lanes -> Int]]
      OBVIOUS
<1>6. LocksOK'
  <2>1. DOMAIN epoch' \subseteq Closes /\ Commons \in DOMAIN epoch'
        BY <1>2 DEF WorldOK, LocksOK, Closes
  <2> HIDE DEF given
  <2>2. reach' \in [DOMAIN epoch' -> [People -> [Lanes -> Int]]]
        BY <1>2, <1>4, <1>5 DEF WorldOK, LocksOK
  <2>3. ASSUME NEW d \in DOMAIN epoch'
        PROVE  /\ epoch'[d] \in Nat
               /\ \A p \in People :
                     /\ \A lane \in Lanes : reach'[d][p][lane] \in -1..epoch'[d]
                     /\ reach'[d][p][Content] <= reach'[d][p][Shape]
    <3>1. CASE d = c
          BY <3>1, <1>2, <1>4 DEF given, Lanes, Shape, Content
    <3>2. CASE d \in DOMAIN epoch
          BY <3>2, <1>1, <1>2, <1>4 DEF WorldOK, LocksOK
    <3> QED BY <3>1, <3>2, <1>2
  <2>4. rotation' = None \/ rotation'.close \in DOMAIN epoch'
        BY <1>1, <1>2 DEF WorldOK, LocksOK
  <2>5. founding' \in DOMAIN epoch' \cap Drawers /\ torn' \subseteq DOMAIN epoch' \cup {Map}
        BY <1>1, <1>2 DEF WorldOK, LocksOK
  <2> QED BY <2>1, <2>2, <2>3, <2>4, <2>5 DEF LocksOK
<1>7. MapOK' /\ Len(closemap) <= Len(closemap') /\ \A i \in 1..Len(closemap) : closemap'[i] = closemap[i]
      BY <1>1, <1>2, MapStays DEF WorldOK
<1>8. \A d \in DOMAIN epoch : epoch[d] \in Nat /\ reach'[d] = reach[d]
                              /\ \A p \in People, lane \in Lanes : reach[d][p][lane] \in Int
  <2> HIDE DEF given
  <2>1. \A d \in DOMAIN epoch : reach'[d] = reach[d]
        BY <1>1, <1>4
  <2>2. reach \in [DOMAIN epoch -> [People -> [Lanes -> Int]]] /\ \A d \in DOMAIN epoch : epoch[d] \in Nat
        BY DEF WorldOK, LocksOK
  <2>3. \A d \in DOMAIN epoch : \A p \in People, lane \in Lanes : reach[d][p][lane] \in Int
        BY <2>2
  <2> QED BY <2>1, <2>2, <2>3
<1>9. \A f \in Files : work[f] <= work'[f]
      BY <1>1 DEF WorldOK
<1>10. Grown
  <2>1. \A d \in DOMAIN epoch : epoch[d] <= epoch'[d] /\ \A p \in People, lane \in Lanes : reach[d][p][lane] <= reach'[d][p][lane]
        BY <1>2, <1>8
  <2> QED BY <1>2, <1>7, <2>1, <1>9 DEF Grown
<1> QED BY <1>6, <1>7, <1>10, <1>1 DEF WorldOK

\* so does the map it then writes,
LEMMA RegisterWorld ==
    ASSUME WorldOK, Register
    PROVE  WorldOK' /\ Grown
<1> DEFINE E == [path : Paths, close : DOMAIN epoch]
           entry == [path |-> DrawerPath[founding], close |-> founding]
<1>1. /\ founding \in DOMAIN epoch /\ founding \in Drawers
      /\ closemap' = Append(closemap, entry)
      /\ torn' = torn \ {Map} /\ founding' = None
      /\ UNCHANGED <<work, epoch, reach, rotation>>
      BY DEF Register, WorldOK, LocksOK
<1>2. closemap \in Seq(E) /\ Len(closemap) \in Nat
      BY DEF WorldOK, MapOK
<1>3. entry \in E
  <2>1. DrawerPath[founding] \in Paths
        BY <1>1, SnapshotAssumption
  <2> QED BY <1>1, <2>1
<1> HIDE DEF E, entry
<1>4. closemap' \in Seq(E) /\ Len(closemap') = Len(closemap) + 1
      BY <1>1, <1>2, <1>3
<1>5. \A i \in 1..Len(closemap) : closemap'[i] = closemap[i]
      BY <1>1, <1>2, <1>3, GrownByAppend
<1>6. MapOK'
      BY <1>1, <1>2, <1>4, <1>5 DEF WorldOK, MapOK, E
<1>7. LocksOK'
      BY <1>1 DEF WorldOK, LocksOK
<1>8. \A d \in DOMAIN epoch : epoch[d] \in Nat /\ \A p \in People, lane \in Lanes : reach[d][p][lane] \in Int
      BY DEF WorldOK, LocksOK
<1>9. \A f \in Files : work[f] \in Nat
      BY DEF WorldOK
<1>10. Grown
      BY <1>1, <1>2, <1>4, <1>5, <1>8, <1>9 DEF Grown
<1> QED BY <1>1, <1>6, <1>7, <1>10 DEF WorldOK

\* so does share,
LEMMA ShareWorld ==
    ASSUME WorldOK, NEW me \in People, NEW with \in People, NEW c \in Closes,
           NEW facet \in ShareFacets, NEW e, Share(me, c, with, facet, e)
    PROVE  WorldOK' /\ Grown
<1> DEFINE lifted == [lane \in Lanes |->
                        IF lane <= facet /\ reach[c][with][lane] < e THEN e ELSE reach[c][with][lane]]
<1>1. /\ c \in DOMAIN epoch /\ e \in 0..reach[c][me][facet]
      /\ reach' = [reach EXCEPT ![c][with] = lifted]
      /\ UNCHANGED <<work, closemap, epoch, torn, founding, rotation>>
      BY LoadsFounded DEF Share
<1>2. /\ reach \in [DOMAIN epoch -> [People -> [Lanes -> Int]]]
      /\ facet \in Lanes
      BY SnapshotAssumption DEF WorldOK, LocksOK
<1>3. \A d \in DOMAIN epoch : \A p \in People :
          /\ epoch[d] \in Nat
          /\ reach[d][p][Shape] \in -1..epoch[d] /\ reach[d][p][Content] \in -1..epoch[d]
          /\ reach[d][p][Content] <= reach[d][p][Shape]
      BY DEF WorldOK, LocksOK, Lanes
<1>4. /\ lifted \in [Lanes -> Int]
      /\ lifted[Shape] \in reach[c][with][Shape]..epoch[c]
      /\ lifted[Content] \in reach[c][with][Content]..epoch[c]
      /\ lifted[Content] <= lifted[Shape]
  <2>1. reach[c][me][facet] \in -1..epoch[c] /\ facet \in {1, 2}
        BY <1>1, <1>2, <1>3 DEF Lanes, Shape, Content
  <2>2. e \in Int /\ e <= epoch[c] /\ epoch[c] \in Nat
        BY <1>1, <1>3, <2>1
  <2>3. /\ reach[c][with][1] \in Int /\ reach[c][with][2] \in Int
        /\ reach[c][with][1] \in -1..epoch[c] /\ reach[c][with][2] \in -1..epoch[c]
        /\ reach[c][with][2] <= reach[c][with][1]
        BY <1>1, <1>3 DEF Shape, Content
  <2>4. lifted \in [Lanes -> Int]
        BY <2>2, <2>3 DEF Lanes, Shape, Content
  <2>5. /\ lifted[1] = IF 1 <= facet /\ reach[c][with][1] < e THEN e ELSE reach[c][with][1]
        /\ lifted[2] = IF 2 <= facet /\ reach[c][with][2] < e THEN e ELSE reach[c][with][2]
        BY DEF Lanes, Shape, Content
  <2> HIDE DEF lifted
  <2> QED BY <2>1, <2>2, <2>3, <2>4, <2>5 DEF Shape, Content
<1> HIDE DEF lifted
<1>5. /\ reach' \in [DOMAIN epoch -> [People -> [Lanes -> Int]]]
      /\ reach'[c][with] = lifted
      /\ \A d \in DOMAIN epoch : \A p \in People : d # c \/ p # with => reach'[d][p] = reach[d][p]
      BY <1>1, <1>2, <1>4
<1>6. ASSUME NEW d \in DOMAIN epoch, NEW p \in People
      PROVE  /\ reach'[d][p][Shape] \in reach[d][p][Shape]..epoch[d]
             /\ reach'[d][p][Content] \in reach[d][p][Content]..epoch[d]
             /\ reach'[d][p][Content] <= reach'[d][p][Shape]
  <2>1. CASE d = c /\ p = with
        BY <2>1, <1>4, <1>5
  <2>2. CASE d # c \/ p # with
        BY <2>2, <1>3, <1>5
  <2> QED BY <2>1, <2>2
<1>7. LocksOK'
  <2>1. \A d \in DOMAIN epoch : \A p \in People :
            /\ \A lane \in Lanes : reach'[d][p][lane] \in -1..epoch[d]
            /\ reach'[d][p][Content] <= reach'[d][p][Shape]
        BY <1>3, <1>6 DEF Lanes
  <2> QED BY <2>1, <1>1, <1>5 DEF WorldOK, LocksOK
<1>8. MapOK' /\ Len(closemap) <= Len(closemap') /\ \A i \in 1..Len(closemap) : closemap'[i] = closemap[i]
      BY <1>1, MapStays DEF WorldOK
<1>9. \A d \in DOMAIN epoch : \A p \in People, lane \in Lanes : reach[d][p][lane] <= reach'[d][p][lane]
      BY <1>3, <1>6 DEF Lanes
<1>10. \A f \in Files : work[f] \in Nat
      BY DEF WorldOK
<1> QED BY <1>1, <1>3, <1>7, <1>8, <1>9, <1>10 DEF WorldOK, Grown

\* so does a rotation that empties the record,
LEMMA ChangeLockWorld ==
    ASSUME WorldOK, NEW c \in Closes, NEW except, ChangeLock(c, except)
    PROVE  WorldOK' /\ Grown
<1>1. /\ c \in DOMAIN epoch /\ torn' = torn \cup {c}
      /\ rotation'.close = c
      /\ UNCHANGED <<work, closemap, epoch, reach, founding>>
      BY LoadsFounded DEF ChangeLock
<1>2. LocksOK'
      BY <1>1 DEF WorldOK, LocksOK
<1>3. MapOK' /\ work' \in [Files -> Nat]
      BY <1>1 DEF WorldOK, MapOK
<1>4. Grown
      BY <1>1, UnchangedGrown
<1> QED BY <1>2, <1>3, <1>4 DEF WorldOK

\* and saves it with the new lock,
LEMMA SaveCloseWorld ==
    ASSUME WorldOK, SaveClose
    PROVE  WorldOK' /\ Grown
<1> DEFINE c == rotation.close
<1>1. /\ c \in DOMAIN epoch /\ epoch' = [epoch EXCEPT ![c] = @ + 1]
      /\ torn' = torn \ {c} /\ rotation'.close = c
      /\ UNCHANGED <<work, closemap, reach, founding>>
      BY DEF SaveClose, WorldOK, LocksOK
<1> HIDE DEF c
<1>2. /\ DOMAIN epoch' = DOMAIN epoch /\ epoch'[c] = epoch[c] + 1
      /\ \A d \in DOMAIN epoch : d # c => epoch'[d] = epoch[d]
      BY <1>1
<1>3. \A d \in DOMAIN epoch : epoch[d] \in Nat /\ epoch'[d] \in Nat /\ epoch[d] <= epoch'[d]
      BY <1>2 DEF WorldOK, LocksOK
<1>4. \A d \in DOMAIN epoch : \A p \in People :
          /\ \A lane \in Lanes : reach[d][p][lane] \in -1..epoch[d]
          /\ reach[d][p][Content] <= reach[d][p][Shape]
      BY DEF WorldOK, LocksOK
<1>5. \A d \in DOMAIN epoch : \A p \in People : \A lane \in Lanes :
          reach[d][p][lane] \in Int /\ reach[d][p][lane] \in -1..epoch'[d]
      BY <1>3, <1>4
<1>6. LocksOK'
      BY <1>1, <1>2, <1>3, <1>4, <1>5 DEF WorldOK, LocksOK
<1>7. MapOK' /\ Len(closemap) <= Len(closemap') /\ \A i \in 1..Len(closemap) : closemap'[i] = closemap[i]
      BY <1>1, <1>2, MapStays DEF WorldOK
<1>8. \A f \in Files : work[f] \in Nat
      BY DEF WorldOK
<1> QED BY <1>1, <1>2, <1>3, <1>5, <1>6, <1>7, <1>8 DEF WorldOK, Grown

\* and so do the grants re-issued after it.
LEMMA ReissueWorld ==
    ASSUME WorldOK, Reissue
    PROVE  WorldOK' /\ Grown
<1> DEFINE c == rotation.close
           anew == [p \in People |-> [lane \in Lanes |->
                      IF p \in rotation.keepers /\ reach[c][p][lane] >= 0 THEN epoch[c] ELSE reach[c][p][lane]]]
<1>1. /\ c \in DOMAIN epoch
      /\ reach' = [reach EXCEPT ![c] = anew] /\ rotation' = None
      /\ UNCHANGED <<work, closemap, epoch, torn, founding>>
      BY DEF Reissue, WorldOK, LocksOK
<1>2. reach \in [DOMAIN epoch -> [People -> [Lanes -> Int]]]
      BY DEF WorldOK, LocksOK
<1>3. \A d \in DOMAIN epoch : \A p \in People :
          /\ epoch[d] \in Nat
          /\ \A lane \in Lanes : reach[d][p][lane] \in -1..epoch[d]
          /\ reach[d][p][Content] <= reach[d][p][Shape]
      BY DEF WorldOK, LocksOK
<1>4. /\ anew \in [People -> [Lanes -> Int]]
      /\ \A p \in People :
            /\ \A lane \in Lanes : anew[p][lane] \in reach[c][p][lane]..epoch[c]
            /\ anew[p][Content] <= anew[p][Shape]
  <2> HIDE DEF c
  <2>1. ASSUME NEW p \in People, NEW lane \in Lanes
        PROVE  /\ anew[p][lane] = IF p \in rotation.keepers /\ reach[c][p][lane] >= 0 THEN epoch[c] ELSE reach[c][p][lane]
               /\ reach[c][p][lane] \in Int /\ reach[c][p][lane] \in -1..epoch[c] /\ epoch[c] \in Nat
        BY <1>1, <1>3
  <2>2. anew \in [People -> [Lanes -> Int]]
        BY <2>1
  <2> HIDE DEF anew
  <2>3. ASSUME NEW p \in People, NEW lane \in Lanes
        PROVE  anew[p][lane] \in reach[c][p][lane]..epoch[c]
        BY <2>1
  <2>4. ASSUME NEW p \in People
        PROVE  anew[p][Content] <= anew[p][Shape]
        BY <1>1, <1>3, <2>1 DEF Lanes
  <2> QED BY <2>2, <2>3, <2>4
<1> HIDE DEF anew, c
<1>5. /\ reach' \in [DOMAIN epoch -> [People -> [Lanes -> Int]]]
      /\ reach'[c] = anew
      /\ \A d \in DOMAIN epoch : d # c => reach'[d] = reach[d]
      BY <1>1, <1>2, <1>4
<1>6. ASSUME NEW d \in DOMAIN epoch, NEW p \in People
      PROVE  /\ \A lane \in Lanes : reach'[d][p][lane] \in reach[d][p][lane]..epoch[d]
             /\ reach'[d][p][Content] <= reach'[d][p][Shape]
  <2>1. CASE d = c
        BY <2>1, <1>4, <1>5
  <2>2. CASE d # c
        BY <2>2, <1>3, <1>5
  <2> QED BY <2>1, <2>2
<1>7. \A d \in DOMAIN epoch : \A p \in People, lane \in Lanes :
          reach[d][p][lane] <= reach'[d][p][lane] /\ reach'[d][p][lane] \in -1..epoch[d]
      BY <1>3, <1>6
<1>8. LocksOK'
      BY <1>1, <1>3, <1>5, <1>6, <1>7 DEF WorldOK, LocksOK
<1>9. MapOK' /\ Len(closemap) <= Len(closemap') /\ \A i \in 1..Len(closemap) : closemap'[i] = closemap[i]
      BY <1>1, MapStays DEF WorldOK
<1>10. \A f \in Files : work[f] \in Nat
      BY DEF WorldOK
<1>11. \A d \in DOMAIN epoch : epoch[d] <= epoch'[d]
  <2>1. \A d \in DOMAIN epoch : epoch[d] \in Nat
        BY DEF WorldOK, LocksOK
  <2> QED BY <1>1, <2>1
<1>12. \A f \in Files : work[f] <= work'[f]
      BY <1>1, <1>10
<1>13. Grown
      BY <1>1, <1>7, <1>9, <1>11, <1>12 DEF Grown
<1> QED BY <1>1, <1>8, <1>9, <1>13 DEF WorldOK

\* A step of a keep leaves all of it alone.
KeepStep ==
    \/ \E t \in Terminals, who \in People : Keep(t, who)
    \/ \E t \in Terminals : Step(t) \/ Kill(t)

\* The steps: those of a keep, and those of the rest of the folder.
LEMMA NextIs ==
    ASSUME Next
    PROVE  \/ KeepStep
           \/ \E f \in Files : Edit(f)
           \/ \E me \in People, c \in Drawers : Protect(me, c)
           \/ Register
           \/ \E me, with \in People, c \in Closes, facet \in ShareFacets, e \in 0..Most("changes") :
                 Share(me, c, with, facet, e)
           \/ \E c \in Closes, except \in SUBSET (People \ {Founder}) : ChangeLock(c, except)
           \/ SaveClose
           \/ Reissue
           \/ KillProtect
           \/ KillRotation
BY DEF Next, KeepStep, Step

\* The others leave the keeps and the store alone.
LEMMA OthersLeave ==
    ASSUME [Next]_vars, ~ KeepStep
    PROVE  UNCHANGED <<keep, objects, drafts, main, named, cut, contested>> /\ (killed => killed')
<1>1. CASE \E f \in Files : Edit(f)
      BY <1>1 DEF Edit, files, history
<1>2. CASE \E me \in People, c \in Drawers : Protect(me, c)
      BY <1>2 DEF Protect, files, history
<1>3. CASE \E me, with \in People, c \in Closes, facet \in ShareFacets, e \in 0..Most("changes") :
               Share(me, c, with, facet, e)
      BY <1>3 DEF Share, files, history
<1>4. CASE \E c \in Closes, except \in SUBSET (People \ {Founder}) : ChangeLock(c, except)
      BY <1>4 DEF ChangeLock, files, history
<1>5. CASE Reissue
      BY <1>5 DEF Reissue, files, history
<1>6. CASE KillRotation
      BY <1>6 DEF KillRotation, files
<1>7. CASE UNCHANGED vars
      BY <1>7 DEF vars
<1>8. CASE Register
      BY <1>8 DEF Register, files, history
<1>9. CASE SaveClose
      BY <1>9 DEF SaveClose, files, history
<1>10. CASE KillProtect
      BY <1>10 DEF KillProtect, files
<1> QED BY <1>1, <1>2, <1>3, <1>4, <1>5, <1>6, <1>7, <1>8, <1>9, <1>10, NextIs

\* No step takes anything of the world back.
LEMMA WorldNext ==
    ASSUME WorldOK, [Next]_vars
    PROVE  WorldOK' /\ Grown
<1>1. CASE KeepStep
      BY <1>1, QuietWorld
      DEF KeepStep, Step, Quiet, Keep, Enter, Look, Refuse, Seal, Open, Fill, MoveIn, Fail, Empty, Name, Kill
<1>2. CASE KillRotation \/ KillProtect
  <2>1. /\ UNCHANGED <<work, closemap, epoch, reach, torn>>
        /\ rotation' \in {None, rotation} /\ founding' \in {None, founding}
        BY <1>2 DEF KillRotation, KillProtect
  <2>2. WorldOK'
        BY <2>1 DEF WorldOK, LocksOK, MapOK
  <2> QED BY <2>1, <2>2, UnchangedGrown
<1>3. CASE UNCHANGED vars
      BY <1>3, QuietWorld DEF vars, Quiet, locks
<1>4. CASE \E f \in Files : Edit(f)
      BY <1>4, EditWorld
<1>5. CASE \E me \in People, c \in Drawers : Protect(me, c)
      BY <1>5, ProtectWorld
<1>6. CASE \E me, with \in People, c \in Closes, facet \in ShareFacets, e \in 0..Most("changes") :
               Share(me, c, with, facet, e)
      BY <1>6, ShareWorld
<1>7. CASE \E c \in Closes, except \in SUBSET (People \ {Founder}) : ChangeLock(c, except)
      BY <1>7, ChangeLockWorld
<1>8. CASE Reissue
      BY <1>8, ReissueWorld
<1>9. CASE Register
      BY <1>9, RegisterWorld
<1>10. CASE SaveClose
      BY <1>10, SaveCloseWorld
<1> QED BY <1>1, <1>2, <1>3, <1>4, <1>5, <1>6, <1>7, <1>8, <1>9, <1>10, NextIs

\* What governed at a length of the map still does at that length.
LEMMA GoverningStays ==
    ASSUME WorldOK, WorldOK', Grown, NEW n \in 1..Len(closemap), NEW path \in Paths
    PROVE  GoverningAt(n, path)' = GoverningAt(n, path)
<1>1. /\ MapOK /\ MapOK' /\ Len(closemap) \in Nat /\ Len(closemap') \in Nat
      /\ Len(closemap) <= Len(closemap')
      /\ \A i \in 1..Len(closemap) : closemap'[i] = closemap[i]
      BY DEF WorldOK, MapOK, Grown
<1>2. GovernedByBest'
      BY <1>1, GovernedAfter
<1>3. n \in 1..Len(closemap')
      BY <1>1
<1>4. PICK i \in 1..n : Best(i, n, path)' /\ GoverningAt(n, path)' = closemap'[i].close
      BY <1>2, <1>3 DEF GovernedByBest
<1>5. PICK j \in 1..n : Best(j, n, path) /\ GoverningAt(n, path) = closemap[j].close
      BY <1>1, GoverningIsBest
<1>6. \A k \in 1..n : closemap'[k] = closemap[k]
      BY <1>1
<1>7. Best(i, n, path)
      BY <1>4, <1>6 DEF Best, Above
<1>8. i = j
      BY <1>1, <1>5, <1>7, BestIsOne
<1> QED BY <1>4, <1>5, <1>6, <1>8

-----------------------------------------------------------------------------
\* What a keep has read and made so far.

Fields == {"phase", "who", "at", "under", "made", "close", "epoch", "object", "moved", "alone", "began"}
InHand == {"missing", "opened", "filled"}
Sealing == {"looked"} \cup InHand
AtEnd == {"stored", "naming"}

\* The paths entered, or sealed, before the n-th item.
Done(what, n) == {Walk[i].path : i \in {j \in 1..(n - 1) : Walk[j].do = what}}

Walked(k) ==
    /\ DOMAIN k = Fields
    /\ k.phase \in {"walk"} \cup Sealing \cup AtEnd
    /\ k.who \in People /\ k.at \in 1..(Len(Walk) + 1)
    /\ k.phase \in AtEnd => k.at = Len(Walk) + 1
    /\ k.phase \in Sealing => Item(k).do # "enter"
    /\ DOMAIN k.under = Done("enter", k.at) /\ DOMAIN k.made = Done("snap", k.at)

\* When it began is not later than now.
BeganOK(k) ==
    /\ k.began.map \in 1..Len(closemap)
    /\ DOMAIN k.began.epoch \subseteq DOMAIN epoch
    /\ \A c \in DOMAIN k.began.epoch : k.began.epoch[c] \in 0..epoch[c]
    /\ \A f \in Files : k.began.work[f] \in 0..work[f]

\* c governed the path at some time since then; e was a lock it had.
Governed(k, path, c) == \E n \in k.began.map..Len(closemap) : c = GoverningAt(n, path)
LockOf(k, c, e) == c \in DOMAIN epoch /\ e \in EpochBefore(k, c)..epoch[c]

UnderOK(k) == \A dir \in DOMAIN k.under : Governed(k, dir, k.under[dir])

\* It can write what it is about to seal.
HomeOK(k) ==
    k.phase \in Sealing =>
        /\ IF Item(k).do = "commit" THEN k.close = Commons ELSE Governed(k, Item(k).path, k.close)
        /\ LockOf(k, k.close, k.epoch)
        /\ k.epoch <= reach[k.close][k.who][Content]

\* What an object has to be in order to be what a folder has at a path.
FitsAt(a, path) ==
    IF path \in Folders THEN a.kind = "tree" /\ DOMAIN a.body.entries = Children(path)
    ELSE a.kind = "blob"

\* An object that can be read back: by somebody, and all that it refers to is
\* in the store.
Readable(a) ==
    /\ a.close \in DOMAIN epoch /\ a.epoch \in 0..epoch[a.close]
    /\ \E p \in People : a.epoch <= reach[a.close][p][Content]
Refers(a) ==
    /\ a.kind \in {"blob", "tree", "commit"}
    /\ a.kind = "tree" => \A path \in DOMAIN a.body.entries :
          a.body.entries[path] \in DOMAIN objects /\ FitsAt(a.body.entries[path], path)
    /\ a.kind = "commit" =>
          /\ a.body.entries[Root] \in DOMAIN objects /\ FitsAt(a.body.entries[Root], Root)
          /\ \/ a.body.parents = <<>>
             \/ \E before \in DOMAIN objects : before.kind = "commit" /\ a.body.parents = <<before>>
Sound(a) == Readable(a) /\ Refers(a)

\* An object that k made for a path.
Makes(k, path, a) ==
    /\ FitsAt(a, path)
    /\ Governed(k, path, a.close) /\ LockOf(k, a.close, a.epoch)
    /\ path \in Files => a.body.text \in k.began.work[path]..work[path]
    /\ path \in Folders => \A p \in Children(path) : a.body.entries[p] = k.made[p]

MadeOK(k) == \A path \in DOMAIN k.made : k.made[path] \in DOMAIN objects /\ Makes(k, path, k.made[path])

CommitOf(k, a) == a.kind = "commit" /\ a.body.entries[Root] = k.made[Root]
HandOK(k) ==
    /\ k.phase \in InHand =>
          /\ Sound(k.object)
          /\ IF Item(k).do = "commit" THEN CommitOf(k, k.object) ELSE Makes(k, Item(k).path, k.object)
    /\ k.phase \in AtEnd => k.object \in DOMAIN objects /\ CommitOf(k, k.object)

KeepOK(k) == Walked(k) /\ BeganOK(k) /\ UnderOK(k) /\ HomeOK(k) /\ MadeOK(k) /\ HandOK(k)

KeepsOK ==
    /\ keep = [t \in Terminals |-> keep[t]]
    /\ \A t \in Terminals : keep[t] = Idle \/ KeepOK(keep[t])

-----------------------------------------------------------------------------
\* What is in the store.

StoreOK ==
    /\ \A a \in DOMAIN objects : objects[a] \in {"torn", "whole"} /\ Sound(a)
    /\ \A a \in DOMAIN drafts : drafts[a] \in {"torn", "whole"}
    /\ main = None \/ (main \in DOMAIN objects /\ main.kind = "commit")

\* Of an object that only one keep writes, a file is torn only while it does,
\* or after it was killed there, and is then not the object itself.
At(t, a, phases) == keep[t] # Idle /\ keep[t].phase \in phases /\ keep[t].object = a
WritersOK ==
    /\ \A t, u \in Terminals : \A a :
          At(t, a, {"opened", "filled"}) /\ At(u, a, {"opened", "filled"}) /\ t # u => a \in contested
    /\ \A t \in Terminals : \A a :
          /\ At(t, a, {"opened", "filled"}) /\ keep[t].moved => a \in contested
          /\ At(t, a, {"filled"}) /\ a \in DOMAIN drafts /\ drafts[a] = "torn" => a \in contested
    /\ \A a \in DOMAIN drafts : drafts[a] = "torn" =>
          killed \/ (\E t \in Terminals : At(t, a, {"opened"}) /\ ~ keep[t].moved)
    /\ \A a \in DOMAIN objects : objects[a] = "torn" =>
          /\ a \in contested
          /\ killed \/ (\E t \in Terminals : At(t, a, {"opened"}) /\ keep[t].moved)

\* What main has named.  While a keep is alone, nobody else names anything.
OnTop(a) == a.body.parents = IF named = None THEN <<>> ELSE <<named>>
Late(k) == (k.phase \in InHand /\ Item(k).do = "commit") \/ k.phase \in AtEnd
MainOK ==
    /\ main = None \/ main = named
    /\ main = None => named = None \/ cut \/ (\E t \in Busy : keep[t].phase = "naming")
    /\ \A t \in Busy : keep[t].alone =>
          Busy = {t} /\ (Late(keep[t]) => OnTop(keep[t].object) \/ cut)

SnapshotInv == WorldOK /\ KeepsOK /\ StoreOK /\ WritersOK /\ MainOK

-----------------------------------------------------------------------------
\* The walk goes through everything once, in order.

\* One more item of the walk is done.
LEMMA DoneNext ==
    ASSUME NEW n \in 1..Len(Walk), NEW what
    PROVE  Done(what, n + 1) = IF what = Walk[n].do THEN Done(what, n) \cup {Walk[n].path}
                               ELSE Done(what, n)
<1>1. Len(Walk) \in Nat
      BY WalkFacts
<1>2. {j \in 1..((n + 1) - 1) : Walk[j].do = what}
        = IF what = Walk[n].do THEN {j \in 1..(n - 1) : Walk[j].do = what} \cup {n}
          ELSE {j \in 1..(n - 1) : Walk[j].do = what}
  <2>1. 1..((n + 1) - 1) = (1..(n - 1)) \cup {n}
        BY <1>1
  <2> QED BY <2>1
<1> QED BY <1>2 DEF Done

\* A folder is sealed only after everything in it.
LEMMA DoneFacts ==
    ASSUME NEW n \in 1..(Len(Walk) + 1)
    PROVE  /\ Done("enter", n) \subseteq Folders /\ Done("snap", n) \subseteq Paths
           /\ Folders \subseteq Paths
           /\ \A path \in Done("snap", n) : Children(path) \subseteq Done("snap", n)
<1>1. Len(Walk) \in Nat /\ 1..(n - 1) \subseteq 1..Len(Walk)
      BY WalkFacts
<1>2. Done("enter", n) \subseteq Folders /\ Done("snap", n) \subseteq Paths
      BY <1>1 DEF Done, Folders, Paths
<1>3. ASSUME NEW path \in Done("snap", n), NEW p \in Children(path)
      PROVE  p \in Done("snap", n)
  <2>1. PICK i \in 1..(n - 1) : Walk[i].do = "snap" /\ path = Walk[i].path
        BY DEF Done
  <2>2. \E j \in 1..(i - 1) : Walk[j] = [do |-> "snap", path |-> p]
        BY <1>1, <2>1, SnapshotAssumption
  <2>3. PICK j \in 1..(i - 1) : Walk[j] = [do |-> "snap", path |-> p]
        BY <2>2
  <2>4. j \in 1..(n - 1) /\ Walk[j].do = "snap" /\ Walk[j].path = p
        BY <2>3
  <2> QED BY <2>4 DEF Done
<1> QED BY <1>2, <1>3, SnapshotAssumption

\* Where the walk is at a path to seal, it has entered it and sealed all that
\* is in it, but not the path itself.
LEMMA SnapFacts ==
    ASSUME NEW n \in 1..Len(Walk), Walk[n].do = "snap"
    PROVE  /\ Children(Walk[n].path) \subseteq Done("snap", n)
           /\ Walk[n].path \in Folders => Walk[n].path \in Done("enter", n)
           /\ Walk[n].path \notin Done("snap", n)
<1>0. Len(Walk) \in Nat
      BY WalkFacts
<1>1. ASSUME NEW p \in Children(Walk[n].path)
      PROVE  p \in Done("snap", n)
  <2>1. PICK j \in 1..(n - 1) : Walk[j] = [do |-> "snap", path |-> p]
        BY SnapshotAssumption
  <2>2. Walk[j].do = "snap" /\ Walk[j].path = p
        BY <2>1
  <2> QED BY <2>2 DEF Done
<1>2. ASSUME Walk[n].path \in Folders
      PROVE  Walk[n].path \in Done("enter", n)
  <2>1. PICK j \in 1..(n - 1) : Walk[j] = [do |-> "enter", path |-> Walk[n].path]
        BY <1>2, SnapshotAssumption
  <2>2. Walk[j].do = "enter" /\ Walk[j].path = Walk[n].path
        BY <2>1
  <2> QED BY <2>2 DEF Done
<1>3. ASSUME Walk[n].path \in Done("snap", n)
      PROVE  FALSE
  <2>1. PICK j \in 1..(n - 1) : Walk[j].do = "snap" /\ Walk[n].path = Walk[j].path
        BY <1>3 DEF Done
  <2>2. j \in 1..Len(Walk) /\ j # n
        BY <1>0
  <2>3. Walk[j] \in Item_ /\ Walk[n] \in Item_
        BY <2>2, WalkFacts, ElementIn
  <2>4. Walk[j] = Walk[n]
        BY <2>1, <2>3 DEF Item_
  <2> QED BY <2>2, <2>4, SnapshotAssumption
<1> QED BY <1>1, <1>2, <1>3

\* The item a keep is at: one of the walk, or the commit after it.
LEMMA ItemIs ==
    ASSUME NEW k, k.at \in 1..(Len(Walk) + 1)
    PROVE  /\ Item(k).do = "commit" => k.at = Len(Walk) + 1
           /\ Item(k).do # "commit" => k.at \in 1..Len(Walk) /\ Item(k) = Walk[k.at]
           /\ Item(k).do \in {"enter", "snap", "commit"}
           /\ Item(k).path \in Paths
<1>1. Len(Walk) \in Nat
      BY WalkFacts
<1>2. CASE k.at <= Len(Walk)
  <2>1. k.at \in 1..Len(Walk) /\ Item(k) = Walk[k.at]
        BY <1>1, <1>2 DEF Item
  <2>2. Walk[k.at].do \in {"enter", "snap"} /\ Walk[k.at].path \in Paths
        BY <2>1, WalkFacts
  <2> QED BY <2>1, <2>2
<1>3. CASE ~ (k.at <= Len(Walk))
  <2>1. k.at = Len(Walk) + 1 /\ Item(k) = [do |-> "commit", path |-> Root]
        BY <1>1, <1>3 DEF Item
  <2> QED BY <2>1, WalkFacts
<1> QED BY <1>2, <1>3

\* At the end of the walk the root is sealed.
LEMMA RootDone ==
    /\ Root \in Done("snap", Len(Walk) + 1)
    /\ Root \in Folders
<1>1. Len(Walk) \in Nat /\ Len(Walk) >= 1 /\ Root \in Folders
      BY WalkFacts
<1>2. Walk[Len(Walk)].do = "snap" /\ Walk[Len(Walk)].path = Root
      BY SnapshotAssumption
<1>3. Len(Walk) \in 1..((Len(Walk) + 1) - 1)
      BY <1>1
<1> QED BY <1>1, <1>2, <1>3 DEF Done

-----------------------------------------------------------------------------
\* Whatever a keep has, it keeps while the folder and the store grow.

\* What governed a path since a keep began, did so still later.
LEMMA GovernedStays ==
    ASSUME WorldOK, WorldOK', Grown, NEW k, BeganOK(k), NEW path \in Paths, NEW c,
           Governed(k, path, c)
    PROVE  Governed(k, path, c)'
<1>1. PICK n \in k.began.map..Len(closemap) : c = GoverningAt(n, path)
      BY DEF Governed
<1>2. n \in 1..Len(closemap) /\ n \in k.began.map..Len(closemap')
      BY DEF BeganOK, WorldOK, MapOK, Grown
<1>3. GoverningAt(n, path)' = GoverningAt(n, path)
      BY <1>2, GoverningStays
<1> QED BY <1>1, <1>2, <1>3 DEF Governed

\* So with the epoch of a lock that was read since then,
LEMMA LockOfStays ==
    ASSUME WorldOK, WorldOK', Grown, NEW k, BeganOK(k), NEW c, NEW e, LockOf(k, c, e)
    PROVE  LockOf(k, c, e)'
<1>1. c \in DOMAIN epoch /\ epoch[c] \in Nat /\ epoch[c] <= epoch'[c] /\ c \in DOMAIN epoch' /\ epoch'[c] \in Nat
      BY DEF LockOf, WorldOK, LocksOK, Grown
<1>2. EpochBefore(k, c) \in 0..epoch[c]
      BY <1>1 DEF EpochBefore, BeganOK
<1> QED BY <1>1, <1>2 DEF LockOf, EpochBefore

\* an object that somebody can open,
LEMMA ReadableStays ==
    ASSUME WorldOK, WorldOK', Grown, NEW a, Readable(a)
    PROVE  Readable(a)'
<1>1. /\ a.close \in DOMAIN epoch /\ a.close \in DOMAIN epoch' /\ epoch[a.close] \in Nat /\ epoch'[a.close] \in Nat
      /\ epoch[a.close] <= epoch'[a.close] /\ a.epoch \in 0..epoch[a.close]
      BY DEF Readable, WorldOK, LocksOK, Grown
<1>2. PICK p \in People : a.epoch <= reach[a.close][p][Content]
      BY DEF Readable
<1>3. Content \in Lanes
      BY DEF Lanes
<1>4. reach[a.close][p][Content] <= reach'[a.close][p][Content]
      BY <1>1, <1>3 DEF Grown
<1>5. reach[a.close][p][Content] \in Int
      BY <1>1, <1>3 DEF WorldOK, LocksOK
<1>6. reach'[a.close][p][Content] \in Int
      BY <1>1, <1>3 DEF WorldOK, LocksOK
<1> QED BY <1>1, <1>2, <1>4, <1>5, <1>6 DEF Readable

\* an object that refers to what is there,
LEMMA SoundStays ==
    ASSUME WorldOK, WorldOK', Grown, DOMAIN objects \subseteq DOMAIN objects', NEW a, Sound(a)
    PROVE  Sound(a)'
<1>1. Readable(a)'
      BY ReadableStays DEF Sound
<1>2. Refers(a)'
      BY DEF Sound, Refers, FitsAt
<1> QED BY <1>1, <1>2 DEF Sound

\* and an object that fits its path.
LEMMA MakesStays ==
    ASSUME WorldOK, WorldOK', Grown, NEW k, BeganOK(k), NEW path \in Paths, NEW a, Makes(k, path, a)
    PROVE  Makes(k, path, a)'
<1>1. Governed(k, path, a.close)' /\ LockOf(k, a.close, a.epoch)'
      BY GovernedStays, LockOfStays DEF Makes
<1>2. ASSUME path \in Files PROVE a.body.text \in k.began.work[path]..work'[path]
  <2>1. a.body.text \in k.began.work[path]..work[path] /\ k.began.work[path] \in 0..work[path]
        BY <1>2 DEF Makes, BeganOK
  <2>2. work[path] \in Nat /\ work'[path] \in Nat /\ work[path] <= work'[path]
        BY <1>2 DEF WorldOK, Grown
  <2> QED BY <2>1, <2>2
<1> QED BY <1>1, <1>2 DEF Makes, FitsAt

\* What a keep has in hand stays good while the folder moves on.
LEMMA KeepStays ==
    ASSUME WorldOK, WorldOK', Grown, DOMAIN objects \subseteq DOMAIN objects', NEW k, KeepOK(k)
    PROVE  KeepOK(k)'
<1>1. /\ Walked(k) /\ Len(Walk) \in Nat
      /\ DOMAIN k.under \subseteq Paths /\ DOMAIN k.made \subseteq Paths
      /\ Item(k).path \in Paths
      BY DoneFacts, ItemIs, WalkFacts DEF KeepOK, Walked
<1>2. BeganOK(k) /\ BeganOK(k)'
  <2>1. Len(closemap) \in Nat /\ Len(closemap') \in Nat /\ Len(closemap) <= Len(closemap')
        BY DEF WorldOK, MapOK, Grown
  <2>2. k.began.map \in 1..Len(closemap')
        BY <2>1 DEF KeepOK, BeganOK
  <2>3. ASSUME NEW c \in DOMAIN k.began.epoch PROVE c \in DOMAIN epoch' /\ k.began.epoch[c] \in 0..epoch'[c]
    <3>1. c \in DOMAIN epoch /\ k.began.epoch[c] \in 0..epoch[c]
          BY DEF KeepOK, BeganOK
    <3>2. c \in DOMAIN epoch' /\ epoch[c] <= epoch'[c] /\ epoch[c] \in Nat /\ epoch'[c] \in Nat
          BY <3>1 DEF Grown, WorldOK, LocksOK
    <3> QED BY <3>1, <3>2
  <2>4. ASSUME NEW f \in Files PROVE k.began.work[f] \in 0..work'[f]
    <3>1. k.began.work[f] \in 0..work[f]
          BY DEF KeepOK, BeganOK
    <3>2. work[f] \in Nat /\ work'[f] \in Nat /\ work[f] <= work'[f]
          BY DEF WorldOK, Grown
    <3> QED BY <3>1, <3>2
  <2> QED BY <2>2, <2>3, <2>4 DEF KeepOK, BeganOK
<1>3. UnderOK(k)'
      BY <1>1, <1>2, GovernedStays DEF KeepOK, UnderOK
<1>4. HomeOK(k)'
  <2> SUFFICES ASSUME k.phase \in Sealing
               PROVE  /\ IF Item(k).do = "commit" THEN k.close = Commons ELSE Governed(k, Item(k).path, k.close)'
                      /\ LockOf(k, k.close, k.epoch)'
                      /\ k.epoch <= reach'[k.close][k.who][Content]
      BY DEF HomeOK
  <2>1. /\ IF Item(k).do = "commit" THEN k.close = Commons ELSE Governed(k, Item(k).path, k.close)
        /\ LockOf(k, k.close, k.epoch)
        /\ k.epoch <= reach[k.close][k.who][Content]
        BY DEF KeepOK, HomeOK
  <2>2. LockOf(k, k.close, k.epoch)'
        BY <1>2, <2>1, LockOfStays
  <2>3. Item(k).do # "commit" => Governed(k, Item(k).path, k.close)'
        BY <1>1, <1>2, <2>1, GovernedStays
  <2>4. /\ k.close \in DOMAIN epoch /\ k.who \in People /\ Content \in Lanes
        /\ k.epoch \in Int
        BY <1>1, <1>2, <2>1 DEF LockOf, Walked, Lanes, EpochBefore, BeganOK
  <2>5. reach[k.close][k.who][Content] <= reach'[k.close][k.who][Content]
        BY <2>4 DEF Grown
  <2>6. reach[k.close][k.who][Content] \in Int
        BY <2>4 DEF WorldOK, LocksOK
  <2>7. k.close \in DOMAIN epoch'
        BY <2>4 DEF Grown
  <2>8. reach'[k.close][k.who][Content] \in Int
        BY <2>4, <2>7 DEF WorldOK, LocksOK
  <2> QED BY <2>1, <2>2, <2>3, <2>4, <2>5, <2>6, <2>8
<1>5. MadeOK(k)'
  <2> SUFFICES ASSUME NEW path \in DOMAIN k.made
               PROVE  k.made[path] \in DOMAIN objects' /\ Makes(k, path, k.made[path])'
      BY DEF MadeOK
  <2>1. k.made[path] \in DOMAIN objects /\ Makes(k, path, k.made[path])
        BY DEF KeepOK, MadeOK
  <2> QED BY <1>1, <1>2, <2>1, MakesStays
<1>6. HandOK(k)'
  <2>1. k.phase \in InHand => Sound(k.object)'
        BY SoundStays DEF KeepOK, HandOK
  <2>2. k.phase \in InHand /\ Item(k).do # "commit" => Makes(k, Item(k).path, k.object)'
        BY <1>1, <1>2, MakesStays DEF KeepOK, HandOK
  <2> QED BY <2>1, <2>2 DEF KeepOK, HandOK, CommitOf
<1> QED BY <1>1, <1>2, <1>3, <1>4, <1>5, <1>6 DEF KeepOK, Walked

-----------------------------------------------------------------------------
\* What each step makes of the keep that takes it.

Alike(k, l) ==
    /\ DOMAIN l = Fields
    /\ l.who = k.who /\ l.at = k.at /\ l.under = k.under /\ l.made = k.made
    /\ l.close = k.close /\ l.epoch = k.epoch /\ l.object = k.object /\ l.began = k.began

\* Two phases of a keep with the same in hand are as good as each other.
LEMMA AlikeOK ==
    ASSUME NEW k, KeepOK(k), NEW l, Alike(k, l),
           \/ l.phase = k.phase
           \/ k.phase \in InHand /\ l.phase \in InHand
           \/ k.phase \in AtEnd /\ l.phase \in AtEnd
    PROVE  KeepOK(l)
<1>1. Item(l) = Item(k)
      BY DEF Alike, Item
<1>2. Walked(l)
      BY <1>1 DEF KeepOK, Walked, Alike, InHand, Sealing, AtEnd
<1>3. BeganOK(l) /\ UnderOK(l)
      BY DEF KeepOK, BeganOK, UnderOK, Governed, Alike
<1>4. HomeOK(l)
      BY <1>1 DEF KeepOK, HomeOK, Governed, LockOf, EpochBefore, Alike, InHand, Sealing, AtEnd
<1>5. \A path, a : Makes(k, path, a) => Makes(l, path, a)
      BY DEF Makes, Governed, LockOf, EpochBefore, Alike
<1>6. MadeOK(l)
      BY <1>5 DEF KeepOK, MadeOK, Alike
<1>7. HandOK(l)
      BY <1>1, <1>5 DEF KeepOK, HandOK, CommitOf, Alike, InHand, AtEnd
<1> QED BY <1>2, <1>3, <1>4, <1>6, <1>7 DEF KeepOK

\* A keep has nothing in hand when it begins.
LEMMA BeginOK ==
    ASSUME WorldOK, NEW who \in People, NEW alone,
           NEW k, k = [phase |-> "walk", who |-> who, at |-> 1, under |-> <<>>, made |-> <<>>,
                       close |-> None, epoch |-> 0, object |-> None, moved |-> FALSE,
                       alone |-> alone,
                       began |-> [work |-> work, map |-> Len(closemap), epoch |-> epoch]]
    PROVE  KeepOK(k)
<1>1. /\ k.phase = "walk" /\ k.who = who /\ k.at = 1 /\ k.under = <<>> /\ k.made = <<>>
      /\ k.began.work = work /\ k.began.map = Len(closemap) /\ k.began.epoch = epoch
      /\ DOMAIN k = Fields
      BY DEF Fields
<1>2. DOMAIN k.under = {} /\ DOMAIN k.made = {}
      BY <1>1
<1>3. \A what : Done(what, 1) = {}
  <2>1. 1..(1 - 1) = {}
        OBVIOUS
  <2> QED BY <2>1 DEF Done
<1>4. Walked(k)
      BY <1>1, <1>2, <1>3, WalkFacts DEF Walked, Sealing, InHand, AtEnd
<1>5. BeganOK(k)
      BY <1>1 DEF BeganOK, WorldOK, LocksOK, MapOK
<1> QED BY <1>1, <1>2, <1>4, <1>5
    DEF KeepOK, UnderOK, HomeOK, MadeOK, HandOK, Sealing, InHand, AtEnd

\* Entering a folder notes the close that governs it.
LEMMA EnterOK ==
    ASSUME WorldOK, NEW k, KeepOK(k), k.phase = "walk", Item(k).do = "enter", NEW dir, dir = Item(k).path,
           NEW l, l = [k EXCEPT !.under = Set(@, dir, Governing(dir)), !.at = @ + 1]
    PROVE  KeepOK(l)
<1>1. DOMAIN k = Fields /\ k.at \in 1..(Len(Walk) + 1)
      BY DEF KeepOK, Walked
<1>2. /\ DOMAIN l = Fields /\ l.phase = k.phase /\ l.who = k.who /\ l.at = k.at + 1
      /\ l.under = Set(k.under, dir, Governing(dir))
      /\ l.made = k.made /\ l.close = k.close /\ l.epoch = k.epoch /\ l.object = k.object /\ l.began = k.began
      BY <1>1 DEF Fields
<1>3. k.at \in 1..Len(Walk) /\ Walk[k.at].do = "enter" /\ Walk[k.at].path = dir /\ dir \in Paths /\ Len(Walk) \in Nat
      BY <1>1, ItemIs, WalkFacts
<1>4. /\ Done("enter", l.at) = Done("enter", k.at) \cup {dir}
      /\ Done("snap", l.at) = Done("snap", k.at)
      BY <1>2, <1>3, DoneNext
<1>5. Walked(l)
      BY <1>2, <1>3, <1>4 DEF KeepOK, Walked, Sealing, InHand, AtEnd, Set
<1>6. BeganOK(l)
      BY <1>2 DEF KeepOK, BeganOK
<1>7. UnderOK(l)
  <2>1. ASSUME NEW d \in DOMAIN l.under PROVE Governed(l, d, l.under[d])
    <3>1. CASE d = dir
      <4>1. Len(closemap) \in l.began.map..Len(closemap)
            BY <1>6 DEF BeganOK, WorldOK, MapOK
      <4> QED BY <3>1, <4>1, <1>2 DEF Governed, Governing, Set
    <3>2. CASE d # dir
          BY <3>2, <1>2 DEF KeepOK, UnderOK, Governed, Set
    <3> QED BY <3>1, <3>2
  <2> QED BY <2>1 DEF UnderOK
<1>8. \A path, a : Makes(k, path, a) => Makes(l, path, a)
      BY <1>2 DEF Makes, Governed, LockOf, EpochBefore
<1>9. MadeOK(l)
      BY <1>2, <1>8 DEF KeepOK, MadeOK
<1> QED BY <1>2, <1>5, <1>6, <1>7, <1>9 DEF KeepOK, HomeOK, HandOK, Sealing, InHand, AtEnd

\* Before it seals, a keep looks at the lock of the close at hand.
LEMMA LookOK ==
    ASSUME WorldOK, NEW k, KeepOK(k), k.phase = "walk", Item(k).do # "enter", MayWrite(k),
           NEW l, l = [k EXCEPT !.phase = "looked", !.close = HomeOf(k), !.epoch = epoch[HomeOf(k)]]
    PROVE  KeepOK(l)
<1>1. DOMAIN k = Fields /\ k.at \in 1..(Len(Walk) + 1)
      BY DEF KeepOK, Walked
<1>2. /\ DOMAIN l = Fields /\ l.phase = "looked" /\ l.who = k.who /\ l.at = k.at
      /\ l.under = k.under /\ l.made = k.made
      /\ l.close = HomeOf(k) /\ l.epoch = epoch[HomeOf(k)] /\ l.began = k.began
      BY <1>1 DEF Fields
<1>3. Item(l) = Item(k)
      BY <1>2 DEF Item
<1>4. Walked(l)
      BY <1>2, <1>3 DEF KeepOK, Walked, Sealing, InHand, AtEnd
<1>5. BeganOK(l) /\ UnderOK(l)
      BY <1>2 DEF KeepOK, BeganOK, UnderOK, Governed
<1>6. HomeOK(l)
  <2>1. HomeOf(k) \in DOMAIN epoch /\ epoch[HomeOf(k)] \in Nat /\ epoch[HomeOf(k)] <= reach[HomeOf(k)][k.who][Content]
        BY DEF MayWrite, HasKey, WorldOK, LocksOK
  <2>2. EpochBefore(l, HomeOf(k)) \in 0..epoch[HomeOf(k)]
        BY <1>5, <2>1 DEF EpochBefore, BeganOK
  <2>3. LockOf(l, l.close, l.epoch)
        BY <1>2, <2>1, <2>2 DEF LockOf
  <2>4. ASSUME Item(k).do # "commit"
        PROVE  Governed(l, Item(k).path, HomeOf(k))
    <3>1. k.at \in 1..Len(Walk) /\ Walk[k.at] = Item(k) /\ Walk[k.at].do = "snap"
          BY <1>1, <2>4, ItemIs, WalkFacts
    <3>2. CASE Item(k).path \in Folders
      <4>1. Item(k).path \in DOMAIN k.under
            BY <3>1, <3>2, SnapFacts DEF KeepOK, Walked
      <4>2. HomeOf(k) = l.under[Item(k).path]
            BY <2>4, <3>2, <1>2 DEF HomeOf
      <4> QED BY <4>1, <4>2, <1>2, <1>5 DEF UnderOK
    <3>3. CASE Item(k).path \notin Folders
      <4>1. HomeOf(k) = GoverningAt(Len(closemap), Item(k).path)
            BY <2>4, <3>3 DEF HomeOf, Governing
      <4>2. Len(closemap) \in l.began.map..Len(closemap)
            BY <1>5 DEF BeganOK, WorldOK, MapOK
      <4> QED BY <4>1, <4>2 DEF Governed
    <3> QED BY <3>2, <3>3
  <2>5. Item(k).do = "commit" => HomeOf(k) = Commons
        BY DEF HomeOf
  <2> QED BY <1>2, <1>3, <2>1, <2>3, <2>4, <2>5 DEF HomeOK
<1>7. \A path, a : Makes(k, path, a) => Makes(l, path, a)
      BY <1>2 DEF Makes, Governed, LockOf, EpochBefore
<1>8. MadeOK(l)
      BY <1>2, <1>7 DEF KeepOK, MadeOK
<1>9. HandOK(l)
      BY <1>2 DEF HandOK, InHand, AtEnd
<1> QED BY <1>4, <1>5, <1>6, <1>8, <1>9 DEF KeepOK

\* What is sealed is sound, and what the walk wants at this point.
Wanted(k, a) == IF Item(k).do = "commit" THEN CommitOf(k, a) ELSE Makes(k, Item(k).path, a)

\* What it then seals can be opened by somebody, refers to what is there and
\* fits its path.
LEMMA ToSealOK ==
    ASSUME WorldOK, StoreOK, NEW k, KeepOK(k), k.phase = "looked", NEW a, a = ToSeal(k)
    PROVE  Sound(a) /\ Wanted(k, a)
<1>1. /\ k.at \in 1..(Len(Walk) + 1) /\ k.who \in People /\ Item(k).do # "enter"
      /\ DOMAIN k.made = Done("snap", k.at)
      /\ \A path \in DOMAIN k.made : k.made[path] \in DOMAIN objects /\ Makes(k, path, k.made[path])
      BY DEF KeepOK, Walked, MadeOK, Sealing
<1>2. /\ IF Item(k).do = "commit" THEN k.close = Commons ELSE Governed(k, Item(k).path, k.close)
      /\ LockOf(k, k.close, k.epoch)
      /\ k.epoch <= reach[k.close][k.who][Content]
      BY DEF KeepOK, HomeOK, Sealing
<1>3. a.close = k.close /\ a.epoch = k.epoch
      BY DEF ToSeal, Sealed
<1>4. Readable(a)
  <2>1. k.close \in DOMAIN epoch /\ epoch[k.close] \in Nat
        BY <1>2 DEF LockOf, WorldOK, LocksOK
  <2>2. EpochBefore(k, k.close) \in 0..epoch[k.close]
        BY <2>1 DEF EpochBefore, KeepOK, BeganOK
  <2>3. k.epoch \in 0..epoch[k.close]
        BY <1>2, <2>1, <2>2 DEF LockOf
  <2> QED BY <1>1, <1>2, <1>3, <2>1, <2>3 DEF Readable
<1>5. CASE Item(k).do = "commit"
  <2>1. a = Sealed("commit", k.close, k.epoch,
                   CommitBody(k.made[Root], IF main = None THEN <<>> ELSE <<main>>, k.who))
        BY <1>5 DEF ToSeal
  <2>2. /\ a.kind = "commit" /\ a.body.entries[Root] = k.made[Root]
        /\ a.body.parents = IF main = None THEN <<>> ELSE <<main>>
        BY <2>1 DEF Sealed, CommitBody
  <2>3. Root \in DOMAIN k.made
        BY <1>1, <1>5, ItemIs, RootDone
  <2>4. k.made[Root] \in DOMAIN objects /\ FitsAt(k.made[Root], Root)
        BY <1>1, <2>3 DEF Makes
  <2>5. a.body.parents = <<>> \/ \E before \in DOMAIN objects : before.kind = "commit" /\ a.body.parents = <<before>>
        BY <2>2 DEF StoreOK
  <2> HIDE DEF Item
  <2>6. Refers(a)
        BY <2>2, <2>4, <2>5 DEF Refers
  <2> QED BY <1>4, <1>5, <2>2, <2>6 DEF Sound, Wanted, CommitOf
<1>6. CASE Item(k).do # "commit"
  <2> DEFINE path == Item(k).path
  <2>1. k.at \in 1..Len(Walk) /\ Walk[k.at] = Item(k) /\ Walk[k.at].do = "snap" /\ path \in Paths
        BY <1>1, <1>6, ItemIs
  <2>2. CASE path \in Folders
    <3>1. a = Sealed("tree", k.close, k.epoch, TreeBody([p \in Children(path) |-> k.made[p]]))
          BY <1>6, <2>2 DEF ToSeal
    <3>2. a.kind = "tree" /\ a.body.entries = [p \in Children(path) |-> k.made[p]]
          BY <3>1 DEF Sealed, TreeBody
    <3>3. Children(path) \subseteq DOMAIN k.made
          BY <1>1, <2>1, SnapFacts
    <3>4. \A p \in Children(path) : k.made[p] \in DOMAIN objects /\ FitsAt(k.made[p], p)
          BY <1>1, <3>3 DEF Makes
    <3>5. DOMAIN a.body.entries = Children(path) /\ \A p \in Children(path) : a.body.entries[p] = k.made[p]
          BY <3>2
    <3>6. Refers(a)
          BY <3>2, <3>4, <3>5 DEF Refers
    <3>7. FitsAt(a, path)
          BY <2>2, <3>2, <3>5 DEF FitsAt
    <3>8. path \notin Files
          BY <2>2 DEF Files
    <3>9. Makes(k, path, a)
          BY <1>2, <1>3, <1>6, <3>5, <3>7, <3>8 DEF Makes
    <3> QED BY <1>4, <1>6, <3>6, <3>9 DEF Sound, Wanted
  <2>3. CASE path \notin Folders
    <3>1. a = Sealed("blob", k.close, k.epoch, BlobBody(work[path]))
          BY <1>6, <2>3 DEF ToSeal
    <3>2. a.kind = "blob" /\ a.body.text = work[path]
          BY <3>1 DEF Sealed, BlobBody
    <3>3. path \in Files
          BY <2>1, <2>3 DEF Files
    <3>4. work[path] \in k.began.work[path]..work[path]
          BY <3>3 DEF KeepOK, BeganOK, WorldOK
    <3>5. Refers(a) /\ FitsAt(a, path)
          BY <2>3, <3>2 DEF Refers, FitsAt
    <3>6. Makes(k, path, a)
          BY <1>2, <1>3, <1>6, <2>3, <3>2, <3>4, <3>5 DEF Makes
    <3> QED BY <1>4, <1>6, <3>5, <3>6 DEF Sound, Wanted
  <2> QED BY <2>2, <2>3
<1> QED BY <1>5, <1>6

\* An object that is not there yet is taken in hand.
LEMMA MissingOK ==
    ASSUME NEW k, KeepOK(k), k.phase = "looked", NEW a, Sound(a), Wanted(k, a),
           NEW l, l = [k EXCEPT !.phase = "missing", !.object = a]
    PROVE  KeepOK(l)
<1>1. DOMAIN k = Fields
      BY DEF KeepOK, Walked
<1>2. /\ DOMAIN l = Fields /\ l.phase = "missing" /\ l.who = k.who /\ l.at = k.at /\ l.object = a
      /\ l.under = k.under /\ l.made = k.made /\ l.close = k.close /\ l.epoch = k.epoch /\ l.began = k.began
      BY <1>1 DEF Fields
<1>3. Item(l) = Item(k)
      BY <1>2 DEF Item
<1>4. Walked(l)
      BY <1>2, <1>3 DEF KeepOK, Walked, InHand, Sealing, AtEnd
<1>5. BeganOK(l) /\ UnderOK(l)
      BY <1>2 DEF KeepOK, BeganOK, UnderOK, Governed
<1>6. HomeOK(l)
      BY <1>2, <1>3 DEF KeepOK, HomeOK, Governed, LockOf, EpochBefore, InHand, Sealing, AtEnd
<1>7. \A path, b : Makes(k, path, b) => Makes(l, path, b)
      BY <1>2 DEF Makes, Governed, LockOf, EpochBefore
<1>8. MadeOK(l)
      BY <1>2, <1>7 DEF KeepOK, MadeOK
<1>9. HandOK(l)
      BY <1>2, <1>3, <1>7 DEF HandOK, CommitOf, Wanted, InHand, AtEnd
<1> QED BY <1>4, <1>5, <1>6, <1>8, <1>9 DEF KeepOK

\* Going on once the object is in the store.
StoredGoesOn ==
    \A k, a : /\ KeepOK(k) /\ k.phase \in Sealing
              /\ a \in DOMAIN objects /\ Wanted(k, a)
              => KeepOK(Stored(k, a))

\* Having stored what it had in hand, a keep goes on with its walk.
LEMMA StoredOK == StoredGoesOn
<1> SUFFICES ASSUME NEW k, NEW a, KeepOK(k), k.phase \in Sealing, a \in DOMAIN objects, Wanted(k, a),
                    NEW l, l = Stored(k, a)
             PROVE  KeepOK(l)
    BY DEF StoredGoesOn
<1>1. DOMAIN k = Fields /\ k.at \in 1..(Len(Walk) + 1) /\ Item(k).do # "enter" /\ Len(Walk) \in Nat
      BY WalkFacts DEF KeepOK, Walked
<1>2. CASE Item(k).do = "commit"
  <2>1. l = [k EXCEPT !.phase = "stored", !.object = a]
        BY <1>2 DEF Stored
  <2>2. /\ DOMAIN l = Fields /\ l.phase = "stored" /\ l.who = k.who /\ l.at = k.at /\ l.object = a
        /\ l.under = k.under /\ l.made = k.made /\ l.began = k.began
        BY <1>1, <2>1 DEF Fields
  <2>3. l.at = Len(Walk) + 1
        BY <1>1, <1>2, <2>2, ItemIs
  <2>4. Walked(l)
        BY <2>2, <2>3 DEF KeepOK, Walked, InHand, Sealing, AtEnd
  <2>5. BeganOK(l) /\ UnderOK(l) /\ HomeOK(l)
        BY <2>2 DEF KeepOK, BeganOK, UnderOK, HomeOK, Governed, InHand, Sealing
  <2>6. \A path, b : Makes(k, path, b) => Makes(l, path, b)
        BY <2>2 DEF Makes, Governed, LockOf, EpochBefore
  <2>7. MadeOK(l)
        BY <2>2, <2>6 DEF KeepOK, MadeOK
  <2>8. HandOK(l)
        BY <1>2, <2>2 DEF HandOK, CommitOf, Wanted, InHand, AtEnd
  <2> QED BY <2>4, <2>5, <2>7, <2>8 DEF KeepOK
<1>3. CASE Item(k).do # "commit"
  <2> DEFINE path == Item(k).path
  <2>1. l = [k EXCEPT !.phase = "walk", !.at = @ + 1, !.made = Set(@, path, a),
                      !.close = None, !.epoch = 0, !.object = None, !.moved = FALSE]
        BY <1>3 DEF Stored
  <2>2. /\ DOMAIN l = Fields /\ l.phase = "walk" /\ l.who = k.who /\ l.at = k.at + 1
        /\ l.under = k.under /\ l.made = Set(k.made, path, a) /\ l.began = k.began
        BY <1>1, <2>1 DEF Fields
  <2>3. k.at \in 1..Len(Walk) /\ Walk[k.at] = Item(k) /\ Walk[k.at].do = "snap" /\ path \in Paths
        BY <1>1, <1>3, ItemIs
  <2>4. DOMAIN k.made = Done("snap", k.at) /\ path \notin DOMAIN k.made
        BY <2>3, SnapFacts DEF KeepOK, Walked
  <2>5. /\ DOMAIN l.made = DOMAIN k.made \cup {path} /\ l.made[path] = a
        /\ \A p \in DOMAIN k.made : l.made[p] = k.made[p]
        BY <2>2, <2>4 DEF Set
  <2>6. Walked(l)
    <3>1. Done("snap", l.at) = Done("snap", k.at) \cup {path} /\ Done("enter", l.at) = Done("enter", k.at)
          BY <2>2, <2>3, DoneNext
    <3>2. l.at \in 1..(Len(Walk) + 1)
          BY <1>1, <2>2, <2>3
    <3> QED BY <2>2, <2>4, <2>5, <3>1, <3>2 DEF KeepOK, Walked, InHand, Sealing, AtEnd
  <2>7. BeganOK(l) /\ UnderOK(l) /\ HomeOK(l) /\ HandOK(l)
        BY <2>2 DEF KeepOK, BeganOK, UnderOK, HomeOK, HandOK, Governed, InHand, Sealing, AtEnd
  <2>8. ASSUME NEW p, Children(p) \subseteq DOMAIN k.made, NEW b, Makes(k, p, b)
        PROVE  Makes(l, p, b)
        BY <2>2, <2>5, <2>8 DEF Makes, Governed, LockOf, EpochBefore
  <2>9. Children(path) \subseteq DOMAIN k.made /\ \A p \in DOMAIN k.made : Children(p) \subseteq DOMAIN k.made
        BY <1>1, <2>3, <2>4, SnapFacts, DoneFacts
  <2>10. ASSUME NEW p \in DOMAIN l.made
         PROVE  l.made[p] \in DOMAIN objects /\ Makes(l, p, l.made[p])
    <3>1. CASE p = path
          BY <3>1, <1>3, <2>5, <2>8, <2>9 DEF Wanted
    <3>2. CASE p \in DOMAIN k.made
          BY <3>2, <2>5, <2>8, <2>9 DEF KeepOK, MadeOK
    <3> QED BY <3>1, <3>2, <2>5
  <2> QED BY <2>6, <2>7, <2>10 DEF KeepOK, MadeOK
<1> QED BY <1>2, <1>3

\* The same of the state after a step.
LEMMA StoredAfter == StoredGoesOn'
<1>1. StoredGoesOn
      BY StoredOK
<1> QED BY <1>1, PTL

-----------------------------------------------------------------------------
\* The keeps and the store, step by step.

\* What one step has to satisfy for all keeps.
LEMMA KeepsGoOn ==
    ASSUME WorldOK, WorldOK', Grown, KeepsOK, DOMAIN objects \subseteq DOMAIN objects',
           keep' = [u \in Terminals |-> keep'[u]],
           \A u \in Terminals :
              \/ keep'[u] = Idle \/ keep'[u] = keep[u]
              \/ keep[u] # Idle /\ Alike(keep[u], keep'[u]) /\ keep'[u].phase = keep[u].phase
              \/ KeepOK(keep'[u])
              \/ \E l : keep'[u] = l /\ KeepOK(l)'
    PROVE  KeepsOK'
<1>1. ASSUME NEW u \in Terminals, keep'[u] # Idle
      PROVE  \E l : keep'[u] = l /\ KeepOK(l)'
  <2>1. PICK k, l : k = keep[u] /\ l = keep'[u]
        OBVIOUS
  <2>2. k = Idle \/ KeepOK(k)
        BY <2>1 DEF KeepsOK
  <2>3. ASSUME KeepOK(l) PROVE KeepOK(l)'
        BY <2>3, KeepStays
  <2>4. ASSUME k # Idle, Alike(k, l), l.phase = k.phase PROVE KeepOK(l)
        BY <2>2, <2>4, AlikeOK
  <2>5. \/ l = k
        \/ k # Idle /\ Alike(k, l) /\ l.phase = k.phase
        \/ KeepOK(l)
        \/ KeepOK(l)'
        BY <1>1, <2>1
  <2>6. KeepOK(l)'
        BY <1>1, <2>1, <2>2, <2>3, <2>4, <2>5
  <2> QED BY <2>1, <2>6
<1>2. ASSUME NEW u \in Terminals PROVE (keep[u] = Idle \/ KeepOK(keep[u]))'
  <2>1. CASE keep'[u] = Idle
        BY <2>1 DEF Idle
  <2>2. CASE keep'[u] # Idle
    <3>1. PICK l : keep'[u] = l /\ KeepOK(l)'
          BY <1>1, <2>2
    <3>2. KeepOK(keep[u])'
          BY <3>1
    <3> QED BY <3>2
  <2> QED BY <2>1, <2>2
<1> QED BY <1>2 DEF KeepsOK

\* What one step has to satisfy for the store.
LEMMA StoreGoesOn ==
    ASSUME WorldOK, WorldOK', Grown, StoreOK, DOMAIN objects \subseteq DOMAIN objects',
           \A a \in DOMAIN objects' : objects'[a] \in {"torn", "whole"} /\ (a \in DOMAIN objects \/ Sound(a)),
           \A a \in DOMAIN drafts' : drafts'[a] \in {"torn", "whole"},
           main' = None \/ main' = main \/ (main' \in DOMAIN objects /\ main'.kind = "commit")
    PROVE  StoreOK'
<1>1. ASSUME NEW a \in DOMAIN objects'
      PROVE  objects'[a] \in {"torn", "whole"} /\ Sound(a)'
  <2>1. Sound(a)
        BY DEF StoreOK
  <2> QED BY <2>1, SoundStays
<1>2. main' = None \/ (main' \in DOMAIN objects' /\ main'.kind = "commit")
      BY DEF StoreOK
<1> QED BY <1>1, <1>2 DEF StoreOK

\* A step that only takes one keep on, in a folder and store that stay.
LEMMA OneGoesOn ==
    ASSUME WorldOK, KeepsOK, StoreOK, Quiet, UNCHANGED <<objects, drafts>>,
           main' = None \/ main' = main \/ (main' \in DOMAIN objects /\ main'.kind = "commit"),
           NEW t \in Terminals, NEW l, keep' = [keep EXCEPT ![t] = l], l = Idle \/ KeepOK(l)
    PROVE  KeepsOK' /\ StoreOK'
<1>1. WorldOK' /\ Grown
      BY QuietWorld
<1>2. KeepsOK'
  <2>1. keep' = [u \in Terminals |-> keep'[u]] /\ keep'[t] = l /\ \A u \in Terminals : u # t => keep'[u] = keep[u]
        BY DEF KeepsOK
  <2> QED BY <1>1, <2>1, KeepsGoOn
<1>3. StoreOK'
  <2>1. \A a \in DOMAIN objects : objects[a] \in {"torn", "whole"}
        BY DEF StoreOK
  <2>2. \A a \in DOMAIN drafts : drafts[a] \in {"torn", "whole"}
        BY DEF StoreOK
  <2> QED BY <1>1, <2>1, <2>2, StoreGoesOn
<1> QED BY <1>2, <1>3

\* A keep that is at something is one of those it can be.
LEMMA BusyKeep ==
    ASSUME KeepsOK, NEW t \in Terminals, keep[t].phase # "idle"
    PROVE  keep[t] # Idle /\ KeepOK(keep[t]) /\ DOMAIN keep[t] = Fields /\ t \in DOMAIN keep
BY DEF KeepsOK, Idle, KeepOK, Walked

\* Beginning a keep,
LEMMA KeepNext ==
    ASSUME WorldOK, KeepsOK, StoreOK, NEW t \in Terminals, NEW who \in People, Keep(t, who)
    PROVE  KeepsOK' /\ StoreOK'
<1>1. Quiet /\ UNCHANGED <<objects, drafts, main>>
      BY DEF Keep, Quiet, files
<1>2. WorldOK' /\ Grown
      BY <1>1, QuietWorld
<1>3. KeepOK(keep'[t])
  <2> DEFINE l == [phase |-> "walk", who |-> who, at |-> 1, under |-> <<>>, made |-> <<>>,
                close |-> None, epoch |-> 0, object |-> None, moved |-> FALSE,
                alone |-> (Busy = {}),
                began |-> [work |-> work, map |-> Len(closemap), epoch |-> epoch]]
  <2>1. keep'[t] = l
        BY DEF Keep
  <2> HIDE DEF l
  <2>2. KeepOK(l)
        BY BeginOK DEF l
  <2> QED BY <2>1, <2>2
<1>4. ASSUME NEW u \in Terminals, u # t
      PROVE  keep'[u] = Idle \/ (keep[u] # Idle /\ Alike(keep[u], keep'[u]) /\ keep'[u].phase = keep[u].phase)
  <2>1. keep'[u] = IF u \in Busy THEN [keep[u] EXCEPT !.alone = FALSE] ELSE Idle
        BY <1>4 DEF Keep
  <2>2. CASE u \in Busy
    <3>1. keep[u] # Idle /\ DOMAIN keep[u] = Fields
          BY <2>2 DEF Busy, KeepsOK, KeepOK, Walked
    <3>2. PICK k : k = keep[u]
          OBVIOUS
    <3>3. Alike(k, [k EXCEPT !.alone = FALSE]) /\ [k EXCEPT !.alone = FALSE].phase = k.phase
          BY <3>1, <3>2 DEF Alike, Fields
    <3> QED BY <2>1, <2>2, <3>1, <3>2, <3>3
  <2> QED BY <2>1, <2>2
<1>5. keep' = [u \in Terminals |-> keep'[u]]
      BY DEF Keep
<1>6. KeepsOK'
      BY <1>1, <1>2, <1>3, <1>4, <1>5, KeepsGoOn
<1>7. StoreOK'
  <2>1. \A a \in DOMAIN objects : objects[a] \in {"torn", "whole"}
        BY DEF StoreOK
  <2>2. \A a \in DOMAIN drafts : drafts[a] \in {"torn", "whole"}
        BY DEF StoreOK
  <2> QED BY <1>1, <1>2, <2>1, <2>2, StoreGoesOn
<1> QED BY <1>6, <1>7

\* entering a folder,
LEMMA EnterNext ==
    ASSUME WorldOK, KeepsOK, StoreOK, NEW t \in Terminals, Enter(t)
    PROVE  KeepsOK' /\ StoreOK'
<1>1. PICK k, dir : k = keep[t] /\ dir = Item(k).path
      OBVIOUS
<1> DEFINE l == [k EXCEPT !.under = Set(@, dir, Governing(dir)), !.at = @ + 1]
<1>2. /\ k.phase = "walk" /\ Item(k).do = "enter" /\ KeepOK(k)
      /\ Quiet /\ UNCHANGED <<objects, drafts, main>>
      BY <1>1, BusyKeep DEF Enter, Quiet, files
<1>3. keep' = [keep EXCEPT ![t] = l]
      BY <1>1 DEF Enter
<1>4. KeepOK(l)
      BY <1>1, <1>2, EnterOK
<1> HIDE DEF l
<1> QED BY <1>2, <1>3, <1>4, OneGoesOn

\* looking at a lock,
LEMMA LookNext ==
    ASSUME WorldOK, KeepsOK, StoreOK, NEW t \in Terminals, Look(t)
    PROVE  KeepsOK' /\ StoreOK'
<1>1. PICK k : k = keep[t]
      OBVIOUS
<1> DEFINE l == [k EXCEPT !.phase = "looked", !.close = HomeOf(k), !.epoch = epoch[HomeOf(k)]]
<1>2. /\ k.phase = "walk" /\ Item(k).do # "enter" /\ KeepOK(k) /\ MayWrite(k)
      /\ Quiet /\ UNCHANGED <<objects, drafts, main>>
      BY <1>1, BusyKeep DEF Look, Quiet, files
<1>3. keep' = [keep EXCEPT ![t] = l]
      BY <1>1 DEF Look
<1>4. KeepOK(l)
      BY <1>2, LookOK
<1> HIDE DEF l
<1> QED BY <1>2, <1>3, <1>4, OneGoesOn

\* Refused, failed or killed.
LEMMA StopNext ==
    ASSUME WorldOK, KeepsOK, StoreOK, NEW t \in Terminals, Refuse(t) \/ Fail(t) \/ Kill(t)
    PROVE  KeepsOK' /\ StoreOK'
<1>1. Quiet /\ UNCHANGED <<objects, drafts, main>> /\ keep' = [keep EXCEPT ![t] = Idle]
      BY DEF Refuse, Fail, Kill, Quiet, files
<1> QED BY <1>1, OneGoesOn

\* sealing,
LEMMA SealNext ==
    ASSUME WorldOK, KeepsOK, StoreOK, NEW t \in Terminals, Seal(t)
    PROVE  KeepsOK' /\ StoreOK'
<1>1. PICK k, a : k = keep[t] /\ a = ToSeal(k)
      OBVIOUS
<1>2. /\ k.phase = "looked" /\ KeepOK(k)
      /\ Quiet /\ UNCHANGED <<objects, drafts, main>>
      BY <1>1, BusyKeep DEF Seal, Quiet, files
<1> DEFINE l == IF Exists(a) THEN Stored(k, a) ELSE [k EXCEPT !.phase = "missing", !.object = a]
<1>3. keep' = [keep EXCEPT ![t] = l]
      BY <1>1 DEF Seal
<1>4. Sound(a) /\ Wanted(k, a)
      BY <1>1, <1>2, ToSealOK
<1>5. KeepOK(l)
  <2>1. CASE Exists(a)
        BY <2>1, <1>2, <1>4, StoredOK DEF StoredGoesOn, Exists, Sealing
  <2>2. CASE ~ Exists(a)
        BY <2>2, <1>2, <1>4, MissingOK
  <2> QED BY <2>1, <2>2
<1> HIDE DEF l
<1> QED BY <1>2, <1>3, <1>5, OneGoesOn

\* emptying main,
LEMMA EmptyNext ==
    ASSUME WorldOK, KeepsOK, StoreOK, NEW t \in Terminals, Empty(t)
    PROVE  KeepsOK' /\ StoreOK'
<1>1. PICK k : k = keep[t]
      OBVIOUS
<1> DEFINE l == [k EXCEPT !.phase = "naming"]
<1>2. /\ k.phase = "stored" /\ KeepOK(k) /\ DOMAIN k = Fields
      /\ Quiet /\ UNCHANGED <<objects, drafts>> /\ main' = None
      BY <1>1, BusyKeep DEF Empty, EmptyRef, Quiet
<1>3. keep' = [keep EXCEPT ![t] = l]
      BY <1>1 DEF Empty
<1>4. Alike(k, l) /\ l.phase = "naming"
      BY <1>2 DEF Alike, Fields
<1> HIDE DEF l
<1>5. KeepOK(l)
      BY <1>2, <1>4, AlikeOK DEF AtEnd
<1> QED BY <1>2, <1>3, <1>5, OneGoesOn

\* naming a commit,
LEMMA NameNext ==
    ASSUME WorldOK, KeepsOK, StoreOK, NEW t \in Terminals, Name(t)
    PROVE  KeepsOK' /\ StoreOK'
<1>1. /\ keep[t].phase = "naming" /\ KeepOK(keep[t])
      /\ Quiet /\ UNCHANGED <<objects, drafts>> /\ main' = keep[t].object
      /\ keep' = [keep EXCEPT ![t] = Idle]
      BY BusyKeep DEF Name, WriteRef, Quiet
<1>2. main' \in DOMAIN objects /\ main'.kind = "commit"
      BY <1>1 DEF KeepOK, HandOK, CommitOf, AtEnd
<1> QED BY <1>1, <1>2, OneGoesOn

\* opening a draft,
LEMMA OpenNext ==
    ASSUME WorldOK, KeepsOK, StoreOK, NEW t \in Terminals, Open(t)
    PROVE  KeepsOK' /\ StoreOK'
<1>1. PICK k : k = keep[t]
      OBVIOUS
<1> DEFINE l == [k EXCEPT !.phase = "opened", !.moved = FALSE]
<1>2. /\ k.phase = "missing" /\ KeepOK(k) /\ DOMAIN k = Fields
      /\ Quiet /\ objects' = objects /\ main' = main
      /\ drafts' = Set(drafts, k.object, "torn")
      BY <1>1, BusyKeep DEF Open, OpenDraft, Quiet
<1>3. keep' = [keep EXCEPT ![t] = l]
      BY <1>1 DEF Open
<1>4. Alike(k, l) /\ l.phase = "opened"
      BY <1>2 DEF Alike, Fields
<1> HIDE DEF l
<1>5. KeepOK(l)
      BY <1>2, <1>4, AlikeOK DEF InHand
<1>6. WorldOK' /\ Grown
      BY <1>2, QuietWorld
<1>7. KeepsOK'
  <2>1. keep' = [u \in Terminals |-> keep'[u]] /\ keep'[t] = l /\ \A u \in Terminals : u # t => keep'[u] = keep[u]
        BY <1>3 DEF KeepsOK
  <2> QED BY <1>2, <1>5, <1>6, <2>1, KeepsGoOn
<1>8. StoreOK'
  <2>1. \A a \in DOMAIN objects : objects[a] \in {"torn", "whole"}
        BY DEF StoreOK
  <2>2. \A a \in DOMAIN drafts' : drafts'[a] \in {"torn", "whole"}
        BY <1>2 DEF StoreOK, Set
  <2> QED BY <1>2, <1>6, <2>1, <2>2, StoreGoesOn
<1> QED BY <1>7, <1>8

\* filling it,
LEMMA FillNext ==
    ASSUME WorldOK, KeepsOK, StoreOK, NEW t \in Terminals, Fill(t)
    PROVE  KeepsOK' /\ StoreOK'
<1>1. PICK k : k = keep[t]
      OBVIOUS
<1> DEFINE l == [k EXCEPT !.phase = "filled"]
<1>2. /\ k.phase = "opened" /\ KeepOK(k) /\ DOMAIN k = Fields
      /\ Quiet /\ main' = main
      /\ \/ objects' = Set(objects, k.object, "whole") /\ drafts' = drafts
         \/ objects' = objects /\ drafts' = Set(drafts, k.object, "whole")
      BY <1>1, BusyKeep DEF Fill, FillDraft, Quiet
<1>3. keep' = [keep EXCEPT ![t] = l]
      BY <1>1 DEF Fill
<1>4. Alike(k, l) /\ l.phase = "filled"
      BY <1>2 DEF Alike, Fields
<1> HIDE DEF l
<1>5. KeepOK(l)
      BY <1>2, <1>4, AlikeOK DEF InHand
<1>6. WorldOK' /\ Grown /\ DOMAIN objects \subseteq DOMAIN objects'
      BY <1>2, QuietWorld DEF Set
<1>7. KeepsOK'
  <2>1. keep' = [u \in Terminals |-> keep'[u]] /\ keep'[t] = l /\ \A u \in Terminals : u # t => keep'[u] = keep[u]
        BY <1>3 DEF KeepsOK
  <2> QED BY <1>5, <1>6, <2>1, KeepsGoOn
<1>8. StoreOK'
  <2>1. Sound(k.object)
        BY <1>2 DEF KeepOK, HandOK, InHand
  <2>2. /\ \A a \in DOMAIN objects : objects[a] \in {"torn", "whole"}
        /\ \A a \in DOMAIN drafts : drafts[a] \in {"torn", "whole"}
        BY DEF StoreOK
  <2>3. \A a \in DOMAIN objects' : objects'[a] \in {"torn", "whole"} /\ (a \in DOMAIN objects \/ Sound(a))
        BY <1>2, <2>1, <2>2 DEF Set
  <2>4. \A a \in DOMAIN drafts' : drafts'[a] \in {"torn", "whole"}
        BY <1>2, <2>2 DEF Set
  <2> QED BY <1>2, <1>6, <2>3, <2>4, StoreGoesOn
<1> QED BY <1>7, <1>8

\* and moving it in: each keeps all keeps and the store good.
LEMMA MoveInNext ==
    ASSUME WorldOK, KeepsOK, StoreOK, NEW t \in Terminals, MoveIn(t)
    PROVE  KeepsOK' /\ StoreOK'
<1>1. PICK k, a, l : k = keep[t] /\ a = k.object /\ l = Stored(k, a)
      OBVIOUS
<1>2. /\ k.phase = "filled" /\ KeepOK(k) /\ DOMAIN k = Fields
      /\ Quiet /\ main' = main
      /\ a \in DOMAIN drafts
      /\ objects' = Set(objects, a, drafts[a]) /\ drafts' = Drop(drafts, a)
      BY <1>1, BusyKeep DEF MoveIn, CanRename, Rename, Quiet
<1>3. /\ keep' = [u \in Terminals |-> keep'[u]]
      /\ keep'[t] = l
      /\ \A u \in Terminals : u # t =>
            keep'[u] = IF u \in Writing(a) THEN [keep[u] EXCEPT !.moved = TRUE] ELSE keep[u]
      BY <1>1 DEF MoveIn
<1>4. Sound(a) /\ Wanted(k, a)
      BY <1>1, <1>2 DEF KeepOK, HandOK, Wanted, InHand
<1>5. WorldOK' /\ Grown /\ DOMAIN objects \subseteq DOMAIN objects' /\ a \in DOMAIN objects'
      BY <1>2, QuietWorld DEF Set
<1>6. KeepOK(l)'
  <2>1. KeepOK(k)'
        BY <1>2, <1>5, KeepStays
  <2>2. Wanted(k, a)'
    <3>1. Item(k).do # "commit" => Makes(k, Item(k).path, a)'
      <4>1. BeganOK(k) /\ Item(k).path \in Paths
            BY <1>2, ItemIs DEF KeepOK, Walked
      <4> QED BY <1>4, <1>5, <4>1, MakesStays DEF Wanted
    <3> QED BY <1>4, <3>1 DEF Wanted, CommitOf
  <2> QED BY <1>1, <1>2, <1>5, <2>1, <2>2, StoredAfter DEF StoredGoesOn, Sealing, InHand
<1>7. ASSUME NEW u \in Terminals, u # t, keep'[u] # keep[u]
      PROVE  keep[u] # Idle /\ Alike(keep[u], keep'[u]) /\ keep'[u].phase = keep[u].phase
  <2>1. PICK m : m = keep[u]
        OBVIOUS
  <2>2. u \in Writing(a) /\ keep'[u] = [m EXCEPT !.moved = TRUE]
        BY <1>3, <1>7, <2>1
  <2>3. m # Idle /\ DOMAIN m = Fields
        BY <2>1, <2>2 DEF Writing, Busy, KeepsOK, KeepOK, Walked
  <2>4. Alike(m, [m EXCEPT !.moved = TRUE]) /\ [m EXCEPT !.moved = TRUE].phase = m.phase
        BY <2>3 DEF Alike, Fields
  <2> QED BY <2>1, <2>2, <2>3, <2>4
<1>8. KeepsOK'
      BY <1>3, <1>5, <1>6, <1>7, KeepsGoOn
<1>9. StoreOK'
  <2>1. /\ \A b \in DOMAIN objects : objects[b] \in {"torn", "whole"}
        /\ \A b \in DOMAIN drafts : drafts[b] \in {"torn", "whole"}
        BY DEF StoreOK
  <2>2. \A b \in DOMAIN objects' : objects'[b] \in {"torn", "whole"} /\ (b \in DOMAIN objects \/ Sound(b))
        BY <1>2, <1>4, <2>1 DEF Set
  <2>3. \A b \in DOMAIN drafts' : drafts'[b] \in {"torn", "whole"}
        BY <1>2, <2>1 DEF Drop
  <2> QED BY <1>2, <1>5, <2>2, <2>3, StoreGoesOn
<1> QED BY <1>8, <1>9

\* All is good in the empty folder.
LEMMA KeepsInit ==
    ASSUME Init
    PROVE  KeepsOK /\ StoreOK
<1>1. KeepsOK
      BY DEF Init, KeepsOK
<1>2. DOMAIN objects = {} /\ DOMAIN drafts = {} /\ main = None
      BY DEF Init
<1> QED BY <1>1, <1>2 DEF StoreOK

\* Every step preserves it.
LEMMA KeepsNext ==
    ASSUME WorldOK, KeepsOK, StoreOK, [Next]_vars
    PROVE  KeepsOK' /\ StoreOK'
<1>1. CASE \E t \in Terminals, who \in People : Keep(t, who)
      BY <1>1, KeepNext
<1>2. CASE \E t \in Terminals : Step(t) \/ Kill(t)
  <2>1. PICK t \in Terminals : Step(t) \/ Kill(t)
        BY <1>2
  <2> QED BY <2>1, EnterNext, LookNext, StopNext, SealNext, EmptyNext, NameNext, OpenNext, FillNext, MoveInNext
          DEF Step
<1>3. CASE ~ KeepStep
  <2>1. WorldOK' /\ Grown
        BY WorldNext
  <2>2. UNCHANGED <<keep, objects, drafts, main>>
        BY <1>3, OthersLeave
  <2>3. KeepsOK'
    <3>1. keep' = [u \in Terminals |-> keep'[u]]
          BY <2>2 DEF KeepsOK
    <3> QED BY <2>1, <2>2, <3>1, KeepsGoOn
  <2>4. StoreOK'
    <3>1. /\ \A a \in DOMAIN objects : objects[a] \in {"torn", "whole"}
          /\ \A a \in DOMAIN drafts : drafts[a] \in {"torn", "whole"}
          BY DEF StoreOK
    <3> QED BY <2>1, <2>2, <3>1, StoreGoesOn
  <2> QED BY <2>3, <2>4
<1> QED BY <1>1, <1>2, <1>3 DEF KeepStep

-----------------------------------------------------------------------------
\* Torn files.

AtWork == {"opened", "filled"}
Writer(u) == keep[u] # Idle /\ keep[u].phase \in AtWork

\* Steps of others than writers, and the end of one.
LEMMA WritersGoOn ==
    ASSUME WritersOK, UNCHANGED <<objects, drafts>>, contested \subseteq contested',
           killed => killed',
           \A u \in Terminals : Writer(u)' =>
              /\ Writer(u)
              /\ keep'[u].phase = keep[u].phase /\ keep'[u].object = keep[u].object
              /\ keep'[u].moved = keep[u].moved,
           \A u \in Terminals : Writer(u) /\ keep[u].phase = "opened" => killed' \/ Writer(u)'
    PROVE  WritersOK'
<1>1. \A t \in Terminals : \A a :
          /\ At(t, a, AtWork)' => At(t, a, AtWork) /\ keep'[t].moved = keep[t].moved
          /\ At(t, a, {"filled"})' => At(t, a, {"filled"})
          /\ At(t, a, {"opened"}) => killed' \/ (At(t, a, {"opened"})' /\ keep'[t].moved = keep[t].moved)
      BY DEF At, Writer, AtWork
<1>2. \A t, u \in Terminals : \A a : At(t, a, AtWork)' /\ At(u, a, AtWork)' /\ t # u => a \in contested'
      BY <1>1 DEF WritersOK, AtWork
<1>3. \A t \in Terminals : \A a :
          /\ At(t, a, AtWork)' /\ keep'[t].moved => a \in contested'
          /\ At(t, a, {"filled"})' /\ a \in DOMAIN drafts' /\ drafts'[a] = "torn" => a \in contested'
      BY <1>1 DEF WritersOK, AtWork
<1>4. \A a \in DOMAIN drafts' : drafts'[a] = "torn" =>
          killed' \/ (\E t \in Terminals : At(t, a, {"opened"})' /\ ~ keep'[t].moved)
      BY <1>1 DEF WritersOK
<1>5. \A a \in DOMAIN objects' : objects'[a] = "torn" =>
          /\ a \in contested'
          /\ killed' \/ (\E t \in Terminals : At(t, a, {"opened"})' /\ keep'[t].moved)
      BY <1>1 DEF WritersOK
<1> QED BY <1>2, <1>3, <1>4, <1>5 DEF WritersOK, AtWork

\* One keep goes on to what is not writing, from what is neither, or ends.
LEMMA WriterElsewhere ==
    ASSUME KeepsOK, WritersOK, UNCHANGED <<objects, drafts, contested>>, killed => killed',
           NEW t \in Terminals, NEW l, keep' = [keep EXCEPT ![t] = l],
           l = Idle \/ l.phase \notin AtWork,
           keep[t].phase = "opened" => killed'
    PROVE  WritersOK'
<1>1. keep'[t] = l /\ \A u \in Terminals : u # t => keep'[u] = keep[u]
      BY DEF KeepsOK
<1>2. ~ Writer(t)'
      BY <1>1 DEF Writer, Idle
<1>3. ASSUME NEW u \in Terminals
      PROVE  /\ Writer(u)' => /\ Writer(u)
                              /\ keep'[u].phase = keep[u].phase /\ keep'[u].object = keep[u].object
                              /\ keep'[u].moved = keep[u].moved
             /\ Writer(u) /\ keep[u].phase = "opened" => killed' \/ Writer(u)'
      BY <1>1, <1>2 DEF Writer, Idle
<1> QED BY <1>3, WritersGoOn

\* A keep that has stored something writes no draft.
LEMMA StoredElsewhere ==
    ASSUME NEW k, NEW a, DOMAIN k = Fields
    PROVE  Stored(k, a).phase \in {"walk", "stored"}
BY DEF Stored, Fields

\* A keep that begins writes no draft.
LEMMA WritersKeep ==
    ASSUME KeepsOK, WritersOK, NEW t \in Terminals, NEW who, Keep(t, who)
    PROVE  WritersOK'
<1>1. /\ UNCHANGED <<objects, drafts, contested, killed>> /\ keep[t] = Idle
      /\ keep'[t].phase = "walk"
      /\ \A u \in Terminals : u # t =>
            keep'[u] = IF u \in Busy THEN [keep[u] EXCEPT !.alone = FALSE] ELSE Idle
      BY DEF Keep, files, history
<1>2. ASSUME NEW u \in Terminals, u # t, keep[u] # Idle
      PROVE  /\ keep'[u] # Idle
             /\ keep'[u].phase = keep[u].phase /\ keep'[u].object = keep[u].object
             /\ keep'[u].moved = keep[u].moved
  <2>1. PICK m : m = keep[u]
        OBVIOUS
  <2>2. DOMAIN m = Fields /\ m.phase # "idle" /\ keep'[u] = [m EXCEPT !.alone = FALSE]
        BY <1>1, <1>2, <2>1 DEF Busy, KeepsOK, KeepOK, Walked, Sealing, InHand, AtEnd
  <2>3. /\ [m EXCEPT !.alone = FALSE].phase = m.phase /\ [m EXCEPT !.alone = FALSE].object = m.object
        /\ [m EXCEPT !.alone = FALSE].moved = m.moved
        BY <2>2 DEF Fields
  <2> QED BY <2>1, <2>2, <2>3 DEF Idle
<1>3. ASSUME NEW u \in Terminals, u # t, keep[u] = Idle
      PROVE  keep'[u] = Idle
      BY <1>1, <1>3 DEF Busy
<1>4. ASSUME NEW u \in Terminals
      PROVE  /\ Writer(u)' => /\ Writer(u)
                              /\ keep'[u].phase = keep[u].phase /\ keep'[u].object = keep[u].object
                              /\ keep'[u].moved = keep[u].moved
             /\ Writer(u) /\ keep[u].phase = "opened" => killed' \/ Writer(u)'
      BY <1>1, <1>2, <1>3 DEF Writer, Idle, AtWork
<1> QED BY <1>1, <1>4, WritersGoOn

\* Nor do the steps around the writing of one.
LEMMA WritersAside ==
    ASSUME KeepsOK, WritersOK, NEW t \in Terminals,
           Enter(t) \/ Look(t) \/ Refuse(t) \/ Seal(t) \/ Fail(t) \/ Empty(t) \/ Name(t) \/ Kill(t)
    PROVE  WritersOK'
<1>1. PICK k : k = keep[t]
      OBVIOUS
<1>2. UNCHANGED <<objects, drafts, contested>> /\ (killed => killed')
      BY DEF Enter, Look, Refuse, Seal, Fail, Empty, Name, Kill, files, history
<1>3. k.phase # "idle" => DOMAIN k = Fields
      BY <1>1, BusyKeep
<1>4. CASE Enter(t)
  <2> DEFINE l == [k EXCEPT !.under = Set(@, Item(k).path, Governing(Item(k).path)), !.at = @ + 1]
  <2>1. keep' = [keep EXCEPT ![t] = l] /\ k.phase = "walk"
        BY <1>1, <1>4 DEF Enter
  <2>2. l.phase = "walk"
        BY <1>3, <2>1 DEF Fields
  <2> HIDE DEF l
  <2> QED BY <1>1, <1>2, <2>1, <2>2, WriterElsewhere DEF AtWork
<1>5. CASE Look(t)
  <2> DEFINE l == [k EXCEPT !.phase = "looked", !.close = HomeOf(k), !.epoch = epoch[HomeOf(k)]]
  <2>1. keep' = [keep EXCEPT ![t] = l] /\ k.phase = "walk"
        BY <1>1, <1>5 DEF Look
  <2>2. l.phase = "looked"
        BY <1>3, <2>1 DEF Fields
  <2> HIDE DEF l
  <2> QED BY <1>1, <1>2, <2>1, <2>2, WriterElsewhere DEF AtWork
<1>6. CASE Seal(t)
  <2> DEFINE a == ToSeal(k)
             l == IF Exists(a) THEN Stored(k, a) ELSE [k EXCEPT !.phase = "missing", !.object = a]
  <2>1. keep' = [keep EXCEPT ![t] = l] /\ k.phase = "looked"
        BY <1>1, <1>6 DEF Seal
  <2> HIDE DEF a
  <2>2. Stored(k, a).phase \in {"walk", "stored"}
        BY <1>3, <2>1, StoredElsewhere
  <2>3. [k EXCEPT !.phase = "missing", !.object = a].phase = "missing"
        BY <1>3, <2>1 DEF Fields
  <2>4. l.phase \notin AtWork
        BY <2>2, <2>3 DEF AtWork
  <2> HIDE DEF l
  <2> QED BY <1>1, <1>2, <2>1, <2>4, WriterElsewhere
<1>7. CASE Empty(t)
  <2> DEFINE l == [k EXCEPT !.phase = "naming"]
  <2>1. keep' = [keep EXCEPT ![t] = l] /\ k.phase = "stored"
        BY <1>1, <1>7 DEF Empty
  <2>2. l.phase = "naming"
        BY <1>3, <2>1 DEF Fields
  <2> HIDE DEF l
  <2> QED BY <1>1, <1>2, <2>1, <2>2, WriterElsewhere DEF AtWork
<1>8. CASE Refuse(t) \/ Fail(t) \/ Name(t) \/ Kill(t)
  <2>1. keep' = [keep EXCEPT ![t] = Idle] /\ (keep[t].phase = "opened" => killed')
        BY <1>8 DEF Refuse, Fail, Name, Kill
  <2> QED BY <1>2, <2>1, WriterElsewhere
<1> QED BY <1>4, <1>5, <1>6, <1>7, <1>8

\* A second writer of an object is remembered.
LEMMA WritersOpen ==
    ASSUME KeepsOK, WritersOK, NEW t \in Terminals, Open(t)
    PROVE  WritersOK'
<1>1. PICK k, a : k = keep[t] /\ a = k.object
      OBVIOUS
<1> DEFINE l == [k EXCEPT !.phase = "opened", !.moved = FALSE]
<1>2. /\ k.phase = "missing" /\ DOMAIN k = Fields
      /\ keep' = [keep EXCEPT ![t] = l]
      /\ objects' = objects /\ drafts' = Set(drafts, a, "torn")
      /\ contested' = IF Writing(a) = {} THEN contested ELSE contested \cup {a}
      /\ killed' = killed
      BY <1>1, BusyKeep DEF Open, OpenDraft
<1>3. l.phase = "opened" /\ l.moved = FALSE /\ l.object = a /\ l # Idle
      BY <1>1, <1>2 DEF Fields, Idle
<1> HIDE DEF l
<1>4. keep'[t] = l /\ \A u \in Terminals : u # t => keep'[u] = keep[u]
      BY <1>2 DEF KeepsOK
<1>5. \A u \in Terminals : \A b : u # t => \A phases : At(u, b, phases)' <=> At(u, b, phases)
      BY <1>4 DEF At
<1>6. At(t, a, {"opened"})' /\ ~ keep'[t].moved /\ \A b, phases : At(t, b, phases)' => b = a
      BY <1>3, <1>4 DEF At
<1>7. \A b : ~ At(t, b, AtWork) /\ ~ At(t, b, {"opened"}) /\ ~ At(t, b, {"filled"})
      BY <1>1, <1>2 DEF At, AtWork
<1>8. \A u \in Terminals : At(u, a, AtWork) => a \in contested'
      BY <1>2 DEF At, AtWork, Writing, Busy
<1>9. \A u \in Terminals : At(u, a, {"filled"}) => At(u, a, AtWork)
      BY DEF At, AtWork
<1>10. \A u, v \in Terminals : \A b : At(u, b, AtWork)' /\ At(v, b, AtWork)' /\ u # v => b \in contested'
      BY <1>2, <1>5, <1>6, <1>8 DEF WritersOK, AtWork
<1>11. \A u \in Terminals : \A b :
          At(u, b, AtWork)' /\ keep'[u].moved => b \in contested'
      BY <1>2, <1>4, <1>5, <1>6 DEF WritersOK, AtWork
<1>12. ASSUME NEW u \in Terminals, NEW b, At(u, b, {"filled"})', b \in DOMAIN drafts', drafts'[b] = "torn"
       PROVE  b \in contested'
  <2>1. u # t
        BY <1>3, <1>4, <1>12 DEF At
  <2>2. At(u, b, {"filled"})
        BY <1>5, <1>12, <2>1
  <2>3. CASE b = a
        BY <1>8, <1>9, <2>2, <2>3
  <2>4. CASE b # a
    <3>1. b \in DOMAIN drafts /\ drafts[b] = "torn"
          BY <1>2, <1>12, <2>4 DEF Set
    <3> QED BY <1>2, <2>2, <3>1 DEF WritersOK
  <2> QED BY <2>3, <2>4
<1>13. ASSUME NEW b \in DOMAIN drafts', drafts'[b] = "torn"
       PROVE  killed' \/ (\E u \in Terminals : At(u, b, {"opened"})' /\ ~ keep'[u].moved)
  <2>1. CASE b = a
        BY <1>6, <2>1
  <2>2. CASE b # a
    <3>1. b \in DOMAIN drafts /\ drafts[b] = "torn"
          BY <1>2, <1>13, <2>2 DEF Set
    <3>2. killed \/ (\E u \in Terminals : At(u, b, {"opened"}) /\ ~ keep[u].moved)
          BY <3>1 DEF WritersOK
    <3> QED BY <3>2, <1>2, <1>4, <1>5, <1>7
  <2> QED BY <2>1, <2>2
<1>14. ASSUME NEW b \in DOMAIN objects', objects'[b] = "torn"
       PROVE  /\ b \in contested'
              /\ killed' \/ (\E u \in Terminals : At(u, b, {"opened"})' /\ keep'[u].moved)
  <2>1. b \in contested /\ (killed \/ (\E u \in Terminals : At(u, b, {"opened"}) /\ keep[u].moved))
        BY <1>2, <1>14 DEF WritersOK
  <2> QED BY <2>1, <1>2, <1>4, <1>5, <1>7
<1> QED BY <1>10, <1>11, <1>12, <1>13, <1>14 DEF WritersOK, AtWork

\* Who fills a file that has been moved writes to the object.
LEMMA WritersFill ==
    ASSUME KeepsOK, WritersOK, NEW t \in Terminals, Fill(t)
    PROVE  WritersOK'
<1>1. PICK k, a : k = keep[t] /\ a = k.object
      OBVIOUS
<1> DEFINE l == [k EXCEPT !.phase = "filled"]
<1>2. /\ k.phase = "opened" /\ DOMAIN k = Fields /\ k # Idle
      /\ keep' = [keep EXCEPT ![t] = l]
      /\ IF k.moved THEN objects' = Set(objects, a, "whole") /\ drafts' = drafts
         ELSE drafts' = Set(drafts, a, "whole") /\ objects' = objects
      /\ contested' = contested /\ killed' = killed
      BY <1>1, BusyKeep DEF Fill, FillDraft, history
<1>3. l.phase = "filled" /\ l.moved = k.moved /\ l.object = a /\ l # Idle
      BY <1>1, <1>2 DEF Fields, Idle
<1> HIDE DEF l
<1>4. keep'[t] = l /\ \A u \in Terminals : u # t => keep'[u] = keep[u]
      BY <1>2 DEF KeepsOK
<1>5. \A u \in Terminals : \A b : u # t => \A phases : At(u, b, phases)' <=> At(u, b, phases)
      BY <1>4 DEF At
<1>6. At(t, a, AtWork) /\ \A b, phases : At(t, b, phases) \/ At(t, b, phases)' => b = a
      BY <1>1, <1>2, <1>3, <1>4 DEF At, AtWork
<1>7. keep'[t].moved = keep[t].moved
      BY <1>1, <1>3, <1>4
<1>8. \A u, v \in Terminals : \A b : At(u, b, AtWork)' /\ At(v, b, AtWork)' /\ u # v => b \in contested'
  <2>1. \A u \in Terminals : \A b : At(u, b, AtWork)' => At(u, b, AtWork)
        BY <1>5, <1>6
  <2> QED BY <1>2, <2>1 DEF WritersOK, AtWork
<1>9. \A u \in Terminals : \A b : At(u, b, AtWork)' /\ keep'[u].moved => b \in contested'
  <2>1. \A u \in Terminals : \A b : At(u, b, AtWork)' => At(u, b, AtWork) /\ keep'[u].moved = keep[u].moved
        BY <1>4, <1>5, <1>6, <1>7
  <2> QED BY <1>2, <2>1 DEF WritersOK, AtWork
<1>10. ASSUME NEW u \in Terminals, NEW b, At(u, b, {"filled"})', b \in DOMAIN drafts', drafts'[b] = "torn"
       PROVE  b \in contested'
  <2>1. CASE u # t
    <3>1. At(u, b, {"filled"})
          BY <1>5, <1>10, <2>1
    <3>2. b \in DOMAIN drafts /\ drafts[b] = "torn"
      <4>1. CASE drafts' = drafts
            BY <4>1, <1>10
      <4>2. CASE drafts' = Set(drafts, a, "whole")
            BY <4>2, <1>10 DEF Set
      <4> QED BY <4>1, <4>2, <1>2
    <3> QED BY <1>2, <3>1, <3>2 DEF WritersOK
  <2>2. CASE u = t
    <3>1. b = a
          BY <1>6, <1>10, <2>2
    <3>2. k.moved
      <4>1. drafts' # Set(drafts, a, "whole")
            BY <1>10, <3>1 DEF Set
      <4> QED BY <1>2, <4>1
    <3> QED BY <1>1, <1>2, <1>6, <3>1, <3>2 DEF WritersOK, AtWork
  <2> QED BY <2>1, <2>2
<1>11. ASSUME NEW b \in DOMAIN drafts', drafts'[b] = "torn"
       PROVE  killed' \/ (\E u \in Terminals : At(u, b, {"opened"})' /\ ~ keep'[u].moved)
  <2>1. b \in DOMAIN drafts /\ drafts[b] = "torn" /\ (b # a \/ k.moved)
    <3>1. CASE k.moved
          BY <3>1, <1>2, <1>11
    <3>2. CASE ~ k.moved
          BY <3>2, <1>2, <1>11 DEF Set
    <3> QED BY <3>1, <3>2
  <2>2. killed \/ (\E u \in Terminals : At(u, b, {"opened"}) /\ ~ keep[u].moved)
        BY <2>1 DEF WritersOK
  <2>3. ASSUME NEW u \in Terminals, At(u, b, {"opened"}), ~ keep[u].moved
        PROVE  At(u, b, {"opened"})' /\ ~ keep'[u].moved
    <3>1. u # t
          BY <1>1, <1>6, <2>1, <2>3
    <3> QED BY <1>4, <1>5, <2>3, <3>1
  <2> QED BY <1>2, <2>2, <2>3
<1>12. ASSUME NEW b \in DOMAIN objects', objects'[b] = "torn"
       PROVE  /\ b \in contested'
              /\ killed' \/ (\E u \in Terminals : At(u, b, {"opened"})' /\ keep'[u].moved)
  <2>1. b \in DOMAIN objects /\ objects[b] = "torn" /\ (b # a \/ ~ k.moved)
    <3>1. CASE k.moved
          BY <3>1, <1>2, <1>12 DEF Set
    <3>2. CASE ~ k.moved
          BY <3>2, <1>2, <1>12
    <3> QED BY <3>1, <3>2
  <2>2. b \in contested /\ (killed \/ (\E u \in Terminals : At(u, b, {"opened"}) /\ keep[u].moved))
        BY <2>1 DEF WritersOK
  <2>3. ASSUME NEW u \in Terminals, At(u, b, {"opened"}), keep[u].moved
        PROVE  At(u, b, {"opened"})' /\ keep'[u].moved
    <3>1. u # t
          BY <1>1, <1>6, <2>1, <2>3
    <3> QED BY <1>4, <1>5, <2>3, <3>1
  <2> QED BY <1>2, <2>2, <2>3
<1> QED BY <1>8, <1>9, <1>10, <1>11, <1>12 DEF WritersOK, AtWork

\* The other writers of a file that is moved to its address write on there.
LEMMA WritersMoveIn ==
    ASSUME KeepsOK, WritersOK, NEW t \in Terminals, MoveIn(t)
    PROVE  WritersOK'
<1>1. PICK k, a : k = keep[t] /\ a = k.object
      OBVIOUS
<1>2. /\ k.phase = "filled" /\ DOMAIN k = Fields /\ k # Idle
      /\ a \in DOMAIN drafts
      /\ objects' = Set(objects, a, drafts[a]) /\ drafts' = Drop(drafts, a)
      /\ contested' = contested /\ killed' = killed
      BY <1>1, BusyKeep DEF MoveIn, CanRename, Rename, history
<1>3. /\ keep'[t] = Stored(k, a)
      /\ \A u \in Terminals : u # t =>
            keep'[u] = IF u \in Writing(a) THEN [keep[u] EXCEPT !.moved = TRUE] ELSE keep[u]
      BY <1>1 DEF MoveIn
<1>4. \A b : ~ At(t, b, AtWork)' /\ ~ At(t, b, {"opened"})' /\ ~ At(t, b, {"filled"})'
  <2>1. keep'[t].phase \in {"walk", "stored"}
        BY <1>2, <1>3, StoredElsewhere
  <2> QED BY <2>1 DEF At, AtWork
<1>5. At(t, a, AtWork) /\ At(t, a, {"filled"}) /\ \A b : At(t, b, {"filled"}) => b = a
      BY <1>1, <1>2 DEF At, AtWork
<1>6. ASSUME NEW u \in Terminals, u # t
      PROVE  /\ \A b, phases : At(u, b, phases)' <=> At(u, b, phases)
             /\ keep'[u].moved = IF u \in Writing(a) THEN TRUE ELSE keep[u].moved
  <2>1. CASE u \in Writing(a)
    <3>1. PICK m : m = keep[u]
          OBVIOUS
    <3>2. keep'[u] = [m EXCEPT !.moved = TRUE] /\ m # Idle /\ DOMAIN m = Fields /\ m.phase # "idle"
          BY <1>3, <1>6, <2>1, <3>1 DEF Writing, Busy, KeepsOK, KeepOK, Walked
    <3>3. /\ [m EXCEPT !.moved = TRUE].phase = m.phase /\ [m EXCEPT !.moved = TRUE].object = m.object
          /\ [m EXCEPT !.moved = TRUE].moved = TRUE
          BY <3>2 DEF Fields
    <3>4. keep'[u] # Idle
          BY <3>2, <3>3 DEF Idle
    <3> QED BY <2>1, <3>1, <3>2, <3>3, <3>4 DEF At
  <2>2. CASE u \notin Writing(a)
        BY <2>2, <1>3, <1>6 DEF At
  <2> QED BY <2>1, <2>2
<1>7. \A u \in Terminals : \A b : u \in Writing(b) <=> At(u, b, AtWork)
      BY DEF Writing, Busy, At, AtWork
<1>8. \A u, v \in Terminals : \A b : At(u, b, AtWork)' /\ At(v, b, AtWork)' /\ u # v => b \in contested'
  <2>1. \A u \in Terminals : \A b : At(u, b, AtWork)' => At(u, b, AtWork)
        BY <1>4, <1>6
  <2> QED BY <1>2, <2>1 DEF WritersOK, AtWork
<1>9. ASSUME NEW u \in Terminals, NEW b, At(u, b, AtWork)', keep'[u].moved
      PROVE  b \in contested'
  <2>1. u # t /\ At(u, b, AtWork)
        BY <1>4, <1>6, <1>9
  <2>2. CASE u \in Writing(a)
    <3>1. b = a
          BY <1>7, <2>1, <2>2 DEF At
    <3>2. \A v, w \in Terminals : \A c : At(v, c, AtWork) /\ At(w, c, AtWork) /\ v # w => c \in contested
          BY DEF WritersOK, AtWork
    <3>3. At(u, a, AtWork) /\ At(t, a, AtWork) /\ u # t
          BY <1>5, <2>1, <3>1
    <3>4. a \in contested
          BY ONLY <3>2, <3>3, t \in Terminals, u \in Terminals
    <3> QED BY <1>2, <3>1, <3>4
  <2>3. CASE u \notin Writing(a)
        BY <1>2, <1>6, <1>9, <2>1, <2>3 DEF WritersOK, AtWork
  <2> QED BY <2>2, <2>3
<1>10. ASSUME NEW u \in Terminals, NEW b, At(u, b, {"filled"})', b \in DOMAIN drafts', drafts'[b] = "torn"
       PROVE  b \in contested'
  <2>1. u # t /\ At(u, b, {"filled"})
        BY <1>4, <1>6, <1>10
  <2>2. b \in DOMAIN drafts /\ drafts[b] = "torn"
        BY <1>2, <1>10 DEF Drop
  <2> QED BY <1>2, <2>1, <2>2 DEF WritersOK
<1>11. ASSUME NEW b \in DOMAIN drafts', drafts'[b] = "torn"
       PROVE  killed' \/ (\E u \in Terminals : At(u, b, {"opened"})' /\ ~ keep'[u].moved)
  <2>1. b \in DOMAIN drafts /\ drafts[b] = "torn" /\ b # a
        BY <1>2, <1>11 DEF Drop
  <2>2. killed \/ (\E u \in Terminals : At(u, b, {"opened"}) /\ ~ keep[u].moved)
        BY <2>1 DEF WritersOK
  <2>3. ASSUME NEW u \in Terminals, At(u, b, {"opened"}), ~ keep[u].moved
        PROVE  At(u, b, {"opened"})' /\ ~ keep'[u].moved
    <3>1. u # t /\ u \notin Writing(a)
          BY <1>1, <1>2, <2>1, <2>3 DEF At, Writing
    <3> QED BY <1>6, <2>3, <3>1
  <2> QED BY <1>2, <2>2, <2>3
<1>12. ASSUME NEW b \in DOMAIN objects', objects'[b] = "torn"
       PROVE  /\ b \in contested'
              /\ killed' \/ (\E u \in Terminals : At(u, b, {"opened"})' /\ keep'[u].moved)
  <2>1. CASE b = a
    <3>1. drafts[a] = "torn"
          BY <1>2, <1>12, <2>1 DEF Set
    <3>2. a \in contested
          BY <1>2, <1>5, <3>1 DEF WritersOK
    <3>3. killed \/ (\E u \in Terminals : At(u, a, {"opened"}) /\ ~ keep[u].moved)
          BY <1>2, <3>1 DEF WritersOK
    <3>4. ASSUME NEW u \in Terminals, At(u, a, {"opened"})
          PROVE  At(u, a, {"opened"})' /\ keep'[u].moved
      <4>1. u # t /\ u \in Writing(a)
            BY <1>1, <1>2, <1>7, <3>4 DEF At, AtWork
      <4> QED BY <1>6, <3>4, <4>1
    <3> QED BY <1>2, <2>1, <3>2, <3>3, <3>4
  <2>2. CASE b # a
    <3>1. b \in DOMAIN objects /\ objects[b] = "torn"
          BY <1>2, <1>12, <2>2 DEF Set
    <3>2. b \in contested /\ (killed \/ (\E u \in Terminals : At(u, b, {"opened"}) /\ keep[u].moved))
          BY <3>1 DEF WritersOK
    <3>3. ASSUME NEW u \in Terminals, At(u, b, {"opened"}), keep[u].moved
          PROVE  At(u, b, {"opened"})' /\ keep'[u].moved
      <4>1. u # t
            BY <1>1, <1>2, <3>3 DEF At
      <4> QED BY <1>6, <3>3, <4>1
    <3> QED BY <1>2, <3>2, <3>3
  <2> QED BY <2>1, <2>2
<1> QED BY <1>8, <1>9, <1>10, <1>11, <1>12 DEF WritersOK, AtWork

\* There are no drafts in the empty folder.
LEMMA WritersInit ==
    ASSUME Init
    PROVE  WritersOK
<1>1. DOMAIN objects = {} /\ DOMAIN drafts = {} /\ \A t \in Terminals : keep[t] = Idle
      BY DEF Init
<1> QED BY <1>1 DEF WritersOK, At

\* Every step keeps torn drafts with their writers.
LEMMA WritersNext ==
    ASSUME KeepsOK, WritersOK, [Next]_vars
    PROVE  WritersOK'
<1>1. CASE \E t \in Terminals, who \in People : Keep(t, who)
      BY <1>1, WritersKeep
<1>2. CASE \E t \in Terminals : Step(t) \/ Kill(t)
  <2>1. PICK t \in Terminals : Step(t) \/ Kill(t)
        BY <1>2
  <2> QED BY <2>1, WritersAside, WritersOpen, WritersFill, WritersMoveIn DEF Step
<1>3. CASE ~ KeepStep
  <2>1. UNCHANGED <<keep, objects, drafts, contested>> /\ (killed => killed')
        BY <1>3, OthersLeave
  <2>2. \A u \in Terminals : Writer(u)' <=> Writer(u)
        BY <2>1 DEF Writer, Idle
  <2> QED BY <2>1, <2>2, WritersGoOn
<1> QED BY <1>1, <1>2, <1>3 DEF KeepStep

-----------------------------------------------------------------------------
\* The ref main.

\* What of a keep the others see.
AsBefore(u) ==
    /\ keep'[u] = Idle <=> keep[u] = Idle
    /\ keep'[u].phase = keep[u].phase /\ keep'[u].object = keep[u].object
    /\ keep'[u].at = keep[u].at /\ keep'[u].alone = keep[u].alone

\* What a step of one keep has to satisfy for main.
LEMMA MainGoesOn ==
    ASSUME MainOK, UNCHANGED <<main, named>>, cut => cut',
           NEW t \in Terminals, keep[t] # Idle, keep[t].phase = "naming" => cut',
           \A u \in Terminals : u # t => AsBefore(u),
           NEW l, keep'[t] = l,
           l = Idle \/ (/\ l.alone = keep[t].alone
                        /\ keep[t].alone /\ Late(l) => OnTop(l.object) \/ cut)
    PROVE  MainOK'
<1>1. \A u \in Terminals : u # t => (u \in Busy' <=> u \in Busy)
      BY DEF Busy, AsBefore, Idle
<1>2. t \in Busy /\ Busy' \subseteq Busy
      BY <1>1 DEF Busy
<1>3. ASSUME main' = None, named' # None, ~ cut'
      PROVE  \E u \in Busy' : keep'[u].phase = "naming"
  <2>1. PICK u \in Busy : keep[u].phase = "naming"
        BY <1>3 DEF MainOK
  <2>2. u \in Terminals /\ u # t
        BY <1>3, <2>1 DEF Busy
  <2> QED BY <1>1, <2>1, <2>2 DEF AsBefore
<1>4. ASSUME NEW u \in Busy', keep'[u].alone
      PROVE  Busy' = {u} /\ (Late(keep[u])' => OnTop(keep[u].object)' \/ cut')
  <2>0. u \in Terminals /\ u \in Busy
        BY <1>2 DEF Busy
  <2>1. CASE u = t
    <3>1. l # Idle
          BY <1>4, <2>1 DEF Busy, Idle
    <3>2. l.alone = keep[t].alone /\ (keep[t].alone /\ Late(l) => OnTop(l.object) \/ cut)
          BY <3>1
    <3>3. Busy = {t}
          BY <1>2, <1>4, <2>1, <3>2 DEF MainOK
    <3>4. Late(keep[u])' => Late(l)
          BY <2>1 DEF Late, Item
    <3>5. OnTop(l.object) => OnTop(keep[u].object)'
          BY <2>1 DEF OnTop
    <3> QED BY <1>2, <1>4, <2>1, <3>2, <3>3, <3>4, <3>5
  <2>2. CASE u # t
    <3>1. keep[u].alone
          BY <1>4, <2>0, <2>2 DEF AsBefore
    <3>2. Busy = {u}
          BY <2>0, <3>1 DEF MainOK
    <3> QED BY <1>2, <2>2, <3>2
  <2> QED BY <2>1, <2>2
<1> QED BY <1>3, <1>4 DEF MainOK

\* The steps that do not touch main.
LEMMA MainAside ==
    ASSUME KeepsOK, MainOK, NEW t \in Terminals,
           Enter(t) \/ Look(t) \/ Refuse(t) \/ Seal(t) \/ Open(t) \/ Fill(t) \/ MoveIn(t) \/ Fail(t) \/ Kill(t)
    PROVE  MainOK'
<1>1. PICK k : k = keep[t]
      OBVIOUS
<1>2. UNCHANGED <<main, named>> /\ (cut => cut')
  <2>1. CASE Enter(t) \/ Look(t) \/ Refuse(t) \/ Fail(t)
        BY <2>1 DEF Enter, Look, Refuse, Fail, files, history
  <2>2. CASE Seal(t)
        BY <2>2 DEF Seal, files, history
  <2>3. CASE Open(t)
        BY <2>3 DEF Open
  <2>4. CASE Fill(t)
        BY <2>4 DEF Fill, history
  <2>5. CASE MoveIn(t)
        BY <2>5 DEF MoveIn, history
  <2>6. CASE Kill(t)
        BY <2>6 DEF Kill, files
  <2> QED BY <2>1, <2>2, <2>3, <2>4, <2>5, <2>6
<1>3. k # Idle /\ DOMAIN k = Fields
  <2>1. CASE Kill(t)
        BY <1>1, <2>1 DEF Kill, Busy, KeepsOK, KeepOK, Walked
  <2>2. CASE ~ Kill(t)
        BY <1>1, <2>2, BusyKeep DEF Enter, Look, Refuse, Seal, Open, Fill, MoveIn, Fail
  <2> QED BY <2>1, <2>2
<1>4. k.phase = "naming" => cut'
      BY <1>1 DEF Enter, Look, Refuse, Seal, Open, Fill, MoveIn, Fail, Kill
<1>5. k.alone /\ Late(k) => OnTop(k.object) \/ cut
      BY <1>1, <1>3 DEF MainOK, Busy
<1>6. \A f : keep' = [keep EXCEPT ![t] = f] => keep'[t] = f /\ \A u \in Terminals : u # t => AsBefore(u)
      BY DEF KeepsOK, AsBefore
<1>7. CASE Enter(t)
  <2> DEFINE l == [k EXCEPT !.under = Set(@, Item(k).path, Governing(Item(k).path)), !.at = @ + 1]
  <2>1. keep' = [keep EXCEPT ![t] = l] /\ k.phase = "walk"
        BY <1>1, <1>7 DEF Enter
  <2>2. l.phase = "walk" /\ l.alone = k.alone
        BY <1>3, <2>1 DEF Fields
  <2> HIDE DEF l
  <2>3. ~ Late(l)
        BY <2>2 DEF Late, InHand, AtEnd
  <2> QED BY <1>1, <1>2, <1>3, <1>4, <1>6, <2>1, <2>2, <2>3, MainGoesOn
<1>8. CASE Look(t)
  <2> DEFINE l == [k EXCEPT !.phase = "looked", !.close = HomeOf(k), !.epoch = epoch[HomeOf(k)]]
  <2>1. keep' = [keep EXCEPT ![t] = l] /\ k.phase = "walk"
        BY <1>1, <1>8 DEF Look
  <2>2. l.phase = "looked" /\ l.alone = k.alone
        BY <1>3, <2>1 DEF Fields
  <2> HIDE DEF l
  <2>3. ~ Late(l)
        BY <2>2 DEF Late, InHand, AtEnd
  <2> QED BY <1>1, <1>2, <1>3, <1>4, <1>6, <2>1, <2>2, <2>3, MainGoesOn
<1>9. CASE Refuse(t) \/ Fail(t) \/ Kill(t)
  <2>1. keep' = [keep EXCEPT ![t] = Idle]
        BY <1>9 DEF Refuse, Fail, Kill
  <2> QED BY <1>1, <1>2, <1>3, <1>4, <1>6, <2>1, MainGoesOn
<1>10. \A a : /\ DOMAIN Stored(k, a) = Fields /\ Stored(k, a).alone = k.alone
              /\ Late(Stored(k, a)) => Item(k).do = "commit" /\ Stored(k, a).object = a
      BY <1>3 DEF Stored, Fields, Late, InHand, AtEnd
<1>11. CASE Seal(t)
  <2> DEFINE a == ToSeal(k)
             l == IF Exists(a) THEN Stored(k, a) ELSE [k EXCEPT !.phase = "missing", !.object = a]
  <2>1. keep' = [keep EXCEPT ![t] = l] /\ k.phase = "looked"
        BY <1>1, <1>11 DEF Seal
  <2>2. k.alone /\ Item(k).do = "commit" => OnTop(a) \/ cut
    <3> SUFFICES ASSUME k.alone, Item(k).do = "commit" PROVE OnTop(a) \/ cut
        OBVIOUS
    <3>1. a.body.parents = IF main = None THEN <<>> ELSE <<main>>
          BY DEF ToSeal, Sealed, CommitBody
    <3>2. Busy = {t}
          BY <1>1, <1>3 DEF MainOK, Busy
    <3>3. main = None => named = None \/ cut
          BY <1>1, <2>1, <3>2 DEF MainOK
    <3>4. main = None \/ main = named
          BY DEF MainOK
    <3> HIDE DEF a
    <3> QED BY <3>1, <3>3, <3>4 DEF OnTop
  <2> HIDE DEF a
  <2>3. l.alone = k.alone /\ (Late(l) => Item(k).do = "commit" /\ l.object = a)
    <3>1. CASE Exists(a)
          BY <3>1, <1>10
    <3>2. CASE ~ Exists(a)
      <4>1. l = [k EXCEPT !.phase = "missing", !.object = a]
            BY <3>2
      <4>2. l.phase = "missing" /\ l.alone = k.alone /\ l.object = a /\ l.at = k.at
            BY <1>3, <4>1 DEF Fields
      <4>3. Item(l) = Item(k)
            BY <4>2 DEF Item
      <4> HIDE DEF l
      <4> QED BY <4>2, <4>3 DEF Late, AtEnd
    <3> QED BY <3>1, <3>2
  <2> HIDE DEF l
  <2> QED BY <1>1, <1>2, <1>3, <1>4, <1>6, <2>1, <2>2, <2>3, MainGoesOn
<1>12. CASE Open(t) \/ Fill(t)
  <2>1. \E p \in InHand : \E m :
            keep' = [keep EXCEPT ![t] = [k EXCEPT !.phase = p, !.moved = m]] /\ k.phase \in InHand
    <3>1. CASE Open(t)
          BY <1>1, <3>1 DEF Open, InHand
    <3>2. CASE Fill(t)
      <4>1. keep' = [keep EXCEPT ![t] = [k EXCEPT !.phase = "filled"]] /\ k.phase = "opened"
            BY <1>1, <3>2 DEF Fill
      <4>2. [k EXCEPT !.phase = "filled"] = [k EXCEPT !.phase = "filled", !.moved = k.moved]
            BY <1>3 DEF Fields
      <4> QED BY <4>1, <4>2 DEF InHand
    <3> QED BY <1>12, <3>1, <3>2
  <2>2. PICK p \in InHand : \E m :
            keep' = [keep EXCEPT ![t] = [k EXCEPT !.phase = p, !.moved = m]] /\ k.phase \in InHand
        BY <2>1
  <2>3. PICK m : keep' = [keep EXCEPT ![t] = [k EXCEPT !.phase = p, !.moved = m]] /\ k.phase \in InHand
        BY <2>2
  <2> DEFINE l == [k EXCEPT !.phase = p, !.moved = m]
  <2>4. l.phase = p /\ l.alone = k.alone /\ l.object = k.object /\ l.at = k.at
        BY <1>3 DEF Fields
  <2> HIDE DEF l
  <2>5. Item(l) = Item(k)
        BY <2>4 DEF Item
  <2>6. Late(l) => Late(k)
        BY <2>3, <2>4, <2>5 DEF Late, InHand, AtEnd
  <2>7. keep' = [keep EXCEPT ![t] = l]
        BY <2>3 DEF l
  <2> QED BY <1>1, <1>2, <1>3, <1>4, <1>5, <1>6, <2>4, <2>6, <2>7, MainGoesOn
<1>13. CASE MoveIn(t)
  <2>1. /\ k.phase = "filled" /\ keep'[t] = Stored(k, k.object)
        /\ \A u \in Terminals : u # t =>
              keep'[u] = IF u \in Writing(k.object) THEN [keep[u] EXCEPT !.moved = TRUE] ELSE keep[u]
        BY <1>1, <1>13 DEF MoveIn
  <2>2. ASSUME NEW u \in Terminals, u # t PROVE AsBefore(u)
    <3>1. CASE u \in Writing(k.object)
      <4>1. PICK m : m = keep[u]
            OBVIOUS
      <4>2. m # Idle /\ DOMAIN m = Fields /\ m.phase # "idle" /\ keep'[u] = [m EXCEPT !.moved = TRUE]
            BY <2>1, <2>2, <3>1, <4>1 DEF Writing, Busy, KeepsOK, KeepOK, Walked
      <4>3. /\ [m EXCEPT !.moved = TRUE].phase = m.phase /\ [m EXCEPT !.moved = TRUE].object = m.object
            /\ [m EXCEPT !.moved = TRUE].at = m.at /\ [m EXCEPT !.moved = TRUE].alone = m.alone
            BY <4>2 DEF Fields
      <4>4. keep'[u] # Idle
            BY <4>2, <4>3 DEF Idle
      <4> QED BY <4>1, <4>2, <4>3, <4>4 DEF AsBefore
    <3>2. CASE u \notin Writing(k.object)
          BY <2>1, <2>2, <3>2 DEF AsBefore
    <3> QED BY <3>1, <3>2
  <2> DEFINE l == Stored(k, k.object)
  <2>3. l.alone = k.alone /\ (Late(l) => Item(k).do = "commit" /\ l.object = k.object)
        BY <1>10
  <2> HIDE DEF l
  <2>4. Late(l) => Late(k)
        BY <2>1, <2>3 DEF Late, InHand
  <2>5. keep'[t] = l
        BY <2>1 DEF l
  <2> QED BY <1>1, <1>2, <1>3, <1>4, <1>5, <2>2, <2>3, <2>4, <2>5, MainGoesOn
<1> QED BY <1>7, <1>8, <1>9, <1>11, <1>12, <1>13

\* A keep that is alone begins on top of what main names.
LEMMA MainKeep ==
    ASSUME KeepsOK, MainOK, NEW t \in Terminals, NEW who \in People, Keep(t, who)
    PROVE  MainOK'
<1>1. /\ keep[t] = Idle /\ t \notin Busy /\ keep'[t] # Idle
      /\ keep'[t].phase = "walk" /\ keep'[t].alone = (Busy = {})
      /\ UNCHANGED <<main, named, cut>>
      BY DEF Keep, Busy, Idle, files, history
<1>2. \A u \in Terminals : u # t =>
          keep'[u] = IF u \in Busy THEN [keep[u] EXCEPT !.alone = FALSE] ELSE Idle
      BY DEF Keep
<1>3. ASSUME NEW u \in Busy
      PROVE  u \in Busy' /\ keep'[u].phase = keep[u].phase /\ ~ keep'[u].alone
  <2>1. PICK k : k = keep[u]
        OBVIOUS
  <2>2. DOMAIN k = Fields /\ k # Idle /\ u # t /\ u \in Terminals /\ keep'[u] = [k EXCEPT !.alone = FALSE]
        BY <1>1, <1>2, <2>1 DEF Busy, KeepsOK, KeepOK, Walked
  <2>3. /\ [k EXCEPT !.alone = FALSE].phase = k.phase /\ [k EXCEPT !.alone = FALSE].alone = FALSE
        /\ DOMAIN [k EXCEPT !.alone = FALSE] = Fields
        BY <2>2 DEF Fields
  <2>4. keep'[u] # Idle
        BY <2>2, <2>3 DEF Idle, Fields
  <2> QED BY <2>1, <2>2, <2>3, <2>4 DEF Busy
<1>4. Busy' = Busy \cup {t}
      BY <1>1, <1>2, <1>3 DEF Busy
<1>5. ~ Late(keep[t])'
      BY <1>1 DEF Late, InHand, AtEnd
<1> QED BY <1>1, <1>3, <1>4, <1>5 DEF MainOK

\* Emptying main: whoever is killed now has cut it off.
LEMMA MainEmpty ==
    ASSUME KeepsOK, MainOK, NEW t \in Terminals, Empty(t)
    PROVE  MainOK'
<1>1. PICK k : k = keep[t]
      OBVIOUS
<1>2. /\ k.phase = "stored" /\ keep' = [keep EXCEPT ![t] = [k EXCEPT !.phase = "naming"]]
      /\ main' = None /\ UNCHANGED <<named, cut>>
      BY <1>1 DEF Empty, EmptyRef, history
<1>3. k # Idle /\ DOMAIN k = Fields
      BY <1>1, <1>2, BusyKeep
<1> DEFINE l == [k EXCEPT !.phase = "naming"]
<1>4. l.phase = "naming" /\ l.alone = k.alone /\ l.object = k.object /\ DOMAIN l = Fields
      BY <1>3 DEF Fields
<1>5. keep' = [keep EXCEPT ![t] = l] /\ l # Idle
      BY <1>2, <1>3, <1>4 DEF Idle, Fields
<1> HIDE DEF l
<1>6. keep'[t] = l /\ \A u \in Terminals : u # t => keep'[u] = keep[u]
      BY <1>5 DEF KeepsOK
<1>7. Busy' = Busy /\ t \in Busy
      BY <1>1, <1>3, <1>5, <1>6 DEF Busy
<1>8. Late(k)
      BY <1>2 DEF Late, AtEnd
<1>9. ASSUME NEW u \in Busy, keep'[u].alone
      PROVE  Busy = {u} /\ (OnTop(keep[u].object)' \/ cut')
  <2>1. keep[u].alone
        BY <1>1, <1>4, <1>6, <1>9 DEF Busy
  <2>2. u = t
        BY <1>7, <2>1 DEF MainOK
  <2>3. OnTop(k.object) \/ cut
        BY <1>1, <1>7, <1>8, <2>1, <2>2 DEF MainOK
  <2>4. OnTop(k.object) => OnTop(keep[u].object)'
        BY <1>2, <1>4, <1>6, <2>2 DEF OnTop
  <2> QED BY <1>2, <2>1, <2>3, <2>4 DEF MainOK
<1> QED BY <1>2, <1>4, <1>6, <1>7, <1>9 DEF MainOK

\* Naming the commit that is on top of the one before.
LEMMA MainName ==
    ASSUME KeepsOK, MainOK, NEW t \in Terminals, Name(t)
    PROVE  MainOK'
<1>1. /\ keep[t].phase = "naming" /\ keep' = [keep EXCEPT ![t] = Idle]
      /\ main' = named'
      BY DEF Name, WriteRef
<1>2. t \in Busy /\ keep'[t] = Idle /\ \A u \in Terminals : u # t => keep'[u] = keep[u]
      BY <1>1, BusyKeep DEF Busy, KeepsOK
<1>3. ASSUME NEW u \in Busy', keep'[u].alone
      PROVE  FALSE
  <2>1. u \in Busy /\ u # t /\ keep[u].alone
        BY <1>2, <1>3 DEF Busy
  <2> QED BY <1>2, <2>1 DEF MainOK
<1> QED BY <1>1, <1>3 DEF MainOK

\* Nothing is named in the empty folder.
LEMMA MainInit ==
    ASSUME Init
    PROVE  MainOK
<1>1. main = None /\ named = None /\ Busy = {}
      BY DEF Init, Busy
<1> QED BY <1>1 DEF MainOK

\* Every step preserves it.
LEMMA MainNext ==
    ASSUME KeepsOK, MainOK, [Next]_vars
    PROVE  MainOK'
<1>1. CASE \E t \in Terminals, who \in People : Keep(t, who)
      BY <1>1, MainKeep
<1>2. CASE \E t \in Terminals : Step(t) \/ Kill(t)
  <2>1. PICK t \in Terminals : Step(t) \/ Kill(t)
        BY <1>2
  <2> QED BY <2>1, MainAside, MainEmpty, MainName DEF Step
<1>3. CASE ~ KeepStep
      BY <1>3, OthersLeave DEF MainOK, Busy, OnTop, Late, Item
<1> QED BY <1>1, <1>2, <1>3 DEF KeepStep

-----------------------------------------------------------------------------
\* All of it holds in every state that can be reached.
THEOREM SnapshotInvariant == Spec => []SnapshotInv
<1>1. Init => SnapshotInv
      BY WorldInit, KeepsInit, WritersInit, MainInit DEF SnapshotInv
<1>2. SnapshotInv /\ [Next]_vars => SnapshotInv'
      BY WorldNext, KeepsNext, WritersNext, MainNext DEF SnapshotInv
<1> QED BY <1>1, <1>2, PTL DEF Spec

-----------------------------------------------------------------------------
\* What main leads to.

\* Above a path there are folders only, each in the one before it.
LEMMA Prefixes ==
    ASSUME NEW path \in Paths, NEW i \in 0..Len(path)
    PROVE  /\ Len(path) \in Nat /\ SubSeq(path, 1, 0) = Root /\ SubSeq(path, 1, Len(path)) = path
           /\ SubSeq(path, 1, i) \in Paths
           /\ i < Len(path) => SubSeq(path, 1, i) \in Folders
           /\ i > 0 => SubSeq(path, 1, i) \in Children(SubSeq(path, 1, i - 1))
<1>0. path \in Seq(Names) /\ Folders \subseteq Paths
  <2>1. Folders \subseteq Paths
        BY SnapshotAssumption
  <2> QED BY <2>1, WalkFacts
<1>1. path \in Seq(Names) /\ Len(path) \in Nat /\ Folders \subseteq Paths
      BY <1>0
<1>2. SubSeq(path, 1, 0) = Root /\ SubSeq(path, 1, Len(path)) = path
      BY <1>1 DEF Root
<1>3. i < Len(path) => SubSeq(path, 1, i) \in Folders
      BY <1>1, SnapshotAssumption
<1>4. SubSeq(path, 1, i) \in Paths
  <2>1. i < Len(path) \/ i = Len(path)
        BY <1>1
  <2> QED BY <2>1, <1>1, <1>2, <1>3
<1>5. ASSUME i > 0
      PROVE  SubSeq(path, 1, i) \in Children(SubSeq(path, 1, i - 1))
  <2> DEFINE to == SubSeq(path, 1, i)
             above == SubSeq(path, 1, i - 1)
  <2>1. /\ to \in Seq(Names) /\ Len(to) = i
        /\ above \in Seq(Names) /\ Len(above) = i - 1
        BY <1>1, <1>5
  <2>2. above = SubSeq(to, 1, i - 1)
    <3>1. to = [j \in 1..i |-> path[j]]
          BY <1>1, <1>5
    <3>2. above = [j \in 1..(i - 1) |-> path[j]]
          BY <1>1, <1>5
    <3> HIDE DEF to, above
    <3>3. SubSeq(to, 1, i - 1) = [j \in 1..(i - 1) |-> to[j]]
          BY <2>1, <1>5
    <3> QED BY <3>1, <3>2, <3>3
  <2> HIDE DEF to, above
  <2>3. to \in Paths
        BY <1>4 DEF to
  <2>4. to \in Children(above)
        BY <2>1, <2>2, <2>3, <1>5 DEF Children, IsPrefix
  <2> QED BY <2>4 DEF to, above
<1> QED BY <1>1, <1>2, <1>3, <1>4, <1>5

\* The recursion of ObjectAt has a solution.
AtUpTo(commit, path, m, f) ==
    f = [i \in 0..m |-> IF i = 0 THEN commit.body.entries[Root]
                        ELSE f[i - 1].body.entries[SubSeq(path, 1, i)]]

\* The function that follows a path in a commit exists.
LEMMA AtExists ==
    ASSUME NEW commit, NEW path, NEW m \in Nat
    PROVE  \E f : AtUpTo(commit, path, m, f)
<1> DEFINE S == {k \in 0..m : \E f : AtUpTo(commit, path, k, f)}
<1>1. ASSUME NEW k \in 0..m, \A j \in 0..(k - 1) : j \in S
      PROVE  k \in S
  <2>1. CASE k = 0
    <3> DEFINE one == [i \in 0..0 |-> commit.body.entries[Root]]
    <3>1. AtUpTo(commit, path, 0, one)
          BY DEF AtUpTo
    <3> QED BY <2>1, <3>1
  <2>2. CASE k # 0
    <3>1. k - 1 \in 0..(k - 1)
          BY <2>2
    <3>2. PICK f : AtUpTo(commit, path, k - 1, f)
          BY <1>1, <3>1
    <3> DEFINE e(i) == SubSeq(path, 1, i)
               g == [i \in 0..k |-> IF i = k THEN f[k - 1].body.entries[e(k)] ELSE f[i]]
               rhs(h, i) == IF i = 0 THEN commit.body.entries[Root] ELSE h[i - 1].body.entries[e(i)]
    <3>3. ASSUME NEW i \in 0..k
          PROVE  g[i] = rhs(g, i)
      <4>1. CASE i = k
        <5>1. i # 0 /\ i - 1 \in 0..k /\ i - 1 # k
              BY <2>2, <4>1
        <5> HIDE DEF e
        <5> QED BY <4>1, <5>1
      <4>2. CASE i # k
        <5>1. i \in 0..(k - 1)
              BY <4>2
        <5>2. f[i] = rhs(f, i)
              BY <3>2, <5>1 DEF AtUpTo
        <5>3. i # 0 => i - 1 \in 0..k /\ i - 1 # k
              BY <5>1
        <5> HIDE DEF e
        <5> QED BY <4>2, <5>2, <5>3
      <4> QED BY <4>1, <4>2
    <3>4. AtUpTo(commit, path, k, g)
      <4> DEFINE h == [i \in 0..k |-> rhs(g, i)]
      <4>1. g = h
        <5> HIDE DEF rhs
        <5> QED BY <3>3
      <4> QED BY <4>1 DEF AtUpTo
    <3> HIDE DEF g
    <3> QED BY <3>4
  <2> QED BY <2>1, <2>2
<1>2. \A k \in 0..m : k \in S
  <2> HIDE DEF S
  <2> QED BY <1>1, UpTo
<1> QED BY <1>2

\* The objects on the way from a commit to a path.
LeadsTo(f, commit, path) ==
    /\ ObjectAt(commit, path) = f[Len(path)]
    /\ f[0] = commit.body.entries[Root]
    /\ \A i \in 1..Len(path) : f[i] = f[i - 1].body.entries[SubSeq(path, 1, i)]

\* ObjectAt is what it finds at the end of the path.
LEMMA ObjectAtSolves ==
    ASSUME NEW commit, NEW path \in Paths
    PROVE  \E f : LeadsTo(f, commit, path)
<1>0. Len(path) \in Nat
      BY WalkFacts
<1> DEFINE f == CHOOSE g : AtUpTo(commit, path, Len(path), g)
           rhs(i) == IF i = 0 THEN commit.body.entries[Root]
                     ELSE f[i - 1].body.entries[SubSeq(path, 1, i)]
<1>1. AtUpTo(commit, path, Len(path), f)
      BY <1>0, AtExists
<1>2. ObjectAt(commit, path) = f[Len(path)]
      BY DEF ObjectAt, AtUpTo
<1> HIDE DEF f
<1>3. f = [i \in 0..Len(path) |-> rhs(i)]
      BY <1>1 DEF AtUpTo
<1> HIDE DEF rhs
<1>4. \A i \in 0..Len(path) : f[i] = rhs(i)
      BY <1>3
<1>5. f[0] = commit.body.entries[Root]
  <2>1. f[0] = rhs(0)
        BY <1>0, <1>4
  <2> QED BY <2>1 DEF rhs
<1>6. ASSUME NEW i \in 1..Len(path) PROVE f[i] = f[i - 1].body.entries[SubSeq(path, 1, i)]
  <2>1. f[i] = rhs(i) /\ i # 0
        BY <1>0, <1>4
  <2> QED BY <2>1 DEF rhs
<1>7. LeadsTo(f, commit, path)
      BY <1>2, <1>5, <1>6 DEF LeadsTo
<1> QED BY <1>7

\* The commits that are in the store.
Commits == {a \in DOMAIN objects : a.kind = "commit"}

\* A commit in the store has at each path an object of the store, of the kind
\* that the path has.
LEMMA ObjectAtFits ==
    ASSUME StoreOK, NEW commit \in Commits, NEW path \in Paths
    PROVE  ObjectAt(commit, path) \in DOMAIN objects /\ FitsAt(ObjectAt(commit, path), path)
<1>0. Len(path) \in Nat
      BY WalkFacts
<1>1. PICK f : LeadsTo(f, commit, path)
      BY ObjectAtSolves
<1> DEFINE S == {i \in 0..Len(path) : f[i] \in DOMAIN objects /\ FitsAt(f[i], SubSeq(path, 1, i))}
<1>2. ASSUME NEW i \in 0..Len(path), \A j \in 0..(i - 1) : j \in S
      PROVE  i \in S
  <2>1. CASE i = 0
    <3>1. commit.body.entries[Root] \in DOMAIN objects /\ FitsAt(commit.body.entries[Root], Root)
          BY DEF Commits, StoreOK, Sound, Refers
    <3>2. SubSeq(path, 1, 0) = Root
          BY <2>1, Prefixes
    <3> QED BY <1>1, <2>1, <3>1, <3>2 DEF LeadsTo
  <2>2. CASE i # 0
    <3>1. i - 1 \in 0..(i - 1) /\ i \in 1..Len(path) /\ i - 1 \in 0..Len(path) /\ i - 1 < Len(path) /\ i > 0
          BY <1>0, <2>2
    <3>2. f[i - 1] \in DOMAIN objects /\ FitsAt(f[i - 1], SubSeq(path, 1, i - 1))
          BY <1>2, <3>1
    <3>3. SubSeq(path, 1, i - 1) \in Folders /\ SubSeq(path, 1, i) \in Children(SubSeq(path, 1, i - 1))
          BY <3>1, Prefixes
    <3>4. f[i - 1].kind = "tree" /\ SubSeq(path, 1, i) \in DOMAIN f[i - 1].body.entries
          BY <3>2, <3>3 DEF FitsAt
    <3>5. f[i] = f[i - 1].body.entries[SubSeq(path, 1, i)]
          BY <1>1, <3>1 DEF LeadsTo
    <3>6. Refers(f[i - 1])
          BY <3>2 DEF StoreOK, Sound
    <3> QED BY <3>4, <3>5, <3>6 DEF Refers
  <2> QED BY <2>1, <2>2
<1>3. \A i \in 0..Len(path) : i \in S
  <2> HIDE DEF S
  <2> QED BY <1>0, <1>2, UpTo
<1>4. Len(path) \in S
      BY <1>0, <1>3
<1>5. SubSeq(path, 1, Len(path)) = path
      BY <1>0, Prefixes
<1> QED BY <1>1, <1>4, <1>5 DEF LeadsTo

-----------------------------------------------------------------------------
\* The commits behind main.

\* One commit further back.
Back(so) == so \o so[Len(so)].body.parents
First(a) == IF a = None THEN <<>> ELSE <<a>>
TrailUpTo(a, m, f) ==
    f = [n \in 0..m |-> IF n = 0 THEN First(a) ELSE IF f[n - 1] = <<>> THEN <<>> ELSE Back(f[n - 1])]

\* The function that follows first parents exists.
LEMMA TrailExists ==
    ASSUME NEW a, NEW m \in Nat
    PROVE  \E f : TrailUpTo(a, m, f)
<1> DEFINE S == {k \in 0..m : \E f : TrailUpTo(a, k, f)}
<1>1. ASSUME NEW k \in 0..m, \A j \in 0..(k - 1) : j \in S
      PROVE  k \in S
  <2>1. CASE k = 0
    <3> DEFINE one == [n \in 0..0 |-> First(a)]
    <3>1. TrailUpTo(a, 0, one)
          BY DEF TrailUpTo
    <3> QED BY <2>1, <3>1
  <2>2. CASE k # 0
    <3>1. k - 1 \in 0..(k - 1)
          BY <2>2
    <3>2. PICK f : TrailUpTo(a, k - 1, f)
          BY <1>1, <3>1
    <3> DEFINE then(so) == IF so = <<>> THEN <<>> ELSE Back(so)
               g == [n \in 0..k |-> IF n = k THEN then(f[k - 1]) ELSE f[n]]
               rhs(h, n) == IF n = 0 THEN First(a) ELSE then(h[n - 1])
    <3>3. ASSUME NEW n \in 0..k
          PROVE  g[n] = rhs(g, n)
      <4>1. CASE n = k
        <5>1. n # 0 /\ n - 1 \in 0..k /\ n - 1 # k
              BY <2>2, <4>1
        <5> HIDE DEF then
        <5> QED BY <4>1, <5>1
      <4>2. CASE n # k
        <5>1. n \in 0..(k - 1)
              BY <4>2
        <5>2. f[n] = rhs(f, n)
              BY <3>2, <5>1 DEF TrailUpTo
        <5>3. n # 0 => n - 1 \in 0..k /\ n - 1 # k
              BY <5>1
        <5> HIDE DEF then
        <5> QED BY <4>2, <5>2, <5>3
      <4> QED BY <4>1, <4>2
    <3>4. TrailUpTo(a, k, g)
      <4> DEFINE h == [n \in 0..k |-> rhs(g, n)]
      <4>1. g = h
        <5> HIDE DEF rhs
        <5> QED BY <3>3
      <4> QED BY <4>1 DEF TrailUpTo
    <3> HIDE DEF g
    <3> QED BY <3>4
  <2> QED BY <2>1, <2>2
<1>2. \A k \in 0..m : k \in S
  <2> HIDE DEF S
  <2> QED BY <1>1, UpTo
<1> QED BY <1>2

\* The trails of growing length.
Goes(f, a) ==
    /\ Trail(a) = f[Most("keeps")]
    /\ f[0] = First(a)
    /\ \A n \in 1..Most("keeps") : f[n] = IF f[n - 1] = <<>> THEN <<>> ELSE Back(f[n - 1])

\* Trail is what it collects.
LEMMA TrailSolves ==
    ASSUME NEW a
    PROVE  \E f : Goes(f, a)
<1>0. Most("keeps") \in Nat
      BY MostIsNat
<1> DEFINE f == CHOOSE g : TrailUpTo(a, Most("keeps"), g)
           rhs(n) == IF n = 0 THEN First(a) ELSE IF f[n - 1] = <<>> THEN <<>> ELSE Back(f[n - 1])
<1>1. TrailUpTo(a, Most("keeps"), f)
      BY <1>0, TrailExists
<1>2. Trail(a) = f[Most("keeps")]
      BY DEF Trail, TrailUpTo, Back, First
<1> HIDE DEF f
<1>3. f = [n \in 0..Most("keeps") |-> rhs(n)]
      BY <1>1 DEF TrailUpTo
<1> HIDE DEF rhs
<1>4. \A n \in 0..Most("keeps") : f[n] = rhs(n)
      BY <1>3
<1>5. f[0] = First(a)
  <2>1. f[0] = rhs(0)
        BY <1>0, <1>4
  <2> QED BY <2>1 DEF rhs
<1>6. ASSUME NEW n \in 1..Most("keeps") PROVE f[n] = IF f[n - 1] = <<>> THEN <<>> ELSE Back(f[n - 1])
  <2>1. f[n] = rhs(n) /\ n # 0
        BY <1>0, <1>4
  <2> QED BY <2>1 DEF rhs
<1>7. Goes(f, a)
      BY <1>2, <1>5, <1>6 DEF Goes
<1> QED BY <1>7

\* The parents of a commit are commits.
LEMMA ParentsIn ==
    ASSUME StoreOK, NEW c \in Commits
    PROVE  c.body.parents \in Seq(Commits)
<1>1. PICK before : before = c.body.parents
      OBVIOUS
<1>2. before = <<>> \/ \E d \in Commits : before = <<d>>
      BY <1>1 DEF Commits, StoreOK, Sound, Refers
<1>3. CASE before = <<>>
      BY <1>1, <1>3
<1>4. CASE \E d \in Commits : before = <<d>>
  <2>1. PICK d \in Commits : before = <<d>>
        BY <1>4
  <2>2. <<d>> \in Seq(Commits)
        OBVIOUS
  <2> QED BY <1>1, <2>1, <2>2
<1> QED BY <1>2, <1>3, <1>4

\* Behind main there are only commits that are in the store.
LEMMA TrailIn ==
    ASSUME StoreOK, NEW f, Goes(f, main)
    PROVE  \A n \in 0..Most("keeps") : f[n] \in Seq(Commits)
<1> DEFINE S == {n \in 0..Most("keeps") : f[n] \in Seq(Commits)}
<1>0. Most("keeps") \in Nat
      BY MostIsNat
<1>1. ASSUME NEW n \in 0..Most("keeps"), \A j \in 0..(n - 1) : j \in S
      PROVE  n \in S
  <2>1. CASE n = 0
    <3>1. main = None \/ main \in Commits
          BY DEF StoreOK, Commits
    <3>2. First(main) \in Seq(Commits)
          BY <3>1 DEF First
    <3> QED BY <2>1, <3>2 DEF Goes
  <2>2. CASE n # 0
    <3>1. n - 1 \in 0..(n - 1) /\ n \in 1..Most("keeps")
          BY <2>2
    <3>2. PICK so : so = f[n - 1]
          OBVIOUS
    <3>3. so \in Seq(Commits) /\ f[n] = IF so = <<>> THEN <<>> ELSE Back(so)
          BY <1>1, <3>1, <3>2 DEF Goes
    <3>4. CASE so = <<>>
          BY <3>3, <3>4
    <3>5. CASE so # <<>>
      <4>1. Len(so) \in 1..Len(so)
            BY <3>3, <3>5
      <4>2. PICK c : c = so[Len(so)]
            OBVIOUS
      <4>3. c \in Commits
            BY <3>3, <4>1, <4>2, ElementIn
      <4>4. PICK before : before = c.body.parents
            OBVIOUS
      <4>5. before \in Seq(Commits)
            BY <4>3, <4>4, ParentsIn
      <4>6. f[n] = so \o before
            BY <3>3, <3>5, <4>2, <4>4 DEF Back
      <4>7. so \o before \in Seq(Commits)
            BY <3>3, <4>5
      <4> QED BY <4>6, <4>7
    <3> QED BY <3>4, <3>5
  <2> QED BY <2>1, <2>2
<1>2. \A n \in 0..Most("keeps") : n \in S
  <2> HIDE DEF S
  <2> QED BY <1>0, <1>1, UpTo
<1> QED BY <1>2

\* A trail is one of commits.
LEMMA TrailOfCommits ==
    ASSUME StoreOK
    PROVE  Trail(main) \in Seq(Commits)
<1>1. PICK f : Goes(f, main)
      BY TrailSolves
<1>2. Most("keeps") \in 0..Most("keeps")
      BY MostIsNat
<1>3. f[Most("keeps")] \in Seq(Commits)
      BY <1>1, <1>2, TrailIn
<1> QED BY <1>1, <1>3 DEF Goes

\* All that is needed is in the store.
LEMMA NeededIsThere ==
    ASSUME StoreOK
    PROVE  Needed \subseteq DOMAIN objects
<1> SUFFICES ASSUME NEW a \in Needed PROVE a \in DOMAIN objects
    OBVIOUS
<1>1. PICK trail : trail = Trail(main)
      OBVIOUS
<1>2. Needed = UNION {{trail[i]} \cup {ObjectAt(trail[i], p) : p \in Paths} : i \in 1..Len(trail)}
      BY <1>1 DEF Needed
<1>3. PICK i \in 1..Len(trail) : a \in {trail[i]} \cup {ObjectAt(trail[i], p) : p \in Paths}
      BY <1>2
<1>4. PICK c : c = trail[i]
      OBVIOUS
<1>5. c \in Commits
      BY <1>1, <1>3, <1>4, TrailOfCommits, ElementIn
<1>6. a = c \/ \E p \in Paths : a = ObjectAt(c, p)
      BY <1>3, <1>4
<1> QED BY <1>5, <1>6, ObjectAtFits DEF Commits

\* Who reads as much as anybody opens whatever is whole.
LEMMA OpensWhole ==
    ASSUME WorldOK, StoreOK, NEW p \in People, \A c \in DOMAIN epoch : ReadsMost(p, c),
           NEW a, Gets(a), a.close \notin torn
    PROVE  Opens(p, a)
<1>1. Readable(a)
      BY DEF Gets, Exists, StoreOK, Sound
<1>2. PICK q \in People : a.epoch <= reach[a.close][q][Content]
      BY <1>1 DEF Readable
<1>3. /\ a.close \in DOMAIN epoch /\ epoch[a.close] \in Nat /\ a.epoch \in 0..epoch[a.close]
      /\ reach[a.close][q][Content] <= reach[a.close][p][Content]
      BY <1>1 DEF Readable, WorldOK, LocksOK, ReadsMost
<1>4. /\ reach[a.close][q][Content] \in Int
      /\ reach[a.close][p][Content] \in Int /\ reach[a.close][p][Shape] \in Int
      /\ reach[a.close][p][Content] <= reach[a.close][p][Shape]
      BY <1>3 DEF WorldOK, LocksOK, Lanes
<1>5. a.epoch <= reach[a.close][p][Content] /\ a.epoch <= reach[a.close][p][Shape]
      BY <1>2, <1>3, <1>4
<1> QED BY <1>3, <1>5 DEF Opens, HasKey, PayloadLane

\* What is on a trail stays on it when it goes further back.
LEMMA TrailGrows ==
    ASSUME StoreOK, NEW f, Goes(f, main), NEW n \in 0..Most("keeps"), NEW i \in 1..Len(f[n])
    PROVE  \E j \in 1..Len(Trail(main)) : Trail(main)[j] = f[n][i]
<1>0. Most("keeps") \in Nat
      BY MostIsNat
<1> DEFINE Has(m) == \E j \in 1..Len(f[m]) : f[m][j] = f[n][i]
           S == {m \in 0..Most("keeps") : n <= m => Has(m)}
<1>1. ASSUME NEW m \in 0..Most("keeps"), \A k \in 0..(m - 1) : k \in S
      PROVE  m \in S
  <2>1. CASE m <= n
    <3>1. n <= m => m = n
          BY <2>1
    <3> QED BY <3>1
  <2>2. CASE ~ (m <= n)
    <3>1. m - 1 \in 0..(m - 1) /\ m \in 1..Most("keeps") /\ n <= m - 1 /\ m - 1 \in 0..Most("keeps")
          BY <1>0, <2>2
    <3>2. PICK so : so = f[m - 1]
          OBVIOUS
    <3>3. PICK j \in 1..Len(so) : so[j] = f[n][i]
          BY <1>1, <3>1, <3>2
    <3>4. so \in Seq(Commits)
          BY <3>1, <3>2, TrailIn
    <3>5. so # <<>>
          BY <3>3
    <3>6. PICK before : before = so[Len(so)].body.parents
          OBVIOUS
    <3>7. f[m] = so \o before
          BY <3>1, <3>2, <3>5, <3>6 DEF Goes, Back
    <3>8. before \in Seq(Commits)
      <4>1. PICK c : c = so[Len(so)]
            OBVIOUS
      <4>2. c \in Commits
        <5>1. Len(so) \in 1..Len(so)
              BY <3>4, <3>5
        <5> QED BY <3>4, <4>1, <5>1, ElementIn
      <4> QED BY <3>6, <4>1, <4>2, ParentsIn
    <3>9. j \in 1..Len(so \o before) /\ (so \o before)[j] = so[j]
          BY <3>3, <3>4, <3>8
    <3>10. Has(m)
          BY <3>3, <3>7, <3>9
    <3> QED BY <3>10
  <2> QED BY <2>1, <2>2, <1>0
<1>2. \A m \in 0..Most("keeps") : m \in S
  <2> HIDE DEF S
  <2> QED BY <1>0, <1>1, UpTo
<1>3. Has(Most("keeps"))
  <2>1. n <= Most("keeps")
        BY <1>0
  <2>2. Most("keeps") \in S
    <3> HIDE DEF S
    <3> QED BY <1>0, <1>2
  <2> HIDE DEF Has
  <2> QED BY <2>1, <2>2
<1> QED BY <1>3 DEF Goes

\* Who opens every commit on the trail is shown all of it.
HistoryUpTo(p, f) ==
    f = [n \in 0..Most("keeps") |->
          IF n = 0 THEN First(main)
          ELSE IF f[n - 1] = <<>> \/ ~ Opens(p, f[n - 1][Len(f[n - 1])]) THEN f[n - 1]
          ELSE Back(f[n - 1])]

\* Who opens every commit of the trail sees all of it.
LEMMA HistoryIsTrail ==
    ASSUME StoreOK, NEW p,
           \A i \in 1..Len(Trail(main)) : Opens(p, Trail(main)[i])
    PROVE  HistoryOf(p) = Trail(main)
<1>0. Most("keeps") \in Nat
      BY MostIsNat
<1>1. PICK f : Goes(f, main)
      BY TrailSolves
<1> DEFINE rhs(h, n) ==
              IF n = 0 THEN First(main)
              ELSE IF h[n - 1] = <<>> \/ ~ Opens(p, h[n - 1][Len(h[n - 1])]) THEN h[n - 1]
              ELSE Back(h[n - 1])
           same == [n \in 0..Most("keeps") |-> f[n]]
           g == CHOOSE h : HistoryUpTo(p, h)
<1>2. ASSUME NEW n \in 1..Most("keeps"), f[n - 1] # <<>>
      PROVE  Opens(p, f[n - 1][Len(f[n - 1])])
  <2>1. n - 1 \in 0..Most("keeps")
        BY <1>0
  <2>2. PICK so : so = f[n - 1]
        OBVIOUS
  <2>3. so \in Seq(Commits) /\ so # <<>>
        BY <1>1, <1>2, <2>1, <2>2, TrailIn
  <2>4. Len(so) \in 1..Len(so)
        BY <2>3
  <2>5. \E j \in 1..Len(Trail(main)) : Trail(main)[j] = f[n - 1][Len(so)]
        BY <1>1, <2>1, <2>2, <2>4, TrailGrows
  <2> QED BY <2>2, <2>5
<1>3. ASSUME NEW n \in 0..Most("keeps") PROVE same[n] = rhs(same, n)
  <2>1. CASE n = 0
        BY <1>1, <2>1 DEF Goes
  <2>2. CASE n # 0
    <3>1. n \in 1..Most("keeps") /\ n - 1 \in 0..Most("keeps")
          BY <1>0, <2>2
    <3>2. same[n] = f[n] /\ same[n - 1] = f[n - 1]
          BY <3>1
    <3>3. f[n] = IF f[n - 1] = <<>> THEN <<>> ELSE Back(f[n - 1])
          BY <1>1, <3>1 DEF Goes
    <3> HIDE DEF same
    <3> QED BY <1>2, <2>2, <3>1, <3>2, <3>3
  <2> QED BY <2>1, <2>2
<1>4. HistoryUpTo(p, same)
  <2>1. same = [n \in 0..Most("keeps") |-> rhs(same, n)]
    <3> DEFINE r(n) == rhs(same, n)
    <3>1. \A n \in 0..Most("keeps") : same[n] = r(n)
          BY <1>3
    <3> HIDE DEF r
    <3>2. same = [n \in 0..Most("keeps") |-> r(n)]
          BY <3>1
    <3> QED BY <3>2 DEF r
  <2> HIDE DEF same
  <2> QED BY <2>1 DEF HistoryUpTo
<1>5. HistoryUpTo(p, g)
  <2> HIDE DEF same
  <2> QED BY <1>4
<1>6. HistoryOf(p) = g[Most("keeps")]
      BY DEF HistoryOf, HistoryUpTo, Back, First
<1> HIDE DEF g, same
<1>7. \A n \in 0..Most("keeps") : g[n] = rhs(g, n)
  <2> DEFINE r(n) == rhs(g, n)
  <2>1. g = [n \in 0..Most("keeps") |-> r(n)]
        BY <1>5 DEF HistoryUpTo
  <2> HIDE DEF r
  <2>2. \A n \in 0..Most("keeps") : g[n] = r(n)
        BY <2>1
  <2> QED BY <2>2 DEF r
<1> DEFINE S == {n \in 0..Most("keeps") : g[n] = same[n]}
<1>8. ASSUME NEW n \in 0..Most("keeps"), \A k \in 0..(n - 1) : k \in S
      PROVE  n \in S
  <2>1. CASE n = 0
    <3>1. g[n] = First(main) /\ same[n] = First(main)
          BY <1>3, <1>7, <2>1
    <3> QED BY <3>1
  <2>2. CASE n # 0
    <3>1. n - 1 \in 0..(n - 1)
          BY <2>2
    <3>2. g[n - 1] = same[n - 1]
          BY <1>8, <3>1
    <3>3. rhs(g, n) = rhs(same, n)
          BY <2>2, <3>2
    <3> HIDE DEF rhs
    <3> QED BY <1>3, <1>7, <3>3
  <2> QED BY <2>1, <2>2
<1>9. \A n \in 0..Most("keeps") : n \in S
  <2> HIDE DEF S
  <2> QED BY <1>0, <1>8, UpTo
<1>10. g[Most("keeps")] = f[Most("keeps")]
  <2>1. Most("keeps") \in S
        BY <1>0, <1>9
  <2> QED BY <1>0, <2>1 DEF same
<1> QED BY <1>1, <1>6, <1>10 DEF Goes

-----------------------------------------------------------------------------
\* What a keep made of the working tree is what its commit shows.
LEMMA AllDone == Done("snap", Len(Walk) + 1) = Paths
<1>1. Len(Walk) \in Nat
      BY WalkFacts
<1>2. 1..((Len(Walk) + 1) - 1) = 1..Len(Walk)
      BY <1>1
<1> QED BY <1>2 DEF Done, Paths

\* A commit shows at each path the object its keep made for it.
LEMMA ShowsWhatWasMade ==
    ASSUME NEW k, KeepOK(k), k.phase \in AtEnd, NEW path \in Paths
    PROVE  ObjectAt(k.object, path) = k.made[path] /\ Makes(k, path, k.made[path])
<1>0. Len(path) \in Nat
      BY WalkFacts
<1>1. DOMAIN k.made = Paths
      BY AllDone DEF KeepOK, Walked
<1>2. PICK f : LeadsTo(f, k.object, path)
      BY ObjectAtSolves
<1> DEFINE S == {i \in 0..Len(path) : f[i] = k.made[SubSeq(path, 1, i)]}
<1>3. ASSUME NEW i \in 0..Len(path), \A j \in 0..(i - 1) : j \in S
      PROVE  i \in S
  <2>1. CASE i = 0
    <3>1. k.object.body.entries[Root] = k.made[Root]
          BY DEF KeepOK, HandOK, CommitOf
    <3>2. SubSeq(path, 1, 0) = Root
          BY <2>1, Prefixes
    <3> QED BY <1>2, <2>1, <3>1, <3>2 DEF LeadsTo
  <2>2. CASE i # 0
    <3>1. i - 1 \in 0..(i - 1) /\ i \in 1..Len(path) /\ i - 1 \in 0..Len(path) /\ i - 1 < Len(path) /\ i > 0
          BY <1>0, <2>2
    <3>2. PICK above : above = SubSeq(path, 1, i - 1)
          OBVIOUS
    <3>3. above \in Folders /\ above \in Paths /\ SubSeq(path, 1, i) \in Children(above)
          BY <3>1, <3>2, Prefixes
    <3>4. f[i - 1] = k.made[above]
          BY <1>3, <3>1, <3>2
    <3>5. Makes(k, above, k.made[above])
          BY <1>1, <3>3 DEF KeepOK, MadeOK
    <3>6. k.made[above].body.entries[SubSeq(path, 1, i)] = k.made[SubSeq(path, 1, i)]
          BY <3>3, <3>5 DEF Makes
    <3>7. f[i] = f[i - 1].body.entries[SubSeq(path, 1, i)]
          BY <1>2, <3>1 DEF LeadsTo
    <3> QED BY <3>4, <3>6, <3>7
  <2> QED BY <2>1, <2>2
<1>4. \A i \in 0..Len(path) : i \in S
  <2> HIDE DEF S
  <2> QED BY <1>0, <1>3, UpTo
<1>5. f[Len(path)] = k.made[SubSeq(path, 1, Len(path))]
  <2>1. Len(path) \in S
        BY <1>0, <1>4
  <2> QED BY <2>1
<1>6. SubSeq(path, 1, Len(path)) = path
      BY <1>0, Prefixes
<1> QED BY <1>1, <1>2, <1>5, <1>6 DEF LeadsTo, KeepOK, MadeOK

-----------------------------------------------------------------------------
\* The theorems.

\* The variables keep their types, nobody's reach passes the epoch of a lock,
\* and every object in the store is sealed into a close that was founded.
THEOREM SnapshotTypeCorrect == Spec => []SnapshotTypeOK
<1>1. ASSUME SnapshotInv
      PROVE  SnapshotTypeOK
  <2>1. WorldOK /\ LocksOK /\ StoreOK
        BY <1>1 DEF SnapshotInv, WorldOK
  <2>2. /\ \A a \in DOMAIN objects : objects[a] \in {"torn", "whole"} /\ a.close \in DOMAIN epoch
        /\ \A a \in DOMAIN drafts : drafts[a] \in {"torn", "whole"}
        /\ main = None \/ main.kind = "commit"
        BY <2>1 DEF StoreOK, Sound, Readable
  <2>3. DOMAIN epoch \subseteq Closes /\ DOMAIN reach = DOMAIN epoch /\ torn \subseteq DOMAIN epoch \cup {Map}
        BY <2>1 DEF LocksOK
  <2>4. \A c \in DOMAIN epoch : \A p \in People, lane \in Lanes :
            epoch[c] \in Nat /\ reach[c][p][lane] \in -1..epoch[c]
        BY <2>1 DEF LocksOK
  <2> QED BY <2>1, <2>2, <2>3, <2>4 DEF SnapshotTypeOK, WorldOK
<1> QED BY <1>1, SnapshotInvariant, PTL

\* Whatever main names is in the store, with its tree and all its history,
\* whole but for what two keeps wrote at once (Repo::keep seals an object
\* before whatever refers to it, and set_ref comes last).
THEOREM KeptStaysWhole == Spec => []KeptIsWhole
<1>1. ASSUME SnapshotInv
      PROVE  KeptIsWhole
  <2> SUFFICES ASSUME NEW a \in Needed
               PROVE  Gets(a) \/ (a \in contested /\ (Writing(a) # {} \/ killed))
      BY DEF KeptIsWhole
  <2>1. a \in DOMAIN objects /\ objects[a] \in {"torn", "whole"}
        BY <1>1, NeededIsThere DEF SnapshotInv, StoreOK
  <2>2. CASE objects[a] = "whole"
        BY <2>1, <2>2 DEF Gets, Exists
  <2>3. CASE objects[a] = "torn"
    <3>1. a \in contested /\ (killed \/ \E t \in Terminals : At(t, a, {"opened"}))
          BY <1>1, <2>1, <2>3 DEF SnapshotInv, WritersOK
    <3>2. ASSUME NEW t \in Terminals, At(t, a, {"opened"}) PROVE t \in Writing(a)
          BY <3>2 DEF At, Writing, Busy
    <3> QED BY <3>1, <3>2
  <2> QED BY <2>1, <2>2, <2>3
<1> QED BY <1>1, SnapshotInvariant, PTL

\* Whoever reads as much as anybody does can open every path at every commit,
\* back to the first: whatever is sealed, is sealed under a key that somebody
\* has been given (current_content_key), and rotate takes none away.  This is
\* when the records parse (load_close): while one is being saved, or once a
\* rotation was killed there (save_close), nobody opens what its close holds.
THEOREM StoryStaysReadable == Spec => []StoryReadable
<1>1. ASSUME SnapshotInv
      PROVE  StoryReadable
  <2> SUFFICES ASSUME NEW p \in People, \A a \in Needed : Gets(a) /\ a.close \notin torn,
                      \A c \in DOMAIN epoch : ReadsMost(p, c)
               PROVE  /\ HistoryOf(p) = Trail(main)
                      /\ \A i \in 1..Len(HistoryOf(p)) : \A path \in Paths : Shows(p, HistoryOf(p)[i], path)
      BY DEF StoryReadable
  <2>1. WorldOK /\ StoreOK
        BY <1>1 DEF SnapshotInv
  <2>2. PICK trail : trail = Trail(main)
        OBVIOUS
  <2>3. trail \in Seq(Commits)
        BY <2>1, <2>2, TrailOfCommits
  <2>4. Needed = UNION {{trail[i]} \cup {ObjectAt(trail[i], q) : q \in Paths} : i \in 1..Len(trail)}
        BY <2>2 DEF Needed
  <2>5. \A i \in 1..Len(trail) : trail[i] \in Needed /\ \A q \in Paths : ObjectAt(trail[i], q) \in Needed
        BY <2>4
  <2>6. \A a \in Needed : Opens(p, a)
        BY <2>1, OpensWhole
  <2>7. HistoryOf(p) = trail
        BY <2>1, <2>2, <2>5, <2>6, HistoryIsTrail
  <2>8. ASSUME NEW i \in 1..Len(trail), NEW path \in Paths
        PROVE  Shows(p, trail[i], path)
    <3>1. \A j \in 0..Len(path) : SubSeq(path, 1, j) \in Paths
          BY Prefixes
    <3> QED BY <2>5, <2>6, <3>1 DEF Shows
  <2> QED BY <2>2, <2>7, <2>8
<1> QED BY <1>1, SnapshotInvariant, PTL

\* What a keep names is of the time in which it ran: every text, every close
\* and every epoch (snap_dir, snap_file, governing, load_close).
THEOREM SnapshotsAreOfTheirTime == Spec => SnapshotOfItsTime
<1>1. ASSUME SnapshotInv, NEW t \in Terminals,
             keep[t] # Idle, keep[t].phase = "naming", main' = keep[t].object, NEW path \in Paths
      PROVE  LET k == keep[t]
                 a == ObjectAt(main', path)
             IN  /\ \E n \in k.began.map..Len(closemap) : a.close = GoverningAt(n, path)
                 /\ a.epoch \in EpochBefore(k, a.close)..epoch[a.close]
                 /\ path \in Files => a.body.text \in k.began.work[path]..work[path]
  <2>1. PICK k : k = keep[t]
        OBVIOUS
  <2>2. KeepOK(k) /\ k.phase \in AtEnd
        BY <1>1, <2>1 DEF SnapshotInv, KeepsOK, AtEnd
  <2>3. PICK a : a = ObjectAt(k.object, path)
        OBVIOUS
  <2>4. Makes(k, path, a)
        BY <2>2, <2>3, ShowsWhatWasMade
  <2>5. a = ObjectAt(main', path)
    <3>1. main' = k.object
          BY <1>1, <2>1
    <3> QED BY <2>3, <3>1 DEF ObjectAt
  <2> QED BY <2>1, <2>4, <2>5 DEF Makes, Governed, LockOf
<1>2. SnapshotInv => [\A t \in Terminals :
        (keep[t] # Idle /\ keep[t].phase = "naming" /\ main' = keep[t].object) =>
            \A path \in Paths :
                LET k == keep[t]
                    a == ObjectAt(main', path)
                IN  /\ \E n \in k.began.map..Len(closemap) : a.close = GoverningAt(n, path)
                    /\ a.epoch \in EpochBefore(k, a.close)..epoch[a.close]
                    /\ path \in Files => a.body.text \in k.began.work[path]..work[path]]_vars
      BY <1>1
<1> QED BY <1>2, SnapshotInvariant, PTL DEF SnapshotOfItsTime

\* A keep that no other overlaps puts its commit on top of the one that main
\* named last, unless one was killed while main was empty (Repo::keep reads
\* the head before sealing the commit, set_ref writes it).
THEOREM HistoryOnlyGrows == Spec => HistoryGrows
<1>1. ASSUME SnapshotInv, NEW t \in Busy,
             keep[t].phase = "naming", main' = keep[t].object, keep[t].alone
      PROVE  main'.body.parents = (IF named = None THEN <<>> ELSE <<named>>) \/ cut
  <2>1. Late(keep[t])
        BY <1>1 DEF Late, AtEnd
  <2> QED BY <1>1, <2>1 DEF SnapshotInv, MainOK, OnTop
<1>2. SnapshotInv => [\A t \in Busy :
        keep[t].phase = "naming" /\ main' = keep[t].object /\ keep[t].alone =>
            \/ main'.body.parents = IF named = None THEN <<>> ELSE <<named>>
            \/ cut]_vars
      BY <1>1
<1> QED BY <1>2, SnapshotInvariant, PTL DEF HistoryGrows
=============================================================================
