---------------------------- MODULE FolderProofs ----------------------------
(***************************************************************************)
(* Theorems about Folder.                                                  *)
(***************************************************************************)
EXTENDS Folder, GrantsProofs, FiniteSetTheorems

-----------------------------------------------------------------------------
\* Leaving things out of a sequence.

\* The recursion of Without.
KeptUpTo(s, out, m, f) ==
    f = [i \in 0..m |-> IF i = 0 THEN <<>>
                        ELSE IF s[i] \in out THEN f[i - 1] ELSE Append(f[i - 1], s[i])]

\* Such a recursive function exists up to every length.
LEMMA KeptExists ==
    ASSUME NEW s, NEW out, NEW m \in Nat
    PROVE  \E f : KeptUpTo(s, out, m, f)
<1> DEFINE S == {k \in 0..m : \E f : KeptUpTo(s, out, k, f)}
           then(so, i) == IF s[i] \in out THEN so ELSE Append(so, s[i])
<1>1. ASSUME NEW k \in 0..m, \A j \in 0..(k - 1) : j \in S
      PROVE  k \in S
  <2>1. CASE k = 0
    <3> DEFINE one == [i \in 0..0 |-> <<>>]
    <3>1. KeptUpTo(s, out, 0, one)
          BY DEF KeptUpTo
    <3> QED BY <2>1, <3>1
  <2>2. CASE k # 0
    <3>1. k - 1 \in 0..(k - 1)
          BY <2>2
    <3>2. PICK f : KeptUpTo(s, out, k - 1, f)
          BY <1>1, <3>1
    <3> DEFINE g == [i \in 0..k |-> IF i = k THEN then(f[k - 1], k) ELSE f[i]]
               rhs(h, i) == IF i = 0 THEN <<>> ELSE then(h[i - 1], i)
    <3>3. ASSUME NEW i \in 0..k
          PROVE  g[i] = rhs(g, i)
      <4>1. CASE i = k
        <5>1. i # 0 /\ i - 1 \in 0..k /\ i - 1 # k
              BY <2>2, <4>1
        <5> HIDE DEF then
        <5> QED BY <4>1, <5>1
      <4>2. CASE i # k
        <5>1. i \in 0..(k - 1)
              BY <4>2
        <5>2. f[i] = rhs(f, i)
              BY <3>2, <5>1 DEF KeptUpTo
        <5>3. i # 0 => i - 1 \in 0..k /\ i - 1 # k
              BY <5>1
        <5> HIDE DEF then
        <5> QED BY <4>2, <5>2, <5>3
      <4> QED BY <4>1, <4>2
    <3>4. KeptUpTo(s, out, k, g)
      <4> DEFINE h == [i \in 0..k |-> rhs(g, i)]
      <4>1. g = h
        <5> HIDE DEF rhs
        <5> QED BY <3>3
      <4> QED BY <4>1 DEF KeptUpTo
    <3> HIDE DEF g
    <3> QED BY <3>4
  <2> QED BY <2>1, <2>2
<1>2. \A k \in 0..m : k \in S
  <2> HIDE DEF S
  <2> QED BY <1>1, UpTo
<1> QED BY <1>2

\* What is left is all that there was but for what was left out.
Leaves(s, out, w) ==
    /\ \A i \in 1..Len(w) : \E j \in 1..Len(s) : s[j] \notin out /\ w[i] = s[j]
    /\ \A j \in 1..Len(s) : s[j] \notin out => \E i \in 1..Len(w) : w[i] = s[j]

\* What is left of a sequence keeps its order and loses exactly the excluded.
LEMMA WithoutFacts ==
    ASSUME NEW A, NEW s \in Seq(A), NEW out
    PROVE  Without(s, out) \in Seq(A \ out) /\ Leaves(s, out, Without(s, out))
<1>0. Len(s) \in Nat
      OBVIOUS
<1> DEFINE f == CHOOSE h : KeptUpTo(s, out, Len(s), h)
           then(so, i) == IF s[i] \in out THEN so ELSE Append(so, s[i])
           rhs(i) == IF i = 0 THEN <<>> ELSE then(f[i - 1], i)
<1>1. KeptUpTo(s, out, Len(s), f)
      BY <1>0, KeptExists
<1>2. Without(s, out) = f[Len(s)]
      BY DEF Without, KeptUpTo
<1> HIDE DEF f
<1>3. f = [i \in 0..Len(s) |-> rhs(i)]
      BY <1>1 DEF KeptUpTo
<1> HIDE DEF rhs
<1>4. \A i \in 0..Len(s) : f[i] = rhs(i)
      BY <1>3
<1>5. f[0] = <<>> /\ \A i \in 1..Len(s) : f[i] = then(f[i - 1], i)
  <2>1. f[0] = rhs(0)
        BY <1>0, <1>4
  <2>2. \A i \in 1..Len(s) : f[i] = rhs(i) /\ i # 0
        BY <1>0, <1>4
  <2> HIDE DEF then
  <2> QED BY <2>1, <2>2 DEF rhs
<1> DEFINE From(n) == \A i \in 1..Len(f[n]) : \E j \in 1..n : s[j] \notin out /\ f[n][i] = s[j]
           All(n) == \A j \in 1..n : s[j] \notin out => \E i \in 1..Len(f[n]) : f[n][i] = s[j]
           S == {n \in 0..Len(s) : f[n] \in Seq(A \ out) /\ From(n) /\ All(n)}
<1>6. ASSUME NEW n \in 0..Len(s), \A k \in 0..(n - 1) : k \in S
      PROVE  n \in S
  <2>1. CASE n = 0
    <3>1. f[n] = <<>>
      <4> HIDE DEF then
      <4> QED BY <1>5, <2>1
    <3>2. <<>> \in Seq(A \ out) /\ Len(<<>>) = 0
          OBVIOUS
    <3>3. f[n] \in Seq(A \ out) /\ Len(f[n]) = 0
          BY <3>1, <3>2
    <3>4. 1..0 = {}
          OBVIOUS
    <3>5. From(n) /\ All(n)
          BY <2>1, <3>3, <3>4
    <3> QED BY <3>3, <3>5
  <2>2. CASE n # 0
    <3>1. n - 1 \in 0..(n - 1) /\ n \in 1..Len(s) /\ n - 1 \in 0..Len(s)
          BY <1>0, <2>2
    <3>2. PICK so : so = f[n - 1]
          OBVIOUS
    <3>3. /\ so \in Seq(A \ out)
          /\ \A i \in 1..Len(so) : \E j \in 1..(n - 1) : s[j] \notin out /\ so[i] = s[j]
          /\ \A j \in 1..(n - 1) : s[j] \notin out => \E i \in 1..Len(so) : so[i] = s[j]
          BY <1>6, <3>1, <3>2
    <3>4. f[n] = IF s[n] \in out THEN so ELSE Append(so, s[n])
          BY <1>5, <3>1, <3>2
    <3>5. s[n] \notin out => s[n] \in A \ out
          BY <3>1, ElementIn 
    <3>6. CASE s[n] \in out
      <4>1. f[n] = so
            BY <3>4, <3>6
      <4>2. \A j \in 1..n : j = n \/ j \in 1..(n - 1)
            BY <3>1
      <4>3. 1..(n - 1) \subseteq 1..n
            BY <3>1
      <4> QED BY <3>3, <3>6, <4>1, <4>2, <4>3
    <3>7. CASE s[n] \notin out
      <4> DEFINE more == Append(so, s[n])
      <4>1. /\ more \in Seq(A \ out) /\ Len(so) \in Nat /\ Len(more) = Len(so) + 1
            /\ more[Len(so) + 1] = s[n] /\ \A i \in 1..Len(so) : more[i] = so[i]
            BY <3>3, <3>5, <3>7
      <4> HIDE DEF more
      <4>2. f[n] = more
            BY <3>4, <3>7 DEF more
      <4>3. From(n)
        <5> SUFFICES ASSUME NEW i \in 1..Len(more) PROVE \E j \in 1..n : s[j] \notin out /\ more[i] = s[j]
            BY <4>2
        <5>1. i \in 1..Len(so) \/ i = Len(so) + 1
              BY <4>1
        <5>2. CASE i \in 1..Len(so)
          <6>1. PICK j \in 1..(n - 1) : s[j] \notin out /\ so[i] = s[j]
                BY <3>3, <5>2
          <6>2. j \in 1..n
                BY <3>1
          <6> QED BY <4>1, <5>2, <6>1, <6>2
        <5>3. CASE i = Len(so) + 1
          <6>1. n \in 1..n
                BY <3>1
          <6> QED BY <3>7, <4>1, <5>3, <6>1
        <5> QED BY <5>1, <5>2, <5>3
      <4>4. All(n)
        <5> SUFFICES ASSUME NEW j \in 1..n, s[j] \notin out PROVE \E i \in 1..Len(more) : more[i] = s[j]
            BY <4>2
        <5>1. CASE j = n
          <6>1. Len(so) + 1 \in 1..Len(more)
                BY <4>1
          <6> QED BY <4>1, <5>1, <6>1
        <5>2. CASE j # n
          <6>1. j \in 1..(n - 1)
                BY <5>2
          <6>2. PICK i \in 1..Len(so) : so[i] = s[j]
                BY <3>3, <6>1
          <6>3. i \in 1..Len(more)
                BY <4>1
          <6> QED BY <4>1, <6>2, <6>3
        <5> QED BY <5>1, <5>2
      <4> QED BY <4>1, <4>2, <4>3, <4>4
    <3> QED BY <3>6, <3>7
  <2> QED BY <2>1, <2>2
<1>7. \A n \in 0..Len(s) : n \in S
  <2> HIDE DEF S
  <2> QED BY <1>0, <1>6, UpTo
<1>8. Len(s) \in S
  <2> HIDE DEF S
  <2> QED BY <1>0, <1>7
<1> QED BY <1>2, <1>8 DEF Leaves

-----------------------------------------------------------------------------
(***************************************************************************)
(* The first layer of the invariant: what there can be in the files, and   *)
(* in the hands of a command at each point of its way.  The definitions    *)
(* take the values of closes, grants and minted as parameters, to be used  *)
(* before a step and after it.                                             *)
(***************************************************************************)

\* The files that a command on c may have to write.
FilesFor(c) ==
    [is : {"record"}, rec : {r \in Record(People) : r.id = c}, root : ContentKeys]
    \cup {f \in [is : {"grant"}, who : People, grant : Grant] :
             Leaf(f.grant).holder = f.who /\ Leaf(f.grant).close = c}
    \cup [is : {"list"}, list : {"map"}, entry : {c}]
    \cup [is : {"list"}, list : {"index"}, entry : Signposts]

\* What a list may have for entries: the map closes of which there is a record.
Entries(list, cs) == IF list = "map" THEN DOMAIN cs ELSE Signposts

KeeperSet == [who : People, facet : Facets, powers : SUBSET AllPowers]

LoadedFields ==
    {"at", "do", "me", "close", "except", "held", "rec", "key", "left", "keepers"}
WritingFields ==
    {"do", "me", "close", "except", "held", "before", "all", "todo", "n", "read", "at"}

\* A record that was loaded: of a close that was founded.
LoadedRec(k, ms) ==
    /\ k.me \in People /\ k.close \in DOMAIN ms
    /\ k.rec \in Record(People) /\ k.rec.id = k.close

LoadedOK(k, ms) ==
    /\ k.at = "loaded" /\ k.do \in {"share", "rotate"}
    /\ LoadedRec(k, ms)
    /\ k.do = "share" => k.with \in People /\ k.facet \in Facets
    /\ k.do = "rotate" => k.rec.steward = k.me

GatherOK(k, ms) ==
    /\ k.at = "gather" /\ k.do = "rotate" /\ DOMAIN k = LoadedFields
    /\ LoadedRec(k, ms) /\ k.rec.steward = k.me
    /\ k.key \in Key
    /\ k.left \in Seq(People) /\ k.keepers \in Seq(KeeperSet)

\* The files of a command that writes: a record can only be the first, a list
\* the last; those left are the last of them all.
TodoOK(todo, all, c) ==
    /\ todo \in Seq(FilesFor(c)) /\ todo # <<>> /\ all \in Seq(FilesFor(c))
    /\ \A i \in 1..Len(all) : /\ all[i].is = "record" => i = 1
                              /\ all[i].is = "list" => i = Len(all)
    /\ Len(todo) <= Len(all)
    /\ \A i \in 1..Len(todo) : todo[i] = all[i + (Len(all) - Len(todo))]

\* The number a grant will be filed under, and the text of a list.
AtFileOK(k, cs, gs) ==
    LET f == Head(k.todo)
    IN  /\ k.at = "prepare" => f.is # "record"
        /\ k.at = "open" /\ f.is = "grant" => k.n \in 1..(Len(gs[f.who]) + 1)
        /\ k.at = "fill" /\ f.is = "grant" => k.n \in 1..Len(gs[f.who])
        /\ k.at \in {"open", "fill"} /\ f.is = "list" => k.read \in Seq(Entries(f.list, cs))
        /\ k.at = "fill" /\ f.is = "record" => k.close \in DOMAIN cs

WritingOK(k, cs, gs, ms) ==
    /\ k.at \in {"prepare", "open", "fill"} /\ DOMAIN k = WritingFields
    /\ k.do \in {"protect", "raise", "share", "rotate"} /\ k.me \in People /\ k.close \in Closes
    /\ TodoOK(k.todo, k.all, k.close)
    /\ k.do # "protect" \/ Head(k.todo).is # "record" => k.close \in DOMAIN ms
    /\ AtFileOK(k, cs, gs)

CommandOK(k, cs, gs, ms) ==
    \/ k = Idle
    \/ LoadedOK(k, ms)
    \/ GatherOK(k, ms)
    \/ WritingOK(k, cs, gs, ms)

ClosesOK ==
    /\ Commons \in DOMAIN minted /\ DOMAIN minted \subseteq DOMAIN closes
    /\ DOMAIN closes \subseteq Closes
    /\ \A c \in DOMAIN minted : minted[c] \in Seq(ContentKeys)
    /\ \A c \in DOMAIN closes : closes[c] # Torn =>
          closes[c] \in Record(People) /\ closes[c].id = c /\ c \in DOMAIN minted

GrantsOK ==
    /\ DOMAIN grants = People
    /\ \A p \in People :
          /\ grants[p] \in Seq(Grant \cup {Torn})
          /\ \A i \in 1..Len(grants[p]) : grants[p][i] # Torn =>
                Leaf(grants[p][i]).holder = p /\ Leaf(grants[p][i]).close \in DOMAIN minted

ListsOK ==
    /\ DOMAIN lists = {"map", "index"}
    /\ \A list \in DOMAIN lists : lists[list] \in Seq(Entries(list, closes)) \cup {Torn}

HistoryOK ==
    /\ done.grants \subseteq Grant
    /\ DOMAIN trouble = {"crowded", "raced", "stranded", "lists", "twins", "killed"}

CommandsOK ==
    /\ DOMAIN command = Terminals
    /\ \A t \in Terminals : CommandOK(command[t], closes, grants, minted)

TypesInv == ClosesOK /\ GrantsOK /\ ListsOK /\ HistoryOK /\ CommandsOK

-----------------------------------------------------------------------------
\* The files of a command, by kind.
LEMMA FileFacts ==
    ASSUME NEW c, NEW f \in FilesFor(c)
    PROVE  /\ f.is \in {"record", "grant", "list"}
           /\ f.is = "record" => f.rec \in Record(People) /\ f.rec.id = c /\ f.root \in ContentKeys
           /\ f.is = "grant" => /\ f.who \in People /\ f.grant \in Grant
                                /\ Leaf(f.grant).holder = f.who /\ Leaf(f.grant).close = c
           /\ f.is = "list" => /\ f.list \in {"map", "index"}
                               /\ f.list = "map" => f.entry = c
                               /\ f.list = "index" => f.entry \in Signposts
BY DEF FilesFor

\* Records, grants and list entries of a close are files for that close.
LEMMA FilesMade ==
    ASSUME NEW c
    PROVE  /\ \A rec \in Record(People), root \in ContentKeys : rec.id = c => RecordFile(rec, root) \in FilesFor(c)
           /\ \A g \in Grant : Leaf(g).holder \in People /\ Leaf(g).close = c =>
                 GrantFile(Leaf(g).holder, g) \in FilesFor(c)
           /\ ListFile("map", c) \in FilesFor(c)
           /\ \A path \in Signposts : ListFile("index", path) \in FilesFor(c)
<1>1. ASSUME NEW rec \in Record(People), NEW root \in ContentKeys, rec.id = c
      PROVE  RecordFile(rec, root) \in FilesFor(c)
  <2>1. RecordFile(rec, root) \in [is : {"record"}, rec : {r \in Record(People) : r.id = c}, root : ContentKeys]
        BY <1>1 DEF RecordFile
  <2> QED BY <2>1 DEF FilesFor
<1>2. ASSUME NEW g \in Grant, Leaf(g).holder \in People, Leaf(g).close = c
      PROVE  GrantFile(Leaf(g).holder, g) \in FilesFor(c)
  <2>1. GrantFile(Leaf(g).holder, g) \in
           {f \in [is : {"grant"}, who : People, grant : Grant] :
               Leaf(f.grant).holder = f.who /\ Leaf(f.grant).close = c}
        BY <1>2 DEF GrantFile
  <2> QED BY <2>1 DEF FilesFor
<1>3. ListFile("map", c) \in FilesFor(c)
  <2>1. ListFile("map", c) \in [is : {"list"}, list : {"map"}, entry : {c}]
        BY DEF ListFile
  <2> QED BY <2>1 DEF FilesFor
<1>4. ASSUME NEW path \in Signposts
      PROVE  ListFile("index", path) \in FilesFor(c)
  <2>1. ListFile("index", path) \in [is : {"list"}, list : {"index"}, entry : Signposts]
        BY DEF ListFile
  <2> QED BY <2>1 DEF FilesFor
<1> QED BY <1>1, <1>2, <1>3, <1>4

\* Records, grants and roots do not go away.
Grown(cs, gs, ms, csAfter, gsAfter, msAfter) ==
    /\ DOMAIN cs \subseteq DOMAIN csAfter
    /\ DOMAIN ms \subseteq DOMAIN msAfter
    /\ \A p \in People : Len(gs[p]) \in Nat /\ Len(gsAfter[p]) \in Nat /\ Len(gs[p]) <= Len(gsAfter[p])

\* What a command that writes has before it.
LEMMA WritingFacts ==
    ASSUME NEW k, NEW cs, NEW gs, NEW ms, WritingOK(k, cs, gs, ms)
    PROVE  /\ k.todo \in Seq(FilesFor(k.close)) /\ Len(k.todo) \in Nat /\ Len(k.todo) >= 1
           /\ Head(k.todo) = k.todo[1] /\ Head(k.todo) \in FilesFor(k.close)
<1>1. k.todo \in Seq(FilesFor(k.close)) /\ k.todo # <<>>
      BY DEF WritingOK, TodoOK
<1>2. Len(k.todo) \in Nat /\ Len(k.todo) >= 1
      BY <1>1
<1>3. Head(k.todo) = k.todo[1] /\ k.todo[1] \in FilesFor(k.close)
      BY <1>1, <1>2
<1> QED BY <1>1, <1>2, <1>3

\* What a command has in hand stays good while the files only grow.
LEMMA CommandStaysOK ==
    ASSUME NEW k, NEW cs, NEW gs, NEW ms, NEW csA, NEW gsA, NEW msA,
           CommandOK(k, cs, gs, ms), Grown(cs, gs, ms, csA, gsA, msA)
    PROVE  CommandOK(k, csA, gsA, msA)
<1>1. CASE k = Idle
      BY <1>1 DEF CommandOK
<1>2. CASE LoadedOK(k, ms)
  <2>1. LoadedOK(k, msA)
        BY <1>2 DEF LoadedOK, LoadedRec, Grown
  <2> QED BY <2>1 DEF CommandOK
<1>3. CASE GatherOK(k, ms)
  <2>1. GatherOK(k, msA)
        BY <1>3 DEF GatherOK, LoadedRec, Grown
  <2> QED BY <2>1 DEF CommandOK
<1>4. CASE WritingOK(k, cs, gs, ms)
  <2> DEFINE f == Head(k.todo)
  <2>1. f \in FilesFor(k.close)
        BY <1>4, WritingFacts
  <2> HIDE DEF f
  <2>2. f.is = "grant" => f.who \in People
        BY <2>1, FileFacts
  <2>3. AtFileOK(k, cs, gs)
        BY <1>4 DEF WritingOK
  <2>4. k.at = "open" /\ f.is = "grant" => k.n \in 1..(Len(gsA[f.who]) + 1)
        BY <2>2, <2>3 DEF AtFileOK, Grown, f
  <2>5. k.at = "fill" /\ f.is = "grant" => k.n \in 1..Len(gsA[f.who])
        BY <2>2, <2>3 DEF AtFileOK, Grown, f
  <2>6. k.at \in {"open", "fill"} /\ f.is = "list" => k.read \in Seq(Entries(f.list, csA))
    <3> SUFFICES ASSUME k.at \in {"open", "fill"}, f.is = "list"
                 PROVE  k.read \in Seq(Entries(f.list, csA))
        OBVIOUS
    <3>1. k.read \in Seq(Entries(f.list, cs))
          BY <2>3 DEF AtFileOK, f
    <3>2. Entries(f.list, cs) \subseteq Entries(f.list, csA)
          BY DEF Entries, Grown
    <3> QED BY <3>1, <3>2, SeqMono
  <2>7. (k.at = "prepare" => f.is # "record") /\ (k.at = "fill" /\ f.is = "record" => k.close \in DOMAIN csA)
        BY <2>3 DEF AtFileOK, Grown, f
  <2>8. AtFileOK(k, csA, gsA)
        BY <2>4, <2>5, <2>6, <2>7 DEF AtFileOK, f
  <2>9. k.close \in DOMAIN ms => k.close \in DOMAIN msA
        BY DEF Grown
  <2>10. WritingOK(k, csA, gsA, msA)
        BY <1>4, <2>8, <2>9 DEF WritingOK
  <2> QED BY <2>10 DEF CommandOK
<1> QED BY <1>1, <1>2, <1>3, <1>4 DEF CommandOK

\* Terminal t goes on with k, and the others stay where they are.
Moves(t, k) ==
    /\ DOMAIN command' = Terminals
    /\ command'[t] = k
    /\ \A u \in Terminals \ {t} : command'[u] = command[u]

\* An update of one terminal's command is a move of that terminal.
LEMMA Moved ==
    ASSUME DOMAIN command = Terminals, NEW t \in Terminals, NEW k,
           command' = [command EXCEPT ![t] = k]
    PROVE  Moves(t, k)
BY DEF Moves

AllGrown == Grown(closes, grants, minted, closes', grants', minted')

\* Only the command that moved has to be looked at again.
LEMMA CommandsStep ==
    ASSUME CommandsOK, NEW t \in Terminals, NEW k, Moves(t, k), AllGrown,
           CommandOK(k, closes', grants', minted')
    PROVE  CommandsOK'
<1>1. ASSUME NEW u \in Terminals
      PROVE  CommandOK(command'[u], closes', grants', minted')
  <2>1. CASE u = t
        BY <2>1 DEF Moves
  <2>2. CASE u # t
    <3>1. command'[u] = command[u] /\ CommandOK(command[u], closes, grants, minted)
          BY <2>2 DEF Moves, CommandsOK
    <3>2. CommandOK(command[u], closes', grants', minted')
          BY <3>1, CommandStaysOK DEF AllGrown
    <3> QED BY <3>1, <3>2
  <2> QED BY <2>1, <2>2
<1>2. Terminals' = Terminals
      BY DEF Terminals, Most
<1> QED BY <1>1, <1>2 DEF CommandsOK, Moves

\* A step that touches no file.
LEMMA QuietStep ==
    ASSUME TypesInv, UNCHANGED <<files, minted, done>>, NEW t \in Terminals, NEW k, Moves(t, k),
           DOMAIN trouble' = DOMAIN trouble,
           CommandOK(k, closes, grants, minted)
    PROVE  TypesInv'
<1>1. closes' = closes /\ lists' = lists /\ grants' = grants /\ minted' = minted /\ done' = done
      BY DEF files
<1>2. ClosesOK' /\ GrantsOK' /\ ListsOK' /\ HistoryOK'
      BY <1>1 DEF TypesInv, ClosesOK, GrantsOK, ListsOK, HistoryOK
<1>3. AllGrown
  <2>1. \A p \in People : Len(grants[p]) \in Nat
        BY DEF TypesInv, GrantsOK
  <2> QED BY <1>1, <2>1 DEF AllGrown, Grown
<1>4. CommandsOK'
      BY <1>1, <1>3, CommandsStep DEF TypesInv
<1> QED BY <1>2, <1>4 DEF TypesInv

-----------------------------------------------------------------------------
\* What is read from grants and records is a key or none, whatever they hold.

\* Lowering a facet key yields a key or none.
LEMMA LowerType ==
    ASSUME NEW key \in KeyOrNone, NEW have, NEW want \in Facets, NEW c \in Closes
    PROVE  LowerFacetKey(key, have, want, c) \in KeyOrNone
<1>1. CASE want = Presence
      BY <1>1 DEF LowerFacetKey, FacetKey, KeyOrNone, Presence, Shape, Content
<1>2. CASE want # Presence
  <2>1. want \in Lanes
        BY <1>2 DEF Facets, Lanes, Presence, Shape, Content
  <2> QED BY <2>1, FacetKeyType DEF LowerFacetKey, KeyOrNone
<1> QED BY <1>1, <1>2

\* Unwrapping a grant yields a key or none.
LEMMA UnwrapType ==
    ASSUME NEW g \in Grant, NEW who
    PROVE  UnwrapKey(g, who) \in KeyOrNone
<1>1. Leaf(g).wrapped \in WrappedKey \cup {NoKey}
      BY LeafOfGrant DEF Link
<1>2. CASE Leaf(g).wrapped = NoKey
      BY <1>2 DEF UnwrapKey, KeyOrNone
<1>3. CASE Leaf(g).wrapped \in WrappedKey
  <2>1. Leaf(g).wrapped.holds \in Key
        BY <1>3 DEF WrappedKey
  <2> QED BY <2>1 DEF UnwrapKey, KeyOrNone
<1> QED BY <1>1, <1>2, <1>3

\* Walking a chain of epochs yields a key or none.
LEMMA WalkType ==
    ASSUME NEW rec \in Record(People), NEW key \in KeyOrNone, NEW have \in Nat, NEW want \in Nat,
           NEW lane \in Lanes
    PROVE  WalkChain(rec, key, have, want, lane) \in KeyOrNone
<1>1. CASE want > have
      BY <1>1 DEF WalkChain, KeyOrNone
<1>2. CASE ~ want > have
  <2> DEFINE S == [n \in Nat |-> KeyOrNone]
  <2>1. ASSUME NEW n \in want..(have - 1), NEW k \in S[n + 1]
        PROVE  StepBack(rec, k, n, lane) \in S[n]
    <3>1. n \in Nat /\ S[n] = KeyOrNone
          OBVIOUS
    <3>2. CASE n + 1 > Len(rec.chain)
          BY <3>1, <3>2 DEF StepBack, KeyOrNone
    <3>3. CASE ~ n + 1 > Len(rec.chain)
      <4>1. rec.chain \in Seq([Lanes -> Box])
            BY DEF Record
      <4>2. n + 1 \in 1..Len(rec.chain)
            BY <3>1, <3>3, <4>1
      <4>3. rec.chain[n + 1] \in [Lanes -> Box]
            BY <4>1, <4>2, ElementIn
      <4>4. rec.chain[n + 1][lane] \in Box
            BY <4>3
      <4>5. rec.chain[n + 1][lane].holds \in Key
            BY <4>4 DEF Box
      <4> QED BY <3>1, <4>5 DEF StepBack, Unwrap, KeyOrNone
    <3> QED BY <3>2, <3>3
  <2>2. key \in S[have] /\ S[want] = KeyOrNone
        OBVIOUS
  <2> HIDE DEF S
  <2>3. WalkChain(rec, key, have, want, lane) \in S[want]
        BY <1>2, <2>1, <2>2, WalkKeeps
  <2> QED BY <2>2, <2>3
<1> QED BY <1>1, <1>2

\* The key that one grant leads to is a key or none.
LEMMA KeyFromType ==
    ASSUME NEW g \in Grant, NEW who, NEW rec \in Record(People), NEW facet \in Lanes, NEW epoch \in Nat
    PROVE  KeyFrom(g, who, rec, facet, epoch) \in KeyOrNone
<1>1. Leaf(g).facet \in Facets /\ Leaf(g).epoch \in Nat
      BY LeafOfGrant DEF Link
<1>2. CASE Leaf(g).facet < facet
      BY <1>2 DEF KeyFrom, KeyOrNone
<1>3. CASE ~ Leaf(g).facet < facet
  <2>1. Leaf(g).facet \in Lanes /\ facet \in Facets
        BY <1>1, <1>3 DEF Facets, Lanes, Presence, Shape, Content
  <2>2. WalkChain(rec, UnwrapKey(g, who), Leaf(g).epoch, epoch, Leaf(g).facet) \in KeyOrNone
        BY <1>1, <2>1, UnwrapType, WalkType
  <2>3. rec.id \in Closes
        BY DEF Record
  <2> QED BY <1>3, <2>1, <2>2, <2>3, LowerType DEF KeyFrom
<1> QED BY <1>2, <1>3

\* So is the first key that a list of grants leads to.
LEMMA FacetKeyForType ==
    ASSUME NEW held \in Seq(Grant), NEW who, NEW rec \in Record(People), NEW facet \in Lanes,
           NEW epoch \in Nat
    PROVE  FacetKeyFor(held, who, rec, facet, epoch, 0) \in KeyOrNone
<1> DEFINE yielding == {i \in HeldOn(held, rec, 0) : KeyFrom(held[i], who, rec, facet, epoch) # NoKey}
<1>1. CASE facet = Presence \/ yielding = {}
      BY <1>1 DEF FacetKeyFor, KeyOrNone
<1>2. CASE ~ (facet = Presence \/ yielding = {})
  <2>1. yielding \subseteq 1..Len(held) /\ Len(held) \in Nat
        BY DEF HeldOn
  <2>2. First(yielding) \in 1..Len(held)
        BY <1>2, <2>1, FirstIn
  <2>3. held[First(yielding)] \in Grant
        BY <2>2, ElementIn
  <2>4. FacetKeyFor(held, who, rec, facet, epoch, 0) = KeyFrom(held[First(yielding)], who, rec, facet, epoch)
        BY <1>2 DEF FacetKeyFor
  <2> QED BY <2>3, <2>4, KeyFromType
<1> QED BY <1>1, <1>2

\* The grants of p that decode.
LEMMA GrantsForFacts ==
    ASSUME GrantsOK, NEW p \in People
    PROVE  /\ GrantsFor(p) \in Seq(Grant)
           /\ \A i \in 1..Len(GrantsFor(p)) : \E j \in 1..Len(grants[p]) :
                 grants[p][j] # Torn /\ GrantsFor(p)[i] = grants[p][j]
           /\ \A j \in 1..Len(grants[p]) : grants[p][j] # Torn =>
                 \E i \in 1..Len(GrantsFor(p)) : GrantsFor(p)[i] = grants[p][j]
<1> DEFINE A == Grant \cup {Torn}
           out == {Torn}
<1>1. PICK s : s = grants[p]
      OBVIOUS
<1>2. s \in Seq(A)
      BY <1>1 DEF GrantsOK
<1>3. A \ out \subseteq Grant /\ \A g : g \notin out <=> g # Torn
      OBVIOUS
<1> HIDE DEF A, out
<1>4. Without(s, out) \in Seq(A \ out) /\ Leaves(s, out, Without(s, out))
      BY <1>2, WithoutFacts
<1>5. Without(s, out) \in Seq(Grant)
      BY <1>3, <1>4, SeqMono
<1>6. PICK w : w = Without(s, out)
      OBVIOUS
<1>7. GrantsFor(p) = w
      BY <1>1, <1>6 DEF GrantsFor, out
<1>8. /\ \A i \in 1..Len(w) : \E j \in 1..Len(s) : s[j] # Torn /\ w[i] = s[j]
      /\ \A j \in 1..Len(s) : s[j] # Torn => \E i \in 1..Len(w) : w[i] = s[j]
      BY <1>3, <1>4, <1>6 DEF Leaves
<1>9. \A i \in 1..Len(GrantsFor(p)) : \E j \in 1..Len(grants[p]) :
         grants[p][j] # Torn /\ GrantsFor(p)[i] = grants[p][j]
      BY <1>1, <1>7, <1>8
<1>10. \A j \in 1..Len(grants[p]) : grants[p][j] # Torn =>
          \E i \in 1..Len(GrantsFor(p)) : GrantsFor(p)[i] = grants[p][j]
      BY <1>1, <1>7, <1>8
<1> QED BY <1>5, <1>6, <1>7, <1>9, <1>10

\* So is what current_content_key returns.
LEMMA CurrentKeyTyped ==
    ASSUME GrantsOK, NEW p \in People, NEW rec \in Record(People)
    PROVE  CurrentKey(p, rec) \in KeyOrNone
<1>1. rec.epoch \in Nat /\ Content \in Lanes
      BY DEF Record, Lanes, Content
<1> QED BY <1>1, GrantsForFacts, FacetKeyForType DEF CurrentKey, KeyFor

-----------------------------------------------------------------------------
\* Grants that the commands make.

\* issue_root makes a grant for its holder, of the record's close.
LEMMA IssueRootTyped ==
    ASSUME NEW rec \in Record(People), NEW me \in People, NEW key \in Key, NEW epoch \in Nat,
           NEW holder \in People, NEW facet \in Facets, NEW powers \in SUBSET AllPowers
    PROVE  LET g == IssueRoot(rec, me, key, epoch, holder, facet, powers, <<>>, Never)
           IN  g \in Grant /\ Leaf(g).holder = holder /\ Leaf(g).close = rec.id
<1> DEFINE k == LowerFacetKey(key, Content, facet, rec.id)
           b == LinkTo(rec.id, me, holder, facet, powers, <<>>, Never, epoch, k)
<1>1. rec.id \in Closes /\ key \in KeyOrNone /\ Content \in Facets /\ <<>> \in Seq(Names) /\ Never \in Expiry
      BY DEF Record, KeyOrNone, Content, Facets, Presence, Expiry
<1>2. k \in KeyOrNone
      BY <1>1, LowerType
<1>3. k # NoKey => k \in Key /\ facet \in Lanes
      BY <1>2 DEF KeyOrNone, LowerFacetKey, FacetKey, Lanes, Facets, Presence, Shape, Content
<1> HIDE DEF k
<1>4. b \in Link
      BY <1>1, <1>3, LinkToType
<1>5. b.close = rec.id /\ b.holder = holder
      BY LinkToFields
<1> HIDE DEF b
<1>6. <<b>> \in Seq(Link) /\ <<b>> # <<>> /\ Leaf(<<b>>) = b
      BY <1>4 DEF Leaf
<1>7. IssueRoot(rec, me, key, epoch, holder, facet, powers, <<>>, Never) = <<b>>
      BY DEF IssueRoot, b, k
<1> QED BY <1>5, <1>6, <1>7 DEF Grant

\* attenuate makes a grant for its holder, of the parent's close.
LEMMA AttenuateTyped ==
    ASSUME NEW parent \in Grant, NEW me \in People, NEW rec \in Record(People), NEW holder \in People,
           NEW facet \in Facets, facet <= Leaf(parent).facet
    PROVE  LET g == Attenuate(parent, me, rec, holder, facet, {}, Leaf(parent).prefix, Leaf(parent).expires)
           IN  g \in Grant /\ Leaf(g).holder = holder /\ Leaf(g).close = Leaf(parent).close
<1> DEFINE l == Leaf(parent)
           k == PassedKey(parent, me, rec, facet)
           b == LinkTo(l.close, me, holder, facet, {}, l.prefix, l.expires, l.epoch, k)
<1>1. l \in Link /\ rec.id \in Closes
      BY LeafOfGrant DEF Record
<1>2. k \in KeyOrNone
      BY <1>1, UnwrapType, LowerType DEF PassedKey
<1>3. k # NoKey => k \in Key /\ facet \in Lanes
      BY <1>2 DEF KeyOrNone, PassedKey, LowerFacetKey, FacetKey, Lanes, Facets, Presence, Shape, Content
<1> HIDE DEF k
<1>4. l.close \in Closes /\ l.prefix \in Seq(Names) /\ l.expires \in Expiry /\ l.epoch \in Nat /\ {} \in SUBSET AllPowers
      BY <1>1 DEF Link
<1> HIDE DEF l
<1>5. b \in Link
      BY <1>3, <1>4, LinkToType
<1>6. b.close = l.close /\ b.holder = holder
      BY LinkToFields
<1> HIDE DEF b
<1>7. parent \in Seq(Link) /\ Len(parent) \in Nat
      BY DEF Grant
<1>8. /\ Append(parent, b) \in Seq(Link) /\ Len(Append(parent, b)) = Len(parent) + 1
      /\ Append(parent, b)[Len(parent) + 1] = b
      BY <1>5, <1>7
<1>9. Append(parent, b) # <<>> /\ Leaf(Append(parent, b)) = b
      BY <1>7, <1>8 DEF Leaf
<1>10. Attenuate(parent, me, rec, holder, facet, {}, Leaf(parent).prefix, Leaf(parent).expires) = Append(parent, b)
      BY DEF Attenuate, b, l, k
<1> QED BY <1>6, <1>8, <1>9, <1>10 DEF Grant, l

-----------------------------------------------------------------------------
\* A command that goes to its next file, and one that starts to write.

\* What WriteNext leaves of a command, and where it puts it.
LEMMA WriteNextIs ==
    ASSUME NEW k, NEW todo, todo # <<>>
    PROVE  /\ DOMAIN WriteNext(k, todo) = WritingFields
           /\ WriteNext(k, todo).do = k.do /\ WriteNext(k, todo).me = k.me
           /\ WriteNext(k, todo).close = k.close /\ WriteNext(k, todo).except = k.except
           /\ WriteNext(k, todo).held = k.held /\ WriteNext(k, todo).before = k.before
           /\ WriteNext(k, todo).all = k.all /\ WriteNext(k, todo).todo = todo
           /\ WriteNext(k, todo).at = IF Head(todo).is = "record" THEN "open" ELSE "prepare"
BY DEF WriteNext, WritingFields

\* What Write makes of a command that has decided what to write.
LEMMA WriteIs ==
    ASSUME NEW k, NEW todo, todo # <<>>
    PROVE  /\ DOMAIN Write(k, todo) = WritingFields
           /\ Write(k, todo).do = k.do /\ Write(k, todo).me = k.me
           /\ Write(k, todo).close = k.close /\ Write(k, todo).except = k.except
           /\ Write(k, todo).held = k.held
           /\ Write(k, todo).before = [closes |-> closes, grants |-> grants, minted |-> minted]
           /\ Write(k, todo).all = todo /\ Write(k, todo).todo = todo
           /\ Write(k, todo).at = IF Head(todo).is = "record" THEN "open" ELSE "prepare"
<1> DEFINE j == [do |-> k.do, me |-> k.me, close |-> k.close, except |-> k.except,
                 held |-> k.held, all |-> todo,
                 before |-> [closes |-> closes, grants |-> grants, minted |-> minted]]
<1>1. /\ j.do = k.do /\ j.me = k.me /\ j.close = k.close /\ j.except = k.except
      /\ j.held = k.held /\ j.all = todo
      /\ j.before = [closes |-> closes, grants |-> grants, minted |-> minted]
      OBVIOUS
<1>2. Write(k, todo) = WriteNext(j, todo)
      BY DEF Write
<1> HIDE DEF j
<1> QED BY <1>1, <1>2, WriteNextIs

\* What a command that starts to write must have decided.
StartOK(k, todo, ms) ==
    /\ k.do \in {"protect", "raise", "share", "rotate"} /\ k.me \in People /\ k.close \in Closes
    /\ todo \in Seq(FilesFor(k.close)) /\ Len(todo) >= 1
    /\ \A i \in 1..Len(todo) : /\ todo[i].is = "record" => i = 1
                               /\ todo[i].is = "list" => i = Len(todo)
    /\ k.do # "protect" \/ todo[1].is # "record" => k.close \in DOMAIN ms

\* A command that starts on a good list of files has them well in hand.
LEMMA WriteStarts ==
    ASSUME NEW k, NEW todo, NEW cs, NEW gs, NEW ms, StartOK(k, todo, ms)
    PROVE  WritingOK(Write(k, todo), cs, gs, ms)
<1> DEFINE w == Write(k, todo)
<1>1. todo # <<>> /\ Head(todo) = todo[1] /\ Len(todo) \in Nat
      BY DEF StartOK
<1>2. /\ DOMAIN w = WritingFields /\ w.do = k.do /\ w.me = k.me /\ w.close = k.close
      /\ w.all = todo /\ w.todo = todo
      /\ w.at = IF Head(todo).is = "record" THEN "open" ELSE "prepare"
      BY <1>1, WriteIs
<1> HIDE DEF w
<1>3. Len(todo) - Len(todo) = 0 /\ \A i \in 1..Len(todo) : i + 0 = i
      BY <1>1
<1>4. TodoOK(w.todo, w.all, w.close)
      BY <1>1, <1>2, <1>3 DEF TodoOK, StartOK
<1>5. AtFileOK(w, cs, gs)
      BY <1>1, <1>2 DEF AtFileOK
<1>6. WritingOK(w, cs, gs, ms)
      BY <1>1, <1>2, <1>4, <1>5 DEF WritingOK, StartOK
<1> QED BY <1>6 DEF w

-----------------------------------------------------------------------------
\* The steps that write nothing, one after the other: how the command moves,
\* and that it is as it should be where it has come to.

\* A sequence with an element is not the empty one.
LEMMA NotEmpty ==
    ASSUME NEW s, Len(s) >= 1
    PROVE  s # <<>>
<1>1. Len(<<>>) = 0
      OBVIOUS
<1> QED BY <1>1

\* k is a command that starts to write these files.
Started(k, do, me, c, todo) ==
    /\ DOMAIN k = WritingFields
    /\ k.do = do /\ k.me = me /\ k.close = c /\ k.all = todo /\ k.todo = todo
    /\ k.at = IF Head(todo).is = "record" THEN "open" ELSE "prepare"
    /\ k.before = [closes |-> closes, grants |-> grants, minted |-> minted]

\* protect writes the record, the founding grant and the map, in this order.
LEMMA FoundingFiles ==
    ASSUME NEW me \in People, NEW c \in Closes, NEW root \in ContentKeys
    PROVE  LET todo == ToFound(me, c, root)
           IN  /\ todo \in Seq(FilesFor(c)) /\ Len(todo) = 3
               /\ todo[1] = RecordFile(FoundRecord(c, me), root)
               /\ todo[2] = GrantFile(me, FoundingGrant(me, c, root))
               /\ todo[3] = ListFile("map", c)
               /\ FoundingGrant(me, c, root) \in Grant
               /\ Leaf(FoundingGrant(me, c, root)).holder = me
               /\ Leaf(FoundingGrant(me, c, root)).close = c
<1> DEFINE rec == FoundRecord(c, me)
           g == FoundingGrant(me, c, root)
<1>1. rec \in Record(People) /\ rec.id = c
      BY DEF FoundRecord, Record
<1>2. MintKey(root, c) \in Key /\ Content \in Facets /\ AllPowers \in SUBSET AllPowers /\ 0 \in Nat
      BY MintKeyType DEF Content, Facets, Presence
<1>3. g \in Grant /\ Leaf(g).holder = me /\ Leaf(g).close = c
      BY <1>1, <1>2, IssueRootTyped DEF FoundingGrant
<1>4. RecordFile(rec, root) \in FilesFor(c) /\ GrantFile(me, g) \in FilesFor(c) /\ ListFile("map", c) \in FilesFor(c)
      BY <1>1, <1>3, FilesMade
<1> HIDE DEF rec, g
<1>5. ToFound(me, c, root) = <<RecordFile(rec, root), GrantFile(me, g), ListFile("map", c)>>
      BY DEF ToFound, rec, g
<1> QED BY <1>3, <1>4, <1>5 DEF rec, g

\* protect draws a root and starts on its three files.
LEMMA ProtectMoves ==
    ASSUME TypesInv, NEW t \in Terminals, NEW me \in People, NEW c \in Closes, Protect(t, me, c)
    PROVE  \E root \in ContentKeys : \E k :
              /\ Fresh(root) /\ Moves(t, k) /\ Started(k, "protect", me, c, ToFound(me, c, root))
              /\ WritingOK(k, closes, grants, minted)
<1> DEFINE j == [do |-> "protect", me |-> me, close |-> c, except |-> {}, held |-> <<>>]
<1>1. PICK root \in ContentKeys : Fresh(root) /\ command' = [command EXCEPT ![t] = Write(j, ToFound(me, c, root))]
      BY DEF Protect
<1>2. PICK todo : todo = ToFound(me, c, root)
      OBVIOUS
<1>3. /\ todo \in Seq(FilesFor(c)) /\ Len(todo) = 3 /\ todo[1].is = "record" /\ todo[2].is = "grant" /\ todo[3].is = "list"
  <2>1. /\ todo \in Seq(FilesFor(c)) /\ Len(todo) = 3
        /\ todo[1] = RecordFile(FoundRecord(c, me), root)
        /\ todo[2] = GrantFile(me, FoundingGrant(me, c, root))
        /\ todo[3] = ListFile("map", c)
        BY <1>2, FoundingFiles
  <2>2. \A rec, g, e : RecordFile(rec, root).is = "record" /\ GrantFile(me, g).is = "grant" /\ ListFile("map", e).is = "list"
        BY DEF RecordFile, GrantFile, ListFile
  <2> QED BY <2>1, <2>2
<1>4. j.do = "protect" /\ j.me = me /\ j.close = c
      OBVIOUS
<1> HIDE DEF j
<1>5. 1..3 = {1, 2, 3}
      OBVIOUS
<1>6. StartOK(j, todo, minted)
      BY <1>3, <1>4, <1>5 DEF StartOK
<1>7. Moves(t, Write(j, todo))
      BY <1>1, <1>2, Moved DEF TypesInv, CommandsOK
<1>8. WritingOK(Write(j, todo), closes, grants, minted)
      BY <1>6, WriteStarts
<1>9. todo # <<>>
      BY <1>3, NotEmpty
<1>10. Started(Write(j, todo), "protect", me, c, todo)
      BY <1>4, <1>9, WriteIs DEF Started
<1> QED BY <1>1, <1>2, <1>7, <1>8, <1>10

\* cell new starts on the one line of the index.
LEMMA RaiseMoves ==
    ASSUME TypesInv, NEW t \in Terminals, NEW me \in People, NEW path \in Signposts, Raise(t, me, path)
    PROVE  \E k : /\ Moves(t, k) /\ Started(k, "raise", me, Commons, << ListFile("index", path) >>)
                  /\ WritingOK(k, closes, grants, minted)
<1> DEFINE j == [do |-> "raise", me |-> me, close |-> Commons, except |-> {}, held |-> <<>>]
<1>1. PICK todo : todo = << ListFile("index", path) >>
      OBVIOUS
<1>2. command' = [command EXCEPT ![t] = Write(j, todo)]
      BY <1>1 DEF Raise
<1>3. ListFile("index", path) \in FilesFor(Commons) /\ ListFile("index", path).is = "list"
      BY FilesMade DEF ListFile
<1>4. todo \in Seq(FilesFor(Commons)) /\ Len(todo) = 1 /\ todo[1].is = "list"
      BY <1>1, <1>3
<1>5. j.do = "raise" /\ j.me = me /\ j.close = Commons
      OBVIOUS
<1> HIDE DEF j
<1>6. Commons \in DOMAIN minted /\ Commons \in Closes
      BY FolderAssumption DEF TypesInv, ClosesOK
<1>7. StartOK(j, todo, minted)
  <2>1. 1..1 = {1}
        OBVIOUS
  <2> QED BY <1>4, <1>5, <1>6, <2>1 DEF StartOK
<1>8. Moves(t, Write(j, todo))
      BY <1>2, Moved DEF TypesInv, CommandsOK
<1>9. WritingOK(Write(j, todo), closes, grants, minted)
      BY <1>7, WriteStarts
<1>10. todo # <<>>
  <2>1. Len(todo) >= 1
        BY <1>4
  <2> QED BY <2>1, NotEmpty
<1>11. Started(Write(j, todo), "raise", me, Commons, todo)
      BY <1>5, <1>10, WriteIs DEF Started
<1> QED BY <1>1, <1>8, <1>9, <1>11

\* A record that can be loaded is that of its own, founded close.
LEMMA LoadsFacts ==
    ASSUME TypesInv, NEW c, Loads(c)
    PROVE  c \in DOMAIN minted /\ closes[c] \in Record(People) /\ closes[c].id = c /\ c \in Closes
BY DEF TypesInv, ClosesOK, Loads, Governs

\* share loads the record and goes on from it.
LEMMA ShareMoves ==
    ASSUME TypesInv, NEW t \in Terminals, NEW me \in People, NEW c \in Closes, NEW with \in Receivers,
           NEW facet \in ShareFacets, Share(t, me, c, with, facet)
    PROVE  \E k : /\ Moves(t, k) /\ LoadedOK(k, minted)
                  /\ k.do = "share" /\ k.me = me /\ k.close = c /\ k.with = with /\ k.facet = facet
                  /\ k.rec = closes[c] /\ closes[c] # Torn
<1> DEFINE k == [at |-> "loaded", do |-> "share", me |-> me, close |-> c, except |-> {}, held |-> <<>>,
                 with |-> with, facet |-> facet, rec |-> closes[c]]
<1>1. command' = [command EXCEPT ![t] = k] /\ Loads(c)
      BY DEF Share
<1>2. k.at = "loaded" /\ k.do = "share" /\ k.me = me /\ k.close = c /\ k.with = with /\ k.facet = facet /\ k.rec = closes[c]
      OBVIOUS
<1> HIDE DEF k
<1>3. Moves(t, k)
      BY <1>1, Moved DEF TypesInv, CommandsOK
<1>4. with \in People /\ facet \in Facets
      BY FolderAssumption
<1>5. LoadedOK(k, minted)
      BY <1>1, <1>2, <1>4, LoadsFacts DEF LoadedOK, LoadedRec
<1> QED BY <1>1, <1>2, <1>3, <1>5 DEF Loads

\* rotate loads the record and goes on from it.
LEMMA RotateMoves ==
    ASSUME TypesInv, NEW t \in Terminals, NEW me \in People, NEW c \in Closes,
           NEW except, Rotate(t, me, c, except)
    PROVE  \E k : /\ Moves(t, k) /\ LoadedOK(k, minted)
                  /\ k.do = "rotate" /\ k.me = me /\ k.close = c /\ k.except = except
                  /\ k.held = [p \in People |-> Readings(p, closes[c])]
                  /\ k.rec = closes[c] /\ closes[c] # Torn
<1> DEFINE k == [at |-> "loaded", do |-> "rotate", me |-> me, close |-> c, except |-> except,
                 held |-> [p \in People |-> Readings(p, closes[c])], rec |-> closes[c]]
<1>1. command' = [command EXCEPT ![t] = k] /\ Loads(c) /\ closes[c].steward = me
      BY DEF Rotate
<1>2. k.at = "loaded" /\ k.do = "rotate" /\ k.me = me /\ k.close = c /\ k.except = except /\ k.rec = closes[c]
      /\ k.held = [p \in People |-> Readings(p, closes[c])]
      OBVIOUS
<1> HIDE DEF k
<1>3. Moves(t, k)
      BY <1>1, Moved DEF TypesInv, CommandsOK
<1>5. LoadedOK(k, minted)
      BY <1>1, <1>2, LoadsFacts DEF LoadedOK, LoadedRec
<1> QED BY <1>1, <1>2, <1>3, <1>5 DEF Loads

\* What a share adds.
LEMMA ToShareTyped ==
    ASSUME TypesInv, NEW k, LoadedOK(k, minted), k.do = "share", NEW g \in ToShare(k)
    PROVE  g \in Grant /\ Leaf(g).holder = k.with /\ Leaf(g).close = k.close
<1>0. /\ k.me \in People /\ k.with \in People /\ k.facet \in Facets /\ k.rec \in Record(People)
      /\ k.rec.id = k.close /\ k.rec.epoch \in Nat /\ GrantsOK
      BY DEF LoadedOK, LoadedRec, Record, TypesInv
<1>1. CASE k.rec.steward = k.me
  <2>1. PICK key : key = CurrentKey(k.me, k.rec)
        OBVIOUS
  <2>2. key # NoKey /\ g = IssueRoot(k.rec, k.me, key, k.rec.epoch, k.with, k.facet, {}, <<>>, Never)
        BY <1>1, <2>1 DEF ToShare
  <2>3. key \in Key
        BY <1>0, <2>1, <2>2, CurrentKeyTyped DEF KeyOrNone
  <2>4. {} \in SUBSET AllPowers
        OBVIOUS
  <2> QED BY <1>0, <2>2, <2>3, <2>4, IssueRootTyped
<1>2. CASE k.rec.steward # k.me
  <2> DEFINE held == GrantsFor(k.me)
             wide == {i \in HeldOn(held, k.rec, 0) : Leaf(held[i]).facet >= k.facet}
             mine == held[First(wide)]
  <2>1. /\ wide # {}
        /\ g = Attenuate(mine, k.me, k.rec, k.with, k.facet, {}, Leaf(mine).prefix, Leaf(mine).expires)
        BY <1>2 DEF ToShare
  <2>2. held \in Seq(Grant) /\ Len(held) \in Nat
        BY <1>0, GrantsForFacts
  <2>3. wide \subseteq 1..Len(held)
        BY DEF HeldOn
  <2>4. First(wide) \in wide
        BY <2>1, <2>2, <2>3, FirstIn
  <2>5. mine \in Grant /\ Leaf(mine).close = k.rec.id /\ Leaf(mine).facet >= k.facet
    <3> HIDE DEF held
    <3> QED BY <2>2, <2>3, <2>4, ElementIn DEF HeldOn
  <2> HIDE DEF mine
  <2>6. k.facet <= Leaf(mine).facet
    <3>1. Leaf(mine).facet \in Facets
          BY <2>5, LeafOfGrant DEF Link
    <3> QED BY <1>0, <2>5, <3>1 DEF Facets, Presence, Content
  <2> QED BY <1>0, <2>1, <2>5, <2>6, AttenuateTyped
<1> QED BY <1>1, <1>2

\* share settles on one grant, for the person it was asked to share with.
LEMMA SettleMoves ==
    ASSUME TypesInv, NEW t \in Terminals, Settle(t)
    PROVE  \E g \in ToShare(command[t]) : \E k :
              /\ LoadedOK(command[t], minted) /\ command[t].do = "share"
              /\ g \in Grant /\ Leaf(g).holder = command[t].with /\ Leaf(g).close = command[t].close
              /\ Moves(t, k)
              /\ Started(k, "share", command[t].me, command[t].close, << GrantFile(Leaf(g).holder, g) >>)
              /\ WritingOK(k, closes, grants, minted)
<1>1. PICK j : j = command[t]
      OBVIOUS
<1>2. j.at = "loaded" /\ j.do = "share" /\ CommandOK(j, closes, grants, minted)
      BY <1>1 DEF Settle, TypesInv, CommandsOK
<1>3. LoadedOK(j, minted)
      BY <1>2 DEF CommandOK, Idle, GatherOK, WritingOK
<1>4. PICK g \in ToShare(j) : command' = [command EXCEPT ![t] = Write(j, << GrantFile(j.with, g) >>)]
      BY <1>1 DEF Settle
<1>5. g \in Grant /\ Leaf(g).holder = j.with /\ Leaf(g).close = j.close /\ j.with \in People
      BY <1>2, <1>3, <1>4, ToShareTyped DEF LoadedOK
<1>6. PICK todo : todo = << GrantFile(Leaf(g).holder, g) >>
      OBVIOUS
<1>7. GrantFile(Leaf(g).holder, g) \in FilesFor(j.close) /\ GrantFile(Leaf(g).holder, g).is = "grant"
      BY <1>5, FilesMade DEF GrantFile
<1>8. todo \in Seq(FilesFor(j.close)) /\ Len(todo) = 1 /\ todo[1].is = "grant" /\ Len(todo) >= 1
      BY <1>6, <1>7
<1>9. j.me \in People /\ j.close \in DOMAIN minted /\ j.close \in Closes
      BY <1>3 DEF LoadedOK, LoadedRec, TypesInv, ClosesOK
<1>10. StartOK(j, todo, minted)
  <2>1. 1..1 = {1}
        OBVIOUS
  <2> QED BY <1>2, <1>8, <1>9, <2>1 DEF StartOK
<1>11. Moves(t, Write(j, todo))
      BY <1>4, <1>5, <1>6, Moved DEF TypesInv, CommandsOK
<1>12. WritingOK(Write(j, todo), closes, grants, minted)
      BY <1>10, WriteStarts
<1>13. Started(Write(j, todo), "share", j.me, j.close, todo)
      BY <1>2, <1>8, NotEmpty, WriteIs DEF Started
<1> QED BY <1>1, <1>2, <1>3, <1>4, <1>5, <1>6, <1>11, <1>12, <1>13

\* rotate finds the present content key and then has everybody to ask.
LEMMA FindKeyMoves ==
    ASSUME TypesInv, NEW t \in Terminals, FindKey(t)
    PROVE  \E k : /\ LoadedOK(command[t], minted) /\ command[t].do = "rotate"
                  /\ Moves(t, k) /\ GatherOK(k, minted)
                  /\ k.me = command[t].me /\ k.close = command[t].close /\ k.rec = command[t].rec
                  /\ k.except = command[t].except /\ k.held = command[t].held
                  /\ k.key = CurrentKey(k.me, k.rec) /\ k.keepers = <<>> /\ k.left = Without(Order, k.except)
<1>1. PICK j : j = command[t]
      OBVIOUS
<1>2. j.at = "loaded" /\ j.do = "rotate" /\ CommandOK(j, closes, grants, minted)
      BY <1>1 DEF FindKey, TypesInv, CommandsOK
<1>3. LoadedOK(j, minted)
      BY <1>2 DEF CommandOK, Idle, GatherOK, WritingOK
<1>4. PICK key : key = CurrentKey(j.me, j.rec)
      OBVIOUS
<1>5. PICK left : left = Without(Order, j.except)
      OBVIOUS
<1> DEFINE k == [at |-> "gather", do |-> "rotate", me |-> j.me, close |-> j.close, except |-> j.except,
                 held |-> j.held, rec |-> j.rec, key |-> key, left |-> left, keepers |-> <<>>]
<1>6. command' = [command EXCEPT ![t] = k] /\ key # NoKey
      BY <1>1, <1>4, <1>5 DEF FindKey
<1>7. /\ k.at = "gather" /\ k.do = "rotate" /\ k.me = j.me /\ k.close = j.close /\ k.except = j.except
      /\ k.held = j.held /\ k.rec = j.rec /\ k.key = key /\ k.left = left /\ k.keepers = <<>>
      /\ DOMAIN k = LoadedFields
      BY DEF LoadedFields
<1> HIDE DEF k
<1>8. Moves(t, k)
      BY <1>6, Moved DEF TypesInv, CommandsOK
<1>9. key \in Key
      BY <1>3, <1>4, <1>6, CurrentKeyTyped DEF LoadedOK, LoadedRec, KeyOrNone, TypesInv
<1>10. left \in Seq(People)
  <2>1. left \in Seq(People \ j.except)
        BY <1>5, FolderAssumption, WithoutFacts
  <2> QED BY <2>1, SeqMono
<1>11. <<>> \in Seq(KeeperSet)
      OBVIOUS
<1>12. GatherOK(k, minted)
      BY <1>2, <1>3, <1>7, <1>9, <1>10, <1>11 DEF GatherOK, LoadedOK, LoadedRec
<1> QED BY <1>1, <1>2, <1>3, <1>4, <1>5, <1>7, <1>8, <1>12

\* A command that finds nothing to go on with ends there.
LEMMA RefuseMoves ==
    ASSUME TypesInv, NEW t \in Terminals, Refuse(t)
    PROVE  Moves(t, Idle) /\ command[t].at = "loaded"
BY Moved DEF Refuse, TypesInv, CommandsOK

\* Those of a person's grants that hold on a close, and the keeper they make.
LEMMA HeldByFacts ==
    ASSUME GrantsOK, NEW p \in People, NEW rec
    PROVE  HeldBy(p, rec) \subseteq Grant
<1>1. PICK held : held = GrantsFor(p)
      OBVIOUS
<1>2. held \in Seq(Grant)
      BY <1>1, GrantsForFacts
<1>3. \A i \in HeldOn(held, rec, 0) : held[i] \in Grant
      BY <1>2, ElementIn DEF HeldOn
<1> QED BY <1>1, <1>3 DEF HeldBy

\* The best facet held is the facet of one grant held and of none higher.
LEMMA BestIsBest ==
    ASSUME NEW held, held \subseteq Grant, held # {}
    PROVE  /\ \E g \in held : Best(held) = Leaf(g).facet
           /\ \A g \in held : Leaf(g).facet <= Best(held)
           /\ Best(held) \in Facets
<1> DEFINE S == {Leaf(g).facet : g \in held}
<1>1. \A g \in held : Leaf(g).facet \in Facets
      BY LeafOfGrant DEF Link
<1>2. S \subseteq 0..2 /\ S # {}
      BY <1>1 DEF Facets, Presence, Content
<1> HIDE DEF S
<1>3. \E f \in S : \A y \in S : y <= f
      BY <1>2, GreatestElement
<1>4. \E f \in S : \A g \in held : Leaf(g).facet <= f
      BY <1>3 DEF S
<1>5. Best(held) \in S /\ \A g \in held : Leaf(g).facet <= Best(held)
      BY <1>4 DEF Best, S
<1> QED BY <1>1, <1>5 DEF S

\* Whoever holds a grant is a keeper, with the facet to be re-issued.
LEMMA KeeperTyped ==
    ASSUME NEW p \in People, NEW held, held \subseteq Grant, held # {}
    PROVE  Keeper(p, held) \in KeeperSet
<1>1. Best(held) \in Facets
      BY BestIsBest
<1>2. UNION {Leaf(g).powers : g \in held} \in SUBSET AllPowers
  <2>1. \A g \in held : Leaf(g).powers \subseteq AllPowers
        BY LeafOfGrant DEF Link
  <2> QED BY <2>1
<1> QED BY <1>1, <1>2 DEF Keeper, KeeperSet

\* A command that gathers has in hand what GatherOK says.
LEMMA AtGather ==
    ASSUME TypesInv, NEW t \in Terminals, command[t].at = "gather"
    PROVE  GatherOK(command[t], minted)
BY DEF TypesInv, CommandsOK, CommandOK, Idle, LoadedOK, WritingOK

\* One person's grants are read: whoever holds one is kept.
LEMMA GatherMoves ==
    ASSUME TypesInv, NEW t \in Terminals, Gather(t)
    PROVE  \E p \in People : \E held : \E k :
              /\ GatherOK(command[t], minted) /\ Moves(t, k) /\ GatherOK(k, minted)
              /\ command[t].left # <<>> /\ p = Head(command[t].left) /\ held = HeldBy(p, k.rec)
              /\ k.me = command[t].me /\ k.close = command[t].close /\ k.rec = command[t].rec
              /\ k.except = command[t].except /\ k.held = command[t].held /\ k.key = command[t].key
              /\ k.left = Tail(command[t].left)
              /\ k.keepers = IF held = {} THEN command[t].keepers
                             ELSE Append(command[t].keepers, Keeper(p, held))
<1>1. PICK j : j = command[t]
      OBVIOUS
<1>2. GatherOK(j, minted) /\ j.left # <<>>
      BY <1>1, AtGather DEF Gather
<1>3. PICK p : p = Head(j.left)
      OBVIOUS
<1>4. PICK held : held = HeldBy(p, j.rec)
      OBVIOUS
<1>5. p \in People /\ Tail(j.left) \in Seq(People)
  <2>1. j.left \in Seq(People)
        BY <1>2 DEF GatherOK
  <2> QED BY <1>2, <1>3, <2>1
<1>6. PICK more : more = IF held = {} THEN j.keepers ELSE Append(j.keepers, Keeper(p, held))
      OBVIOUS
<1>7. more \in Seq(KeeperSet)
  <2>1. j.keepers \in Seq(KeeperSet)
        BY <1>2 DEF GatherOK
  <2>2. CASE held = {}
        BY <1>6, <2>1, <2>2
  <2>3. CASE held # {}
    <3>1. Keeper(p, held) \in KeeperSet
          BY <1>4, <1>5, <2>3, HeldByFacts, KeeperTyped DEF TypesInv
    <3>2. more = Append(j.keepers, Keeper(p, held))
          BY <1>6, <2>3
    <3> HIDE DEF KeeperSet
    <3> QED BY <2>1, <3>1, <3>2
  <2> QED BY <2>2, <2>3
<1>8. PICK tail : tail = Tail(j.left)
      OBVIOUS
<1> DEFINE k == [[j EXCEPT !.left = tail] EXCEPT !.keepers = more]
<1>9. command' = [command EXCEPT ![t] = k]
  <2>1. command' = [command EXCEPT ![t].left = Tail(@),
                         ![t].keepers = IF held = {} THEN @ ELSE Append(@, Keeper(p, held))]
        BY <1>1, <1>3, <1>4 DEF Gather
  <2>2. DOMAIN j = LoadedFields
        BY <1>2 DEF GatherOK
  <2>3. t \in DOMAIN command
        BY DEF TypesInv, CommandsOK
  <2> QED BY <1>1, <1>6, <1>8, <2>1, <2>2, <2>3 DEF LoadedFields
<1>10. /\ DOMAIN k = LoadedFields /\ k.left = tail /\ k.keepers = more
       /\ k.at = j.at /\ k.do = j.do /\ k.me = j.me /\ k.close = j.close /\ k.rec = j.rec
       /\ k.except = j.except /\ k.held = j.held /\ k.key = j.key
  <2>1. DOMAIN j = LoadedFields
        BY <1>2 DEF GatherOK
  <2> QED BY <2>1 DEF LoadedFields
<1> HIDE DEF k
<1>11. Moves(t, k)
      BY <1>9, Moved DEF TypesInv, CommandsOK
<1>12. GatherOK(k, minted)
      BY <1>2, <1>5, <1>7, <1>8, <1>10 DEF GatherOK, LoadedRec
<1> QED BY <1>1, <1>2, <1>3, <1>4, <1>5, <1>6, <1>8, <1>10, <1>11, <1>12

\* The files of a rotation.
LEMMA RotationFiles ==
    ASSUME NEW k, NEW ms, GatherOK(k, ms), k.close \in Closes, NEW root \in ContentKeys
    PROVE  LET todo == ToRotate(k, root)
               rec == RotateRecord(k.rec, k.key, MintKey(root, k.close))
               g(i) == IssueRoot(rec, k.me, MintKey(root, k.close), rec.epoch, k.keepers[i].who,
                                 k.keepers[i].facet, k.keepers[i].powers, <<>>, Never)
           IN  /\ todo \in Seq(FilesFor(k.close)) /\ Len(k.keepers) \in Nat
               /\ Len(todo) = Len(k.keepers) + 1
               /\ todo[1] = RecordFile(rec, root) /\ rec \in Record(People) /\ rec.id = k.close
               /\ \A i \in 1..Len(k.keepers) :
                     /\ todo[i + 1] = GrantFile(k.keepers[i].who, g(i))
                     /\ g(i) \in Grant /\ Leaf(g(i)).holder = k.keepers[i].who
                     /\ Leaf(g(i)).close = k.close
<1> DEFINE rec == RotateRecord(k.rec, k.key, MintKey(root, k.close))
           g(i) == IssueRoot(rec, k.me, MintKey(root, k.close), rec.epoch, k.keepers[i].who,
                             k.keepers[i].facet, k.keepers[i].powers, <<>>, Never)
<1>1. /\ k.me \in People /\ k.key \in Key /\ k.rec \in Record(People) /\ k.rec.id = k.close
      /\ k.keepers \in Seq(KeeperSet) /\ Len(k.keepers) \in Nat
      BY DEF GatherOK, LoadedRec
<1>2. MintKey(root, k.close) \in Key
      BY MintKeyType
<1>3. rec \in Record(People) /\ rec.id = k.close
      BY <1>1, <1>2, RotateRecordFields
<1>4. rec.epoch \in Nat
      BY <1>3 DEF Record
<1> HIDE DEF rec
<1>5. ASSUME NEW i \in 1..Len(k.keepers)
      PROVE  g(i) \in Grant /\ Leaf(g(i)).holder = k.keepers[i].who /\ Leaf(g(i)).close = k.close
             /\ k.keepers[i].who \in People
  <2>1. k.keepers[i] \in KeeperSet
        BY <1>1, ElementIn
  <2>2. k.keepers[i].who \in People /\ k.keepers[i].facet \in Facets /\ k.keepers[i].powers \in SUBSET AllPowers
        BY <2>1 DEF KeeperSet
  <2> QED BY <1>1, <1>2, <1>3, <1>4, <2>2, IssueRootTyped
<1> DEFINE rest == [i \in 1..Len(k.keepers) |-> GrantFile(k.keepers[i].who, g(i))]
<1>6. ASSUME NEW i \in 1..Len(k.keepers)
      PROVE  GrantFile(k.keepers[i].who, g(i)) \in FilesFor(k.close)
  <2> HIDE DEF g
  <2>1. PICK h : h = g(i)
        OBVIOUS
  <2>2. h \in Grant /\ Leaf(h).holder = k.keepers[i].who /\ Leaf(h).close = k.close /\ k.keepers[i].who \in People
        BY <1>5, <2>1
  <2>3. GrantFile(Leaf(h).holder, h) \in FilesFor(k.close)
        BY <2>2, FilesMade
  <2> QED BY <2>1, <2>2, <2>3
<1>7. ReissueTo(rec, k.me, MintKey(root, k.close), k.keepers) = rest
      BY DEF ReissueTo
<1> HIDE DEF g
<1>8. rest \in Seq(FilesFor(k.close)) /\ Len(rest) = Len(k.keepers)
      /\ \A i \in 1..Len(k.keepers) : rest[i] = GrantFile(k.keepers[i].who, g(i))
      BY <1>1, <1>6
<1> HIDE DEF rest
<1>9. PICK first : first = RecordFile(rec, root)
      OBVIOUS
<1>10. <<first>> \in Seq(FilesFor(k.close)) /\ Len(<<first>>) = 1 /\ <<first>>[1] = first
      BY <1>3, <1>9, FilesMade
<1>11. PICK todo : todo = <<first>> \o rest
      OBVIOUS
<1>12. /\ todo \in Seq(FilesFor(k.close)) /\ Len(todo) = Len(rest) + 1
       /\ todo[1] = first
       /\ \A i \in 1..Len(rest) : todo[i + 1] = rest[i]
      BY <1>1, <1>8, <1>10, <1>11
<1>13. ToRotate(k, root) = todo
      BY <1>7, <1>9, <1>11 DEF ToRotate, rec
<1>14. \A i \in 1..Len(k.keepers) :
         /\ todo[i + 1] = GrantFile(k.keepers[i].who, g(i))
         /\ g(i) \in Grant /\ Leaf(g(i)).holder = k.keepers[i].who /\ Leaf(g(i)).close = k.close
      BY <1>5, <1>8, <1>12
<1> QED BY <1>1, <1>3, <1>8, <1>9, <1>12, <1>13, <1>14 DEF rec, g

\* With everybody asked, rotate draws a root and starts to write.
LEMMA ChangeLockMoves ==
    ASSUME TypesInv, NEW t \in Terminals, ChangeLock(t)
    PROVE  \E root \in ContentKeys : \E k :
              /\ GatherOK(command[t], minted) /\ command[t].close \in Closes /\ command[t].left = <<>>
              /\ Fresh(root) /\ Moves(t, k)
              /\ Started(k, "rotate", command[t].me, command[t].close, ToRotate(command[t], root))
              /\ k.except = command[t].except /\ k.held = command[t].held
              /\ k.at = "open"
              /\ WritingOK(k, closes, grants, minted)
<1>1. PICK j : j = command[t]
      OBVIOUS
<1>2. GatherOK(j, minted) /\ j.left = <<>>
      BY <1>1, AtGather DEF ChangeLock
<1>3. j.close \in Closes /\ j.close \in DOMAIN minted /\ j.me \in People /\ j.do = "rotate"
      BY <1>2 DEF GatherOK, LoadedRec, TypesInv, ClosesOK
<1>4. PICK root \in ContentKeys : Fresh(root) /\ command' = [command EXCEPT ![t] = Write(@, ToRotate(@, root))]
      BY DEF ChangeLock
<1>5. PICK todo : todo = ToRotate(j, root)
      OBVIOUS
<1>6. command' = [command EXCEPT ![t] = Write(j, todo)]
      BY <1>1, <1>4, <1>5
<1>7. PICK n : n = Len(j.keepers)
      OBVIOUS
<1>8. /\ todo \in Seq(FilesFor(j.close)) /\ n \in Nat /\ Len(todo) = n + 1
      /\ todo[1].is = "record" /\ \A i \in 1..n : todo[i + 1].is = "grant"
  <2>1. \A who, g, rec : GrantFile(who, g).is = "grant" /\ RecordFile(rec, root).is = "record"
        BY DEF GrantFile, RecordFile
  <2> DEFINE rec == RotateRecord(j.rec, j.key, MintKey(root, j.close))
             g(i) == IssueRoot(rec, j.me, MintKey(root, j.close), rec.epoch, j.keepers[i].who,
                                 j.keepers[i].facet, j.keepers[i].powers, <<>>, Never)
  <2>2. /\ todo \in Seq(FilesFor(j.close)) /\ n \in Nat /\ Len(todo) = n + 1
        /\ todo[1] = RecordFile(rec, root)
        /\ \A i \in 1..n : todo[i + 1] = GrantFile(j.keepers[i].who, g(i))
        BY <1>2, <1>3, <1>5, <1>7, RotationFiles
  <2> HIDE DEF rec, g
  <2> QED BY <2>1, <2>2
<1>9. \A i \in 1..Len(todo) : i = 1 \/ (i - 1 \in 1..n /\ (i - 1) + 1 = i)
      BY <1>8
<1>10. \A i \in 1..Len(todo) : i = 1 \/ todo[i].is = "grant"
      BY <1>8, <1>9
<1>11. StartOK(j, todo, minted)
      BY <1>3, <1>8, <1>10 DEF StartOK
<1>12. Moves(t, Write(j, todo))
      BY <1>6, Moved DEF TypesInv, CommandsOK
<1>13. WritingOK(Write(j, todo), closes, grants, minted)
      BY <1>11, WriteStarts
<1>14. todo # <<>> /\ Head(todo) = todo[1]
  <2>1. Len(todo) >= 1
        BY <1>8
  <2> QED BY <1>8, <2>1, NotEmpty
<1>15. Started(Write(j, todo), "rotate", j.me, j.close, todo)
      BY <1>3, <1>14, WriteIs DEF Started
<1>16. Write(j, todo).except = j.except /\ Write(j, todo).held = j.held /\ Write(j, todo).at = "open"
      BY <1>8, <1>14, WriteIs
<1> QED BY <1>1, <1>2, <1>3, <1>4, <1>5, <1>12, <1>13, <1>15, <1>16

\* l is k, but for where it is at, the number it counted and the text it read.
SameCommand(k, l) ==
    /\ DOMAIN l = WritingFields
    /\ l.do = k.do /\ l.me = k.me /\ l.close = k.close /\ l.except = k.except
    /\ l.held = k.held /\ l.before = k.before /\ l.all = k.all

\* A command that is where it writes, and the file it is at.
LEMMA AtWriting ==
    ASSUME TypesInv, NEW t \in Terminals, command[t].at \in {"prepare", "open", "fill"}
    PROVE  /\ WritingOK(command[t], closes, grants, minted)
           /\ File(t) = Head(command[t].todo)
           /\ File(t) \in FilesFor(command[t].close)
<1>1. WritingOK(command[t], closes, grants, minted)
      BY DEF TypesInv, CommandsOK, CommandOK, Idle, LoadedOK, GatherOK
<1> QED BY <1>1, WritingFacts DEF File

\* The number of a grant's file is one more than the files there are.
LEMMA CountMoves ==
    ASSUME TypesInv, NEW t \in Terminals, Count(t)
    PROVE  \E k : /\ Moves(t, k) /\ SameCommand(command[t], k) /\ k.todo = command[t].todo
                  /\ command[t].at = "prepare" /\ k.at = "open"
                  /\ File(t).is = "grant" /\ File(t).who \in People /\ Head(k.todo) = File(t)
                  /\ k.n = Len(grants[File(t).who]) + 1
                  /\ WritingOK(k, closes, grants, minted)
<1>1. PICK j : j = command[t]
      OBVIOUS
<1>2. /\ j.at = "prepare" /\ File(t).is = "grant"
      /\ command' = [command EXCEPT ![t].at = "open", ![t].n = Len(grants[File(t).who]) + 1]
      BY <1>1 DEF Count
<1>3. /\ WritingOK(j, closes, grants, minted) /\ File(t) = Head(j.todo) /\ File(t).who \in People
      BY <1>1, <1>2, AtWriting, FileFacts
<1>4. PICK n : n = Len(grants[File(t).who]) + 1
      OBVIOUS
<1> DEFINE k == [[j EXCEPT !.at = "open"] EXCEPT !.n = n]
<1>5. DOMAIN j = WritingFields
      BY <1>3 DEF WritingOK
<1>6. command' = [command EXCEPT ![t] = k]
  <2>1. t \in DOMAIN command
        BY DEF TypesInv, CommandsOK
  <2> QED BY <1>1, <1>2, <1>4, <1>5, <2>1
<1>7. /\ DOMAIN k = WritingFields /\ k.at = "open" /\ k.n = n /\ k.todo = j.todo /\ k.all = j.all
      /\ k.do = j.do /\ k.me = j.me /\ k.close = j.close /\ k.except = j.except
      /\ k.held = j.held /\ k.before = j.before
      BY <1>5 DEF WritingFields
<1> HIDE DEF k
<1>8. Moves(t, k)
      BY <1>6, Moved DEF TypesInv, CommandsOK
<1>9. Len(grants[File(t).who]) \in Nat
      BY <1>3 DEF TypesInv, GrantsOK
<1>10. AtFileOK(k, closes, grants)
      BY <1>2, <1>3, <1>4, <1>7, <1>9 DEF AtFileOK
<1>11. WritingOK(k, closes, grants, minted)
      BY <1>3, <1>7, <1>10 DEF WritingOK
<1> QED BY <1>1, <1>2, <1>3, <1>4, <1>7, <1>8, <1>11 DEF SameCommand

\* A list is read to be rewritten, or is torn and ends the command.
LEMMA ReadListMoves ==
    ASSUME TypesInv, NEW t \in Terminals, ReadList(t)
    PROVE  /\ command[t].at = "prepare" /\ File(t).is = "list" /\ File(t).list \in {"map", "index"}
           /\ WritingOK(command[t], closes, grants, minted)
           /\ \/ lists[File(t).list] = Torn /\ Moves(t, Idle)
              \/ /\ lists[File(t).list] # Torn
                 /\ \E k : /\ Moves(t, k) /\ SameCommand(command[t], k) /\ k.todo = command[t].todo
                           /\ k.at = "open" /\ Head(k.todo) = File(t)
                           /\ k.read = Append(lists[File(t).list], File(t).entry)
                           /\ lists[File(t).list] \in Seq(Entries(File(t).list, closes))
                           /\ File(t).entry \in Entries(File(t).list, closes)
                           /\ WritingOK(k, closes, grants, minted)
<1>1. PICK j : j = command[t]
      OBVIOUS
<1>2. PICK list : list = File(t).list
      OBVIOUS
<1>3. /\ j.at = "prepare" /\ File(t).is = "list"
      /\ command' = [command EXCEPT ![t] =
                 IF lists[list] = Torn THEN Idle
                 ELSE [command[t] EXCEPT !.at = "open", !.read = Append(lists[list], File(t).entry)]]
      BY <1>1, <1>2 DEF ReadList
<1>4. /\ WritingOK(j, closes, grants, minted) /\ File(t) = Head(j.todo) /\ list \in {"map", "index"}
      /\ list = "map" => File(t).entry = j.close
      /\ list = "index" => File(t).entry \in Signposts
      BY <1>1, <1>2, <1>3, AtWriting, FileFacts
<1>5. CASE lists[list] = Torn
  <2>1. Moves(t, Idle)
        BY <1>3, <1>5, Moved DEF TypesInv, CommandsOK
  <2> QED BY <1>1, <1>2, <1>3, <1>4, <1>5, <2>1
<1>6. CASE lists[list] # Torn
  <2>1. PICK text : text = Append(lists[list], File(t).entry)
        OBVIOUS
  <2> DEFINE k == [[j EXCEPT !.at = "open"] EXCEPT !.read = text]
  <2>2. DOMAIN j = WritingFields
        BY <1>4 DEF WritingOK
  <2>3. command' = [command EXCEPT ![t] = k]
    <3>1. t \in DOMAIN command
          BY DEF TypesInv, CommandsOK
    <3> QED BY <1>1, <1>3, <1>6, <2>1, <2>2, <3>1
  <2>4. /\ DOMAIN k = WritingFields /\ k.at = "open" /\ k.read = text /\ k.todo = j.todo /\ k.all = j.all
        /\ k.do = j.do /\ k.me = j.me /\ k.close = j.close /\ k.except = j.except
        /\ k.held = j.held /\ k.before = j.before
        BY <2>2 DEF WritingFields
  <2> HIDE DEF k
  <2>5. Moves(t, k)
        BY <2>3, Moved DEF TypesInv, CommandsOK
  <2>6. lists[list] \in Seq(Entries(list, closes))
        BY <1>4, <1>6 DEF TypesInv, ListsOK
  <2>7. File(t).entry \in Entries(list, closes)
    <3>1. j.close \in DOMAIN closes
          BY <1>3, <1>4 DEF WritingOK, TypesInv, ClosesOK
    <3> QED BY <1>4, <3>1 DEF Entries
  <2>8. text \in Seq(Entries(list, closes))
        BY <2>1, <2>6, <2>7
  <2>9. AtFileOK(k, closes, grants)
        BY <1>2, <1>3, <1>4, <2>4, <2>8 DEF AtFileOK
  <2>10. WritingOK(k, closes, grants, minted)
        BY <1>4, <2>4, <2>9 DEF WritingOK
  <2> QED BY <1>1, <1>2, <1>3, <1>4, <1>6, <2>1, <2>4, <2>5, <2>6, <2>7, <2>10 DEF SameCommand
<1> QED BY <1>5, <1>6

\* A killed command leaves its terminal idle.
LEMMA KillMoves ==
    ASSUME TypesInv, NEW t \in Terminals, Kill(t)
    PROVE  Moves(t, Idle) /\ command[t] # Idle
BY Moved DEF Kill, Busy, TypesInv, CommandsOK

-----------------------------------------------------------------------------
\* The steps that write.

\* A function with one value put in or replaced.
LEMMA WithIs ==
    ASSUME NEW f, NEW x, NEW v
    PROVE  /\ DOMAIN With(f, x, v) = DOMAIN f \cup {x} /\ With(f, x, v)[x] = v
           /\ \A y \in DOMAIN f \ {x} : With(f, x, v)[y] = f[y]
BY DEF With

\* A file is added after the last, or is written again.
LEMMA WithSeq ==
    ASSUME NEW A, NEW s \in Seq(A), NEW n \in 1..(Len(s) + 1), NEW v \in A
    PROVE  /\ With(s, n, v) \in Seq(A)
           /\ Len(With(s, n, v)) = IF n = Len(s) + 1 THEN n ELSE Len(s)
           /\ With(s, n, v)[n] = v
           /\ \A i \in 1..Len(s) : i # n => With(s, n, v)[i] = s[i]
<1>1. PICK l \in Nat : l = Len(s) /\ DOMAIN s = 1..l
      OBVIOUS
<1>2. n \in Nat /\ n >= 1 /\ n <= l + 1
      BY <1>1
<1>3. PICK m \in Nat : m = IF n = l + 1 THEN n ELSE l
      BY <1>2
<1>4. m >= l /\ m >= n /\ \A y \in 1..m : y = n \/ y \in 1..l
      BY <1>2, <1>3
<1>5. DOMAIN s \cup {n} = 1..m
  <2>1. \A y : y \in 1..m => y \in 1..l \/ y = n
        BY <1>4
  <2>2. n \in 1..m /\ \A y \in 1..l : y \in 1..m
        BY <1>2, <1>4
  <2> QED BY <1>1, <2>1, <2>2
<1> DEFINE w == [y \in 1..m |-> IF y = n THEN v ELSE s[y]]
<1>6. With(s, n, v) = w
      BY <1>5 DEF With
<1>7. \A y \in 1..m : (IF y = n THEN v ELSE s[y]) \in A
  <2>1. \A y \in 1..l : s[y] \in A
        BY <1>1, ElementIn
  <2> QED BY <1>4, <2>1
<1>8. w \in Seq(A) /\ Len(w) = m
      BY <1>7
<1>9. n \in 1..m /\ \A i \in 1..l : i \in 1..m
      BY <1>2, <1>4
<1>10. w[n] = v /\ \A i \in 1..l : i # n => w[i] = s[i]
      BY <1>9
<1> HIDE DEF w
<1> QED BY <1>1, <1>3, <1>6, <1>8, <1>10

\* What opening does to the files.
Opened(c, f, n) ==
    \/ f.is = "record" /\ closes' = With(closes, c, Torn) /\ UNCHANGED <<lists, grants>>
    \/ /\ f.is = "grant" /\ f.who \in People /\ DOMAIN grants' = People
       /\ grants'[f.who] = With(grants[f.who], n, Torn)
       /\ \A p \in People \ {f.who} : grants'[p] = grants[p]
       /\ UNCHANGED <<closes, lists>>
    \/ /\ f.is = "list" /\ DOMAIN lists' = {"map", "index"} /\ lists'[f.list] = Torn
       /\ \A list \in {"map", "index"} \ {f.list} : lists'[list] = lists[list]
       /\ UNCHANGED <<closes, grants>>

\* Opening a file empties it and changes nothing of the command's plan.
LEMMA OpenMoves ==
    ASSUME TypesInv, NEW t \in Terminals, Open(t)
    PROVE  \E k : /\ WritingOK(command[t], closes, grants, minted) /\ command[t].at = "open"
                  /\ File(t) = Head(command[t].todo) /\ File(t) \in FilesFor(command[t].close)
                  /\ Moves(t, k) /\ SameCommand(command[t], k) /\ k.at = "fill"
                  /\ k.todo = command[t].todo /\ k.n = command[t].n /\ k.read = command[t].read
                  /\ Opened(command[t].close, File(t), command[t].n)
                  /\ UNCHANGED <<budget, minted, done, trouble>>
<1>1. PICK j : j = command[t]
      OBVIOUS
<1>2. j.at = "open" /\ command' = [command EXCEPT ![t].at = "fill"] /\ UNCHANGED <<budget, minted, done, trouble>>
      BY <1>1 DEF Open
<1>3. WritingOK(j, closes, grants, minted) /\ File(t) = Head(j.todo) /\ File(t) \in FilesFor(j.close)
      BY <1>1, <1>2, AtWriting
<1> DEFINE k == [j EXCEPT !.at = "fill"]
<1>4. DOMAIN j = WritingFields
      BY <1>3 DEF WritingOK
<1>5. command' = [command EXCEPT ![t] = k]
  <2>1. t \in DOMAIN command
        BY DEF TypesInv, CommandsOK
  <2> QED BY <1>1, <1>2, <1>4, <2>1
<1>6. /\ DOMAIN k = WritingFields /\ k.at = "fill" /\ k.n = j.n /\ k.todo = j.todo /\ k.all = j.all
      /\ k.do = j.do /\ k.me = j.me /\ k.close = j.close /\ k.except = j.except
      /\ k.held = j.held /\ k.before = j.before /\ k.read = j.read
      BY <1>4 DEF WritingFields
<1> HIDE DEF k
<1>7. Moves(t, k)
      BY <1>5, Moved DEF TypesInv, CommandsOK
<1>8. PICK f : f = File(t)
      OBVIOUS
<1>9. Opened(j.close, f, j.n)
  <2>1. CASE f.is = "record"
        BY <1>1, <1>8, <2>1 DEF Open, Opened
  <2>2. CASE f.is = "grant"
    <3>1. grants' = [grants EXCEPT ![f.who] = With(@, j.n, Torn)] /\ UNCHANGED <<closes, lists>>
          BY <1>1, <1>8, <2>2 DEF Open
    <3>2. f.who \in People /\ DOMAIN grants = People
          BY <1>3, <1>8, <2>2, FileFacts DEF TypesInv, GrantsOK
    <3>3. PICK w : w = With(grants[f.who], j.n, Torn)
          OBVIOUS
    <3>4. grants' = [grants EXCEPT ![f.who] = w]
          BY <3>1, <3>3
    <3> QED BY <2>2, <3>1, <3>2, <3>3, <3>4 DEF Opened
  <2>3. CASE f.is = "list"
    <3>1. lists' = [lists EXCEPT ![f.list] = Torn] /\ UNCHANGED <<closes, grants>>
          BY <1>1, <1>8, <2>3 DEF Open
    <3>2. f.list \in {"map", "index"} /\ DOMAIN lists = {"map", "index"}
          BY <1>3, <1>8, <2>3, FileFacts DEF TypesInv, ListsOK
    <3> QED BY <2>3, <3>1, <3>2 DEF Opened
  <2> QED BY <1>3, <1>8, <2>1, <2>2, <2>3, FileFacts
<1> QED BY <1>1, <1>2, <1>3, <1>6, <1>7, <1>8, <1>9 DEF SameCommand

\* Lists that are not written stay well formed as closes are founded.
LEMMA ListsStayOK ==
    ASSUME ListsOK, DOMAIN closes \subseteq DOMAIN closes', lists' = lists
    PROVE  ListsOK'
<1>1. ASSUME NEW list \in DOMAIN lists
      PROVE  lists[list] \in Seq(Entries(list, closes')) \cup {Torn}
  <2>1. Entries(list, closes) \subseteq Entries(list, closes')
        BY DEF Entries
  <2> QED BY <2>1, SeqMono DEF ListsOK
<1> QED BY <1>1 DEF ListsOK

\* Opening a file keeps the types, and nothing goes back.
LEMMA OpenTypes ==
    ASSUME TypesInv, NEW t \in Terminals, Open(t)
    PROVE  TypesInv' /\ AllGrown
<1>1. PICK j : j = command[t]
      OBVIOUS
<1>2. PICK f : f = File(t)
      OBVIOUS
<1>3. PICK k : /\ WritingOK(j, closes, grants, minted) /\ j.at = "open"
                  /\ f = Head(j.todo) /\ f \in FilesFor(j.close)
                  /\ Moves(t, k) /\ SameCommand(j, k) /\ k.at = "fill"
                  /\ k.todo = j.todo /\ k.n = j.n /\ k.read = j.read
                  /\ Opened(j.close, f, j.n)
                  /\ UNCHANGED <<budget, minted, done, trouble>>
      BY <1>1, <1>2, OpenMoves
<1>4. ClosesOK /\ GrantsOK /\ ListsOK /\ HistoryOK /\ CommandsOK /\ AtFileOK(j, closes, grants) /\ j.close \in Closes
      BY <1>3 DEF TypesInv, WritingOK
<1>5. HistoryOK'
      BY <1>3, <1>4 DEF HistoryOK
<1>6. \A p \in People : grants[p] \in Seq(Grant \cup {Torn}) /\ Len(grants[p]) \in Nat
      BY <1>4 DEF GrantsOK
<1>7. CASE f.is = "record"
  <2>1. closes' = With(closes, j.close, Torn) /\ UNCHANGED <<lists, grants>>
        BY <1>3, <1>7 DEF Opened
  <2>2. DOMAIN closes' = DOMAIN closes \cup {j.close} /\ closes'[j.close] = Torn
        /\ \A c \in DOMAIN closes \ {j.close} : closes'[c] = closes[c]
    <3>1. PICK c : c = j.close
          OBVIOUS
    <3>2. PICK cs : cs = With(closes, c, Torn)
          OBVIOUS
    <3>3. DOMAIN cs = DOMAIN closes \cup {c} /\ cs[c] = Torn /\ \A y \in DOMAIN closes \ {c} : cs[y] = closes[y]
          BY <3>2 DEF With
    <3>4. closes' = cs
          BY <2>1, <3>1, <3>2
    <3> QED BY <3>1, <3>3, <3>4
  <2>3. ClosesOK'
        BY <1>3, <1>4, <2>2 DEF ClosesOK
  <2>4. GrantsOK'
        BY <1>3, <1>4, <2>1 DEF GrantsOK
  <2>5. ListsOK'
        BY <1>4, <2>1, <2>2, ListsStayOK
  <2>6. AllGrown
        BY <1>3, <1>6, <2>1, <2>2 DEF AllGrown, Grown
  <2>7. AtFileOK(k, closes', grants')
        BY <1>3, <1>7, <2>2 DEF AtFileOK, SameCommand
  <2> QED BY <1>5, <2>3, <2>4, <2>5, <2>6, <2>7, <1>3, <1>4, CommandsStep DEF TypesInv, WritingOK, CommandOK, SameCommand
<1>8. CASE f.is = "grant"
  <2>1. /\ f.who \in People /\ DOMAIN grants' = People
        /\ grants'[f.who] = With(grants[f.who], j.n, Torn)
        /\ \A p \in People \ {f.who} : grants'[p] = grants[p]
        /\ UNCHANGED <<closes, lists>>
        BY <1>3, <1>8 DEF Opened
  <2>2. j.n \in 1..(Len(grants[f.who]) + 1)
        BY <1>3, <1>4, <1>8 DEF AtFileOK
  <2>3. /\ grants'[f.who] \in Seq(Grant \cup {Torn})
        /\ Len(grants'[f.who]) = IF j.n = Len(grants[f.who]) + 1 THEN j.n ELSE Len(grants[f.who])
        /\ grants'[f.who][j.n] = Torn
        /\ \A i \in 1..Len(grants[f.who]) : i # j.n => grants'[f.who][i] = grants[f.who][i]
    <3> DEFINE A == Grant \cup {Torn}
    <3>1. Torn \in A
          OBVIOUS
    <3>2. PICK s : s = grants[f.who]
          OBVIOUS
    <3>3. s \in Seq(A)
          BY <1>6, <2>1, <3>2
    <3> HIDE DEF A
    <3>4. PICK n : n = j.n
          OBVIOUS
    <3>5. n \in 1..(Len(s) + 1)
          BY <2>2, <3>2, <3>4
    <3>6. /\ With(s, n, Torn) \in Seq(A)
          /\ Len(With(s, n, Torn)) = IF n = Len(s) + 1 THEN n ELSE Len(s)
          /\ With(s, n, Torn)[n] = Torn
          /\ \A i \in 1..Len(s) : i # n => With(s, n, Torn)[i] = s[i]
          BY <3>1, <3>3, <3>5, WithSeq
    <3>7. grants'[f.who] = With(s, n, Torn)
          BY <2>1, <3>2, <3>4
    <3> QED BY <3>2, <3>4, <3>6, <3>7 DEF A
  <2>4. GrantsOK'
    <3>1. ASSUME NEW i \in 1..Len(grants'[f.who]), grants'[f.who][i] # Torn
          PROVE  i \in 1..Len(grants[f.who]) /\ grants'[f.who][i] = grants[f.who][i]
      <4>1. PICK l \in Nat : l = Len(grants[f.who])
            BY <1>6, <2>1
      <4>2. PICK n \in 1..(l + 1) : n = j.n
            BY <2>2, <4>1
      <4>3. i # n
            BY <2>3, <3>1, <4>2
      <4>4. i \in 1..l
            BY <2>3, <4>1, <4>2, <4>3
      <4> QED BY <2>3, <4>1, <4>2, <4>3, <4>4
    <3>2. ASSUME NEW p \in People
          PROVE  /\ grants'[p] \in Seq(Grant \cup {Torn})
                 /\ \A i \in 1..Len(grants'[p]) : grants'[p][i] # Torn =>
                       Leaf(grants'[p][i]).holder = p /\ Leaf(grants'[p][i]).close \in DOMAIN minted'
      <4>1. /\ grants[p] \in Seq(Grant \cup {Torn})
            /\ \A i \in 1..Len(grants[p]) : grants[p][i] # Torn =>
                  Leaf(grants[p][i]).holder = p /\ Leaf(grants[p][i]).close \in DOMAIN minted
            BY <1>4 DEF GrantsOK
      <4>2. minted' = minted
            BY <1>3
      <4>3. CASE p = f.who
        <5>1. grants'[p] \in Seq(Grant \cup {Torn})
              BY <2>3, <4>3
        <5>2. ASSUME NEW i \in 1..Len(grants'[p]), grants'[p][i] # Torn
              PROVE  Leaf(grants'[p][i]).holder = p /\ Leaf(grants'[p][i]).close \in DOMAIN minted'
          <6>1. i \in 1..Len(grants[p]) /\ grants'[p][i] = grants[p][i]
                BY <3>1, <4>3, <5>2
          <6> QED BY <4>1, <4>2, <5>2, <6>1
        <5> QED BY <5>1, <5>2
      <4>4. CASE p # f.who
        <5>1. grants'[p] = grants[p]
              BY <2>1, <4>4
        <5> QED BY <4>1, <4>2, <5>1
      <4> QED BY <4>3, <4>4
    <3> QED BY <2>1, <3>2 DEF GrantsOK
  <2>5. ClosesOK' /\ ListsOK'
        BY <1>3, <1>4, <2>1 DEF ClosesOK, ListsOK
  <2>6. AllGrown
        BY <1>3, <1>6, <2>1, <2>2, <2>3 DEF AllGrown, Grown
  <2>7. j.n \in 1..Len(grants'[f.who])
        BY <1>6, <2>1, <2>2, <2>3
  <2>8. AtFileOK(k, closes', grants')
        BY <1>3, <1>8, <2>7 DEF AtFileOK, SameCommand
  <2> QED BY <1>5, <2>1, <2>4, <2>5, <2>6, <2>8, <1>3, <1>4, CommandsStep DEF TypesInv, WritingOK, CommandOK, SameCommand
<1>9. CASE f.is = "list"
  <2>1. /\ DOMAIN lists' = {"map", "index"} /\ lists'[f.list] = Torn
        /\ \A list \in {"map", "index"} \ {f.list} : lists'[list] = lists[list]
        /\ UNCHANGED <<closes, grants>>
        BY <1>3, <1>9 DEF Opened
  <2>2. ClosesOK' /\ GrantsOK'
        BY <1>3, <1>4, <2>1 DEF ClosesOK, GrantsOK
  <2>3. ListsOK'
        BY <1>4, <2>1 DEF ListsOK
  <2>4. AllGrown
        BY <1>3, <1>6, <2>1 DEF AllGrown, Grown
  <2>5. AtFileOK(k, closes', grants')
        BY <1>3, <1>4, <1>9, <2>1 DEF AtFileOK, SameCommand
  <2> QED BY <1>5, <2>1, <2>2, <2>3, <2>4, <2>5, <1>3, <1>4, CommandsStep DEF TypesInv, WritingOK, CommandOK, SameCommand
<1> QED BY <1>3, <1>7, <1>8, <1>9, FileFacts

\* Replacing one element of a sequence.
LEMMA ExceptSeq ==
    ASSUME NEW A, NEW s \in Seq(A), NEW n \in 1..Len(s), NEW v \in A
    PROVE  LET w == [s EXCEPT ![n] = v]
           IN  /\ w \in Seq(A) /\ Len(w) = Len(s) /\ w[n] = v
               /\ \A i \in 1..Len(s) : i # n => w[i] = s[i]
<1>1. PICK l \in Nat : l = Len(s) /\ DOMAIN s = 1..l
      OBVIOUS
<1>2. \A i \in 1..l : s[i] \in A
      BY <1>1, ElementIn
<1> DEFINE w == [i \in 1..l |-> IF i = n THEN v ELSE s[i]]
<1>3. w \in Seq(A) /\ Len(w) = l
      BY <1>2
<1>4. [s EXCEPT ![n] = v] = w
      BY <1>1
<1>5. w[n] = v /\ \A i \in 1..l : i # n => w[i] = s[i]
      BY <1>1
<1> HIDE DEF w
<1> QED BY <1>1, <1>3, <1>4, <1>5

\* The files left after one is written are still the last of those planned.
LEMMA TailTodo ==
    ASSUME NEW todo, NEW all, NEW c, TodoOK(todo, all, c), Tail(todo) # <<>>
    PROVE  /\ TodoOK(Tail(todo), all, c) /\ Head(Tail(todo)).is # "record"
           /\ Len(Tail(todo)) = Len(todo) - 1
           /\ \A i \in 1..Len(Tail(todo)) : Tail(todo)[i] = todo[i + 1]
<1>1. PICK F : F = FilesFor(c)
      OBVIOUS
<1>2. todo \in Seq(F) /\ todo # <<>> /\ all \in Seq(F)
      BY <1>1 DEF TodoOK
<1>3. PICK rest : rest = Tail(todo)
      OBVIOUS
<1>4. /\ rest \in Seq(F) /\ Len(todo) \in Nat /\ Len(rest) = Len(todo) - 1 /\ Len(rest) \in Nat
      /\ \A i \in 1..Len(rest) : rest[i] = todo[i + 1]
      BY <1>2, <1>3
<1>5. Head(rest) = rest[1] /\ Len(rest) >= 1
      BY <1>3, <1>4
<1>6. PICK n \in Nat : n = Len(rest)
      BY <1>4
<1>7. PICK m \in Nat : m = Len(all)
      BY <1>2
<1>8. Len(todo) = n + 1 /\ n + 1 <= m
      BY <1>4, <1>6, <1>7 DEF TodoOK
<1>9. ASSUME NEW i \in 1..n
      PROVE  rest[i] = all[i + (m - n)]
  <2>1. i + 1 \in 1..(n + 1)
        OBVIOUS
  <2>2. todo[i + 1] = all[(i + 1) + (m - (n + 1))]
        BY <1>7, <1>8, <2>1 DEF TodoOK
  <2>3. (i + 1) + (m - (n + 1)) = i + (m - n)
        OBVIOUS
  <2> QED BY <1>4, <1>6, <2>2, <2>3
<1>10. Head(rest).is # "record"
  <2>1. 1 \in 1..n /\ 1 + (m - n) \in 1..m /\ 1 + (m - n) # 1
        BY <1>5, <1>6, <1>8
  <2>2. rest[1] = all[1 + (m - n)]
        BY <1>9, <2>1
  <2>3. all[1 + (m - n)].is # "record"
        BY <1>7, <2>1 DEF TodoOK
  <2> QED BY <1>5, <2>2, <2>3
<1>11. TodoOK(rest, all, c)
  <2>1. rest # <<>> /\ n <= m
        BY <1>3, <1>8
  <2> QED BY <1>1, <1>2, <1>4, <1>6, <1>7, <1>9, <2>1 DEF TodoOK
<1> QED BY <1>3, <1>4, <1>10, <1>11

\* What writing does to the files.
FilledRecord(j, f) ==
    /\ DOMAIN closes' = DOMAIN closes
    /\ \/ closes'[j.close] = f.rec
       \/ closes'[j.close] = Torn /\ closes[j.close] # Torn
    /\ \A c \in DOMAIN closes \ {j.close} : closes'[c] = closes[c]
    /\ DOMAIN minted' = DOMAIN minted \cup {j.close}
    /\ minted'[j.close] = IF j.do = "protect" THEN <<f.root>> ELSE Append(minted[j.close], f.root)
    /\ \A c \in DOMAIN minted \ {j.close} : minted'[c] = minted[c]
    /\ UNCHANGED <<lists, grants>>

FilledGrant(j, f) ==
    /\ f.who \in People /\ DOMAIN grants' = People
    /\ grants'[f.who] = [grants[f.who] EXCEPT ![j.n] = f.grant]
    /\ \A p \in People \ {f.who} : grants'[p] = grants[p]
    /\ UNCHANGED <<closes, lists, minted>>

FilledList(j, f) ==
    /\ DOMAIN lists' = {"map", "index"}
    /\ \/ lists'[f.list] = j.read
       \/ lists'[f.list] = Torn /\ lists[f.list] # Torn
    /\ \A list \in {"map", "index"} \ {f.list} : lists'[list] = lists[list]
    /\ UNCHANGED <<closes, grants, minted>>

Filled(j, f) ==
    \/ f.is = "record" /\ FilledRecord(j, f)
    \/ f.is = "grant" /\ FilledGrant(j, f)
    \/ f.is = "list" /\ FilledList(j, f)

\* What is on record of a command once it is done.
RecordedAll(j) ==
    /\ done'.grants = done.grants \cup
          {w.grant : w \in {j.all[i] : i \in {h \in 1..Len(j.all) : j.all[h].is = "grant"}}}
    /\ done'.listed = done.listed \cup
          {<<w.list, w.entry>> : w \in {j.all[i] : i \in {h \in 1..Len(j.all) : j.all[h].is = "list"}}}

Recorded(j) ==
    /\ Tail(j.todo) # <<>> => done' = done
    /\ Tail(j.todo) = <<>> => RecordedAll(j)

\* Where it goes from there.
GoesOn(j, k) ==
    /\ Tail(j.todo) = <<>> => k = Idle
    /\ Tail(j.todo) # <<>> => SameCommand(j, k) /\ k.at = "prepare" /\ k.todo = Tail(j.todo)

\* Filling a file writes its content and goes on with the next, or ends.
LEMMA FillMoves ==
    ASSUME TypesInv, NEW t \in Terminals, Fill(t)
    PROVE  \E k : /\ WritingOK(command[t], closes, grants, minted) /\ command[t].at = "fill"
                  /\ File(t) = Head(command[t].todo) /\ File(t) \in FilesFor(command[t].close)
                  /\ Moves(t, k) /\ GoesOn(command[t], k)
                  /\ Filled(command[t], File(t)) /\ Recorded(command[t])
                  /\ UNCHANGED <<budget, trouble>>
<1>1. PICK j : j = command[t]
      OBVIOUS
<1>2. j.at = "fill" /\ command' = [command EXCEPT ![t] = WriteNext(j, Tail(j.todo))] /\ UNCHANGED <<budget, trouble>>
      BY <1>1 DEF Fill
<1>3. WritingOK(j, closes, grants, minted) /\ File(t) = Head(j.todo) /\ File(t) \in FilesFor(j.close)
      BY <1>1, <1>2, AtWriting
<1>4. PICK k : k = WriteNext(j, Tail(j.todo))
      OBVIOUS
<1>5. Moves(t, k)
      BY <1>2, <1>4, Moved DEF TypesInv, CommandsOK
<1>6. GoesOn(j, k)
  <2>1. CASE Tail(j.todo) = <<>>
        BY <1>4, <2>1 DEF WriteNext, GoesOn
  <2>2. CASE Tail(j.todo) # <<>>
    <3>1. Head(Tail(j.todo)).is # "record"
          BY <1>3, <2>2, TailTodo DEF WritingOK
    <3>2. PICK rest : rest = Tail(j.todo)
          OBVIOUS
    <3>3. rest # <<>> /\ k = WriteNext(j, rest) /\ Head(rest).is # "record"
          BY <1>4, <2>2, <3>1, <3>2
    <3>4. SameCommand(j, k) /\ k.at = "prepare" /\ k.todo = rest
          BY <3>3, WriteNextIs DEF SameCommand
    <3> QED BY <2>2, <3>2, <3>4 DEF GoesOn
  <2> QED BY <2>1, <2>2
<1>7. PICK f : f = File(t)
      OBVIOUS
<1>8. Filled(j, f)
  <2>1. CASE f.is = "record"
    <3>1. PICK roots : roots = IF j.do = "protect" THEN <<f.root>> ELSE Append(minted[j.close], f.root)
          OBVIOUS
    <3>2. PICK c : c = j.close
          OBVIOUS
    <3>3. /\ \E text \in {f.rec} \cup IF closes[c] = Torn THEN {} ELSE {Torn} :
                closes' = [closes EXCEPT ![c] = text]
          /\ minted' = With(minted, c, roots)
          /\ UNCHANGED <<lists, grants>>
          BY <1>1, <1>7, <2>1, <3>1, <3>2 DEF Fill
    <3>4. c \in DOMAIN closes
          BY <1>2, <1>3, <1>7, <2>1, <3>2 DEF WritingOK, AtFileOK
    <3>5. PICK ms : ms = With(minted, c, roots)
          OBVIOUS
    <3>6. DOMAIN ms = DOMAIN minted \cup {c} /\ ms[c] = roots /\ \A y \in DOMAIN minted \ {c} : ms[y] = minted[y]
          BY <3>5 DEF With
    <3>7. PICK text : /\ text = f.rec \/ (text = Torn /\ closes[c] # Torn)
                      /\ closes' = [closes EXCEPT ![c] = text]
          BY <3>3
    <3>8. DOMAIN closes' = DOMAIN closes /\ closes'[c] = text /\ \A y \in DOMAIN closes \ {c} : closes'[y] = closes[y]
          BY <3>4, <3>7
    <3> QED BY <2>1, <3>1, <3>2, <3>3, <3>5, <3>6, <3>7, <3>8 DEF Filled, FilledRecord
  <2>2. CASE f.is = "grant"
    <3>1. grants' = [grants EXCEPT ![f.who][j.n] = f.grant] /\ UNCHANGED <<closes, lists, minted>>
          BY <1>1, <1>7, <2>2 DEF Fill
    <3>2. f.who \in People /\ DOMAIN grants = People
          BY <1>3, <1>7, <2>2, FileFacts DEF TypesInv, GrantsOK
    <3>3. PICK w : w = [grants[f.who] EXCEPT ![j.n] = f.grant]
          OBVIOUS
    <3>4. grants' = [grants EXCEPT ![f.who] = w]
          BY <3>1, <3>3
    <3>5. grants'[f.who] = w /\ DOMAIN grants' = People /\ \A p \in People \ {f.who} : grants'[p] = grants[p]
          BY <3>2, <3>4
    <3> QED BY <2>2, <3>1, <3>2, <3>3, <3>5 DEF Filled, FilledGrant
  <2>3. CASE f.is = "list"
    <3>1. /\ \E text \in {j.read} \cup IF lists[f.list] = Torn THEN {} ELSE {Torn} :
                lists' = [lists EXCEPT ![f.list] = text]
          /\ UNCHANGED <<closes, grants, minted>>
          BY <1>1, <1>7, <2>3 DEF Fill
    <3>2. f.list \in {"map", "index"} /\ DOMAIN lists = {"map", "index"}
          BY <1>3, <1>7, <2>3, FileFacts DEF TypesInv, ListsOK
    <3>3. PICK text : /\ text = j.read \/ (text = Torn /\ lists[f.list] # Torn)
                      /\ lists' = [lists EXCEPT ![f.list] = text]
          BY <3>1
    <3> QED BY <2>3, <3>1, <3>2, <3>3 DEF Filled, FilledList
  <2> QED BY <1>3, <1>7, <2>1, <2>2, <2>3, FileFacts
<1>9. Recorded(j)
  <2>1. done' = IF Tail(j.todo) # <<>> THEN done
               ELSE [grants |-> done.grants \cup {w.grant : w \in Wrote(t, "grant")},
                     listed |-> done.listed \cup {<<w.list, w.entry>> : w \in Wrote(t, "list")}]
        BY <1>1 DEF Fill
  <2>2. \A is : Wrote(t, is) = {j.all[i] : i \in {h \in 1..Len(j.all) : j.all[h].is = is}}
        BY <1>1 DEF Wrote
  <2> QED BY <2>1, <2>2 DEF Recorded, RecordedAll
<1> QED BY <1>1, <1>2, <1>3, <1>5, <1>6, <1>7, <1>8, <1>9

\* Filling a file keeps the types, and nothing goes back.
LEMMA FillTypes ==
    ASSUME TypesInv, NEW t \in Terminals, Fill(t)
    PROVE  TypesInv' /\ AllGrown
<1>1. PICK j : j = command[t]
      OBVIOUS
<1>2. PICK f : f = File(t)
      OBVIOUS
<1>3. PICK k : /\ WritingOK(j, closes, grants, minted) /\ j.at = "fill"
                  /\ f = Head(j.todo) /\ f \in FilesFor(j.close)
                  /\ Moves(t, k) /\ GoesOn(j, k)
                  /\ Filled(j, f) /\ Recorded(j)
                  /\ UNCHANGED <<budget, trouble>>
      BY <1>1, <1>2, FillMoves
<1>4. ClosesOK /\ GrantsOK /\ ListsOK /\ HistoryOK /\ CommandsOK /\ AtFileOK(j, closes, grants) /\ j.close \in Closes
      BY <1>3 DEF TypesInv, WritingOK
<1>5. HistoryOK'
  <2>1. \A i \in 1..Len(j.all) : j.all[i].is = "grant" => j.all[i].grant \in Grant
    <3>1. j.all \in Seq(FilesFor(j.close))
          BY <1>3 DEF WritingOK, TodoOK
    <3> QED BY <3>1, ElementIn, FileFacts
  <2>2. done'.grants \subseteq Grant
    <3>1. CASE Tail(j.todo) # <<>>
          BY <1>3, <1>4, <3>1 DEF Recorded, HistoryOK
    <3>2. CASE Tail(j.todo) = <<>>
      <4>1. done'.grants = done.grants \cup
              {w.grant : w \in {j.all[i] : i \in {h \in 1..Len(j.all) : j.all[h].is = "grant"}}}
            BY <1>3, <3>2 DEF Recorded, RecordedAll
      <4> QED BY <1>4, <2>1, <4>1 DEF HistoryOK
    <3> QED BY <3>1, <3>2
  <2> QED BY <1>3, <1>4, <2>2 DEF HistoryOK
<1>6. \A p \in People : grants[p] \in Seq(Grant \cup {Torn}) /\ Len(grants[p]) \in Nat
      BY <1>4 DEF GrantsOK
<1>7. /\ ClosesOK' /\ GrantsOK' /\ ListsOK' /\ AllGrown
      /\ f.is = "record" => j.close \in DOMAIN minted'
  <2>1. CASE f.is = "record"
    <3>1. /\ DOMAIN closes' = DOMAIN closes /\ closes'[j.close] \in {f.rec, Torn}
          /\ \A c \in DOMAIN closes \ {j.close} : closes'[c] = closes[c]
          /\ DOMAIN minted' = DOMAIN minted \cup {j.close}
          /\ minted'[j.close] = IF j.do = "protect" THEN <<f.root>> ELSE Append(minted[j.close], f.root)
          /\ \A c \in DOMAIN minted \ {j.close} : minted'[c] = minted[c]
          /\ UNCHANGED <<lists, grants>>
          BY <1>3, <2>1 DEF Filled, FilledRecord
    <3>2. f.rec \in Record(People) /\ f.rec.id = j.close /\ f.root \in ContentKeys /\ j.close \in DOMAIN closes
          BY <1>3, <1>4, <2>1, FileFacts DEF AtFileOK
    <3>3. minted'[j.close] \in Seq(ContentKeys)
      <4>1. CASE j.do = "protect"
            BY <3>1, <3>2, <4>1
      <4>2. CASE j.do # "protect"
        <5>1. PICK roots : roots = minted[j.close]
              OBVIOUS
        <5>2. roots \in Seq(ContentKeys)
              BY <1>3, <1>4, <4>2, <5>1 DEF WritingOK, ClosesOK
        <5>3. Append(roots, f.root) \in Seq(ContentKeys)
              BY <3>2, <5>2
        <5> QED BY <3>1, <4>2, <5>1, <5>3
      <4> QED BY <4>1, <4>2
    <3>4. ClosesOK'
          BY <1>4, <3>1, <3>2, <3>3 DEF ClosesOK
    <3>5. GrantsOK' /\ ListsOK'
          BY <1>4, <3>1 DEF GrantsOK, ListsOK, Entries
    <3>6. AllGrown
          BY <1>6, <3>1 DEF AllGrown, Grown
    <3> QED BY <3>1, <3>4, <3>5, <3>6
  <2>2. CASE f.is = "grant"
    <3>1. /\ f.who \in People /\ DOMAIN grants' = People
          /\ grants'[f.who] = [grants[f.who] EXCEPT ![j.n] = f.grant]
          /\ \A p \in People \ {f.who} : grants'[p] = grants[p]
          /\ UNCHANGED <<closes, lists, minted>>
          BY <1>3, <2>2 DEF Filled, FilledGrant
    <3>2. j.n \in 1..Len(grants[f.who]) /\ f.grant \in Grant /\ Leaf(f.grant).holder = f.who
          /\ Leaf(f.grant).close = j.close
          BY <1>3, <1>4, <2>2, FileFacts DEF AtFileOK
    <3>3. j.close \in DOMAIN minted
          BY <1>3, <2>2 DEF WritingOK
    <3>4. PICK s : s = grants[f.who]
          OBVIOUS
    <3> DEFINE A == Grant \cup {Torn}
    <3>5. s \in Seq(A) /\ f.grant \in A
          BY <1>6, <3>1, <3>2, <3>4
    <3> HIDE DEF A
    <3>6. PICK n : n = j.n
          OBVIOUS
    <3>7. PICK g : g = f.grant
          OBVIOUS
    <3>8. LET w == [s EXCEPT ![n] = g]
          IN  /\ w \in Seq(A) /\ Len(w) = Len(s) /\ w[n] = g
              /\ \A i \in 1..Len(s) : i # n => w[i] = s[i]
          BY <3>2, <3>4, <3>5, <3>6, <3>7, ExceptSeq
    <3>9. /\ grants'[f.who] \in Seq(Grant \cup {Torn}) /\ Len(grants'[f.who]) = Len(grants[f.who])
          /\ grants'[f.who][j.n] = f.grant
          /\ \A i \in 1..Len(grants[f.who]) : i # j.n => grants'[f.who][i] = grants[f.who][i]
          BY <3>1, <3>4, <3>6, <3>7, <3>8 DEF A
    <3>10. GrantsOK'
      <4>1. ASSUME NEW i \in 1..Len(grants'[f.who]), grants'[f.who][i] # Torn
            PROVE  Leaf(grants'[f.who][i]).holder = f.who /\ Leaf(grants'[f.who][i]).close \in DOMAIN minted
        <5>1. CASE i = j.n
              BY <3>2, <3>3, <3>9, <5>1
        <5>2. CASE i # j.n
          <6>1. i \in 1..Len(grants[f.who]) /\ grants'[f.who][i] = grants[f.who][i]
                BY <3>9, <5>2
          <6> QED BY <1>4, <3>1, <4>1, <6>1 DEF GrantsOK
        <5> QED BY <5>1, <5>2
      <4>2. ASSUME NEW p \in People \ {f.who}
            PROVE  /\ grants'[p] \in Seq(Grant \cup {Torn})
                   /\ \A i \in 1..Len(grants'[p]) : grants'[p][i] # Torn =>
                        Leaf(grants'[p][i]).holder = p /\ Leaf(grants'[p][i]).close \in DOMAIN minted
            BY <1>4, <3>1 DEF GrantsOK
      <4> QED BY <3>1, <3>9, <4>1, <4>2 DEF GrantsOK
    <3>11. ClosesOK' /\ ListsOK'
          BY <1>4, <3>1 DEF ClosesOK, ListsOK
    <3>12. AllGrown
          BY <1>6, <3>1, <3>9 DEF AllGrown, Grown
    <3> QED BY <2>2, <3>10, <3>11, <3>12
  <2>3. CASE f.is = "list"
    <3>1. /\ DOMAIN lists' = {"map", "index"}
          /\ \/ lists'[f.list] = j.read
             \/ lists'[f.list] = Torn /\ lists[f.list] # Torn
          /\ \A list \in {"map", "index"} \ {f.list} : lists'[list] = lists[list]
          /\ UNCHANGED <<closes, grants, minted>>
          BY <1>3, <2>3 DEF Filled, FilledList
    <3>2. j.read \in Seq(Entries(f.list, closes))
          BY <1>3, <1>4, <2>3 DEF AtFileOK
    <3>3. ListsOK'
          BY <1>4, <3>1, <3>2 DEF ListsOK
    <3>4. ClosesOK' /\ GrantsOK'
          BY <1>4, <3>1 DEF ClosesOK, GrantsOK
    <3>5. AllGrown
          BY <1>6, <3>1 DEF AllGrown, Grown
    <3> QED BY <2>3, <3>3, <3>4, <3>5
  <2> QED BY <1>3, <2>1, <2>2, <2>3, FileFacts
<1>8. CommandOK(k, closes', grants', minted')
  <2>1. CASE Tail(j.todo) = <<>>
        BY <1>3, <2>1 DEF CommandOK, GoesOn
  <2>2. CASE Tail(j.todo) # <<>>
    <3>1. SameCommand(j, k) /\ k.at = "prepare" /\ k.todo = Tail(j.todo)
          BY <1>3, <2>2 DEF GoesOn
    <3>2. TodoOK(k.todo, k.all, k.close) /\ Head(k.todo).is # "record"
          BY <1>3, <2>2, <3>1, TailTodo DEF WritingOK, SameCommand
    <3>3. AtFileOK(k, closes', grants')
          BY <3>1, <3>2 DEF AtFileOK
    <3>4. j.close \in DOMAIN minted'
      <4>1. CASE f.is = "record"
            BY <1>7, <4>1
      <4>2. CASE f.is # "record"
            BY <1>3, <1>7, <4>2 DEF WritingOK, AllGrown, Grown
      <4> QED BY <4>1, <4>2
    <3>5. WritingOK(k, closes', grants', minted')
          BY <1>3, <3>1, <3>2, <3>3, <3>4 DEF WritingOK, SameCommand
    <3> QED BY <3>5 DEF CommandOK
  <2> QED BY <2>1, <2>2
<1>9. CommandsOK'
      BY <1>3, <1>4, <1>7, <1>8, CommandsStep
<1> QED BY <1>5, <1>7, <1>9 DEF TypesInv

-----------------------------------------------------------------------------
\* The types hold in the empty folder.
LEMMA InitTypes == Init => TypesInv
<1> SUFFICES ASSUME Init PROVE TypesInv
    OBVIOUS
<1>1. PICK root \in ContentKeys :
        /\ closes = [c \in {Commons} |-> FoundRecord(c, Founder)]
        /\ lists = [map |-> <<Commons>>, index |-> <<>>]
        /\ grants = [p \in People |-> IF p = Founder THEN <<FoundingGrant(p, Commons, root)>> ELSE <<>>]
        /\ command = [t \in Terminals |-> Idle]
        /\ minted = [c \in {Commons} |-> <<root>>]
        /\ done = [grants |-> {FoundingGrant(Founder, Commons, root)}, listed |-> {<<"map", Commons>>}]
        /\ trouble = NoTrouble
      BY DEF Init
<1>2. Founder \in People /\ Commons \in Closes
      BY FolderAssumption
<1>3. PICK g : g = FoundingGrant(Founder, Commons, root)
      OBVIOUS
<1>4. g \in Grant /\ Leaf(g).holder = Founder /\ Leaf(g).close = Commons
      BY <1>2, <1>3, FoundingFiles
<1>5. ClosesOK
  <2>1. FoundRecord(Commons, Founder) \in Record(People) /\ FoundRecord(Commons, Founder).id = Commons
        BY <1>2 DEF FoundRecord, Record
  <2>2. <<root>> \in Seq(ContentKeys)
        OBVIOUS
  <2>3. DOMAIN closes = {Commons} /\ closes[Commons] = FoundRecord(Commons, Founder)
        /\ DOMAIN minted = {Commons} /\ minted[Commons] = <<root>>
        BY <1>1
  <2> QED BY <1>2, <2>1, <2>2, <2>3 DEF ClosesOK
<1>6. GrantsOK
  <2>1. DOMAIN grants = People /\ grants[Founder] = <<g>> /\ \A p \in People \ {Founder} : grants[p] = <<>>
        BY <1>1, <1>2, <1>3
  <2>2. <<g>> \in Seq(Grant \cup {Torn}) /\ <<>> \in Seq(Grant \cup {Torn})
        BY <1>4
  <2>3. Len(<<g>>) = 1 /\ <<g>>[1] = g /\ Len(<<>>) = 0 /\ 1..0 = {} /\ 1..1 = {1}
        OBVIOUS
  <2>4. Commons \in DOMAIN minted
        BY <1>1
  <2>5. ASSUME NEW p \in People
        PROVE  /\ grants[p] \in Seq(Grant \cup {Torn})
               /\ \A i \in 1..Len(grants[p]) : grants[p][i] # Torn =>
                      Leaf(grants[p][i]).holder = p /\ Leaf(grants[p][i]).close \in DOMAIN minted
    <3>1. CASE p = Founder
      <4>1. Len(grants[p]) = 1 /\ grants[p][1] = g
            BY <2>1, <2>3, <3>1
      <4> QED BY <1>4, <2>1, <2>2, <2>3, <2>4, <3>1, <4>1
    <3>2. CASE p # Founder
      <4>1. Len(grants[p]) = 0 /\ grants[p] = <<>>
            BY <2>1, <2>3, <3>2
      <4> QED BY <2>2, <2>3, <4>1
    <3> QED BY <3>1, <3>2
  <2> QED BY <2>1, <2>5 DEF GrantsOK
<1>7. ListsOK
  <2>1. <<Commons>> \in Seq(DOMAIN closes) /\ <<>> \in Seq(Signposts)
        BY <1>1
  <2>2. DOMAIN lists = {"map", "index"} /\ lists["map"] = <<Commons>> /\ lists["index"] = <<>>
        BY <1>1
  <2> QED BY <2>1, <2>2 DEF ListsOK, Entries
<1>8. HistoryOK
      BY <1>1, <1>3, <1>4 DEF HistoryOK, NoTrouble
<1>9. CommandsOK
      BY <1>1 DEF CommandsOK, CommandOK
<1> QED BY <1>5, <1>6, <1>7, <1>8, <1>9 DEF TypesInv

\* One step, whichever it is: how the command moves, and what it is after.
LEMMA NextTypes == TypesInv /\ [Next]_vars => TypesInv' /\ AllGrown
<1> SUFFICES ASSUME TypesInv, [Next]_vars PROVE TypesInv' /\ AllGrown
    OBVIOUS
<1>0. ASSUME UNCHANGED <<files, minted, done>> PROVE AllGrown
  <2>1. closes' = closes /\ grants' = grants /\ minted' = minted
        BY <1>0 DEF files
  <2>2. \A p \in People : Len(grants[p]) \in Nat
        BY DEF TypesInv, GrantsOK
  <2> QED BY <2>1, <2>2 DEF AllGrown, Grown
<1>1. ASSUME NEW t \in Terminals, NEW me \in People, NEW c \in Closes, Protect(t, me, c)
      PROVE  TypesInv' /\ AllGrown
  <2>1. UNCHANGED <<files, minted, done, trouble>>
        BY <1>1 DEF Protect
  <2>2. PICK k : Moves(t, k) /\ WritingOK(k, closes, grants, minted)
        BY <1>1, ProtectMoves
  <2> QED BY <1>0, <2>1, <2>2, QuietStep DEF CommandOK
<1>2. ASSUME NEW t \in Terminals, NEW me \in People, NEW c \in Closes, NEW with \in Receivers,
             NEW facet \in ShareFacets, Share(t, me, c, with, facet)
      PROVE  TypesInv' /\ AllGrown
  <2>1. UNCHANGED <<files, minted, done, trouble>>
        BY <1>2 DEF Share
  <2>2. PICK k : Moves(t, k) /\ LoadedOK(k, minted)
        BY <1>2, ShareMoves
  <2> QED BY <1>0, <2>1, <2>2, QuietStep DEF CommandOK
<1>3. ASSUME NEW t \in Terminals, NEW me \in People, NEW path \in Signposts, Raise(t, me, path)
      PROVE  TypesInv' /\ AllGrown
  <2>1. UNCHANGED <<files, minted, done>> /\ DOMAIN trouble' = DOMAIN trouble
        BY <1>3 DEF Raise
  <2>2. PICK k : Moves(t, k) /\ WritingOK(k, closes, grants, minted)
        BY <1>3, RaiseMoves
  <2> QED BY <1>0, <2>1, <2>2, QuietStep DEF CommandOK
<1>4. ASSUME NEW t \in Terminals, Settle(t)
      PROVE  TypesInv' /\ AllGrown
  <2>1. UNCHANGED <<files, minted, done, trouble>>
        BY <1>4 DEF Settle
  <2>2. PICK k : Moves(t, k) /\ WritingOK(k, closes, grants, minted)
        BY <1>4, SettleMoves
  <2> QED BY <1>0, <2>1, <2>2, QuietStep DEF CommandOK
<1>5. ASSUME NEW t \in Terminals, NEW me \in People, NEW c \in Closes, NEW except \in SUBSET Excludable,
             Rotate(t, me, c, except)
      PROVE  TypesInv' /\ AllGrown
  <2>1. UNCHANGED <<files, minted, done>> /\ DOMAIN trouble' = DOMAIN trouble
        BY <1>5 DEF Rotate
  <2>2. PICK k : Moves(t, k) /\ LoadedOK(k, minted)
        BY <1>5, RotateMoves
  <2> QED BY <1>0, <2>1, <2>2, QuietStep DEF CommandOK
<1>6. ASSUME NEW t \in Terminals, FindKey(t)
      PROVE  TypesInv' /\ AllGrown
  <2>1. UNCHANGED <<files, minted, done, trouble>>
        BY <1>6 DEF FindKey
  <2>2. PICK k : Moves(t, k) /\ GatherOK(k, minted)
        BY <1>6, FindKeyMoves
  <2> QED BY <1>0, <2>1, <2>2, QuietStep DEF CommandOK
<1>7. ASSUME NEW t \in Terminals, Refuse(t)
      PROVE  TypesInv' /\ AllGrown
  <2>1. UNCHANGED <<files, minted, done, trouble>>
        BY <1>7 DEF Refuse
  <2>2. Moves(t, Idle) /\ CommandOK(Idle, closes, grants, minted)
        BY <1>7, RefuseMoves DEF CommandOK
  <2> QED BY <1>0, <2>1, <2>2, QuietStep
<1>8. ASSUME NEW t \in Terminals, Gather(t)
      PROVE  TypesInv' /\ AllGrown
  <2>1. UNCHANGED <<files, minted, done, trouble>>
        BY <1>8 DEF Gather
  <2>2. PICK k : Moves(t, k) /\ GatherOK(k, minted)
        BY <1>8, GatherMoves
  <2> QED BY <1>0, <2>1, <2>2, QuietStep DEF CommandOK
<1>9. ASSUME NEW t \in Terminals, ChangeLock(t)
      PROVE  TypesInv' /\ AllGrown
  <2>1. UNCHANGED <<files, minted, done, trouble>>
        BY <1>9 DEF ChangeLock
  <2>2. PICK k : Moves(t, k) /\ WritingOK(k, closes, grants, minted)
        BY <1>9, ChangeLockMoves
  <2> QED BY <1>0, <2>1, <2>2, QuietStep DEF CommandOK
<1>10. ASSUME NEW t \in Terminals, Count(t)
      PROVE  TypesInv' /\ AllGrown
  <2>1. UNCHANGED <<files, minted, done>> /\ DOMAIN trouble' = DOMAIN trouble
        BY <1>10 DEF Count
  <2>2. PICK k : Moves(t, k) /\ WritingOK(k, closes, grants, minted)
        BY <1>10, CountMoves
  <2> QED BY <1>0, <2>1, <2>2, QuietStep DEF CommandOK
<1>11. ASSUME NEW t \in Terminals, ReadList(t)
      PROVE  TypesInv' /\ AllGrown
  <2>1. UNCHANGED <<files, minted, done>> /\ DOMAIN trouble' = DOMAIN trouble
        BY <1>11 DEF ReadList
  <2>2. \E k : Moves(t, k) /\ CommandOK(k, closes, grants, minted)
        BY <1>11, ReadListMoves DEF CommandOK
  <2> QED BY <1>0, <2>1, <2>2, QuietStep
<1>12. ASSUME NEW t \in Terminals, Kill(t)
      PROVE  TypesInv' /\ AllGrown
  <2>1. UNCHANGED <<files, minted, done>> /\ DOMAIN trouble' = DOMAIN trouble
        BY <1>12 DEF Kill
  <2>2. Moves(t, Idle) /\ CommandOK(Idle, closes, grants, minted)
        BY <1>12, KillMoves DEF CommandOK
  <2> QED BY <1>0, <2>1, <2>2, QuietStep
<1>13. ASSUME UNCHANGED vars
       PROVE  TypesInv' /\ AllGrown
  <2>1. closes' = closes /\ lists' = lists /\ grants' = grants /\ minted' = minted /\ done' = done
        /\ command' = command /\ trouble' = trouble /\ UNCHANGED <<files, minted, done>>
        BY <1>13 DEF vars, files
  <2>2. ClosesOK' /\ GrantsOK' /\ HistoryOK'
        BY <2>1 DEF TypesInv, ClosesOK, GrantsOK, HistoryOK
  <2>3. ListsOK' /\ CommandsOK'
        BY <2>1 DEF TypesInv, ListsOK, CommandsOK, Terminals, Most
  <2> QED BY <1>0, <2>1, <2>2, <2>3 DEF TypesInv
<1> QED BY <1>1, <1>2, <1>3, <1>4, <1>5, <1>6, <1>7, <1>8, <1>9, <1>10, <1>11, <1>12, <1>13,
           OpenTypes, FillTypes DEF Next

\* Whatever overlaps and whatever is killed: what each file can hold, and what
\* each command has in hand at each point of its way.
THEOREM FolderTypes == Spec => []TypesInv
<1>1. Init => TypesInv
      BY InitTypes
<1>2. TypesInv /\ [Next]_vars => TypesInv'
      BY NextTypes
<1> QED BY <1>1, <1>2, PTL DEF Spec

\* Whatever overlaps and whatever is killed, there is a record for every close
\* that is registered, every record is that of its own close, and every grant
\* lies with its holder, numbered without a gap (FolderTypeOK).
THEOREM FolderTypeCorrect == Spec => []FolderTypeOK
<1>1. TypesInv => FolderTypeOK
  <2> SUFFICES ASSUME TypesInv PROVE FolderTypeOK
      OBVIOUS
  <2>1. /\ DOMAIN minted \subseteq DOMAIN closes /\ DOMAIN closes \subseteq Closes
        /\ \A c \in DOMAIN closes : Readable(c) => closes[c] \in Record(People) /\ closes[c].id = c
        BY DEF TypesInv, ClosesOK, Readable
  <2>2. ASSUME NEW c \in Closes, Lists("map", c)
        PROVE  c \in DOMAIN closes
    <3>1. lists["map"] \in Seq(DOMAIN closes)
          BY <2>2 DEF TypesInv, ListsOK, Lists, Entries
    <3> QED BY <2>2, <3>1, ElementIn DEF Lists
  <2>3. ASSUME NEW p \in People
        PROVE  \E n \in 0..Cardinality(DOMAIN grants[p]) :
                 /\ DOMAIN grants[p] = 1..n
                 /\ \A i \in 1..n : grants[p][i] # Torn => Leaf(grants[p][i]).holder = p
    <3>1. PICK n \in Nat : n = Len(grants[p]) /\ DOMAIN grants[p] = 1..n
          BY DEF TypesInv, GrantsOK
    <3>2. Cardinality(1..n) = n
      <4>1. Cardinality(1..n) = IF 1 > n THEN 0 ELSE n - 1 + 1
            BY FS_Interval
      <4> QED BY <4>1
    <3>3. n \in 0..Cardinality(DOMAIN grants[p])
          BY <3>1, <3>2
    <3>4. \A i \in 1..n : grants[p][i] # Torn => Leaf(grants[p][i]).holder = p
          BY <3>1 DEF TypesInv, GrantsOK
    <3> QED BY <3>1, <3>3, <3>4
  <2>4. done.grants \subseteq Grant
        BY DEF TypesInv, HistoryOK
  <2> QED BY <2>1, <2>2, <2>3, <2>4 DEF FolderTypeOK
<1> QED BY <1>1, FolderTypes, PTL

-----------------------------------------------------------------------------
(***************************************************************************)
(* The second layer: what is handed out is kept.  As long as no two        *)
(* commands were about to open a grant of the same person at once, a new   *)
(* grant is always filed after the last, and a file that is being filled   *)
(* is nobody else's.                                                       *)
(***************************************************************************)

KeptIn(g, gs, crowded) ==
    \/ \E i \in 1..Len(gs[Leaf(g).holder]) : gs[Leaf(g).holder][i] = g
    \/ Leaf(g).holder \in crowded

\* Whether a command is about to write one of p's grants, or writing it.
AddsTo(k, p) ==
    k.at \in {"open", "fill"} /\ Head(k.todo).is = "grant" /\ Head(k.todo).who = p

NumberOK(k, p, gs) ==
    /\ k.at = "open" => k.n = Len(gs[p]) + 1
    /\ k.at = "fill" => gs[p][k.n] = Torn

Apart(k, l) ==
    /\ ~ (k.at = "open" /\ l.at = "open")
    /\ k.at = "fill" /\ l.at = "fill" => k.n # l.n

\* The grants a command has written so far.
Given(k) ==
    IF k.at \in {"prepare", "open", "fill"}
    THEN {k.all[i].grant : i \in {j \in 1..(Len(k.all) - Len(k.todo)) : k.all[j].is = "grant"}}
    ELSE {}

NumbersOK ==
    \A t \in Terminals : \A p \in People \ trouble.crowded : AddsTo(command[t], p) =>
        /\ NumberOK(command[t], p, grants)
        /\ \A u \in Terminals \ {t} : AddsTo(command[u], p) => Apart(command[t], command[u])

GivenKept ==
    /\ \A g \in done.grants : KeptIn(g, grants, trouble.crowded)
    /\ \A t \in Terminals : \A g \in Given(command[t]) : KeptIn(g, grants, trouble.crowded)

GivenInv == NumbersOK /\ GivenKept

\* What a command has written so far and will report is made of grants.
LEMMA GivenTyped ==
    ASSUME NEW k, NEW cs, NEW gs, NEW ms, CommandOK(k, cs, gs, ms)
    PROVE  Given(k) \subseteq Grant
<1>1. CASE ~ k.at \in {"prepare", "open", "fill"}
      BY <1>1 DEF Given
<1>2. CASE k.at \in {"prepare", "open", "fill"}
  <2>1. WritingOK(k, cs, gs, ms)
        BY <1>2 DEF CommandOK, Idle, LoadedOK, GatherOK
  <2>2. k.all \in Seq(FilesFor(k.close)) /\ Len(k.all) \in Nat /\ Len(k.todo) \in Nat
        BY <2>1, WritingFacts DEF WritingOK, TodoOK
  <2>3. ASSUME NEW i \in 1..(Len(k.all) - Len(k.todo)), k.all[i].is = "grant"
        PROVE  k.all[i].grant \in Grant
    <3>1. i \in 1..Len(k.all)
          BY <2>2
    <3> QED BY <2>2, <2>3, <3>1, ElementIn, FileFacts
  <2> QED BY <1>2, <2>3 DEF Given
<1> QED BY <1>1, <1>2

\* A command that has written nothing yet has nothing to report.
LEMMA GivenNone ==
    ASSUME NEW k,
           k.at \notin {"prepare", "open", "fill"} \/ (k.all = k.todo /\ Len(k.todo) \in Nat)
    PROVE  Given(k) = {}
<1>1. CASE k.at \notin {"prepare", "open", "fill"}
      BY <1>1 DEF Given
<1>2. CASE k.all = k.todo /\ Len(k.todo) \in Nat
  <2>1. 1..(Len(k.all) - Len(k.todo)) = {}
        BY <1>2
  <2> QED BY <2>1 DEF Given
<1> QED BY <1>1, <1>2

StillKept ==
    \A g \in Grant : KeptIn(g, grants, trouble.crowded) => KeptIn(g, grants', trouble'.crowded)

\* What one move has to satisfy for the invariant to survive it.
LEMMA GivenStep ==
    ASSUME TypesInv, GivenInv, NEW t \in Terminals, NEW k, Moves(t, k),
           trouble.crowded \subseteq trouble'.crowded, StillKept,
           \A g \in Given(k) : KeptIn(g, grants', trouble'.crowded),
           \A g \in done'.grants : KeptIn(g, grants', trouble'.crowded),
           \A p \in People \ trouble'.crowded : AddsTo(k, p) =>
              /\ NumberOK(k, p, grants')
              /\ \A u \in Terminals \ {t} : AddsTo(command[u], p) => Apart(k, command[u]),
           \A u \in Terminals \ {t} : \A p \in People \ trouble'.crowded :
              AddsTo(command[u], p) => NumberOK(command[u], p, grants')
    PROVE  GivenInv'
<1>1. \A u \in Terminals \ {t} : command'[u] = command[u]
      BY DEF Moves
<1>2. command'[t] = k
      BY DEF Moves
<1>3. ASSUME NEW u \in Terminals, NEW g \in Given(command'[u])
      PROVE  KeptIn(g, grants', trouble'.crowded)
  <2>1. CASE u = t
        BY <1>2, <1>3, <2>1
  <2>2. CASE u # t
    <3>1. g \in Given(command[u])
          BY <1>1, <1>3, <2>2
    <3>2. g \in Grant
          BY <3>1, GivenTyped DEF TypesInv, CommandsOK
    <3>3. KeptIn(g, grants, trouble.crowded)
          BY <3>1 DEF GivenInv, GivenKept
    <3> QED BY <3>2, <3>3 DEF StillKept
  <2> QED BY <2>1, <2>2
<1>4. \A j, l : Apart(j, l) => Apart(l, j)
      BY DEF Apart
<1>5. ASSUME NEW u \in Terminals, NEW p \in People \ trouble'.crowded, AddsTo(command'[u], p)
      PROVE  /\ NumberOK(command'[u], p, grants')
             /\ \A v \in Terminals \ {u} : AddsTo(command'[v], p) => Apart(command'[u], command'[v])
  <2>1. CASE u = t
        BY <1>1, <1>2, <1>5, <2>1
  <2>2. CASE u # t
    <3>1. NumberOK(command'[u], p, grants')
          BY <1>1, <1>5, <2>2
    <3>2. ASSUME NEW v \in Terminals \ {u}, AddsTo(command'[v], p)
          PROVE  Apart(command'[u], command'[v])
      <4>1. CASE v = t
            BY <1>1, <1>2, <1>4, <1>5, <2>2, <3>2, <4>1
      <4>2. CASE v # t
        <5>1. p \in People \ trouble.crowded
              OBVIOUS
        <5> QED BY <1>1, <1>5, <2>2, <3>2, <4>2, <5>1 DEF GivenInv, NumbersOK
      <4> QED BY <4>1, <4>2
    <3> QED BY <3>1, <3>2
  <2> QED BY <2>1, <2>2
<1>6. Terminals' = Terminals
      BY DEF Terminals, Most
<1> QED BY <1>3, <1>5, <1>6 DEF GivenInv, GivenKept, NumbersOK

\* A move that writes and reports nothing, and is not about to, keeps it.
LEMMA GivenQuiet ==
    ASSUME TypesInv, GivenInv, NEW t \in Terminals, NEW k, Moves(t, k),
           grants' = grants, done'.grants = done.grants, trouble'.crowded = trouble.crowded,
           Given(k) \subseteq Given(command[t]), \A p \in People : ~ AddsTo(k, p)
    PROVE  GivenInv'
<1>1. StillKept
      BY DEF StillKept
<1>2. \A g \in Given(k) : KeptIn(g, grants', trouble'.crowded)
      BY DEF GivenInv, GivenKept
<1>3. \A g \in done'.grants : KeptIn(g, grants', trouble'.crowded)
      BY DEF GivenInv, GivenKept
<1>4. \A u \in Terminals \ {t} : \A p \in People \ trouble'.crowded :
              AddsTo(command[u], p) => NumberOK(command[u], p, grants')
      BY DEF GivenInv, NumbersOK
<1> QED BY <1>1, <1>2, <1>3, <1>4, GivenStep

\* Counting: the number is that of the next file, or two counted at once.
LEMMA CountGiven ==
    ASSUME TypesInv, GivenInv, NEW t \in Terminals, Count(t)
    PROVE  GivenInv'
<1>1. PICK j : j = command[t]
      OBVIOUS
<1>2. PICK who \in People : who = File(t).who
      BY CountMoves
<1>3. PICK k : /\ Moves(t, k) /\ SameCommand(j, k) /\ k.todo = j.todo
               /\ j.at = "prepare" /\ k.at = "open"
               /\ File(t).is = "grant" /\ Head(k.todo) = File(t)
               /\ k.n = Len(grants[who]) + 1
      BY <1>1, <1>2, CountMoves
<1>4. grants' = grants /\ done' = done
      BY DEF Count, files
<1>5. trouble'.crowded = IF \E u \in Busy \ {t} : /\ command[u].at = "open" /\ File(u).is = "grant"
                                                  /\ File(u).who = who
                         THEN trouble.crowded \cup {who} ELSE trouble.crowded
      BY <1>2 DEF Count, TypesInv, HistoryOK
<1>6. trouble.crowded \subseteq trouble'.crowded
      BY <1>5
<1>7. StillKept
      BY <1>4, <1>6 DEF StillKept, KeptIn
<1>8. Given(k) = Given(j)
      BY <1>3 DEF Given, SameCommand
<1>9. \A g \in Given(j) \cup done'.grants : g \in Grant /\ KeptIn(g, grants, trouble.crowded)
  <2>1. Given(j) \subseteq Grant
        BY <1>1, GivenTyped DEF TypesInv, CommandsOK
  <2> QED BY <1>1, <1>4, <2>1 DEF GivenInv, GivenKept, TypesInv, HistoryOK
<1>10. \A g \in Given(k) \cup done'.grants : KeptIn(g, grants', trouble'.crowded)
      BY <1>7, <1>8, <1>9 DEF StillKept
<1>11. ASSUME NEW p \in People \ trouble'.crowded, AddsTo(k, p)
       PROVE  /\ NumberOK(k, p, grants')
              /\ \A u \in Terminals \ {t} : AddsTo(command[u], p) => Apart(k, command[u])
  <2>1. p = who
        BY <1>2, <1>3, <1>11 DEF AddsTo
  <2>2. NumberOK(k, p, grants')
        BY <1>3, <1>4, <2>1 DEF NumberOK
  <2>3. ASSUME NEW u \in Terminals \ {t}, AddsTo(command[u], p)
        PROVE  command[u].at # "open"
    <3>1. who \notin trouble'.crowded
          BY <2>1
    <3>2. ~ \E v \in Busy \ {t} : command[v].at = "open" /\ File(v).is = "grant" /\ File(v).who = who
          BY <1>5, <3>1
    <3>3. File(u).is = "grant" /\ File(u).who = who
          BY <2>1, <2>3 DEF AddsTo, File
    <3>4. command[u].at = "open" => u \in Busy
          BY DEF Busy, Idle
    <3> QED BY <3>2, <3>3, <3>4
  <2>4. \A l : l.at # "open" => Apart(k, l)
        BY <1>3 DEF Apart
  <2> QED BY <2>2, <2>3, <2>4
<1>12. \A u \in Terminals \ {t} : \A p \in People \ trouble'.crowded :
              AddsTo(command[u], p) => NumberOK(command[u], p, grants')
      BY <1>4, <1>6 DEF GivenInv, NumbersOK
<1> QED BY <1>3, <1>6, <1>7, <1>10, <1>11, <1>12, GivenStep

\* Opening: no grant that somebody was given is emptied.
LEMMA OpenGiven ==
    ASSUME TypesInv, GivenInv, NEW t \in Terminals, Open(t)
    PROVE  GivenInv' /\ StillKept
<1>1. PICK j : j = command[t]
      OBVIOUS
<1>2. PICK f : f = File(t)
      OBVIOUS
<1>3. PICK k : /\ WritingOK(j, closes, grants, minted) /\ j.at = "open"
               /\ f = Head(j.todo) /\ f \in FilesFor(j.close)
               /\ Moves(t, k) /\ SameCommand(j, k) /\ k.at = "fill"
               /\ k.todo = j.todo /\ k.n = j.n
               /\ Opened(j.close, f, j.n)
               /\ UNCHANGED <<budget, minted, done, trouble>>
      BY <1>1, <1>2, OpenMoves
<1>4. Given(k) = Given(j) /\ trouble' = trouble /\ done' = done
      BY <1>3 DEF Given, SameCommand
<1>5. CASE f.is # "grant"
  <2>1. grants' = grants
        BY <1>3, <1>5 DEF Opened
  <2>2. \A p \in People : ~ AddsTo(k, p)
        BY <1>3, <1>5 DEF AddsTo
  <2>3. StillKept
        BY <1>4, <2>1 DEF StillKept
  <2> QED BY <1>1, <1>3, <1>4, <2>1, <2>2, <2>3, GivenQuiet
<1>6. CASE f.is = "grant"
  <2>1. PICK who \in People : who = f.who
        BY <1>3, <1>6, FileFacts
  <2>2. /\ DOMAIN grants' = People /\ grants'[who] = With(grants[who], j.n, Torn)
        /\ \A p \in People \ {who} : grants'[p] = grants[p]
        BY <1>3, <1>6, <2>1 DEF Opened
  <2>3. PICK s : s = grants[who]
        OBVIOUS
  <2>4. AddsTo(j, who)
        BY <1>3, <1>6, <2>1 DEF AddsTo
  <2>5. s \in Seq(Grant \cup {Torn})
        BY <2>3 DEF TypesInv, GrantsOK
  <2>6. CASE who \in trouble.crowded
    <3>1. StillKept
      <4>1. \A g \in Grant : Leaf(g).holder \in People
            BY LeafOfGrant DEF Link
      <4> QED BY <1>4, <2>2, <2>6, <4>1 DEF StillKept, KeptIn
    <3>2. \A p \in People \ trouble'.crowded : p # who /\ grants'[p] = grants[p]
          BY <1>4, <2>2, <2>6
    <3>3. \A p \in People \ trouble'.crowded : ~ AddsTo(k, p)
          BY <1>3, <2>1, <3>2 DEF AddsTo
    <3>4. \A u \in Terminals \ {t} : \A p \in People \ trouble'.crowded :
              AddsTo(command[u], p) => NumberOK(command[u], p, grants')
      <4>1. ASSUME NEW u \in Terminals \ {t}, NEW p \in People \ trouble'.crowded, AddsTo(command[u], p)
            PROVE  NumberOK(command[u], p, grants')
        <5>1. NumberOK(command[u], p, grants)
              BY <1>4, <4>1 DEF GivenInv, NumbersOK
        <5> QED BY <3>2, <5>1 DEF NumberOK
      <4> QED BY <4>1
    <3>5. \A g \in Given(k) \cup done'.grants : g \in Grant /\ KeptIn(g, grants, trouble.crowded)
      <4>1. Given(j) \subseteq Grant
            BY <1>1, GivenTyped DEF TypesInv, CommandsOK
      <4> QED BY <1>1, <1>4, <4>1 DEF GivenInv, GivenKept, TypesInv, HistoryOK
    <3>6. \A g \in Given(k) \cup done'.grants : KeptIn(g, grants', trouble'.crowded)
          BY <3>1, <3>5 DEF StillKept
    <3> QED BY <1>3, <1>4, <3>1, <3>3, <3>4, <3>6, GivenStep
  <2>7. CASE who \notin trouble.crowded
    <3>1. PICK l \in Nat : l = Len(s)
          BY <2>5
    <3>2. j.n = l + 1
          BY <1>1, <1>3, <2>3, <2>4, <2>7, <3>1 DEF GivenInv, NumbersOK, NumberOK
    <3>3. PICK w : w = With(s, l + 1, Torn)
          OBVIOUS
    <3>4. Len(w) = l + 1 /\ w[l + 1] = Torn /\ \A i \in 1..l : w[i] = s[i]
      <4> DEFINE A == Grant \cup {Torn}
      <4>1. s \in Seq(A) /\ Torn \in A
            BY <2>5
      <4> HIDE DEF A
      <4>2. l + 1 \in 1..(Len(s) + 1)
            BY <3>1
      <4>3. /\ Len(w) = IF l + 1 = Len(s) + 1 THEN l + 1 ELSE Len(s)
            /\ w[l + 1] = Torn
            /\ \A i \in 1..Len(s) : i # l + 1 => w[i] = s[i]
            BY <3>3, <4>1, <4>2, WithSeq
      <4> QED BY <3>1, <4>3
    <3>5. grants'[who] = w
          BY <2>2, <2>3, <3>2, <3>3
    <3>6. StillKept
      <4>1. ASSUME NEW g \in Grant, KeptIn(g, grants, trouble.crowded)
            PROVE  KeptIn(g, grants', trouble'.crowded)
        <5>1. CASE Leaf(g).holder = who
          <6>1. PICK i \in 1..l : s[i] = g
                BY <2>3, <2>7, <3>1, <4>1, <5>1 DEF KeptIn
          <6>2. i \in 1..Len(w) /\ w[i] = g
                BY <3>4, <6>1
          <6> QED BY <3>5, <5>1, <6>2 DEF KeptIn
        <5>2. CASE Leaf(g).holder # who
          <6>1. Leaf(g).holder \in People
                BY LeafOfGrant DEF Link
          <6> QED BY <1>4, <2>2, <4>1, <5>2, <6>1 DEF KeptIn
        <5> QED BY <5>1, <5>2
      <4> QED BY <4>1 DEF StillKept
    <3>7. \A g \in Given(k) \cup done'.grants : g \in Grant /\ KeptIn(g, grants, trouble.crowded)
      <4>1. Given(j) \subseteq Grant
            BY <1>1, GivenTyped DEF TypesInv, CommandsOK
      <4> QED BY <1>1, <1>4, <4>1 DEF GivenInv, GivenKept, TypesInv, HistoryOK
    <3>8. \A g \in Given(k) \cup done'.grants : KeptIn(g, grants', trouble'.crowded)
          BY <3>6, <3>7 DEF StillKept
    <3>9. ASSUME NEW u \in Terminals \ {t}, AddsTo(command[u], who)
          PROVE  /\ command[u].at = "fill" /\ command[u].n \in 1..l
                 /\ grants[who][command[u].n] = Torn
      <4>1. Apart(j, command[u])
            BY <1>1, <2>4, <2>7, <3>9 DEF GivenInv, NumbersOK
      <4>2. command[u].at = "fill"
            BY <1>3, <3>9, <4>1 DEF Apart, AddsTo
      <4>3. WritingOK(command[u], closes, grants, minted)
            BY <4>2, AtWriting
      <4>4. command[u].n \in 1..Len(grants[who])
            BY <3>9, <4>2, <4>3 DEF WritingOK, AtFileOK, AddsTo
      <4>5. NumberOK(command[u], who, grants)
            BY <2>7, <3>9 DEF GivenInv, NumbersOK
      <4> QED BY <2>3, <3>1, <4>2, <4>4, <4>5 DEF NumberOK
    <3>10. ASSUME NEW p \in People \ trouble'.crowded, AddsTo(k, p)
           PROVE  /\ NumberOK(k, p, grants')
                  /\ \A u \in Terminals \ {t} : AddsTo(command[u], p) => Apart(k, command[u])
      <4>1. p = who
            BY <1>3, <2>1, <3>10 DEF AddsTo
      <4>2. NumberOK(k, p, grants')
            BY <1>3, <3>2, <3>4, <3>5, <4>1 DEF NumberOK
      <4>3. \A u \in Terminals \ {t} : AddsTo(command[u], p) => Apart(k, command[u])
            BY <1>3, <3>2, <3>9, <4>1 DEF Apart
      <4> QED BY <4>2, <4>3
    <3>11. ASSUME NEW u \in Terminals \ {t}, NEW p \in People \ trouble'.crowded, AddsTo(command[u], p)
           PROVE  NumberOK(command[u], p, grants')
      <4>1. CASE p = who
        <5>1. /\ command[u].at = "fill" /\ command[u].n \in 1..l
              /\ grants[who][command[u].n] = Torn
              BY <3>9, <3>11, <4>1
        <5> QED BY <2>3, <3>4, <3>5, <4>1, <5>1 DEF NumberOK
      <4>2. CASE p # who
        <5>1. NumberOK(command[u], p, grants)
              BY <1>4, <3>11 DEF GivenInv, NumbersOK
        <5> QED BY <2>2, <4>2, <5>1 DEF NumberOK
      <4> QED BY <4>1, <4>2
    <3> QED BY <1>3, <1>4, <3>6, <3>8, <3>10, <3>11, GivenStep
  <2> QED BY <2>6, <2>7
<1> QED BY <1>5, <1>6

\* The grants a command has written once it has written the one it is at.
LEMMA GivenGrows ==
    ASSUME NEW j, NEW k, NEW cs, NEW gs, NEW ms, WritingOK(j, cs, gs, ms), GoesOn(j, k)
    PROVE  LET now == IF Head(j.todo).is = "grant" THEN {Head(j.todo).grant} ELSE {}
           IN  /\ Given(k) \subseteq Given(j) \cup now
               /\ Tail(j.todo) = <<>> =>
                    {w.grant : w \in {j.all[i] : i \in {h \in 1..Len(j.all) : j.all[h].is = "grant"}}}
                        \subseteq Given(j) \cup now
<1> DEFINE now == IF Head(j.todo).is = "grant" THEN {Head(j.todo).grant} ELSE {}
<1>1. PICK n \in Nat : n = Len(j.todo)
      BY WritingFacts
<1>2. PICK m \in Nat : m = Len(j.all)
      BY DEF WritingOK, TodoOK
<1>3. n >= 1 /\ n <= m /\ Head(j.todo) = j.todo[1]
      BY <1>1, <1>2, WritingFacts DEF WritingOK, TodoOK
<1>4. j.todo[1] = j.all[1 + (m - n)]
  <2>1. 1 \in 1..n
        BY <1>3
  <2> QED BY <1>1, <1>2, <2>1 DEF WritingOK, TodoOK
<1>5. ASSUME NEW i \in 1..(m - n + 1), j.all[i].is = "grant"
      PROVE  j.all[i].grant \in Given(j) \cup now
  <2>1. CASE i = 1 + (m - n)
        BY <1>3, <1>4, <1>5, <2>1
  <2>2. CASE i # 1 + (m - n)
    <3>1. i \in 1..(m - n)
          BY <1>3, <2>2
    <3>2. j.at \in {"prepare", "open", "fill"}
          BY DEF WritingOK
    <3>3. j.all[i].grant \in Given(j)
          BY <1>1, <1>2, <1>5, <3>1, <3>2 DEF Given
    <3> QED BY <3>3
  <2> QED BY <2>1, <2>2
<1>6. CASE Tail(j.todo) = <<>>
  <2>1. Given(k) = {}
        BY <1>6, GivenNone DEF GoesOn, Idle
  <2>2. n = 1
    <3>1. PICK F : F = FilesFor(j.close)
          OBVIOUS
    <3>2. j.todo \in Seq(F) /\ j.todo # <<>>
          BY <3>1 DEF WritingOK, TodoOK
    <3>3. Len(Tail(j.todo)) = Len(j.todo) - 1
          BY <3>2
    <3>4. Len(<<>>) = 0
          OBVIOUS
    <3>5. PICK rest : rest = Tail(j.todo)
          OBVIOUS
    <3>6. Len(rest) = n - 1 /\ Len(rest) = 0
          BY <1>1, <1>6, <3>3, <3>4, <3>5
    <3> QED BY <3>6
  <2>3. \A i \in {h \in 1..Len(j.all) : j.all[h].is = "grant"} : j.all[i].grant \in Given(j) \cup now
        BY <1>2, <1>5, <2>2
  <2> HIDE DEF now
  <2>4. {w.grant : w \in {j.all[i] : i \in {h \in 1..Len(j.all) : j.all[h].is = "grant"}}} \subseteq Given(j) \cup now
        BY <2>3
  <2> QED BY <1>6, <2>1, <2>4 DEF now
<1>7. CASE Tail(j.todo) # <<>>
  <2>1. SameCommand(j, k) /\ k.at = "prepare" /\ k.todo = Tail(j.todo)
        BY <1>7 DEF GoesOn
  <2>2. Len(k.todo) = n - 1
        BY <1>1, <1>7, <2>1, TailTodo DEF WritingOK
  <2>3. k.all = j.all
        BY <2>1 DEF SameCommand
  <2>4. Len(k.all) - Len(k.todo) = m - n + 1
        BY <1>2, <2>2, <2>3
  <2>5. Given(k) = {j.all[i].grant : i \in {h \in 1..(m - n + 1) : j.all[h].is = "grant"}}
        BY <2>1, <2>3, <2>4 DEF Given
  <2>6. Given(k) \subseteq Given(j) \cup now
    <3> HIDE DEF now
    <3> QED BY <1>5, <2>5
  <2> QED BY <1>7, <2>6
<1> QED BY <1>6, <1>7

\* Filling: what was torn becomes the grant that is now given.
LEMMA FillGiven ==
    ASSUME TypesInv, GivenInv, NEW t \in Terminals, Fill(t)
    PROVE  GivenInv' /\ StillKept
<1>1. PICK j : j = command[t]
      OBVIOUS
<1>2. PICK f : f = File(t)
      OBVIOUS
<1>3. PICK k : /\ WritingOK(j, closes, grants, minted) /\ j.at = "fill"
               /\ f = Head(j.todo) /\ f \in FilesFor(j.close)
               /\ Moves(t, k) /\ GoesOn(j, k)
               /\ Filled(j, f) /\ Recorded(j)
               /\ UNCHANGED <<budget, trouble>>
      BY <1>1, <1>2, FillMoves
<1> DEFINE now == IF f.is = "grant" THEN {f.grant} ELSE {}
<1>4. /\ Given(k) \subseteq Given(j) \cup now
      /\ Tail(j.todo) = <<>> =>
           {w.grant : w \in {j.all[i] : i \in {h \in 1..Len(j.all) : j.all[h].is = "grant"}}}
               \subseteq Given(j) \cup now
      BY <1>3, GivenGrows
<1>5. trouble' = trouble
      BY <1>3
<1>6. ASSUME NEW p \in People
      PROVE  ~ AddsTo(k, p)
      BY <1>3 DEF AddsTo, GoesOn, Idle
<1>7. done'.grants \subseteq done.grants \cup Given(j) \cup now
  <2> HIDE DEF now
  <2>1. CASE Tail(j.todo) # <<>>
        BY <1>3, <2>1 DEF Recorded
  <2>2. CASE Tail(j.todo) = <<>>
        BY <1>3, <1>4, <2>2 DEF Recorded, RecordedAll
  <2> QED BY <2>1, <2>2
<1>8. /\ StillKept
      /\ \A g \in now : KeptIn(g, grants', trouble'.crowded)
      /\ \A u \in Terminals \ {t} : \A p \in People \ trouble'.crowded :
              AddsTo(command[u], p) => NumberOK(command[u], p, grants')
  <2>1. CASE f.is # "grant"
    <3>1. grants' = grants
          BY <1>3, <2>1 DEF Filled, FilledRecord, FilledList
    <3>2. StillKept
          BY <1>5, <3>1 DEF StillKept
    <3>3. \A u \in Terminals \ {t} : \A p \in People \ trouble'.crowded :
              AddsTo(command[u], p) => NumberOK(command[u], p, grants')
          BY <1>5, <3>1 DEF GivenInv, NumbersOK
    <3> QED BY <2>1, <3>2, <3>3
  <2>2. CASE f.is = "grant"
    <3>1. PICK who \in People : who = f.who /\ f.grant \in Grant /\ Leaf(f.grant).holder = who
          BY <1>3, <2>2, FileFacts
    <3>2. PICK s : s = grants[who]
          OBVIOUS
    <3>3. PICK n : n = j.n
          OBVIOUS
    <3>4. PICK g : g = f.grant
          OBVIOUS
    <3>5. PICK w : w = [s EXCEPT ![n] = g]
          OBVIOUS
    <3>6. grants'[who] = w /\ \A p \in People \ {who} : grants'[p] = grants[p]
          BY <1>3, <2>2, <3>1, <3>2, <3>3, <3>4, <3>5 DEF Filled, FilledGrant
    <3>7. n \in 1..Len(s)
          BY <1>3, <2>2, <3>1, <3>2, <3>3 DEF WritingOK, AtFileOK
    <3>8. Len(w) = Len(s) /\ w[n] = g /\ \A i \in 1..Len(s) : i # n => w[i] = s[i]
      <4> DEFINE A == Grant \cup {Torn}
      <4>1. s \in Seq(A) /\ g \in A
            BY <3>1, <3>2, <3>4 DEF TypesInv, GrantsOK
      <4> HIDE DEF A
      <4> QED BY <3>5, <3>7, <4>1, ExceptSeq
    <3>9. AddsTo(j, who)
          BY <1>3, <2>2, <3>1 DEF AddsTo
    <3>10. who \notin trouble.crowded => s[n] = Torn
          BY <1>1, <1>3, <3>2, <3>3, <3>9 DEF GivenInv, NumbersOK, NumberOK
    <3>11. StillKept
      <4>1. ASSUME NEW h \in Grant, KeptIn(h, grants, trouble.crowded)
            PROVE  KeptIn(h, grants', trouble'.crowded)
        <5>1. CASE Leaf(h).holder = who /\ who \notin trouble.crowded
          <6>1. PICK i \in 1..Len(s) : s[i] = h
                BY <3>2, <4>1, <5>1 DEF KeptIn
          <6>2. i # n
                BY <3>10, <5>1, <6>1, FolderAssumption
          <6>3. i \in 1..Len(w) /\ w[i] = h
                BY <3>8, <6>1, <6>2
          <6> QED BY <3>6, <5>1, <6>3 DEF KeptIn
        <5>2. CASE who \in trouble.crowded /\ Leaf(h).holder = who
              BY <1>5, <5>2 DEF KeptIn
        <5>3. CASE Leaf(h).holder # who
          <6>1. Leaf(h).holder \in People
                BY LeafOfGrant DEF Link
          <6> QED BY <1>5, <3>6, <4>1, <5>3, <6>1 DEF KeptIn
        <5> QED BY <5>1, <5>2, <5>3
      <4> QED BY <4>1 DEF StillKept
    <3>12. KeptIn(f.grant, grants', trouble'.crowded)
      <4>1. n \in 1..Len(w) /\ w[n] = f.grant
            BY <3>4, <3>7, <3>8
      <4> QED BY <3>1, <3>6, <4>1 DEF KeptIn
    <3>13. ASSUME NEW u \in Terminals \ {t}, NEW p \in People \ trouble'.crowded, AddsTo(command[u], p)
           PROVE  NumberOK(command[u], p, grants')
      <4>1. NumberOK(command[u], p, grants)
            BY <1>5, <3>13 DEF GivenInv, NumbersOK
      <4>2. CASE p = who
        <5>1. Apart(j, command[u])
              BY <1>1, <1>5, <3>9, <3>13, <4>2 DEF GivenInv, NumbersOK
        <5>2. command[u].at = "fill" => command[u].n # n /\ command[u].n \in 1..Len(s)
          <6>1. ASSUME command[u].at = "fill"
                PROVE  command[u].n \in 1..Len(s)
            <7>1. WritingOK(command[u], closes, grants, minted)
                  BY <6>1, AtWriting
            <7> QED BY <3>2, <3>13, <4>2, <6>1, <7>1 DEF WritingOK, AtFileOK, AddsTo
          <6> QED BY <1>3, <3>3, <5>1, <6>1 DEF Apart
        <5> QED BY <3>2, <3>6, <3>8, <4>1, <4>2, <5>2 DEF NumberOK
      <4>3. CASE p # who
            BY <3>6, <4>1, <4>3 DEF NumberOK
      <4> QED BY <4>2, <4>3
    <3> QED BY <2>2, <3>11, <3>12, <3>13
  <2> QED BY <2>1, <2>2
<1>9. \A g \in Given(j) \cup done.grants : g \in Grant /\ KeptIn(g, grants, trouble.crowded)
  <2>1. Given(j) \subseteq Grant
        BY <1>1, GivenTyped DEF TypesInv, CommandsOK
  <2> QED BY <1>1, <2>1 DEF GivenInv, GivenKept, TypesInv, HistoryOK
<1> HIDE DEF now
<1>10. \A g \in Given(k) \cup done'.grants : KeptIn(g, grants', trouble'.crowded)
      BY <1>4, <1>7, <1>8, <1>9 DEF StillKept
<1> QED BY <1>3, <1>5, <1>6, <1>8, <1>10, GivenStep

\* An idle terminal has written nothing and adds nothing.
LEMMA GivenIdle == Given(Idle) = {} /\ \A p : ~ AddsTo(Idle, p)
BY DEF Given, AddsTo, Idle

\* Nor has a command that is about to write its first file.
LEMMA StartedGiven ==
    ASSUME NEW k, NEW do, NEW me, NEW c, NEW todo, Len(todo) \in Nat, Started(k, do, me, c, todo)
    PROVE  Given(k) = {} /\ (Head(todo).is # "grant" \/ k.at = "prepare") /\ \A p : ~ AddsTo(k, p)
<1>1. Given(k) = {}
      BY GivenNone DEF Started
<1>2. Head(todo).is # "grant" \/ k.at = "prepare"
      BY DEF Started
<1> QED BY <1>1, <1>2 DEF AddsTo, Started

\* The invariant holds in the empty folder.
LEMMA InitGiven == Init => GivenInv
<1> SUFFICES ASSUME Init PROVE GivenInv
    OBVIOUS
<1>1. PICK root \in ContentKeys :
        /\ grants = [p \in People |-> IF p = Founder THEN <<FoundingGrant(p, Commons, root)>> ELSE <<>>]
        /\ command = [t \in Terminals |-> Idle]
        /\ done = [grants |-> {FoundingGrant(Founder, Commons, root)}, listed |-> {<<"map", Commons>>}]
      BY DEF Init
<1>2. PICK g : g = FoundingGrant(Founder, Commons, root)
      OBVIOUS
<1>3. Founder \in People /\ Leaf(g).holder = Founder
      BY <1>2, FolderAssumption, FoundingFiles
<1>4. grants[Founder] = <<g>>
      BY <1>1, <1>2, <1>3
<1>5. KeptIn(g, grants, trouble.crowded)
  <2>1. 1 \in 1..Len(<<g>>) /\ <<g>>[1] = g
        OBVIOUS
  <2> QED BY <1>3, <1>4, <2>1 DEF KeptIn
<1>6. done.grants = {g} /\ \A t \in Terminals : command[t] = Idle
      BY <1>1, <1>2
<1> QED BY <1>5, <1>6, GivenIdle DEF GivenInv, GivenKept, NumbersOK

\* Every step preserves it.
LEMMA NextGiven == TypesInv /\ GivenInv /\ [Next]_vars => GivenInv'
<1> SUFFICES ASSUME TypesInv, GivenInv, [Next]_vars PROVE GivenInv'
    OBVIOUS
<1>0. ASSUME NEW t \in Terminals, NEW k, Moves(t, k), UNCHANGED <<files, minted, done>>,
             trouble'.crowded = trouble.crowded,
             Given(k) \subseteq Given(command[t]), \A p \in People : ~ AddsTo(k, p)
      PROVE  GivenInv'
      BY <1>0, GivenQuiet DEF files
<1>1. ASSUME NEW t \in Terminals, NEW me \in People, NEW c \in Closes, Protect(t, me, c)
      PROVE  GivenInv'
  <2>0. PICK root \in ContentKeys : \E k : Moves(t, k) /\ Started(k, "protect", me, c, ToFound(me, c, root))
        BY <1>1, ProtectMoves
  <2>1. PICK k : Moves(t, k) /\ Started(k, "protect", me, c, ToFound(me, c, root))
        BY <2>0
  <2>2. Len(ToFound(me, c, root)) = 3 /\ ToFound(me, c, root)[1] = RecordFile(FoundRecord(c, me), root)
        BY FoundingFiles
  <2>3. Given(k) = {} /\ \A p : ~ AddsTo(k, p)
        BY <2>1, <2>2, StartedGiven
  <2>4. UNCHANGED <<files, minted, done, trouble>>
        BY <1>1 DEF Protect
  <2> QED BY <1>0, <2>1, <2>3, <2>4
<1>2. ASSUME NEW t \in Terminals, NEW me \in People, NEW c \in Closes, NEW with \in Receivers,
             NEW facet \in ShareFacets, Share(t, me, c, with, facet)
      PROVE  GivenInv'
  <2>1. PICK k : Moves(t, k) /\ LoadedOK(k, minted)
        BY <1>2, ShareMoves
  <2>2. Given(k) = {} /\ \A p : ~ AddsTo(k, p)
        BY <2>1, GivenNone DEF LoadedOK, AddsTo
  <2>3. UNCHANGED <<files, minted, done, trouble>>
        BY <1>2 DEF Share
  <2> QED BY <1>0, <2>1, <2>2, <2>3
<1>3. ASSUME NEW t \in Terminals, NEW me \in People, NEW path \in Signposts, Raise(t, me, path)
      PROVE  GivenInv'
  <2>1. PICK k : Moves(t, k) /\ Started(k, "raise", me, Commons, << ListFile("index", path) >>)
        BY <1>3, RaiseMoves
  <2>2. Len(<< ListFile("index", path) >>) = 1
        OBVIOUS
  <2>3. Given(k) = {} /\ \A p : ~ AddsTo(k, p)
        BY <2>1, <2>2, StartedGiven
  <2>4. UNCHANGED <<files, minted, done>> /\ trouble'.crowded = trouble.crowded
        BY <1>3 DEF Raise
  <2> QED BY <1>0, <2>1, <2>3, <2>4
<1>4. ASSUME NEW t \in Terminals, Settle(t)
      PROVE  GivenInv'
  <2>1. PICK g, k : Moves(t, k) /\ Started(k, "share", command[t].me, command[t].close, << GrantFile(Leaf(g).holder, g) >>)
        BY <1>4, SettleMoves
  <2>2. Len(<< GrantFile(Leaf(g).holder, g) >>) = 1
        OBVIOUS
  <2>3. Given(k) = {} /\ \A p : ~ AddsTo(k, p)
        BY <2>1, <2>2, StartedGiven
  <2>4. UNCHANGED <<files, minted, done, trouble>>
        BY <1>4 DEF Settle
  <2> QED BY <1>0, <2>1, <2>3, <2>4
<1>5. ASSUME NEW t \in Terminals, NEW me \in People, NEW c \in Closes, NEW except \in SUBSET Excludable,
             Rotate(t, me, c, except)
      PROVE  GivenInv'
  <2>1. PICK k : Moves(t, k) /\ LoadedOK(k, minted)
        BY <1>5, RotateMoves
  <2>2. Given(k) = {} /\ \A p : ~ AddsTo(k, p)
        BY <2>1, GivenNone DEF LoadedOK, AddsTo
  <2>3. UNCHANGED <<files, minted, done>> /\ trouble'.crowded = trouble.crowded
        BY <1>5 DEF Rotate
  <2> QED BY <1>0, <2>1, <2>2, <2>3
<1>6. ASSUME NEW t \in Terminals, FindKey(t)
      PROVE  GivenInv'
  <2>1. PICK k : Moves(t, k) /\ GatherOK(k, minted)
        BY <1>6, FindKeyMoves
  <2>2. Given(k) = {} /\ \A p : ~ AddsTo(k, p)
        BY <2>1, GivenNone DEF GatherOK, AddsTo
  <2>3. UNCHANGED <<files, minted, done, trouble>>
        BY <1>6 DEF FindKey
  <2> QED BY <1>0, <2>1, <2>2, <2>3
<1>7. ASSUME NEW t \in Terminals, Refuse(t)
      PROVE  GivenInv'
  <2>1. UNCHANGED <<files, minted, done, trouble>>
        BY <1>7 DEF Refuse
  <2> QED BY <1>0, <1>7, <2>1, RefuseMoves, GivenIdle
<1>8. ASSUME NEW t \in Terminals, Gather(t)
      PROVE  GivenInv'
  <2>1. PICK k : Moves(t, k) /\ GatherOK(k, minted)
        BY <1>8, GatherMoves
  <2>2. Given(k) = {} /\ \A p : ~ AddsTo(k, p)
        BY <2>1, GivenNone DEF GatherOK, AddsTo
  <2>3. UNCHANGED <<files, minted, done, trouble>>
        BY <1>8 DEF Gather
  <2> QED BY <1>0, <2>1, <2>2, <2>3
<1>9. ASSUME NEW t \in Terminals, ChangeLock(t)
      PROVE  GivenInv'
  <2>1. PICK todo, k : Moves(t, k) /\ Started(k, "rotate", command[t].me, command[t].close, todo)
                          /\ WritingOK(k, closes, grants, minted)
        BY <1>9, ChangeLockMoves
  <2>2. Len(todo) \in Nat
        BY <2>1, WritingFacts DEF Started
  <2>3. Given(k) = {} /\ \A p : ~ AddsTo(k, p)
        BY <2>1, <2>2, StartedGiven
  <2>4. UNCHANGED <<files, minted, done, trouble>>
        BY <1>9 DEF ChangeLock
  <2> QED BY <1>0, <2>1, <2>3, <2>4
<1>10. ASSUME NEW t \in Terminals, ReadList(t)
      PROVE  GivenInv'
  <2>1. UNCHANGED <<files, minted, done>> /\ trouble'.crowded = trouble.crowded
        BY <1>10 DEF ReadList
  <2>2. CASE Moves(t, Idle)
        BY <1>0, <2>1, <2>2, GivenIdle
  <2>3. CASE ~ Moves(t, Idle)
    <3>1. PICK k : /\ Moves(t, k) /\ SameCommand(command[t], k) /\ k.todo = command[t].todo
                   /\ k.at = "open" /\ Head(k.todo) = File(t) /\ File(t).is = "list"
                   /\ command[t].at = "prepare"
          BY <1>10, <2>3, ReadListMoves
    <3>2. Given(k) = Given(command[t])
          BY <3>1 DEF Given, SameCommand
    <3>3. \A p : ~ AddsTo(k, p)
          BY <3>1 DEF AddsTo
    <3> QED BY <1>0, <2>1, <3>1, <3>2, <3>3
  <2> QED BY <2>2, <2>3
<1>11. ASSUME NEW t \in Terminals, Kill(t)
      PROVE  GivenInv'
  <2>1. UNCHANGED <<files, minted, done>> /\ trouble'.crowded = trouble.crowded
        BY <1>11 DEF Kill
  <2> QED BY <1>0, <1>11, <2>1, KillMoves, GivenIdle
<1>12. ASSUME UNCHANGED vars
       PROVE  GivenInv'
      BY <1>12 DEF vars, files, GivenInv, NumbersOK, GivenKept, Terminals, Most
<1> QED BY <1>1, <1>2, <1>3, <1>4, <1>5, <1>6, <1>7, <1>8, <1>9, <1>10, <1>11, <1>12,
           CountGiven, OpenGiven, FillGiven DEF Next

\* What a command reported as handed out is on disk for good, unless two
\* commands were adding a grant to the same person at once (GivenIsKept;
\* Repo::add_grant numbers a file by counting those that are there).
THEOREM GivenStays == Spec => []GivenIsKept
<1>1. Init => GivenInv
      BY InitGiven
<1>2. TypesInv /\ GivenInv /\ [Next]_vars => GivenInv'
      BY NextGiven
<1>3. GivenInv => GivenIsKept
      BY DEF GivenInv, GivenKept, KeptIn, GivenIsKept
<1> QED BY <1>1, <1>2, <1>3, FolderTypes, PTL DEF Spec

-----------------------------------------------------------------------------
(***************************************************************************)
(* The third layer: what is listed stays.  A list nobody is rewriting      *)
(* parses, and has all that was reported; the one command that is          *)
(* rewriting it has the text with its own entry added; and an entry that   *)
(* is still to be added is not there, unless two `cell new` want the same. *)
(***************************************************************************)

LastFile(k) == k.all[Len(k.all)]
Entry(k) == LastFile(k).entry

\* Whether a command will add to a list; and whether it is rewriting it.
ToList(k, list) ==
    k.at \in {"prepare", "open", "fill"} /\ LastFile(k).is = "list" /\ LastFile(k).list = list
OnList(k, list) ==
    k.at \in {"open", "fill"} /\ Head(k.todo).is = "list" /\ Head(k.todo).list = list

Has(text, e) == \E i \in 1..Len(text) : text[i] = e

\* An entry that may be listed twice.
MayRecur(list, e, twins) == list = "index" /\ e \in twins

GoodText(list, text, listed, twins) ==
    /\ \A d \in listed : d[1] = list => Has(text, d[2])
    /\ \A i, j \in 1..Len(text) : i # j /\ text[i] = text[j] => MayRecur(list, text[i], twins)

\* `cell new` writes the index and nothing else; only `protect` writes the map.
KindOK(k) ==
    /\ ToList(k, "index") => k.do = "raise" /\ Len(k.all) = 1
    /\ ToList(k, "map") => k.do = "protect" /\ Entry(k) = k.close

\* The command that is rewriting a list.
RewriteOK(k, list, text, listed, twins) ==
    /\ GoodText(list, k.read, listed, twins) /\ Has(k.read, Entry(k))
    /\ k.at = "open" => text # Torn /\ k.read = Append(text, Entry(k))
    /\ k.at = "fill" => text = Torn

\* A list, as the commands cmd have left it.
ListKept(list, text, cmd, listed, twins) ==
    /\ text = Torn => \E t \in Terminals : cmd[t].at = "fill" /\ OnList(cmd[t], list)
    /\ text # Torn => GoodText(list, text, listed, twins)
    /\ \A t \in Terminals : OnList(cmd[t], list) =>
          /\ RewriteOK(cmd[t], list, text, listed, twins)
          /\ \A u \in Terminals \ {t} : ~ OnList(cmd[u], list)

\* What is still to be added: no other command is to add the same...
Alone(list, cmd, twins) ==
    \A t \in Terminals : \A u \in Terminals \ {t} :
        ToList(cmd[t], list) /\ ToList(cmd[u], list) /\ Entry(cmd[u]) = Entry(cmd[t]) =>
            MayRecur(list, Entry(cmd[t]), twins)

\* ...and it is not there, nor in what is being written.
Unlisted(list, text, cmd, twins) ==
    \A t \in Terminals : ToList(cmd[t], list) /\ ~ OnList(cmd[t], list) =>
        /\ text # Torn /\ Has(text, Entry(cmd[t])) => MayRecur(list, Entry(cmd[t]), twins)
        /\ \A u \in Terminals : OnList(cmd[u], list) /\ Has(cmd[u].read, Entry(cmd[t])) =>
              MayRecur(list, Entry(cmd[t]), twins)

ListOK(list, text, cmd, listed, spoilt, twins) ==
    /\ Alone(list, cmd, twins)
    /\ list \notin spoilt => ListKept(list, text, cmd, listed, twins) /\ Unlisted(list, text, cmd, twins)

KindsOK == \A t \in Terminals : KindOK(command[t])

ListInv ==
    /\ KindsOK
    /\ \A list \in {"map", "index"} :
          ListOK(list, lists[list], command, done.listed, trouble.lists, trouble.twins)

\* A step of terminal t from j to k that leaves a list alone: it does not begin
\* to rewrite it, and is not killed at it.
LeavesAlone(j, k, list, spoilt) ==
    /\ ~ OnList(k, list)
    /\ ToList(k, list) => ToList(j, list) /\ Entry(k) = Entry(j) /\ ~ OnList(j, list)
    /\ j.at = "fill" /\ OnList(j, list) => list \in spoilt

\* A good text stays good when no more is reported as listed.
LEMMA GoodTextGrows ==
    ASSUME NEW list, NEW text, NEW listed, NEW listedA, NEW twins, NEW twinsA,
           \A d \in listedA : d[1] = list => d \in listed, twins \subseteq twinsA,
           GoodText(list, text, listed, twins)
    PROVE  GoodText(list, text, listedA, twinsA)
BY DEF GoodText, MayRecur

\* A command that leaves a list alone keeps what is said of that list.
LEMMA ListUntouched ==
    ASSUME NEW list, NEW text, NEW cmd, NEW cmdA, NEW listed, NEW listedA, NEW spoilt, NEW spoiltA,
           NEW twins, NEW twinsA, NEW t \in Terminals,
           \A u \in Terminals \ {t} : cmdA[u] = cmd[u],
           \A d \in listedA : d[1] = list => d \in listed,
           spoilt \subseteq spoiltA, twins \subseteq twinsA,
           LeavesAlone(cmd[t], cmdA[t], list, spoiltA),
           ListOK(list, text, cmd, listed, spoilt, twins)
    PROVE  ListOK(list, text, cmdA, listedA, spoiltA, twinsA)
<1>1. \A u \in Terminals : /\ OnList(cmdA[u], list) => u # t /\ OnList(cmd[u], list) /\ cmdA[u] = cmd[u]
                           /\ ToList(cmdA[u], list) => /\ ToList(cmd[u], list) /\ Entry(cmdA[u]) = Entry(cmd[u])
                                                       /\ OnList(cmd[u], list) => OnList(cmdA[u], list)
      BY DEF LeavesAlone
<1>2. \A e : MayRecur(list, e, twins) => MayRecur(list, e, twinsA)
      BY DEF MayRecur
<1>3. Alone(list, cmdA, twinsA)
      BY <1>1, <1>2 DEF ListOK, Alone
<1>4. ASSUME list \notin spoiltA
      PROVE  ListKept(list, text, cmdA, listedA, twinsA) /\ Unlisted(list, text, cmdA, twinsA)
  <2>1. ListKept(list, text, cmd, listed, twins) /\ Unlisted(list, text, cmd, twins)
        BY <1>4 DEF ListOK
  <2>2. text = Torn => \E u \in Terminals : cmdA[u].at = "fill" /\ OnList(cmdA[u], list)
        BY <1>4, <2>1 DEF ListKept, LeavesAlone
  <2>3. text # Torn => GoodText(list, text, listedA, twinsA)
        BY <2>1, GoodTextGrows DEF ListKept
  <2>4. ASSUME NEW u \in Terminals, OnList(cmdA[u], list)
        PROVE  /\ RewriteOK(cmdA[u], list, text, listedA, twinsA)
               /\ \A v \in Terminals \ {u} : ~ OnList(cmdA[v], list)
    <3>1. OnList(cmd[u], list) /\ cmdA[u] = cmd[u]
          BY <1>1, <2>4
    <3>2. RewriteOK(cmd[u], list, text, listed, twins) /\ \A v \in Terminals \ {u} : ~ OnList(cmd[v], list)
          BY <2>1, <3>1 DEF ListKept
    <3>3. GoodText(list, cmd[u].read, listedA, twinsA)
          BY <3>2, GoodTextGrows DEF RewriteOK
    <3> QED BY <1>1, <3>1, <3>2, <3>3 DEF RewriteOK
  <2>5. ListKept(list, text, cmdA, listedA, twinsA)
        BY <2>2, <2>3, <2>4 DEF ListKept
  <2>6. Unlisted(list, text, cmdA, twinsA)
        BY <1>1, <1>2, <2>1 DEF Unlisted
  <2> QED BY <2>5, <2>6
<1> QED BY <1>3, <1>4 DEF ListOK

\* The last file of a command; a list can be no other.
LEMMA AtList ==
    ASSUME NEW k, NEW cs, NEW gs, NEW ms, WritingOK(k, cs, gs, ms)
    PROVE  /\ LastFile(k) \in FilesFor(k.close) /\ Len(k.all) \in Nat /\ Len(k.all) >= 1
           /\ \A i \in 1..Len(k.all) : k.all[i].is = "list" => k.all[i] = LastFile(k)
           /\ Head(k.todo).is = "list" => Head(k.todo) = LastFile(k) /\ Tail(k.todo) = <<>>
           /\ Tail(k.todo) = <<>> => Head(k.todo) = LastFile(k)
<1>1. PICK n \in Nat : n = Len(k.todo)
      BY WritingFacts
<1>2. PICK all : all = k.all
      OBVIOUS
<1>3. PICK m \in Nat : m = Len(all)
      BY <1>2 DEF WritingOK, TodoOK
<1>4. n >= 1 /\ n <= m /\ Head(k.todo) = k.todo[1]
      BY <1>1, <1>2, <1>3, WritingFacts DEF WritingOK, TodoOK
<1>5. k.todo[1] = all[1 + (m - n)] /\ 1 + (m - n) \in 1..m
  <2>1. 1 \in 1..n /\ 1 + (m - n) \in 1..m
        BY <1>4
  <2>2. \A i \in 1..n : k.todo[i] = all[i + (m - n)]
        BY <1>1, <1>2, <1>3 DEF WritingOK, TodoOK
  <2> QED BY <2>1, <2>2
<1>6. LastFile(k) = all[m]
      BY <1>2, <1>3 DEF LastFile
<1>7. all \in Seq(FilesFor(k.close)) /\ \A i \in 1..m : all[i].is = "list" => i = m
      BY <1>2, <1>3 DEF WritingOK, TodoOK
<1>8. LastFile(k) \in FilesFor(k.close)
  <2>1. PICK F : F = FilesFor(k.close)
        OBVIOUS
  <2>2. all \in Seq(F) /\ m \in 1..Len(all)
        BY <1>3, <1>4, <1>7, <2>1
  <2> QED BY <1>6, <2>1, <2>2, ElementIn
<1>9. Tail(k.todo) = <<>> <=> n = 1
  <2>1. PICK F : F = FilesFor(k.close)
        OBVIOUS
  <2>2. PICK rest : rest = Tail(k.todo)
        OBVIOUS
  <2>3. k.todo \in Seq(F) /\ k.todo # <<>>
        BY <2>1 DEF WritingOK, TodoOK
  <2>4. Len(rest) = n - 1 /\ rest \in Seq(F)
        BY <1>1, <2>2, <2>3
  <2>5. rest = <<>> <=> Len(rest) = 0
        BY <2>4
  <2> QED BY <1>1, <2>2, <2>4, <2>5
<1>10. Head(k.todo).is = "list" => 1 + (m - n) = m
      BY <1>4, <1>5, <1>7
<1>11. /\ LastFile(k) \in FilesFor(k.close) /\ Len(k.all) \in Nat /\ Len(k.all) >= 1
       /\ \A i \in 1..Len(k.all) : k.all[i].is = "list" => k.all[i] = LastFile(k)
      BY <1>2, <1>3, <1>4, <1>6, <1>7, <1>8
<1>12. Head(k.todo).is = "list" => Head(k.todo) = LastFile(k) /\ n = 1
      BY <1>4, <1>5, <1>6, <1>10
<1>13. n = 1 => Head(k.todo) = LastFile(k)
      BY <1>4, <1>5, <1>6
<1> QED BY <1>9, <1>11, <1>12, <1>13

\* What one move has to satisfy for both lists.
LEMMA ListsStep ==
    ASSUME KindsOK, NEW t \in Terminals, NEW k, Moves(t, k), KindOK(k),
           \A list \in {"map", "index"} :
              ListOK(list, lists'[list], command', done'.listed, trouble'.lists, trouble'.twins)
    PROVE  ListInv'
<1>1. \A u \in Terminals : KindOK(command'[u])
      BY DEF KindsOK, Moves
<1>2. KindsOK'
      BY <1>1 DEF KindsOK, Terminals, Most
<1> QED BY <1>2 DEF ListInv

\* A move that writes no list and reports none.
LEMMA ListsUntouched ==
    ASSUME ListInv, NEW t \in Terminals, NEW k, Moves(t, k), KindOK(k),
           lists' = lists, done'.listed = done.listed,
           trouble.lists \subseteq trouble'.lists, trouble'.twins = trouble.twins,
           \A list \in {"map", "index"} : LeavesAlone(command[t], k, list, trouble'.lists)
    PROVE  ListInv'
<1>1. ASSUME NEW list \in {"map", "index"}
      PROVE  ListOK(list, lists'[list], command', done'.listed, trouble'.lists, trouble'.twins)
  <2>1. ListOK(list, lists[list], command, done.listed, trouble.lists, trouble.twins)
        BY DEF ListInv
  <2>2. command'[t] = k /\ \A u \in Terminals \ {t} : command'[u] = command[u]
        BY DEF Moves
  <2>3. LeavesAlone(command[t], command'[t], list, trouble'.lists)
        BY <2>2
  <2>4. PICK cmd, cmdA, listed, spoiltA, twins :
           /\ cmd = command /\ cmdA = command' /\ listed = done.listed
           /\ spoiltA = trouble'.lists /\ twins = trouble.twins
        OBVIOUS
  <2>5. /\ ListOK(list, lists[list], cmd, listed, trouble.lists, twins)
        /\ \A u \in Terminals \ {t} : cmdA[u] = cmd[u]
        /\ LeavesAlone(cmd[t], cmdA[t], list, spoiltA) /\ trouble.lists \subseteq spoiltA
        BY <2>1, <2>2, <2>3, <2>4
  <2>6. ListOK(list, lists[list], cmdA, listed, spoiltA, twins)
        BY <2>5, ListUntouched
  <2> QED BY <2>4, <2>6
<1> QED BY <1>1, ListsStep DEF ListInv

\* A command that is not writing, or has no list to write.
NoList(k) == k.at \in {"prepare", "open", "fill"} => LastFile(k).is # "list" /\ Head(k.todo).is # "list"

\* A command that has nothing to do with lists leaves each alone.
LEMMA NoListAlone ==
    ASSUME NEW j, NEW k, NEW list, NEW spoilt, NoList(k), j.at = "fill" => ~ OnList(j, list)
    PROVE  KindOK(k) /\ LeavesAlone(j, k, list, spoilt)
BY DEF NoList, KindOK, LeavesAlone, OnList, ToList

\* An idle terminal has nothing to do with lists.
LEMMA IdleNoList == NoList(Idle)
BY DEF NoList, Idle

\* A kill at a list spoils it; any other leaves the lists alone.
LEMMA KillLists ==
    ASSUME TypesInv, ListInv, NEW t \in Terminals, Kill(t)
    PROVE  ListInv'
<1>1. Moves(t, Idle)
      BY KillMoves
<1>2. lists' = lists /\ done' = done /\ trouble'.twins = trouble.twins /\ trouble.lists \subseteq trouble'.lists
      BY DEF Kill, files, TypesInv, HistoryOK
<1>3. command[t].at = "fill" /\ Head(command[t].todo).is = "list" => Head(command[t].todo).list \in trouble'.lists
      BY DEF Kill, File, TypesInv, HistoryOK
<1>4. KindOK(Idle) /\ \A list \in {"map", "index"} : LeavesAlone(command[t], Idle, list, trouble'.lists)
      BY <1>3 DEF KindOK, LeavesAlone, OnList, ToList, Idle
<1> QED BY <1>1, <1>2, <1>4, ListsUntouched

\* A text of entries is not a torn file.
LEMMA TextNotTorn ==
    ASSUME TypesInv, NEW list \in {"map", "index"}, NEW text \in Seq(Entries(list, closes))
    PROVE  text # Torn
<1>1. Entries(list, closes) \subseteq Closes \cup Signposts
      BY DEF Entries, TypesInv, ClosesOK
<1>2. text \in Seq(Closes \cup Signposts)
      BY <1>1, SeqMono
<1> QED BY <1>2, FolderAssumption

\* A list with one entry more.
LEMMA AddedTo ==
    ASSUME NEW A, NEW text \in Seq(A), NEW e \in A
    PROVE  LET w == Append(text, e)
           IN  /\ Has(w, e)
               /\ \A x : Has(w, x) => Has(text, x) \/ x = e
               /\ \A list, listed, twins :
                     /\ GoodText(list, text, listed, twins)
                     /\ Has(text, e) => MayRecur(list, e, twins)
                     => GoodText(list, w, listed, twins)
<1>1. PICK n \in Nat : n = Len(text)
      OBVIOUS
<1>2. PICK w : w = Append(text, e)
      OBVIOUS
<1>3. Len(w) = n + 1 /\ w[n + 1] = e /\ \A i \in 1..n : w[i] = text[i]
      BY <1>1, <1>2
<1>4. \A i \in 1..(n + 1) : i \in 1..n \/ i = n + 1
      OBVIOUS
<1>5. n + 1 \in 1..(n + 1) /\ \A i \in 1..n : i \in 1..(n + 1)
      OBVIOUS
<1>6. Has(w, e) /\ (\A x : Has(w, x) => Has(text, x) \/ x = e) /\ (\A x : Has(text, x) => Has(w, x))
      BY <1>1, <1>3, <1>4, <1>5 DEF Has
<1>7. ASSUME NEW list, NEW listed, NEW twins, GoodText(list, text, listed, twins),
             Has(text, e) => MayRecur(list, e, twins)
      PROVE  GoodText(list, w, listed, twins)
  <2>1. \A d \in listed : d[1] = list => Has(w, d[2])
        BY <1>6, <1>7 DEF GoodText
  <2>2. ASSUME NEW i \in 1..Len(w), NEW j \in 1..Len(w), i # j, w[i] = w[j]
        PROVE  MayRecur(list, w[i], twins)
    <3>1. CASE i \in 1..n /\ j \in 1..n
          BY <1>1, <1>3, <1>7, <2>2, <3>1 DEF GoodText
    <3>2. CASE i = n + 1 /\ j \in 1..n
      <4>1. w[i] = e /\ Has(text, e)
            BY <1>1, <1>3, <2>2, <3>2 DEF Has
      <4> QED BY <1>7, <4>1
    <3>3. CASE i \in 1..n /\ j = n + 1
      <4>1. w[i] = e /\ Has(text, e)
            BY <1>1, <1>3, <2>2, <3>3 DEF Has
      <4> QED BY <1>7, <4>1
    <3> QED BY <1>3, <1>4, <2>2, <3>1, <3>2, <3>3
  <2> QED BY <2>1, <2>2 DEF GoodText
<1> QED BY <1>2, <1>6, <1>7

\* A command that rewrites a list nobody else has open will write good text.
LEMMA ReadListLists ==
    ASSUME TypesInv, ListInv, NEW t \in Terminals, ReadList(t)
    PROVE  ListInv'
<1>1. PICK j : j = command[t]
      OBVIOUS
<1>2. PICK f : f = File(t)
      OBVIOUS
<1>3. /\ lists' = lists /\ done' = done /\ trouble'.twins = trouble.twins
      /\ trouble.lists \subseteq trouble'.lists
      BY DEF ReadList, files, TypesInv, HistoryOK
<1>4. PICK L \in {"map", "index"} : L = f.list
      BY <1>2, ReadListMoves
<1>5. /\ j.at = "prepare" /\ f.is = "list" /\ WritingOK(j, closes, grants, minted)
      /\ f = Head(j.todo)
      BY <1>1, <1>2, ReadListMoves DEF File
<1>6. f = LastFile(j) /\ ToList(j, L) /\ ~ OnList(j, L)
      BY <1>4, <1>5, AtList DEF ToList, OnList
<1>7. CASE lists[L] = Torn
  <2>1. Moves(t, Idle)
    <3>1. ~ \E k : lists[f.list] # Torn /\ Moves(t, k)
          BY <1>4, <1>7
    <3> QED BY <1>2, <3>1, ReadListMoves
  <2>2. KindOK(Idle) /\ \A list \in {"map", "index"} : LeavesAlone(j, Idle, list, trouble'.lists)
        BY <1>5, NoListAlone, IdleNoList
  <2> QED BY <1>1, <1>3, <2>1, <2>2, ListsUntouched
<1>8. CASE lists[L] # Torn
  <2>1. PICK text : text = lists[L]
        OBVIOUS
  <2>2. PICK k : /\ Moves(t, k) /\ SameCommand(j, k) /\ k.todo = j.todo
                 /\ k.at = "open" /\ Head(k.todo) = f
                 /\ k.read = Append(text, f.entry)
                 /\ text \in Seq(Entries(L, closes)) /\ f.entry \in Entries(L, closes)
    <3>1. ~ (lists[f.list] = Torn /\ Moves(t, Idle))
          BY <1>4, <1>8
    <3>2. \E k : /\ Moves(t, k) /\ SameCommand(j, k) /\ k.todo = j.todo
                 /\ k.at = "open" /\ Head(k.todo) = f
                 /\ k.read = Append(lists[f.list], f.entry)
                 /\ lists[f.list] \in Seq(Entries(f.list, closes))
                 /\ f.entry \in Entries(f.list, closes)
          BY <1>1, <1>2, <3>1, ReadListMoves
    <3> QED BY <1>4, <2>1, <3>2
  <2>3. LastFile(k) = f /\ Entry(k) = f.entry /\ Entry(j) = f.entry /\ ToList(k, L) /\ OnList(k, L)
        BY <1>4, <1>5, <1>6, <2>2 DEF LastFile, Entry, ToList, OnList, SameCommand
  <2>4. KindOK(k)
    <3>1. KindOK(j) /\ k.do = j.do /\ k.close = j.close /\ k.all = j.all
          BY <1>1, <2>2 DEF ListInv, KindsOK, SameCommand
    <3> QED BY <1>4, <1>6, <2>3, <3>1 DEF KindOK, ToList
  <2>5. ASSUME NEW list \in {"map", "index"}
        PROVE  ListOK(list, lists'[list], command', done'.listed, trouble'.lists, trouble'.twins)
    <3>0. PICK cmd, cmdA, listed, spoilt, spoiltA, twins :
             /\ cmd = command /\ cmdA = command' /\ listed = done.listed
             /\ spoilt = trouble.lists /\ spoiltA = trouble'.lists /\ twins = trouble.twins
          OBVIOUS
    <3>1. /\ ListOK(list, lists[list], cmd, listed, spoilt, twins)
          /\ cmdA[t] = k /\ \A u \in Terminals \ {t} : cmdA[u] = cmd[u]
          /\ spoilt \subseteq spoiltA /\ cmd[t] = j
          BY <1>1, <1>3, <2>2, <3>0 DEF ListInv, Moves
    <3>2. ListOK(list, lists[list], cmdA, listed, spoiltA, twins)
      <4>1. CASE list # L
        <5>1. LeavesAlone(j, k, list, spoiltA)
              BY <1>5, <1>4, <2>2, <2>3, <4>1 DEF LeavesAlone, ToList, OnList
        <5> QED BY <3>1, <5>1, ListUntouched
      <4>2. CASE list = L
        <5>1. Alone(L, cmdA, twins)
              BY <1>6, <2>3, <3>1, <4>2 DEF ListOK, Alone
        <5>2. ASSUME L \notin spoiltA
              PROVE  ListKept(L, text, cmdA, listed, twins) /\ Unlisted(L, text, cmdA, twins)
          <6>1. ListKept(L, text, cmd, listed, twins) /\ Unlisted(L, text, cmd, twins)
                BY <2>1, <3>1, <4>2, <5>2 DEF ListOK
          <6>2. \A u \in Terminals \ {t} : ~ OnList(cmd[u], L)
            <7>1. ASSUME NEW u \in Terminals \ {t}, OnList(command[u], L)
                  PROVE  FALSE
              <8>1. u \in Busy \ {t} /\ command[u].at \in {"open", "fill"}
                    /\ File(u).is = "list" /\ File(u).list = L
                    BY <7>1 DEF OnList, Busy, File, Idle
              <8>2. trouble'.lists = trouble.lists \cup {L}
                    BY <1>2, <1>4, <8>1 DEF ReadList, TypesInv, HistoryOK
              <8> QED BY <3>0, <5>2, <8>2
            <7> QED BY <3>0, <7>1
          <6>3. Has(text, f.entry) => MayRecur(L, f.entry, twins)
                BY <1>6, <1>8, <2>1, <2>3, <3>1, <6>1 DEF Unlisted
          <6>4. /\ Has(k.read, f.entry) /\ \A x : Has(k.read, x) => Has(text, x) \/ x = f.entry
                /\ GoodText(L, k.read, listed, twins)
            <7>1. PICK A : A = Entries(L, closes)
                  OBVIOUS
            <7>2. text \in Seq(A) /\ f.entry \in A /\ k.read = Append(text, f.entry)
                  BY <2>2, <7>1
            <7>3. GoodText(L, text, listed, twins)
                  BY <1>8, <2>1, <6>1 DEF ListKept
            <7> QED BY <6>3, <7>2, <7>3, AddedTo
          <6>5. \A u \in Terminals : OnList(cmdA[u], L) => u = t
                BY <3>1, <6>2
          <6>6. RewriteOK(k, L, text, listed, twins)
                BY <1>8, <2>1, <2>2, <2>3, <6>4 DEF RewriteOK
          <6>7. ListKept(L, text, cmdA, listed, twins)
                BY <1>8, <2>1, <3>1, <6>1, <6>2, <6>5, <6>6 DEF ListKept
          <6>8. ASSUME NEW u \in Terminals, ToList(cmdA[u], L), ~ OnList(cmdA[u], L)
                PROVE  /\ text # Torn /\ Has(text, Entry(cmdA[u])) => MayRecur(L, Entry(cmdA[u]), twins)
                       /\ \A v \in Terminals : OnList(cmdA[v], L) /\ Has(cmdA[v].read, Entry(cmdA[u])) =>
                             MayRecur(L, Entry(cmdA[u]), twins)
            <7>1. u # t /\ cmdA[u] = cmd[u]
                  BY <2>3, <3>1, <6>8
            <7>2. Has(text, Entry(cmd[u])) => MayRecur(L, Entry(cmd[u]), twins)
                  BY <1>8, <2>1, <6>1, <6>8, <7>1 DEF Unlisted
            <7>3. f.entry = Entry(cmd[u]) => MayRecur(L, Entry(cmd[u]), twins)
                  BY <2>3, <3>1, <5>1, <6>8, <7>1 DEF Alone
            <7> QED BY <3>1, <6>4, <6>5, <7>1, <7>2, <7>3
          <6>9. Unlisted(L, text, cmdA, twins)
                BY <6>8 DEF Unlisted
          <6> QED BY <6>7, <6>9
        <5> QED BY <2>1, <4>2, <5>1, <5>2 DEF ListOK
      <4> QED BY <4>1, <4>2
    <3> QED BY <1>3, <3>0, <3>2
  <2> QED BY <2>2, <2>4, <2>5, ListsStep DEF ListInv
<1> QED BY <1>7, <1>8

\* Going on within one command changes neither its entry nor its list.
LEMMA SameKind ==
    ASSUME NEW j, NEW k, SameCommand(j, k), KindOK(j),
           j.at \in {"prepare", "open", "fill"}, k.at \in {"prepare", "open", "fill"}
    PROVE  /\ KindOK(k) /\ Entry(k) = Entry(j) /\ LastFile(k) = LastFile(j)
           /\ \A list : ToList(k, list) <=> ToList(j, list)
<1>1. k.all = j.all /\ k.do = j.do /\ k.close = j.close
      BY DEF SameCommand
<1>2. LastFile(k) = LastFile(j) /\ Entry(k) = Entry(j)
      BY <1>1 DEF LastFile, Entry
<1>3. \A list : ToList(k, list) <=> ToList(j, list)
      BY <1>2 DEF ToList
<1> QED BY <1>1, <1>2, <1>3 DEF KindOK

\* Emptying a list: nobody else was rewriting it, or it is spoilt.
LEMMA OpenLists ==
    ASSUME TypesInv, ListInv, NEW t \in Terminals, Open(t)
    PROVE  ListInv'
<1>1. PICK j : j = command[t]
      OBVIOUS
<1>2. PICK f : f = File(t)
      OBVIOUS
<1>3. PICK k : /\ WritingOK(j, closes, grants, minted) /\ j.at = "open"
               /\ f = Head(j.todo) /\ f \in FilesFor(j.close)
               /\ Moves(t, k) /\ SameCommand(j, k) /\ k.at = "fill"
               /\ k.todo = j.todo /\ k.read = j.read
               /\ Opened(j.close, f, j.n)
               /\ UNCHANGED <<budget, minted, done, trouble>>
      BY <1>1, <1>2, OpenMoves
<1>4. done' = done /\ trouble' = trouble
      BY <1>3
<1>5. /\ KindOK(k) /\ Entry(k) = Entry(j)
      /\ \A list : ToList(k, list) <=> ToList(j, list)
  <2>1. KindOK(j)
        BY <1>1 DEF ListInv, KindsOK
  <2> QED BY <1>3, <2>1, SameKind
<1>6. CASE f.is # "list"
  <2>1. lists' = lists
        BY <1>3, <1>6 DEF Opened
  <2>2. \A list \in {"map", "index"} : LeavesAlone(j, k, list, trouble'.lists)
        BY <1>3, <1>5, <1>6 DEF LeavesAlone, OnList
  <2> QED BY <1>1, <1>3, <1>4, <1>5, <2>1, <2>2, ListsUntouched
<1>7. CASE f.is = "list"
  <2>1. PICK L \in {"map", "index"} : L = f.list
        BY <1>3, <1>7, FileFacts
  <2>2. lists'[L] = Torn /\ \A list \in {"map", "index"} \ {L} : lists'[list] = lists[list]
        BY <1>3, <1>7, <2>1 DEF Opened
  <2>3. OnList(j, L) /\ OnList(k, L) /\ ToList(j, L)
        BY <1>3, <1>7, <2>1, AtList DEF OnList, ToList
  <2>4. ASSUME NEW list \in {"map", "index"}
        PROVE  ListOK(list, lists'[list], command', done'.listed, trouble'.lists, trouble'.twins)
    <3>0. PICK cmd, cmdA, listed, spoilt, twins :
             /\ cmd = command /\ cmdA = command' /\ listed = done.listed
             /\ spoilt = trouble.lists /\ twins = trouble.twins
          OBVIOUS
    <3>1. /\ ListOK(list, lists[list], cmd, listed, spoilt, twins)
          /\ cmdA[t] = k /\ \A u \in Terminals \ {t} : cmdA[u] = cmd[u]
          /\ cmd[t] = j
          BY <1>1, <1>3, <3>0 DEF ListInv, Moves
    <3>2. ListOK(list, lists'[list], cmdA, listed, spoilt, twins)
      <4>1. CASE list # L
        <5>1. LeavesAlone(j, k, list, spoilt)
              BY <1>3, <1>5, <1>7, <2>1, <2>3, <4>1 DEF LeavesAlone, ToList, OnList
        <5>2. ListOK(list, lists[list], cmdA, listed, spoilt, twins)
              BY <3>1, <5>1, ListUntouched
        <5> QED BY <2>2, <4>1, <5>2
      <4>2. CASE list = L
        <5>1. Alone(L, cmdA, twins)
              BY <1>5, <3>1, <4>2 DEF ListOK, Alone
        <5>2. ASSUME L \notin spoilt
              PROVE  ListKept(L, Torn, cmdA, listed, twins) /\ Unlisted(L, Torn, cmdA, twins)
          <6>1. ListKept(L, lists[L], cmd, listed, twins) /\ Unlisted(L, lists[L], cmd, twins)
                BY <3>1, <4>2, <5>2 DEF ListOK
          <6>2. /\ RewriteOK(j, L, lists[L], listed, twins)
                /\ \A u \in Terminals \ {t} : ~ OnList(cmd[u], L)
                BY <2>3, <3>1, <6>1 DEF ListKept
          <6>3. RewriteOK(k, L, Torn, listed, twins)
                BY <1>3, <1>5, <6>2 DEF RewriteOK
          <6>4. ListKept(L, Torn, cmdA, listed, twins)
                BY <1>3, <2>3, <3>1, <6>2, <6>3 DEF ListKept
          <6>5. Unlisted(L, Torn, cmdA, twins)
            <7>1. \A u \in Terminals : /\ OnList(cmdA[u], L) => u = t
                                       /\ ~ OnList(cmdA[u], L) => u # t
                  BY <2>3, <3>1, <6>2
            <7> QED BY <1>3, <2>3, <3>1, <6>1, <7>1 DEF Unlisted
          <6> QED BY <6>4, <6>5
        <5> QED BY <2>2, <4>2, <5>1, <5>2 DEF ListOK
      <4> QED BY <4>1, <4>2
    <3> QED BY <1>4, <3>0, <3>2
  <2> QED BY <1>3, <1>5, <2>4, ListsStep DEF ListInv
<1> QED BY <1>6, <1>7

\* Writing a list: the text is the one that was there and the new entry.
LEMMA FillLists ==
    ASSUME TypesInv, ListInv, NEW t \in Terminals, Fill(t)
    PROVE  ListInv'
<1>1. PICK j : j = command[t]
      OBVIOUS
<1>2. PICK f : f = File(t)
      OBVIOUS
<1>3. PICK k : /\ WritingOK(j, closes, grants, minted) /\ j.at = "fill"
               /\ f = Head(j.todo) /\ f \in FilesFor(j.close)
               /\ Moves(t, k) /\ GoesOn(j, k)
               /\ Filled(j, f) /\ Recorded(j)
               /\ UNCHANGED <<budget, trouble>>
      BY <1>1, <1>2, FillMoves
<1>4. trouble' = trouble
      BY <1>3
<1>5. PICK last : last = LastFile(j)
      OBVIOUS
<1>6. /\ \A i \in 1..Len(j.all) : j.all[i].is = "list" => j.all[i] = last
      /\ f.is = "list" => f = last /\ Tail(j.todo) = <<>>
      /\ Tail(j.todo) = <<>> => f = last
      BY <1>3, <1>5, AtList
<1>7. CASE f.is # "list"
  <2>1. lists' = lists
        BY <1>3, <1>7 DEF Filled, FilledRecord, FilledGrant
  <2>2. done'.listed = done.listed
    <3>1. CASE Tail(j.todo) # <<>>
          BY <1>3, <3>1 DEF Recorded
    <3>2. CASE Tail(j.todo) = <<>>
      <4>1. {h \in 1..Len(j.all) : j.all[h].is = "list"} = {}
            BY <1>6, <1>7, <3>2
      <4>2. done'.listed = done.listed \cup
               {<<w.list, w.entry>> : w \in {j.all[i] : i \in {h \in 1..Len(j.all) : j.all[h].is = "list"}}}
            BY <1>3, <3>2 DEF Recorded, RecordedAll
      <4>3. {j.all[i] : i \in {h \in 1..Len(j.all) : j.all[h].is = "list"}} = {}
            BY <4>1
      <4> QED BY <4>2, <4>3
    <3> QED BY <3>1, <3>2
  <2>3. KindOK(k) /\ \A list \in {"map", "index"} : LeavesAlone(j, k, list, trouble'.lists)
    <3>1. \A list : ~ OnList(j, list)
          BY <1>3, <1>7 DEF OnList
    <3>2. CASE k = Idle
          BY <3>1, <3>2, IdleNoList, NoListAlone
    <3>3. CASE SameCommand(j, k) /\ k.at = "prepare"
      <4>1. KindOK(j)
            BY <1>1 DEF ListInv, KindsOK
      <4>2. KindOK(k) /\ Entry(k) = Entry(j) /\ \A list : ToList(k, list) <=> ToList(j, list)
            BY <1>3, <3>3, <4>1, SameKind
      <4>3. \A list : ~ OnList(k, list)
            BY <3>3 DEF OnList
      <4> QED BY <3>1, <4>2, <4>3 DEF LeavesAlone
    <3> QED BY <1>3, <3>2, <3>3 DEF GoesOn
  <2> QED BY <1>1, <1>3, <1>4, <2>1, <2>2, <2>3, ListsUntouched
<1>8. CASE f.is = "list"
  <2>1. PICK L \in {"map", "index"} : L = f.list
        BY <1>3, <1>8, FileFacts
  <2>2. PICK e : e = f.entry
        OBVIOUS
  <2>3. k = Idle
        BY <1>3, <1>6, <1>8 DEF GoesOn
  <2>4. KindOK(k) /\ \A list : ~ ToList(k, list) /\ ~ OnList(k, list)
        BY <2>3 DEF KindOK, ToList, OnList, Idle
  <2>5. OnList(j, L) /\ ToList(j, L) /\ Entry(j) = e
        BY <1>3, <1>5, <1>6, <1>8, <2>1, <2>2 DEF OnList, ToList, Entry
  <2>6. /\ lists'[L] = j.read \/ (lists'[L] = Torn /\ lists[L] # Torn)
        /\ \A list \in {"map", "index"} \ {L} : lists'[list] = lists[list]
        BY <1>3, <1>8, <2>1 DEF Filled, FilledList
  <2>7. \A d \in done'.listed : d \in done.listed \/ d = <<L, e>>
    <3>1. done'.listed = done.listed \cup
             {<<w.list, w.entry>> : w \in {j.all[i] : i \in {h \in 1..Len(j.all) : j.all[h].is = "list"}}}
          BY <1>3, <1>6, <1>8 DEF Recorded, RecordedAll
    <3>2. \A w \in {j.all[i] : i \in {h \in 1..Len(j.all) : j.all[h].is = "list"}} : w = f
          BY <1>6, <1>8
    <3> QED BY <2>1, <2>2, <3>1, <3>2
  <2>8. ASSUME NEW list \in {"map", "index"}
        PROVE  ListOK(list, lists'[list], command', done'.listed, trouble'.lists, trouble'.twins)
    <3>0. PICK cmd, cmdA, listed, listedA, spoilt, twins :
             /\ cmd = command /\ cmdA = command' /\ listed = done.listed /\ listedA = done'.listed
             /\ spoilt = trouble.lists /\ twins = trouble.twins
          OBVIOUS
    <3>1. /\ ListOK(list, lists[list], cmd, listed, spoilt, twins)
          /\ cmdA[t] = k /\ \A u \in Terminals \ {t} : cmdA[u] = cmd[u]
          /\ cmd[t] = j
          BY <1>1, <1>3, <3>0 DEF ListInv, Moves
    <3>2. ListOK(list, lists'[list], cmdA, listedA, spoilt, twins)
      <4>1. CASE list # L
        <5>1. LeavesAlone(j, k, list, spoilt)
              BY <1>3, <1>8, <2>1, <2>4, <4>1 DEF LeavesAlone, OnList
        <5>2. \A d \in listedA : d[1] = list => d \in listed
              BY <2>7, <3>0, <4>1
        <5>3. ListOK(list, lists[list], cmdA, listedA, spoilt, twins)
              BY <3>1, <5>1, <5>2, ListUntouched
        <5> QED BY <2>6, <4>1, <5>3
      <4>2. CASE list = L
        <5>1. Alone(L, cmdA, twins)
              BY <2>4, <3>1, <4>2 DEF ListOK, Alone
        <5>2. ASSUME L \notin spoilt
              PROVE  ListKept(L, lists'[L], cmdA, listedA, twins) /\ Unlisted(L, lists'[L], cmdA, twins)
          <6>1. ListKept(L, lists[L], cmd, listed, twins) /\ Unlisted(L, lists[L], cmd, twins)
                BY <3>1, <4>2, <5>2 DEF ListOK
          <6>2. /\ RewriteOK(j, L, lists[L], listed, twins)
                /\ \A u \in Terminals \ {t} : ~ OnList(cmd[u], L)
                BY <2>5, <3>1, <6>1 DEF ListKept
          <6>3. lists'[L] = j.read
                BY <1>3, <2>6, <6>2 DEF RewriteOK
          <6>4. GoodText(L, j.read, listedA, twins)
            <7>1. GoodText(L, j.read, listed, twins) /\ Has(j.read, e)
                  BY <2>5, <6>2 DEF RewriteOK
            <7>2. \A d \in listedA : d[1] = L => Has(j.read, d[2])
                  BY <2>7, <3>0, <7>1 DEF GoodText
            <7> QED BY <7>1, <7>2 DEF GoodText
          <6>5. j.read # Torn
            <7>1. j.read \in Seq(Entries(L, closes))
                  BY <1>3, <1>8, <2>1 DEF WritingOK, AtFileOK
            <7> QED BY <7>1, TextNotTorn
          <6>6. \A u \in Terminals : ~ OnList(cmdA[u], L)
                BY <2>4, <3>1, <6>2
          <6>7. ListKept(L, j.read, cmdA, listedA, twins)
                BY <6>4, <6>5, <6>6 DEF ListKept
          <6>8. ASSUME NEW u \in Terminals, ToList(cmdA[u], L)
                PROVE  Has(j.read, Entry(cmdA[u])) => MayRecur(L, Entry(cmdA[u]), twins)
            <7>1. u # t /\ cmdA[u] = cmd[u]
                  BY <2>4, <3>1, <6>8
            <7> QED BY <2>5, <3>1, <6>1, <6>2, <6>8, <7>1 DEF Unlisted
          <6>9. Unlisted(L, j.read, cmdA, twins)
                BY <6>6, <6>8 DEF Unlisted
          <6> QED BY <6>3, <6>7, <6>9
        <5> QED BY <4>2, <5>1, <5>2 DEF ListOK
      <4> QED BY <4>1, <4>2
    <3> QED BY <1>4, <3>0, <3>2
  <2> QED BY <1>3, <2>4, <2>8, ListsStep DEF ListInv
<1> QED BY <1>7, <1>8

\* A command starts that will add e to a list.
LEMMA NewEntry ==
    ASSUME ListInv, NEW t \in Terminals, NEW k, Moves(t, k), KindOK(k), command[t] = Idle,
           NEW L \in {"map", "index"}, NEW e, ToList(k, L), Entry(k) = e,
           \A list : ~ OnList(k, list),
           lists' = lists, done' = done, trouble'.lists = trouble.lists,
           trouble.twins \subseteq trouble'.twins,
           \A u \in Terminals \ {t} : ToList(command[u], L) /\ Entry(command[u]) = e =>
              MayRecur(L, e, trouble'.twins),
           L \notin trouble.lists /\ lists[L] # Torn /\ Has(lists[L], e) => MayRecur(L, e, trouble'.twins),
           \A u \in Terminals : L \notin trouble.lists /\ OnList(command[u], L) /\ Has(command[u].read, e) =>
              MayRecur(L, e, trouble'.twins)
    PROVE  ListInv'
<1>1. ASSUME NEW list \in {"map", "index"}
      PROVE  ListOK(list, lists'[list], command', done'.listed, trouble'.lists, trouble'.twins)
  <2>0. PICK cmd, cmdA, listed, spoilt, twins, twinsA :
           /\ cmd = command /\ cmdA = command' /\ listed = done.listed
           /\ spoilt = trouble.lists /\ twins = trouble.twins /\ twinsA = trouble'.twins
        OBVIOUS
  <2>1. /\ ListOK(list, lists[list], cmd, listed, spoilt, twins)
        /\ cmdA[t] = k /\ \A u \in Terminals \ {t} : cmdA[u] = cmd[u]
        /\ cmd[t] = Idle /\ twins \subseteq twinsA
        BY <2>0 DEF ListInv, Moves
  <2>2. ListOK(list, lists[list], cmdA, listed, spoilt, twinsA)
    <3>1. CASE list # L
      <4>1. LeavesAlone(Idle, k, list, spoilt)
            BY <3>1 DEF LeavesAlone, ToList, Idle
      <4> QED BY <2>1, <4>1, ListUntouched
    <3>2. CASE list = L
      <4>0. PICK text : text = lists[L]
            OBVIOUS
      <4>1. \A x : MayRecur(L, x, twins) => MayRecur(L, x, twinsA)
            BY <2>1 DEF MayRecur
      <4>2. \A u \in Terminals : /\ OnList(cmdA[u], L) <=> OnList(cmd[u], L)
                                 /\ OnList(cmd[u], L) => u # t /\ cmdA[u] = cmd[u]
        <5>1. ~ OnList(Idle, L)
              BY DEF OnList, Idle
        <5> QED BY <2>1, <5>1
      <4>3. Alone(L, cmdA, twinsA)
            BY <2>0, <2>1, <3>2, <4>1 DEF ListOK, Alone
      <4>4. ASSUME L \notin spoilt
            PROVE  ListKept(L, text, cmdA, listed, twinsA) /\ Unlisted(L, text, cmdA, twinsA)
        <5>1. ListKept(L, text, cmd, listed, twins) /\ Unlisted(L, text, cmd, twins)
              BY <2>1, <3>2, <4>0, <4>4 DEF ListOK
        <5>2. text = Torn => \E u \in Terminals : cmdA[u].at = "fill" /\ OnList(cmdA[u], L)
              BY <4>2, <5>1 DEF ListKept
        <5>3. text # Torn => GoodText(L, text, listed, twinsA)
              BY <2>1, <5>1, GoodTextGrows DEF ListKept
        <5>4. ASSUME NEW u \in Terminals, OnList(cmdA[u], L)
              PROVE  /\ RewriteOK(cmdA[u], L, text, listed, twinsA)
                     /\ \A v \in Terminals \ {u} : ~ OnList(cmdA[v], L)
          <6>1. /\ RewriteOK(cmd[u], L, text, listed, twins) /\ cmdA[u] = cmd[u]
                /\ \A v \in Terminals \ {u} : ~ OnList(cmd[v], L)
                BY <4>2, <5>1, <5>4 DEF ListKept
          <6>2. GoodText(L, cmd[u].read, listed, twinsA)
                BY <2>1, <6>1, GoodTextGrows DEF RewriteOK
          <6> QED BY <4>2, <6>1, <6>2 DEF RewriteOK
        <5>5. ListKept(L, text, cmdA, listed, twinsA)
              BY <5>2, <5>3, <5>4 DEF ListKept
        <5>6. ASSUME NEW u \in Terminals, ToList(cmdA[u], L), ~ OnList(cmdA[u], L)
              PROVE  /\ text # Torn /\ Has(text, Entry(cmdA[u])) => MayRecur(L, Entry(cmdA[u]), twinsA)
                     /\ \A v \in Terminals : OnList(cmdA[v], L) /\ Has(cmdA[v].read, Entry(cmdA[u])) =>
                           MayRecur(L, Entry(cmdA[u]), twinsA)
          <6>1. CASE u = t
                BY <2>0, <2>1, <4>0, <4>2, <4>4, <6>1
          <6>2. CASE u # t
            <7>1. cmdA[u] = cmd[u]
                  BY <2>1, <6>2
            <7> QED BY <4>1, <4>2, <5>1, <5>6, <7>1 DEF Unlisted
          <6> QED BY <6>1, <6>2
        <5>7. Unlisted(L, text, cmdA, twinsA)
              BY <5>6 DEF Unlisted
        <5> QED BY <5>5, <5>7
      <4> QED BY <3>2, <4>0, <4>3, <4>4 DEF ListOK
    <3> QED BY <3>1, <3>2
  <2> QED BY <2>0, <2>2
<1> QED BY <1>1, ListsStep DEF ListInv

\* The path that protect is to add is neither listed nor on the way.
LEMMA ProtectLists ==
    ASSUME TypesInv, ListInv, NEW t \in Terminals, NEW me \in People, NEW c \in Closes, Protect(t, me, c)
    PROVE  ListInv'
<1>1. PICK root \in ContentKeys : \E k :
         Moves(t, k) /\ Started(k, "protect", me, c, ToFound(me, c, root))
      BY ProtectMoves
<1>2. PICK todo : todo = ToFound(me, c, root)
      OBVIOUS
<1>3. PICK k : Moves(t, k) /\ Started(k, "protect", me, c, todo)
      BY <1>1, <1>2
<1>4. /\ Len(todo) = 3 /\ todo[3] = ListFile("map", c) /\ todo[1].is = "record"
      /\ todo \in Seq(FilesFor(c))
  <2>1. /\ Len(todo) = 3 /\ todo[3] = ListFile("map", c) /\ todo \in Seq(FilesFor(c))
        /\ todo[1] = RecordFile(FoundRecord(c, me), root)
        BY <1>2, FoundingFiles
  <2>2. todo[1].is = "record"
        BY <2>1 DEF RecordFile
  <2> QED BY <2>1, <2>2
<1>5. /\ lists' = lists /\ done' = done /\ trouble' = trouble
      /\ c \notin DOMAIN closes /\ command[t] = Idle
      /\ \A u \in Busy : command[u].do = "protect" => command[u].close # c
      BY DEF Protect, Starts, files
<1>6. LastFile(k) = ListFile("map", c) /\ Head(k.todo) = todo[1]
      BY <1>3, <1>4 DEF Started, LastFile
<1>7. /\ ToList(k, "map") /\ Entry(k) = c /\ ~ ToList(k, "index") /\ \A list : ~ OnList(k, list)
      BY <1>3, <1>4, <1>6 DEF Started, ToList, OnList, Entry, ListFile
<1>8. KindOK(k)
      BY <1>3, <1>7 DEF KindOK, Started
<1>9. ASSUME NEW u \in Terminals, ToList(command[u], "map")
      PROVE  Entry(command[u]) # c
  <2>1. u \in Busy /\ command[u].do = "protect" /\ Entry(command[u]) = command[u].close
        BY <1>9 DEF ListInv, KindsOK, KindOK, ToList, Busy, Idle
  <2> QED BY <1>5, <2>1
<1>10. ASSUME NEW text \in Seq(DOMAIN closes)
       PROVE  ~ Has(text, c)
  <2>1. \A i \in 1..Len(text) : text[i] \in DOMAIN closes
        BY ElementIn
  <2> QED BY <1>5, <2>1 DEF Has
<1>11. ASSUME lists["map"] # Torn
       PROVE  ~ Has(lists["map"], c)
  <2>1. lists["map"] \in Seq(DOMAIN closes)
        BY <1>11 DEF TypesInv, ListsOK, Entries
  <2> QED BY <1>10, <2>1
<1>12. ASSUME NEW u \in Terminals, OnList(command[u], "map")
       PROVE  ~ Has(command[u].read, c)
  <2>1. WritingOK(command[u], closes, grants, minted)
        BY <1>12, AtWriting DEF OnList
  <2>2. command[u].read \in Seq(DOMAIN closes)
        BY <1>12, <2>1 DEF WritingOK, AtFileOK, OnList, Entries
  <2> QED BY <1>10, <2>2
<1> QED BY <1>3, <1>5, <1>7, <1>8, <1>9, <1>11, <1>12, NewEntry

\* cell new is given its path: a second one for it makes it a twin.
LEMMA RaiseLists ==
    ASSUME TypesInv, ListInv, NEW t \in Terminals, NEW me \in People, NEW path \in Signposts,
           Raise(t, me, path)
    PROVE  ListInv'
<1>1. PICK todo : todo = << ListFile("index", path) >>
      OBVIOUS
<1>2. PICK k : Moves(t, k) /\ Started(k, "raise", me, Commons, todo)
      BY <1>1, RaiseMoves
<1>3. Len(todo) = 1 /\ todo[1] = ListFile("index", path) /\ Head(todo) = todo[1]
      BY <1>1
<1>4. /\ lists' = lists /\ done' = done /\ trouble'.lists = trouble.lists
      /\ trouble.twins \subseteq trouble'.twins /\ command[t] = Idle
      /\ lists["index"] # Torn /\ ~ Lists("index", path)
      /\ (\E u \in Busy : command[u].do = "raise" /\ File(u).entry = path) => path \in trouble'.twins
      BY DEF Raise, Starts, files, TypesInv, HistoryOK
<1>5. LastFile(k) = ListFile("index", path) /\ Head(k.todo) = ListFile("index", path)
      BY <1>2, <1>3 DEF Started, LastFile
<1>6. k.at = "prepare" /\ k.do = "raise" /\ Len(k.all) = 1
      BY <1>2, <1>3 DEF Started, ListFile
<1>7. /\ ToList(k, "index") /\ Entry(k) = path /\ ~ ToList(k, "map") /\ \A list : ~ OnList(k, list)
      BY <1>5, <1>6 DEF ToList, OnList, Entry, ListFile
<1>8. KindOK(k)
      BY <1>6, <1>7 DEF KindOK
<1>9. ASSUME NEW u \in Terminals, ToList(command[u], "index"), Entry(command[u]) = path
      PROVE  MayRecur("index", path, trouble'.twins)
  <2>1. u \in Busy /\ command[u].do = "raise" /\ Len(command[u].all) = 1
        BY <1>9 DEF ListInv, KindsOK, KindOK, ToList, Busy, Idle
  <2>2. WritingOK(command[u], closes, grants, minted) /\ File(u) = Head(command[u].todo)
        BY <1>9, AtWriting DEF ToList
  <2>3. File(u) = LastFile(command[u])
    <3>1. PICK j : j = command[u]
          OBVIOUS
    <3>2. PICK n \in Nat : n = Len(j.todo)
          BY <2>2, <3>1, WritingFacts
    <3>3. n >= 1 /\ n <= 1 /\ Head(j.todo) = j.todo[1]
          BY <2>1, <2>2, <3>1, <3>2, WritingFacts DEF WritingOK, TodoOK
    <3>4. n = 1 /\ 1 \in 1..n
          BY <3>3
    <3>5. j.todo[1] = j.all[1 + (1 - 1)]
          BY <2>1, <2>2, <3>1, <3>2, <3>4 DEF WritingOK, TodoOK
    <3> QED BY <2>1, <2>2, <3>1, <3>3, <3>5 DEF LastFile
  <2>4. File(u).entry = path
        BY <1>9, <2>3 DEF Entry
  <2> QED BY <1>4, <2>1, <2>4 DEF MayRecur
<1>10. ~ Has(lists["index"], path)
      BY <1>4 DEF Lists, Has
<1>11. ASSUME NEW u \in Terminals, "index" \notin trouble.lists,
              OnList(command[u], "index"), Has(command[u].read, path)
       PROVE  MayRecur("index", path, trouble'.twins)
  <2>1. RewriteOK(command[u], "index", lists["index"], done.listed, trouble.twins)
        BY <1>11 DEF ListInv, ListOK, ListKept
  <2>2. WritingOK(command[u], closes, grants, minted)
        BY <1>11, AtWriting DEF OnList
  <2>3. PICK j : j = command[u]
        OBVIOUS
  <2>4. j.at = "open" /\ j.read = Append(lists["index"], Entry(j))
        BY <1>4, <1>11, <2>1, <2>3 DEF RewriteOK, OnList
  <2>5. Head(j.todo) = LastFile(j) /\ LastFile(j) \in FilesFor(j.close)
        BY <1>11, <2>2, <2>3, AtList DEF OnList
  <2>6. ToList(j, "index") /\ Entry(j) \in Signposts
        BY <1>11, <2>3, <2>5, FileFacts DEF ToList, OnList, Entry
  <2>7. lists["index"] \in Seq(Signposts)
        BY <1>4 DEF TypesInv, ListsOK, Entries
  <2>8. path = Entry(j)
        BY <1>10, <1>11, <2>3, <2>4, <2>6, <2>7, AddedTo
  <2> QED BY <1>9, <2>3, <2>6, <2>8
<1> QED BY <1>2, <1>4, <1>7, <1>8, <1>9, <1>10, <1>11, NewEntry

\* A command that has no list to write starts or goes on.
LEMMA StartedNoList ==
    ASSUME NEW k, NEW do, NEW me, NEW c, NEW todo, Started(k, do, me, c, todo),
           Len(todo) \in Nat, Len(todo) >= 1, Head(todo) = todo[1],
           \A i \in 1..Len(todo) : todo[i].is # "list"
    PROVE  NoList(k)
<1>1. 1 \in 1..Len(todo) /\ Len(todo) \in 1..Len(todo)
      OBVIOUS
<1> QED BY <1>1 DEF NoList, Started, LastFile

\* The steps that leave files and reports as they are.
LEMMA QuietLists ==
    ASSUME ListInv, NEW t \in Terminals, NEW k, Moves(t, k), NoList(k), command[t].at # "fill",
           UNCHANGED <<files, minted, done>>,
           trouble'.lists = trouble.lists, trouble'.twins = trouble.twins
    PROVE  ListInv'
<1>1. KindOK(k) /\ \A list \in {"map", "index"} : LeavesAlone(command[t], k, list, trouble'.lists)
      BY NoListAlone
<1>2. lists' = lists /\ done' = done
      BY DEF files
<1> QED BY <1>1, <1>2, ListsUntouched

\* The invariant holds in the empty folder.
LEMMA InitLists == Init => ListInv
<1> SUFFICES ASSUME Init PROVE ListInv
    OBVIOUS
<1>1. /\ \A t \in Terminals : command[t] = Idle
      /\ lists["map"] = <<Commons>> /\ lists["index"] = <<>>
      /\ done.listed = {<<"map", Commons>>}
      BY DEF Init
<1>2. \A list : ~ ToList(Idle, list) /\ ~ OnList(Idle, list)
      BY DEF ToList, OnList, Idle
<1>3. KindsOK
      BY <1>1, <1>2 DEF KindsOK, KindOK
<1>4. <<Commons>> # Torn /\ <<>> # Torn
  <2>1. <<Commons>> \in Seq(Closes \cup Signposts)
        BY FolderAssumption
  <2>2. <<>> \in Seq(Closes \cup Signposts)
        OBVIOUS
  <2> QED BY <2>1, <2>2, FolderAssumption
<1>5. GoodText("map", <<Commons>>, done.listed, trouble.twins)
  <2>1. Len(<<Commons>>) = 1 /\ <<Commons>>[1] = Commons
        OBVIOUS
  <2>2. \A d \in done.listed : d[2] = Commons
        BY <1>1
  <2>3. Has(<<Commons>>, Commons)
    <3>1. 1 \in 1..Len(<<Commons>>)
          BY <2>1
    <3> QED BY <2>1, <3>1 DEF Has
  <2>4. \A i, j \in 1..Len(<<Commons>>) : i = j
        BY <2>1
  <2> QED BY <2>2, <2>3, <2>4 DEF GoodText
<1>6. GoodText("index", <<>>, done.listed, trouble.twins)
  <2>1. Len(<<>>) = 0 /\ 1..0 = {}
        OBVIOUS
  <2>2. \A d \in done.listed : d[1] = "map"
        BY <1>1
  <2>3. "map" # "index"
        OBVIOUS
  <2> QED BY <2>1, <2>2, <2>3 DEF GoodText
<1>7. ASSUME NEW list \in {"map", "index"}
      PROVE  ListOK(list, lists[list], command, done.listed, trouble.lists, trouble.twins)
  <2>1. lists[list] # Torn /\ GoodText(list, lists[list], done.listed, trouble.twins)
        BY <1>1, <1>4, <1>5, <1>6
  <2>2. ListKept(list, lists[list], command, done.listed, trouble.twins)
        BY <1>1, <1>2, <2>1 DEF ListKept
  <2>3. Alone(list, command, trouble.twins) /\ Unlisted(list, lists[list], command, trouble.twins)
        BY <1>1, <1>2 DEF Alone, Unlisted
  <2> QED BY <2>2, <2>3 DEF ListOK
<1> QED BY <1>3, <1>7 DEF ListInv

\* Every step preserves it.
LEMMA NextLists == TypesInv /\ ListInv /\ [Next]_vars => ListInv'
<1> SUFFICES ASSUME TypesInv, ListInv, [Next]_vars PROVE ListInv'
    OBVIOUS
<1>1. ASSUME NEW t \in Terminals, NEW me \in People, NEW c \in Closes, NEW with \in Receivers,
             NEW facet \in ShareFacets, Share(t, me, c, with, facet)
      PROVE  ListInv'
  <2>1. PICK k : Moves(t, k) /\ LoadedOK(k, minted)
        BY <1>1, ShareMoves
  <2>2. NoList(k) /\ command[t].at # "fill" /\ UNCHANGED <<files, minted, done, trouble>>
        BY <1>1, <2>1 DEF NoList, LoadedOK, Share, Starts, Idle
  <2> QED BY <2>1, <2>2, QuietLists
<1>2. ASSUME NEW t \in Terminals, Settle(t)
      PROVE  ListInv'
  <2>1. PICK g, k : Moves(t, k) /\ Started(k, "share", command[t].me, command[t].close, << GrantFile(Leaf(g).holder, g) >>)
        BY <1>2, SettleMoves
  <2>2. PICK todo : todo = << GrantFile(Leaf(g).holder, g) >>
        OBVIOUS
  <2>3. Len(todo) = 1 /\ Head(todo) = todo[1] /\ todo[1].is = "grant"
        BY <2>2 DEF GrantFile
  <2>4. NoList(k)
    <3>1. Len(todo) \in Nat /\ Len(todo) >= 1 /\ \A i \in 1..Len(todo) : todo[i].is # "list"
          BY <2>3
    <3> QED BY <2>1, <2>2, <2>3, <3>1, StartedNoList
  <2>5. command[t].at # "fill" /\ UNCHANGED <<files, minted, done, trouble>>
        BY <1>2 DEF Settle
  <2> QED BY <2>1, <2>4, <2>5, QuietLists
<1>3. ASSUME NEW t \in Terminals, NEW me \in People, NEW c \in Closes, NEW except \in SUBSET Excludable,
             Rotate(t, me, c, except)
      PROVE  ListInv'
  <2>1. PICK k : Moves(t, k) /\ LoadedOK(k, minted)
        BY <1>3, RotateMoves
  <2>2. /\ NoList(k) /\ command[t].at # "fill" /\ UNCHANGED <<files, minted, done>>
        /\ trouble'.lists = trouble.lists /\ trouble'.twins = trouble.twins
        BY <1>3, <2>1 DEF NoList, LoadedOK, Rotate, Starts, Idle
  <2> QED BY <2>1, <2>2, QuietLists
<1>4. ASSUME NEW t \in Terminals, FindKey(t)
      PROVE  ListInv'
  <2>1. PICK k : Moves(t, k) /\ GatherOK(k, minted)
        BY <1>4, FindKeyMoves
  <2>2. NoList(k) /\ command[t].at # "fill" /\ UNCHANGED <<files, minted, done, trouble>>
        BY <1>4, <2>1 DEF NoList, GatherOK, FindKey
  <2> QED BY <2>1, <2>2, QuietLists
<1>5. ASSUME NEW t \in Terminals, Refuse(t)
      PROVE  ListInv'
  <2>1. Moves(t, Idle) /\ command[t].at # "fill" /\ UNCHANGED <<files, minted, done, trouble>>
        BY <1>5, RefuseMoves DEF Refuse
  <2> QED BY <2>1, IdleNoList, QuietLists
<1>6. ASSUME NEW t \in Terminals, Gather(t)
      PROVE  ListInv'
  <2>1. PICK k : Moves(t, k) /\ GatherOK(k, minted)
        BY <1>6, GatherMoves
  <2>2. NoList(k) /\ command[t].at # "fill" /\ UNCHANGED <<files, minted, done, trouble>>
        BY <1>6, <2>1 DEF NoList, GatherOK, Gather
  <2> QED BY <2>1, <2>2, QuietLists
<1>7. ASSUME NEW t \in Terminals, ChangeLock(t)
      PROVE  ListInv'
  <2>1. PICK root \in ContentKeys : \E k :
           /\ GatherOK(command[t], minted) /\ command[t].close \in Closes /\ Moves(t, k)
           /\ Started(k, "rotate", command[t].me, command[t].close, ToRotate(command[t], root))
        BY <1>7, ChangeLockMoves
  <2>2. PICK j, todo : j = command[t] /\ todo = ToRotate(j, root)
        OBVIOUS
  <2>3. PICK k : Moves(t, k) /\ Started(k, "rotate", j.me, j.close, todo)
        BY <2>1, <2>2
  <2>4. GatherOK(j, minted) /\ j.close \in Closes
        BY <2>1, <2>2
  <2>5. PICK n \in Nat : n = Len(j.keepers)
        BY <2>4, RotationFiles
  <2>6. /\ Len(todo) = n + 1 /\ todo \in Seq(FilesFor(j.close))
        /\ todo[1] = RecordFile(RotateRecord(j.rec, j.key, MintKey(root, j.close)), root)
        /\ \A i \in 1..n : \E g : todo[i + 1] = GrantFile(j.keepers[i].who, g)
        BY <2>2, <2>4, <2>5, RotationFiles
  <2>7. \A i \in 1..(n + 1) : todo[i].is # "list"
    <3>1. todo[1].is = "record"
          BY <2>6 DEF RecordFile
    <3>2. ASSUME NEW i \in 1..n
          PROVE  todo[i + 1].is = "grant"
      <4>1. PICK g : todo[i + 1] = GrantFile(j.keepers[i].who, g)
            BY <2>6
      <4> QED BY <4>1 DEF GrantFile
    <3>3. \A i \in 1..(n + 1) : i = 1 \/ \E h \in 1..n : i = h + 1
      <4>1. ASSUME NEW i \in 1..(n + 1), i # 1
            PROVE  \E h \in 1..n : i = h + 1
        <5>1. i - 1 \in 1..n /\ i = (i - 1) + 1
              BY <4>1
        <5> QED BY <5>1
      <4> QED BY <4>1
    <3> QED BY <3>1, <3>2, <3>3
  <2>8. Head(todo) = todo[1]
        BY <2>6, NotEmpty
  <2>9. NoList(k)
        BY <2>3, <2>6, <2>7, <2>8, StartedNoList
  <2>10. command[t].at # "fill" /\ UNCHANGED <<files, minted, done, trouble>>
        BY <1>7 DEF ChangeLock
  <2> QED BY <2>3, <2>9, <2>10, QuietLists
<1>8. ASSUME NEW t \in Terminals, Count(t)
      PROVE  ListInv'
  <2>1. PICK k : /\ Moves(t, k) /\ SameCommand(command[t], k) /\ k.todo = command[t].todo
                 /\ command[t].at = "prepare" /\ k.at = "open"
                 /\ File(t).is = "grant" /\ Head(k.todo) = File(t)
        BY <1>8, CountMoves
  <2>2. KindOK(command[t])
        BY DEF ListInv, KindsOK
  <2>3. /\ KindOK(k) /\ Entry(k) = Entry(command[t])
        /\ \A list : ToList(k, list) <=> ToList(command[t], list)
        BY <2>1, <2>2, SameKind
  <2>4. \A list \in {"map", "index"} : LeavesAlone(command[t], k, list, trouble'.lists)
        BY <2>1, <2>3 DEF LeavesAlone, OnList
  <2>5. /\ lists' = lists /\ done' = done /\ trouble'.lists = trouble.lists
        /\ trouble'.twins = trouble.twins
        BY <1>8 DEF Count, files, TypesInv, HistoryOK
  <2> QED BY <2>1, <2>3, <2>4, <2>5, ListsUntouched
<1>9. ASSUME UNCHANGED vars
      PROVE  ListInv'
  <2>1. lists' = lists /\ command' = command /\ done' = done /\ trouble' = trouble
        BY <1>9 DEF vars
  <2>2. KindsOK'
        BY <2>1 DEF ListInv, KindsOK, Terminals, Most
  <2>3. \A list \in {"map", "index"} :
           ListOK(list, lists'[list], command', done'.listed, trouble'.lists, trouble'.twins)
        BY <2>1 DEF ListInv
  <2> QED BY <2>2, <2>3 DEF ListInv
<1> QED BY <1>1, <1>2, <1>3, <1>4, <1>5, <1>6, <1>7, <1>8, <1>9, KillLists, ReadListLists,
           OpenLists, FillLists, ProtectLists, RaiseLists DEF Next

\* What was reported as listed is listed for good, a signpost only once, and a
\* list parses whenever nobody is writing it, but for two that rewrote it at
\* once or one killed at it (ListedStays; main.rs:300, repo.rs:648).
THEOREM ListingStays == Spec => []ListedStays
<1>1. Init => ListInv
      BY InitLists
<1>2. TypesInv /\ ListInv /\ [Next]_vars => ListInv'
      BY NextLists
<1>3. TypesInv /\ ListInv => ListedStays
  <2> SUFFICES ASSUME TypesInv, ListInv, NEW list \in {"map", "index"} \ trouble.lists
               PROVE  \/ lists[list] = Torn /\ \E t \in Busy : /\ command[t].at = "fill" /\ File(t).is = "list"
                                                               /\ File(t).list = list
                      \/ /\ \A entry \in {w[2] : w \in {d \in done.listed : d[1] = list}} : Lists(list, entry)
                         /\ lists[list] # Torn
                         /\ list = "index" =>
                               \A i, j \in 1..Len(lists[list]) :
                                   i # j /\ lists[list][i] = lists[list][j] => lists[list][i] \in trouble.twins
      BY DEF ListedStays, TypesInv, ListsOK
  <2>1. ListKept(list, lists[list], command, done.listed, trouble.twins)
        BY DEF ListInv, ListOK
  <2>2. CASE lists[list] = Torn
    <3>1. PICK t \in Terminals : command[t].at = "fill" /\ OnList(command[t], list)
          BY <2>1, <2>2 DEF ListKept
    <3>2. t \in Busy
          BY <3>1 DEF Busy, Idle
    <3> QED BY <2>2, <3>1, <3>2 DEF OnList, File
  <2>3. CASE lists[list] # Torn
    <3>1. GoodText(list, lists[list], done.listed, trouble.twins)
          BY <2>1, <2>3 DEF ListKept
    <3> QED BY <2>3, <3>1 DEF GoodText, MayRecur, Has, Lists
  <2> QED BY <2>2, <2>3
<1> QED BY <1>1, <1>2, <1>3, FolderTypes, PTL DEF Spec

-----------------------------------------------------------------------------
(***************************************************************************)
(* The fourth layer: records and grants tell the truth.                    *)
(***************************************************************************)

\* Taking turns: a close has one founder, and one rotation at a time unless
\* it was raced; and it has no keys before its record is written.
Does(k, do, c) == k # Idle /\ k.do = do /\ k.close = c
AtRecord(k) == k.at \in {"prepare", "open", "fill"} /\ Head(k.todo).is = "record"
Founding(k) == AtRecord(k) /\ k.do = "protect"

TurnsInv ==
    /\ \A t \in Terminals : \A u \in Terminals \ {t} : \A c \in Closes :
          /\ ~ (Does(command[t], "protect", c) /\ Does(command[u], "protect", c))
          /\ Does(command[t], "rotate", c) /\ Does(command[u], "rotate", c) => c \in trouble.raced
    /\ \A t \in Terminals : Founding(command[t]) => command[t].close \notin DOMAIN minted
    /\ \A c \in DOMAIN minted : Len(minted[c]) >= 1
    /\ \A t \in Terminals : AtRecord(command[t]) => command[t].do \in {"protect", "rotate"}

\* The roots drawn for a close: none before it is founded.
RootsOf(c, ms) == IF c \in DOMAIN ms THEN ms[c] ELSE <<>>
FirstOf(roots, n) == [i \in 1..n |-> roots[i]]

\* What a record that tells the truth about roots has for its name and epoch:
\* its steward, who never changes, is the same while the record is torn.
RecordOf(c, s, roots) == [id |-> c, steward |-> s, epoch |-> Len(roots) - 1]

GrantTrue(g, c, s, roots) ==
    /\ SoundTo(g, RecordOf(c, s, roots))
    /\ \A j \in 1..Len(g) : LabelTrueTo(g[j], RecordOf(c, s, roots), roots)

\* A record that was read some time ago.
OnceTrue(rec, roots) == rec.epoch < Len(roots) /\ TruthfulTo(rec, FirstOf(roots, rec.epoch + 1))

\* What a command will write, true once its record is written.
WritesTrue(todo, c, s, roots) ==
    LET then == IF Head(todo).is = "record" THEN Append(roots, Head(todo).root) ELSE roots
    IN  /\ Head(todo).is = "record" => Head(todo).rec.steward = s /\ TruthfulTo(Head(todo).rec, then)
        /\ \A i \in 1..Len(todo) : todo[i].is = "grant" => GrantTrue(todo[i].grant, c, s, then)

CommandTrue(k, c, s, roots) ==
    /\ k.at \in {"loaded", "gather"} => k.rec.steward = s /\ OnceTrue(k.rec, roots)
    /\ k.at \in {"loaded", "gather"} /\ k.do = "rotate" => TruthfulTo(k.rec, roots)
    /\ k.at = "gather" => k.key = KeyAt(roots, c, Content, k.rec.epoch)
    /\ k.at \in {"prepare", "open", "fill"} => WritesTrue(k.todo, c, s, roots)

CloseTrue(c, s, roots, cs, gs, cmd) ==
    /\ c \in DOMAIN cs /\ cs[c] # Torn => cs[c].steward = s /\ TruthfulTo(cs[c], roots)
    /\ \A p \in People : \A i \in 1..Len(gs[p]) :
          gs[p][i] # Torn /\ Leaf(gs[p][i]).close = c => GrantTrue(gs[p][i], c, s, roots)
    /\ \A t \in Terminals : cmd[t] # Idle /\ cmd[t].close = c => CommandTrue(cmd[t], c, s, roots)

TrueInv ==
    \A c \in Closes \ trouble.raced : \E s \in People :
        CloseTrue(c, s, RootsOf(c, minted), closes, grants, command)

\* The truth outlives the drawing of another root.
LEMMA GrantTrueGrows ==
    ASSUME NEW g \in Grant, NEW c, NEW s, NEW roots \in Seq(ContentKeys), Len(roots) >= 1,
           NEW root \in ContentKeys, GrantTrue(g, c, s, roots)
    PROVE  GrantTrue(g, c, s, Append(roots, root))
<1>1. PICK more : more = Append(roots, root)
      OBVIOUS
<1>2. PICK n \in Nat : n = Len(roots)
      OBVIOUS
<1>3. PICK before : before = RecordOf(c, s, roots)
      OBVIOUS
<1>4. PICK after : after = RecordOf(c, s, more)
      OBVIOUS
<1>5. Len(more) = n + 1 /\ n >= 1
      BY <1>1, <1>2
<1>6. /\ before.id = c /\ before.steward = s /\ before.epoch = n - 1 /\ before.epoch \in Nat
      /\ after.id = c /\ after.steward = s /\ after.epoch = n
      BY <1>2, <1>3, <1>4, <1>5 DEF RecordOf
<1>7. SoundTo(g, after)
      BY <1>3, <1>6 DEF GrantTrue, SoundTo
<1>8. ASSUME NEW j \in 1..Len(g)
      PROVE  LabelTrueTo(g[j], after, more)
  <2>1. g[j] \in Link /\ LabelTrueTo(g[j], before, roots)
        BY <1>3, LeafOfGrant DEF GrantTrue
  <2>2. Len(roots) = before.epoch + 1 /\ after.epoch = before.epoch + 1 /\ after.id = before.id
        BY <1>2, <1>6
  <2> QED BY <1>1, <1>6, <2>1, <2>2, LabelOutlivesRotation
<1> QED BY <1>1, <1>4, <1>7, <1>8 DEF GrantTrue

\* The first roots of a longer sequence.
LEMMA FirstOfIs ==
    ASSUME NEW roots \in Seq(ContentKeys), NEW n \in 0..Len(roots)
    PROVE  /\ FirstOf(roots, n) \in Seq(ContentKeys) /\ Len(FirstOf(roots, n)) = n
           /\ \A i \in 1..n : FirstOf(roots, n)[i] = roots[i]
           /\ n = Len(roots) => FirstOf(roots, n) = roots
           /\ \A root \in ContentKeys : FirstOf(Append(roots, root), n) = FirstOf(roots, n)
<1>1. PICK l \in Nat : l = Len(roots) /\ roots \in [1..l -> ContentKeys]
      OBVIOUS
<1>2. n \in Nat /\ n <= l /\ \A i \in 1..n : i \in 1..l
      BY <1>1
<1>3. PICK w : w = [i \in 1..n |-> roots[i]]
      OBVIOUS
<1>4. w \in [1..n -> ContentKeys]
      BY <1>1, <1>2, <1>3
<1>5. w \in Seq(ContentKeys) /\ Len(w) = n
      BY <1>2, <1>4
<1>6. n = l => w = roots
      BY <1>1, <1>3
<1>7. ASSUME NEW root \in ContentKeys
      PROVE  FirstOf(Append(roots, root), n) = w
  <2>1. \A i \in 1..n : Append(roots, root)[i] = roots[i]
        BY <1>1, <1>2
  <2> QED BY <1>3, <2>1 DEF FirstOf
<1> QED BY <1>1, <1>3, <1>5, <1>6, <1>7 DEF FirstOf

\* A record that was true once stays so as roots are drawn.
LEMMA OnceTrueGrows ==
    ASSUME NEW rec \in Record(People), NEW roots \in Seq(ContentKeys), NEW root \in ContentKeys,
           OnceTrue(rec, roots)
    PROVE  OnceTrue(rec, Append(roots, root))
<1>1. PICK n \in Nat : n = rec.epoch
      BY DEF Record
<1>2. n < Len(roots) /\ Len(roots) \in Nat /\ Len(Append(roots, root)) = Len(roots) + 1
      BY <1>1 DEF OnceTrue
<1>3. FirstOf(Append(roots, root), n + 1) = FirstOf(roots, n + 1)
  <2>1. n + 1 \in 0..Len(roots)
        BY <1>2
  <2> QED BY <2>1, FirstOfIs
<1>4. n < Len(Append(roots, root))
      BY <1>2
<1> QED BY <1>1, <1>3, <1>4 DEF OnceTrue

\* A record that is true now is one that was true once.
LEMMA TrueOnce ==
    ASSUME NEW rec \in Record(People), NEW roots \in Seq(ContentKeys), TruthfulTo(rec, roots)
    PROVE  OnceTrue(rec, roots)
<1>1. PICK n \in Nat : n = rec.epoch
      BY DEF Record
<1>2. Len(roots) = n + 1
      BY <1>1 DEF TruthfulTo
<1>3. FirstOf(roots, n + 1) = roots
  <2>1. n + 1 \in 0..Len(roots)
        BY <1>2
  <2> QED BY <1>2, <2>1, FirstOfIs
<1>4. n < Len(roots)
      BY <1>2
<1> QED BY <1>1, <1>3, <1>4 DEF OnceTrue

\* A grant of a later epoch yields no key under a record read before.
LEMMA NoWalkAhead ==
    ASSUME NEW rec, NEW key, NEW have \in Nat, NEW want \in Nat, want < have,
           Len(rec.chain) = want, NEW lane
    PROVE  WalkChain(rec, key, have, want, lane) = NoKey
<1> DEFINE S == [n \in want..have |-> IF n = have THEN {key} ELSE {NoKey}]
<1>1. key \in S[have] /\ S[want] = {NoKey}
      OBVIOUS
<1>2. \A n \in want..(have - 1) : \A k \in S[n + 1] : StepBack(rec, k, n, lane) \in S[n]
  <2>1. ASSUME NEW n \in want..(have - 1)
        PROVE  n + 1 > Len(rec.chain) /\ S[n] = {NoKey}
        BY <2>1
  <2>2. \A n \in want..(have - 1) : \A k : StepBack(rec, k, n, lane) = NoKey
        BY <2>1 DEF StepBack
  <2> HIDE DEF S
  <2> QED BY <2>1, <2>2
<1>3. want <= have
      OBVIOUS
<1>4. WalkChain(rec, key, have, want, lane) \in S[want]
  <2> HIDE DEF S
  <2> QED BY <1>1, <1>2, <1>3, WalkKeeps
<1> HIDE DEF S
<1> QED BY <1>1, <1>4

\* The label of a link is true of a record read before, if the link is of an
\* epoch which that record has.
LEMMA LabelOnceTrue ==
    ASSUME NEW b \in Link, NEW rec \in Record(People), NEW c, rec.id = c, NEW s,
           NEW roots \in Seq(ContentKeys), OnceTrue(rec, roots),
           LabelTrueTo(b, RecordOf(c, s, roots), roots), b.epoch <= rec.epoch
    PROVE  LabelTrueTo(b, rec, FirstOf(roots, rec.epoch + 1))
<1>1. PICK n \in Nat : n = rec.epoch
      BY DEF Record
<1>2. PICK first : first = FirstOf(roots, n + 1)
      OBVIOUS
<1>3. n + 1 \in 0..Len(roots)
      BY <1>1 DEF OnceTrue
<1>4. \A i \in 1..(n + 1) : first[i] = roots[i]
      BY <1>2, <1>3, FirstOfIs
<1>5. b.epoch \in Nat /\ b.epoch + 1 \in 1..(n + 1)
      BY <1>1 DEF Link
<1>6. KeyAt(first, b.close, b.facet, b.epoch) = KeyAt(roots, b.close, b.facet, b.epoch)
      BY <1>4, <1>5 DEF KeyAt
<1>7. b.close = c
      BY DEF LabelTrueTo, RecordOf
<1> QED BY <1>1, <1>2, <1>6, <1>7 DEF LabelTrueTo

\* What all that p's grants on a close are when they tell the truth.
HeldTrue(p, c, s, roots) ==
    \A i \in 1..Len(GrantsFor(p)) : Leaf(GrantsFor(p)[i]).close = c =>
        GrantTrue(GrantsFor(p)[i], c, s, roots) /\ Leaf(GrantsFor(p)[i]).holder = p

\* Whoever finds a current key for a record found the true one: grants of
\* epochs that the record does not have yet yield none.
LEMMA FindTrue ==
    ASSUME TypesInv, NEW p \in People, NEW rec \in Record(People), NEW c, rec.id = c, NEW s,
           NEW roots \in Seq(ContentKeys), OnceTrue(rec, roots), HeldTrue(p, c, s, roots),
           CurrentKey(p, rec) # NoKey
    PROVE  CurrentKey(p, rec) = KeyAt(roots, c, Content, rec.epoch)
<1>1. PICK n \in Nat : n = rec.epoch
      BY DEF Record
<1>2. PICK held : held = GrantsFor(p)
      OBVIOUS
<1>3. held \in Seq(Grant)
      BY <1>2, GrantsForFacts DEF TypesInv
<1> DEFINE yielding == {i \in HeldOn(held, rec, 0) : KeyFrom(held[i], p, rec, Content, n) # NoKey}
<1>4. /\ yielding # {}
      /\ CurrentKey(p, rec) = KeyFrom(held[First(yielding)], p, rec, Content, n)
      BY <1>1, <1>2 DEF CurrentKey, KeyFor, FacetKeyFor
<1>5. yielding \subseteq 1..Len(held) /\ Len(held) \in Nat
      BY <1>3 DEF HeldOn
<1>6. First(yielding) \in yielding
  <2> HIDE DEF yielding
  <2> QED BY <1>4, <1>5, FirstIn
<1>7. PICK i \in yielding : i = First(yielding)
      BY <1>6
<1>8. i \in 1..Len(held) /\ Leaf(held[i]).close = c /\ KeyFrom(held[i], p, rec, Content, n) # NoKey
      BY <1>7 DEF HeldOn
<1>9. PICK g : g = held[i]
      OBVIOUS
<1>10. g \in Grant
      BY <1>3, <1>8, <1>9, ElementIn
<1>11. PICK b : b = Leaf(g)
      OBVIOUS
<1>12. GrantTrue(g, c, s, roots) /\ b.holder = p /\ b.close = c
      BY <1>2, <1>8, <1>9, <1>11 DEF HeldTrue
<1>13. b \in Link /\ LabelTrueTo(b, RecordOf(c, s, roots), roots)
  <2>1. Len(g) \in 1..Len(g) /\ b = g[Len(g)] /\ b \in Link
        BY <1>10, <1>11, LeafOfGrant DEF Leaf
  <2> QED BY <1>12, <2>1 DEF GrantTrue
<1>14. b.epoch \in Nat /\ b.facet \in Facets
      BY <1>13 DEF Link
<1>15. PICK first : first = FirstOf(roots, n + 1)
      OBVIOUS
<1>16. first \in Seq(ContentKeys) /\ TruthfulTo(rec, first) /\ first[n + 1] = roots[n + 1]
  <2>1. n + 1 \in 0..Len(roots) /\ n + 1 \in 1..(n + 1)
        BY <1>1 DEF OnceTrue
  <2> QED BY <1>1, <1>15, <2>1, FirstOfIs DEF OnceTrue
<1>17. b.epoch <= n
  <2> SUFFICES ASSUME n < b.epoch PROVE FALSE
      BY <1>1, <1>14
  <2>1. Len(rec.chain) = n
        BY <1>1 DEF OnceTrue, TruthfulTo
  <2>2. WalkChain(rec, UnwrapKey(g, p), b.epoch, n, b.facet) = NoKey
        BY <1>14, <2>1, NoWalkAhead
  <2>3. KeyFrom(g, p, rec, Content, n) = NoKey
        BY <1>11, <2>2, LowerNoKey DEF KeyFrom
  <2> QED BY <1>8, <1>9, <2>3
<1>18. LabelTrueTo(b, rec, first)
      BY <1>1, <1>13, <1>15, <1>17, LabelOnceTrue
<1>19. KeyFrom(g, p, rec, Content, n) = KeyAt(first, c, Content, n)
  <2>1. Content \in Lanes
        BY DEF Lanes
  <2>2. LabelTrueTo(Leaf(g), rec, first) /\ Leaf(g).holder = p
        BY <1>11, <1>12, <1>18
  <2>3. KeyFrom(g, Leaf(g).holder, rec, Content, n) =
           IF Content <= Leaf(g).facet /\ n <= Leaf(g).epoch
           THEN KeyAt(first, rec.id, Content, n) ELSE NoKey
        BY <1>10, <1>16, <2>1, <2>2, KeyFromTrue
  <2> QED BY <1>8, <1>9, <2>2, <2>3
<1>20. KeyAt(first, c, Content, n) = KeyAt(roots, c, Content, n)
      BY <1>16 DEF KeyAt
<1> QED BY <1>1, <1>4, <1>7, <1>9, <1>19, <1>20

\* What one move has to satisfy for the invariant to survive it.
LEMMA TurnsStep ==
    ASSUME TurnsInv, NEW t \in Terminals, NEW k, Moves(t, k), trouble.raced \subseteq trouble'.raced,
           \A u \in Terminals \ {t} : \A c \in Closes :
              /\ ~ (Does(k, "protect", c) /\ Does(command[u], "protect", c))
              /\ Does(k, "rotate", c) /\ Does(command[u], "rotate", c) => c \in trouble'.raced,
           AtRecord(k) => k.do \in {"protect", "rotate"},
           Founding(k) => k.close \notin DOMAIN minted',
           \A u \in Terminals \ {t} : Founding(command[u]) => command[u].close \notin DOMAIN minted',
           \A c \in DOMAIN minted' : Len(minted'[c]) >= 1
    PROVE  TurnsInv'
<1>1. ASSUME NEW u \in Terminals, NEW v \in Terminals \ {u}, NEW c \in Closes
      PROVE  /\ ~ (Does(command'[u], "protect", c) /\ Does(command'[v], "protect", c))
             /\ Does(command'[u], "rotate", c) /\ Does(command'[v], "rotate", c) => c \in trouble'.raced
  <2>1. CASE u = t
        BY <2>1 DEF Moves
  <2>2. CASE v = t
        BY <2>2 DEF Moves
  <2>3. CASE u # t /\ v # t
        BY <2>3 DEF Moves, TurnsInv
  <2> QED BY <2>1, <2>2, <2>3
<1>2. ASSUME NEW u \in Terminals
      PROVE  /\ Founding(command'[u]) => command'[u].close \notin DOMAIN minted'
             /\ AtRecord(command'[u]) => command'[u].do \in {"protect", "rotate"}
  <2>1. CASE u = t
        BY <2>1 DEF Moves
  <2>2. CASE u # t
        BY <2>2 DEF Moves, TurnsInv
  <2> QED BY <2>1, <2>2
<1> QED BY <1>1, <1>2 DEF TurnsInv, Terminals, Most

\* A command that goes on with what it does, or ends.
Follows(j, k) ==
    /\ \A c : \A do \in {"protect", "rotate"} : Does(k, do, c) => Does(j, do, c)
    /\ AtRecord(k) => k.do \in {"protect", "rotate"}
    /\ Founding(k) => Founding(j) /\ k.close = j.close

\* A move that draws no root and starts no protect and no rotate.
LEMMA TurnsQuiet ==
    ASSUME TurnsInv, NEW t \in Terminals, NEW k, Moves(t, k), Follows(command[t], k),
           minted' = minted, trouble.raced \subseteq trouble'.raced
    PROVE  TurnsInv'
<1>1. ASSUME NEW u \in Terminals \ {t}, NEW c \in Closes
      PROVE  /\ ~ (Does(k, "protect", c) /\ Does(command[u], "protect", c))
             /\ Does(k, "rotate", c) /\ Does(command[u], "rotate", c) => c \in trouble'.raced
      BY DEF TurnsInv, Follows
<1>2. Founding(k) => k.close \notin DOMAIN minted'
      BY DEF TurnsInv, Follows
<1> QED BY <1>1, <1>2, TurnsStep DEF TurnsInv, Follows

\* A command that is neither founding nor rotating, or has no record to write.
LEMMA FollowsQuietly ==
    ASSUME NEW j, NEW k, ~ AtRecord(k),
           k # Idle => k.do \in {"share", "raise"} \/ (j # Idle /\ k.do = j.do /\ k.close = j.close)
    PROVE  Follows(j, k)
BY DEF Follows, Does, Founding

\* Going on with the same files takes no other turn.
LEMMA FollowsSame ==
    ASSUME NEW j, NEW k, SameCommand(j, k), k.todo = j.todo, j # Idle,
           j.at \in {"prepare", "open", "fill"}, k.at \in {"prepare", "open", "fill"},
           AtRecord(j) => j.do \in {"protect", "rotate"}
    PROVE  Follows(j, k)
BY DEF Follows, Does, Founding, AtRecord, SameCommand

\* The invariant holds in the empty folder.
LEMMA InitTurns == Init => TurnsInv
<1> SUFFICES ASSUME Init PROVE TurnsInv
    OBVIOUS
<1>1. PICK root \in ContentKeys :
         /\ \A t \in Terminals : command[t] = Idle
         /\ minted = [c \in {Commons} |-> <<root>>]
      BY DEF Init
<1>2. ~ AtRecord(Idle) /\ ~ Founding(Idle) /\ \A do, c : ~ Does(Idle, do, c)
      BY DEF AtRecord, Founding, Does, Idle
<1>3. \A c \in DOMAIN minted : Len(minted[c]) >= 1
  <2>1. Len(<<root>>) = 1
        OBVIOUS
  <2> QED BY <1>1, <2>1
<1> QED BY <1>1, <1>2, <1>3 DEF TurnsInv

\* protect founds a close that nobody has and nobody else is founding.
LEMMA ProtectTurns ==
    ASSUME TypesInv, TurnsInv, NEW t \in Terminals, NEW me \in People, NEW c \in Closes,
           Protect(t, me, c)
    PROVE  TurnsInv'
<1>1. PICK root \in ContentKeys : \E k :
         Moves(t, k) /\ Started(k, "protect", me, c, ToFound(me, c, root))
      BY ProtectMoves
<1>2. PICK k : Moves(t, k) /\ k.do = "protect" /\ k.close = c
      BY <1>1 DEF Started
<1>3. /\ minted' = minted /\ trouble' = trouble /\ c \notin DOMAIN closes
      /\ \A u \in Busy : command[u].do = "protect" => command[u].close # c
      BY DEF Protect
<1>4. c \notin DOMAIN minted'
      BY <1>3 DEF TypesInv, ClosesOK
<1>5. \A u \in Terminals : ~ Does(command[u], "protect", c)
      BY <1>3 DEF Does, Busy
<1>6. \A d : (Does(k, "protect", d) => d = c) /\ ~ Does(k, "rotate", d)
      BY <1>2 DEF Does
<1>7. \A u \in Terminals : Founding(command[u]) => command[u].close \notin DOMAIN minted'
      BY <1>3 DEF TurnsInv
<1>8. \A d \in DOMAIN minted' : Len(minted'[d]) >= 1
      BY <1>3 DEF TurnsInv
<1> QED BY <1>2, <1>3, <1>4, <1>5, <1>6, <1>7, <1>8, TurnsStep

\* A rotation that starts next to another races it.
LEMMA RotateTurns ==
    ASSUME TypesInv, TurnsInv, NEW t \in Terminals, NEW me \in People, NEW c \in Closes, NEW except,
           Rotate(t, me, c, except)
    PROVE  TurnsInv'
<1>0. PICK held : held = [p \in People |-> Readings(p, closes[c])]
      OBVIOUS
<1>1. PICK k : /\ Moves(t, k) /\ LoadedOK(k, minted)
               /\ k.do = "rotate" /\ k.me = me /\ k.close = c /\ k.except = except
               /\ k.held = held
               /\ k.rec = closes[c] /\ closes[c] # Torn
      BY <1>0, RotateMoves
<1>2. /\ minted' = minted /\ trouble.raced \subseteq trouble'.raced
      /\ (\E u \in Busy : command[u].do = "rotate" /\ command[u].close = c) => c \in trouble'.raced
      BY DEF Rotate, TypesInv, HistoryOK
<1>3. \A u \in Terminals : Does(command[u], "rotate", c) => c \in trouble'.raced
      BY <1>2 DEF Does, Busy
<1>4. \A d : (Does(k, "rotate", d) => d = c) /\ ~ Does(k, "protect", d)
      BY <1>1 DEF Does
<1>5. ~ AtRecord(k) /\ ~ Founding(k)
      BY <1>1 DEF LoadedOK, AtRecord, Founding
<1>6. \A u \in Terminals : Founding(command[u]) => command[u].close \notin DOMAIN minted'
      BY <1>2 DEF TurnsInv
<1>7. \A d \in DOMAIN minted' : Len(minted'[d]) >= 1
      BY <1>2 DEF TurnsInv
<1> QED BY <1>1, <1>2, <1>3, <1>4, <1>5, <1>6, <1>7, TurnsStep

\* Writing a record draws its root: only then is the close founded.
LEMMA FillTurns ==
    ASSUME TypesInv, TurnsInv, NEW t \in Terminals, Fill(t)
    PROVE  TurnsInv'
<1>1. PICK j : j = command[t]
      OBVIOUS
<1>2. PICK f : f = File(t)
      OBVIOUS
<1>3. PICK k : /\ WritingOK(j, closes, grants, minted) /\ j.at = "fill"
               /\ f = Head(j.todo) /\ f \in FilesFor(j.close)
               /\ Moves(t, k) /\ GoesOn(j, k)
               /\ Filled(j, f)
               /\ UNCHANGED <<budget, trouble>>
      BY <1>1, <1>2, FillMoves
<1>4. ~ AtRecord(k)
  <2>1. CASE k = Idle
        BY <2>1 DEF AtRecord, Idle
  <2>2. CASE Tail(j.todo) # <<>> /\ k.todo = Tail(j.todo)
        BY <1>3, <2>2, TailTodo DEF WritingOK, AtRecord
  <2> QED BY <1>3, <2>1, <2>2 DEF GoesOn
<1>5. Follows(j, k)
  <2>1. k # Idle => j # Idle /\ k.do = j.do /\ k.close = j.close
        BY <1>3 DEF GoesOn, SameCommand, Idle
  <2> QED BY <1>4, <2>1, FollowsQuietly
<1>6. CASE f.is # "record"
  <2>1. minted' = minted
        BY <1>3, <1>6 DEF Filled, FilledGrant, FilledList
  <2> QED BY <1>1, <1>3, <1>5, <2>1, TurnsQuiet
<1>7. CASE f.is = "record"
  <2>1. /\ DOMAIN minted' = DOMAIN minted \cup {j.close}
        /\ minted'[j.close] = IF j.do = "protect" THEN <<f.root>> ELSE Append(minted[j.close], f.root)
        /\ \A c \in DOMAIN minted \ {j.close} : minted'[c] = minted[c]
        BY <1>3, <1>7 DEF Filled, FilledRecord
  <2>2. AtRecord(j) /\ j.do \in {"protect", "rotate"} /\ j.close \in Closes /\ j # Idle
        BY <1>1, <1>3, <1>7 DEF AtRecord, TurnsInv, WritingOK, Idle
  <2>3. ASSUME NEW u \in Terminals \ {t}, Founding(command[u])
        PROVE  command[u].close \notin DOMAIN minted'
    <3>1. command[u].close \notin DOMAIN minted
          BY <2>3 DEF TurnsInv
    <3>2. CASE j.do = "protect"
      <4>1. ~ Does(command[u], "protect", j.close)
            BY <1>1, <2>2, <3>2 DEF TurnsInv, Does
      <4>2. command[u].close # j.close
            BY <2>3, <4>1 DEF Does, Founding, AtRecord, Idle
      <4> QED BY <2>1, <3>1, <4>2
    <3>3. CASE j.do = "rotate"
      <4>1. j.close \in DOMAIN minted
            BY <1>3, <3>3 DEF WritingOK
      <4> QED BY <2>1, <3>1, <4>1
    <3> QED BY <2>2, <3>2, <3>3
  <2>4. ASSUME NEW c \in DOMAIN minted'
        PROVE  Len(minted'[c]) >= 1
    <3>1. CASE c # j.close
          BY <2>1, <3>1 DEF TurnsInv
    <3>2. CASE c = j.close /\ j.do = "protect"
      <4>1. PICK one : one = <<f.root>>
            OBVIOUS
      <4>2. minted'[c] = one
            BY <2>1, <3>2, <4>1
      <4>3. Len(one) = 1
            BY <4>1
      <4> QED BY <4>2, <4>3
    <3>3. CASE c = j.close /\ j.do # "protect"
      <4>1. PICK roots \in Seq(ContentKeys) : roots = minted[c]
            BY <1>3, <3>3 DEF WritingOK, TypesInv, ClosesOK
      <4>2. Len(Append(roots, f.root)) = Len(roots) + 1 /\ Len(roots) \in Nat
            OBVIOUS
      <4>3. minted'[c] = Append(roots, f.root)
            BY <2>1, <3>3, <4>1
      <4> QED BY <4>2, <4>3
    <3> QED BY <3>1, <3>2, <3>3
  <2>5. ASSUME NEW u \in Terminals \ {t}, NEW c \in Closes
        PROVE  /\ ~ (Does(k, "protect", c) /\ Does(command[u], "protect", c))
               /\ Does(k, "rotate", c) /\ Does(command[u], "rotate", c) => c \in trouble'.raced
        BY <1>1, <1>3, <1>5 DEF TurnsInv, Follows
  <2>6. ~ Founding(k) /\ trouble' = trouble
        BY <1>3, <1>4 DEF Founding
  <2> QED BY <1>3, <1>4, <2>3, <2>4, <2>5, <2>6, TurnsStep
<1> QED BY <1>6, <1>7

\* Every step preserves it.
LEMMA NextTurns == TypesInv /\ TurnsInv /\ [Next]_vars => TurnsInv'
<1> SUFFICES ASSUME TypesInv, TurnsInv, [Next]_vars PROVE TurnsInv'
    OBVIOUS
<1>0. ASSUME NEW t \in Terminals, NEW k, Moves(t, k), UNCHANGED <<files, minted, done>>,
             trouble'.raced = trouble.raced, Follows(command[t], k)
      PROVE  TurnsInv'
      BY <1>0, TurnsQuiet
<1>1. ASSUME NEW t \in Terminals, NEW me \in People, NEW c \in Closes, NEW with \in Receivers,
             NEW facet \in ShareFacets, Share(t, me, c, with, facet)
      PROVE  TurnsInv'
  <2>1. PICK k : /\ Moves(t, k) /\ LoadedOK(k, minted)
                  /\ k.do = "share" /\ k.me = me /\ k.close = c /\ k.with = with /\ k.facet = facet
                  /\ k.rec = closes[c] /\ closes[c] # Torn
        BY <1>1, ShareMoves
  <2>2. Follows(command[t], k)
    <3>1. ~ AtRecord(k)
          BY <2>1 DEF LoadedOK, AtRecord
    <3> QED BY <2>1, <3>1, FollowsQuietly
  <2>3. UNCHANGED <<files, minted, done, trouble>>
        BY <1>1 DEF Share
  <2> QED BY <1>0, <2>1, <2>2, <2>3
<1>2. ASSUME NEW t \in Terminals, NEW me \in People, NEW path \in Signposts, Raise(t, me, path)
      PROVE  TurnsInv'
  <2>1. PICK k : Moves(t, k) /\ Started(k, "raise", me, Commons, << ListFile("index", path) >>)
                 /\ WritingOK(k, closes, grants, minted)
        BY <1>2, RaiseMoves
  <2>2. Head(k.todo).is = "list"
        BY <2>1 DEF Started, ListFile
  <2>3. Follows(command[t], k)
    <3>1. ~ AtRecord(k) /\ k.do = "raise"
          BY <2>1, <2>2 DEF Started, AtRecord
    <3> QED BY <3>1, FollowsQuietly
  <2>4. UNCHANGED <<files, minted, done>> /\ trouble'.raced = trouble.raced
        BY <1>2 DEF Raise
  <2> QED BY <1>0, <2>1, <2>3, <2>4
<1>3. ASSUME NEW t \in Terminals, Settle(t)
      PROVE  TurnsInv'
  <2>1. PICK g, k : Moves(t, k) /\ Started(k, "share", command[t].me, command[t].close, << GrantFile(Leaf(g).holder, g) >>)
        BY <1>3, SettleMoves
  <2>2. Head(k.todo).is = "grant"
        BY <2>1 DEF Started, GrantFile
  <2>3. Follows(command[t], k)
    <3>1. ~ AtRecord(k) /\ k.do = "share"
          BY <2>1, <2>2 DEF Started, AtRecord
    <3> QED BY <3>1, FollowsQuietly
  <2>4. UNCHANGED <<files, minted, done, trouble>>
        BY <1>3 DEF Settle
  <2> QED BY <1>0, <2>1, <2>3, <2>4
<1>4. ASSUME NEW t \in Terminals, FindKey(t)
      PROVE  TurnsInv'
  <2>1. PICK k : /\ LoadedOK(command[t], minted) /\ command[t].do = "rotate"
                  /\ Moves(t, k) /\ GatherOK(k, minted)
                  /\ k.me = command[t].me /\ k.close = command[t].close /\ k.rec = command[t].rec
                  /\ k.except = command[t].except /\ k.held = command[t].held
                  /\ k.key = CurrentKey(k.me, k.rec) /\ k.keepers = <<>> /\ k.left = Without(Order, k.except)
        BY <1>4, FindKeyMoves
  <2>2. Follows(command[t], k)
    <3>1. ~ AtRecord(k) /\ k.do = "rotate" /\ command[t] # Idle
          BY <2>1 DEF LoadedOK, GatherOK, AtRecord, Idle
    <3> QED BY <2>1, <3>1, FollowsQuietly
  <2>3. UNCHANGED <<files, minted, done, trouble>>
        BY <1>4 DEF FindKey
  <2> QED BY <1>0, <2>1, <2>2, <2>3
<1>5. \A j : Follows(j, Idle)
  <2>1. ~ AtRecord(Idle)
        BY DEF AtRecord, Idle
  <2> QED BY <2>1, FollowsQuietly
<1>6. ASSUME NEW t \in Terminals, Refuse(t)
      PROVE  TurnsInv'
  <2>1. UNCHANGED <<files, minted, done, trouble>>
        BY <1>6 DEF Refuse
  <2> QED BY <1>0, <1>5, <1>6, <2>1, RefuseMoves
<1>7. ASSUME NEW t \in Terminals, Gather(t)
      PROVE  TurnsInv'
  <2>0. PICK p \in People : \E held : \E k :
              /\ GatherOK(command[t], minted) /\ Moves(t, k) /\ GatherOK(k, minted)
              /\ k.close = command[t].close
        BY <1>7, GatherMoves
  <2>1. PICK k : GatherOK(command[t], minted) /\ Moves(t, k) /\ GatherOK(k, minted) /\ k.close = command[t].close
        BY <2>0
  <2>2. Follows(command[t], k)
    <3>1. ~ AtRecord(k) /\ k.do = "rotate" /\ command[t] # Idle /\ command[t].do = "rotate"
          BY <2>1 DEF GatherOK, AtRecord, Idle
    <3> QED BY <2>1, <3>1, FollowsQuietly
  <2>3. UNCHANGED <<files, minted, done, trouble>>
        BY <1>7 DEF Gather
  <2> QED BY <1>0, <2>1, <2>2, <2>3
<1>8. ASSUME NEW t \in Terminals, ChangeLock(t)
      PROVE  TurnsInv'
  <2>1. PICK todo, k : /\ GatherOK(command[t], minted) /\ Moves(t, k)
                       /\ Started(k, "rotate", command[t].me, command[t].close, todo)
        BY <1>8, ChangeLockMoves
  <2>2. k.do = "rotate" /\ k.close = command[t].close /\ command[t].do = "rotate" /\ command[t] # Idle
        BY <2>1 DEF Started, GatherOK, Idle
  <2>3. Follows(command[t], k)
        BY <2>2 DEF Follows, Does, Founding
  <2>4. UNCHANGED <<files, minted, done, trouble>>
        BY <1>8 DEF ChangeLock
  <2> QED BY <1>0, <2>1, <2>3, <2>4
<1>9. ASSUME NEW t \in Terminals, NEW k, SameCommand(command[t], k), k.todo = command[t].todo,
             command[t].at \in {"prepare", "open", "fill"}, k.at \in {"prepare", "open", "fill"}
      PROVE  Follows(command[t], k)
  <2>1. command[t] # Idle
        BY <1>9 DEF Idle
  <2>2. AtRecord(command[t]) => command[t].do \in {"protect", "rotate"}
        BY DEF TurnsInv
  <2>3. PICK j : j = command[t]
        OBVIOUS
  <2> QED BY <1>9, <2>1, <2>2, <2>3, FollowsSame
<1>10. ASSUME NEW t \in Terminals, Count(t)
      PROVE  TurnsInv'
  <2>1. PICK k : /\ Moves(t, k) /\ SameCommand(command[t], k) /\ k.todo = command[t].todo
                 /\ command[t].at = "prepare" /\ k.at = "open"
        BY <1>10, CountMoves
  <2>2. UNCHANGED <<files, minted, done>> /\ trouble'.raced = trouble.raced
        BY <1>10 DEF Count
  <2>3. Follows(command[t], k)
        BY <1>9, <2>1
  <2> QED BY <1>0, <2>1, <2>2, <2>3
<1>11. ASSUME NEW t \in Terminals, ReadList(t)
      PROVE  TurnsInv'
  <2>1. UNCHANGED <<files, minted, done>> /\ trouble'.raced = trouble.raced
        BY <1>11 DEF ReadList
  <2>2. CASE Moves(t, Idle)
        BY <1>0, <1>5, <2>1, <2>2
  <2>3. CASE ~ Moves(t, Idle)
    <3>1. PICK k : /\ Moves(t, k) /\ SameCommand(command[t], k) /\ k.todo = command[t].todo
                   /\ k.at = "open" /\ command[t].at = "prepare"
          BY <1>11, <2>3, ReadListMoves
    <3>2. Follows(command[t], k)
          BY <1>9, <3>1
    <3> QED BY <1>0, <2>1, <3>1, <3>2
  <2> QED BY <2>2, <2>3
<1>12. ASSUME NEW t \in Terminals, Open(t)
      PROVE  TurnsInv'
  <2>1. PICK k : /\ command[t].at = "open" /\ Moves(t, k) /\ SameCommand(command[t], k) /\ k.at = "fill"
                 /\ k.todo = command[t].todo
                 /\ UNCHANGED <<budget, minted, done, trouble>>
        BY <1>12, OpenMoves
  <2>2. Follows(command[t], k)
        BY <1>9, <2>1
  <2> QED BY <2>1, <2>2, TurnsQuiet
<1>13. ASSUME NEW t \in Terminals, Kill(t)
      PROVE  TurnsInv'
  <2>1. UNCHANGED <<files, minted, done>> /\ trouble'.raced = trouble.raced
        BY <1>13 DEF Kill
  <2> QED BY <1>0, <1>5, <1>13, <2>1, KillMoves
<1>14. ASSUME UNCHANGED vars
      PROVE  TurnsInv'
      BY <1>14 DEF vars, TurnsInv, Terminals, Most
<1> QED BY <1>1, <1>2, <1>3, <1>4, <1>6, <1>7, <1>8, <1>10, <1>11, <1>12, <1>13, <1>14,
           ProtectTurns, RotateTurns, FillTurns DEF Next

-----------------------------------------------------------------------------
\* The grants that a command makes tell the truth.

\* What was true when some of the roots had been drawn.
LEMMA GrantTrueLater ==
    ASSUME NEW g \in Grant, NEW c, NEW s, NEW roots \in Seq(ContentKeys), NEW n \in 1..Len(roots),
           GrantTrue(g, c, s, FirstOf(roots, n))
    PROVE  GrantTrue(g, c, s, roots)
<1>1. PICK first : first = FirstOf(roots, n)
      OBVIOUS
<1>2. PICK l \in Nat : l = Len(roots)
      OBVIOUS
<1>3. n \in Nat /\ n >= 1 /\ n <= l
      BY <1>2
<1>4. Len(first) = n /\ \A i \in 1..n : first[i] = roots[i]
  <2>1. n \in 0..Len(roots)
        BY <1>2, <1>3
  <2> QED BY <1>1, <2>1, FirstOfIs
<1>5. PICK before : before = RecordOf(c, s, first)
      OBVIOUS
<1>6. PICK after : after = RecordOf(c, s, roots)
      OBVIOUS
<1>7. /\ before.id = c /\ before.steward = s /\ before.epoch = n - 1
      /\ after.id = c /\ after.steward = s /\ after.epoch = l - 1
      BY <1>2, <1>4, <1>5, <1>6 DEF RecordOf
<1>8. SoundTo(g, after)
      BY <1>1, <1>5, <1>7 DEF GrantTrue, SoundTo
<1>9. ASSUME NEW j \in 1..Len(g)
      PROVE  LabelTrueTo(g[j], after, roots)
  <2>1. g[j] \in Link /\ LabelTrueTo(g[j], before, first)
        BY <1>1, <1>5, LeafOfGrant DEF GrantTrue
  <2>2. g[j].epoch \in Nat /\ g[j].epoch <= n - 1
        BY <1>7, <2>1 DEF LabelTrueTo, Link
  <2>3. g[j].epoch + 1 \in 1..n /\ g[j].epoch <= l - 1
        BY <1>3, <2>2
  <2>4. KeyAt(first, g[j].close, g[j].facet, g[j].epoch) = KeyAt(roots, g[j].close, g[j].facet, g[j].epoch)
        BY <1>4, <2>3 DEF KeyAt
  <2> QED BY <1>7, <2>1, <2>3, <2>4 DEF LabelTrueTo
<1> QED BY <1>6, <1>8, <1>9 DEF GrantTrue

\* A grant issued by the steward under the true key is true.
LEMMA RootGrantTrue ==
    ASSUME NEW rec, NEW c \in Closes, NEW s \in People, rec.id = c, rec.steward = s, rec.epoch \in Nat,
           NEW roots \in Seq(ContentKeys), Len(roots) = rec.epoch + 1,
           NEW holder \in People, NEW facet \in Facets, NEW powers \in SUBSET AllPowers
    PROVE  GrantTrue(IssueRoot(rec, s, KeyAt(roots, c, Content, rec.epoch), rec.epoch,
                               holder, facet, powers, <<>>, Never), c, s, roots)
<1>1. PICK g : g = IssueRoot(rec, s, KeyAt(roots, c, Content, rec.epoch), rec.epoch,
                             holder, facet, powers, <<>>, Never)
      OBVIOUS
<1>2. <<>> \in Seq(Names) /\ Never \in Expiry
      BY DEF Expiry
<1>3. RootTrue(g, rec, roots, holder, facet, powers, Never)
      BY <1>1, <1>2, IssueRootTrue
<1>4. PICK r : r = RecordOf(c, s, roots)
      OBVIOUS
<1>5. r.id = rec.id /\ r.steward = rec.steward /\ r.epoch = rec.epoch
      BY <1>4 DEF RecordOf
<1>6. SoundTo(g, r) /\ Len(g) = 1 /\ LabelTrueTo(g[1], r, roots)
      BY <1>3, <1>5 DEF RootTrue, SoundTo, LabelTrueTo
<1>7. 1..1 = {1}
      OBVIOUS
<1> QED BY <1>1, <1>4, <1>6, <1>7 DEF GrantTrue

\* A narrower copy of a grant that tells the truth.
LEMMA ChildGrantTrue ==
    ASSUME NEW mine \in Grant, NEW c \in Closes, NEW s \in People,
           NEW roots \in Seq(ContentKeys), Len(roots) >= 1, GrantTrue(mine, c, s, roots),
           NEW rec, rec.id = c, NEW me \in People, NEW holder \in People, NEW facet \in Facets,
           MayAttenuate(mine, me, rec, facet, {}, Leaf(mine).prefix, Leaf(mine).expires)
    PROVE  GrantTrue(Attenuate(mine, me, rec, holder, facet, {}, Leaf(mine).prefix, Leaf(mine).expires),
                     c, s, roots)
<1>1. PICK r : r = RecordOf(c, s, roots)
      OBVIOUS
<1>2. r.id = c /\ r.epoch \in Nat /\ Len(roots) = r.epoch + 1
      BY <1>1 DEF RecordOf
<1>3. PICK n \in Nat : n = Len(mine) /\ n >= 1
      BY LeafOfGrant
<1>4. SoundTo(mine, r) /\ \A j \in 1..n : LabelTrueTo(mine[j], r, roots)
      BY <1>1, <1>3 DEF GrantTrue
<1>5. PICK l : l = Leaf(mine)
      OBVIOUS
<1>6. l \in Link /\ LabelTrueTo(Leaf(mine), r, roots)
      BY <1>3, <1>4, <1>5, LeafOfGrant DEF Leaf
<1>7. l.prefix \in Seq(Names) /\ l.expires \in Expiry /\ {} \in SUBSET AllPowers
      BY <1>6 DEF Link
<1>8. PassedKey(mine, me, rec, facet) = PassedKey(mine, me, r, facet)
      BY <1>2 DEF PassedKey
<1>9. MayAttenuate(mine, me, r, facet, {}, l.prefix, l.expires)
      BY <1>5, <1>8 DEF MayAttenuate
<1>10. PICK g : g = Attenuate(mine, me, r, holder, facet, {}, l.prefix, l.expires)
      OBVIOUS
<1>11. Attenuate(mine, me, rec, holder, facet, {}, Leaf(mine).prefix, Leaf(mine).expires) = g
      BY <1>5, <1>8, <1>10 DEF Attenuate
<1>12. ChildTrue(g, mine, r, roots, holder, facet, {}, l.expires)
      BY <1>2, <1>4, <1>6, <1>7, <1>9, <1>10, AttenuateTrue
<1>13. /\ Len(g) = n + 1 /\ Leaf(g) = g[n + 1] /\ \A j \in 1..n : g[j] = mine[j]
       /\ SoundTo(g, r) /\ LabelTrueTo(Leaf(g), r, roots)
      BY <1>3, <1>12 DEF ChildTrue
<1>14. ASSUME NEW j \in 1..Len(g)
       PROVE  LabelTrueTo(g[j], r, roots)
  <2>1. CASE j = n + 1
        BY <1>13, <2>1
  <2>2. CASE j # n + 1
    <3>1. j \in 1..n
          BY <1>13, <2>2
    <3> QED BY <1>4, <1>13, <3>1
  <2> QED BY <2>1, <2>2
<1> QED BY <1>1, <1>11, <1>13, <1>14 DEF GrantTrue

\* What a share adds: by the steward with the key found, by anyone else from
\* a grant that tells the truth.
LEMMA ShareTrue ==
    ASSUME TypesInv, NEW k, LoadedOK(k, minted), k.do = "share", NEW s \in People,
           NEW roots \in Seq(ContentKeys), k.close \in Closes, k.rec.steward = s, OnceTrue(k.rec, roots),
           HeldTrue(k.me, k.close, s, roots), NEW g \in ToShare(k)
    PROVE  GrantTrue(g, k.close, s, roots)
<1>0. /\ k.me \in People /\ k.with \in People /\ k.facet \in Facets /\ k.rec \in Record(People)
      /\ k.rec.id = k.close /\ GrantsOK
      BY DEF LoadedOK, LoadedRec, TypesInv
<1>1. PICK n \in Nat : n = k.rec.epoch
      BY <1>0 DEF Record
<1>2. n + 1 \in 1..Len(roots) /\ n + 1 \in 0..Len(roots) /\ Len(roots) >= 1
      BY <1>1 DEF OnceTrue
<1>3. CASE k.rec.steward = k.me
  <2>1. PICK key : key = CurrentKey(k.me, k.rec)
        OBVIOUS
  <2>2. key # NoKey /\ g = IssueRoot(k.rec, k.me, key, n, k.with, k.facet, {}, <<>>, Never)
        BY <1>1, <1>3, <2>1 DEF ToShare
  <2>3. key = KeyAt(roots, k.close, Content, n)
        BY <1>0, <1>1, <2>1, <2>2, FindTrue
  <2>4. PICK first : first = FirstOf(roots, n + 1)
        OBVIOUS
  <2>5. /\ first \in Seq(ContentKeys) /\ Len(first) = n + 1 /\ n + 1 \in 1..(n + 1)
        /\ \A i \in 1..(n + 1) : first[i] = roots[i]
        BY <1>2, <2>4, FirstOfIs
  <2>6. key = KeyAt(first, k.close, Content, n)
        BY <2>3, <2>5 DEF KeyAt
  <2>7. {} \in SUBSET AllPowers /\ k.rec.epoch \in Nat /\ Len(first) = k.rec.epoch + 1
        BY <1>1, <2>5
  <2>8. GrantTrue(g, k.close, s, first)
        BY <1>0, <1>1, <1>3, <2>2, <2>5, <2>6, <2>7, RootGrantTrue
  <2>9. g \in Grant
        BY ToShareTyped
  <2> QED BY <1>2, <2>4, <2>8, <2>9, GrantTrueLater
<1>4. CASE k.rec.steward # k.me
  <2>0. PICK held : held = GrantsFor(k.me)
        OBVIOUS
  <2> DEFINE wide == {i \in HeldOn(held, k.rec, 0) : Leaf(held[i]).facet >= k.facet}
             mine == held[First(wide)]
  <2>1. /\ wide # {}
        /\ MayAttenuate(mine, k.me, k.rec, k.facet, {}, Leaf(mine).prefix, Leaf(mine).expires)
        /\ g = Attenuate(mine, k.me, k.rec, k.with, k.facet, {}, Leaf(mine).prefix, Leaf(mine).expires)
        BY <1>4, <2>0 DEF ToShare
  <2>2. held \in Seq(Grant) /\ Len(held) \in Nat
        BY <1>0, <2>0, GrantsForFacts
  <2>3. wide \subseteq 1..Len(held)
        BY DEF HeldOn
  <2>4. First(wide) \in wide
        BY <2>1, <2>2, <2>3, FirstIn
  <2>5. mine \in Grant /\ Leaf(mine).close = k.rec.id
        BY <2>2, <2>3, <2>4, ElementIn DEF HeldOn
  <2>6. GrantTrue(mine, k.close, s, roots)
        BY <1>0, <2>0, <2>3, <2>4, <2>5 DEF HeldTrue
  <2> HIDE DEF mine
  <2> QED BY <1>0, <1>2, <2>1, <2>5, <2>6, ChildGrantTrue
<1> QED BY <1>3, <1>4

\* The files of a founding and of a rotation.
LEMMA FoundingTrue ==
    ASSUME NEW me \in People, NEW c \in Closes, NEW root \in ContentKeys
    PROVE  /\ TruthfulTo(FoundRecord(c, me), <<root>>)
           /\ GrantTrue(FoundingGrant(me, c, root), c, me, <<root>>)
           /\ WritesTrue(ToFound(me, c, root), c, me, <<>>)
<1>1. PICK rec : rec = FoundRecord(c, me)
      OBVIOUS
<1>2. rec.id = c /\ rec.steward = me /\ rec.epoch = 0 /\ rec.chain = <<>>
      BY <1>1 DEF FoundRecord
<1>3. PICK roots : roots = <<root>>
      OBVIOUS
<1>4. roots \in Seq(ContentKeys) /\ Len(roots) = 1 /\ roots[1] = root /\ Append(<<>>, root) = roots
      BY <1>3
<1>5. TruthfulTo(rec, roots)
  <2>1. Len(<<>>) = 0 /\ 1..0 = {}
        OBVIOUS
  <2> QED BY <1>2, <1>4, <2>1 DEF TruthfulTo
<1>6. PICK g : g = FoundingGrant(me, c, root)
      OBVIOUS
<1>7. GrantTrue(g, c, me, roots)
  <2>1. KeyAt(roots, c, Content, 0) = MintKey(root, c)
        BY <1>4 DEF KeyAt, FacetKey
  <2>2. g = IssueRoot(rec, me, KeyAt(roots, c, Content, rec.epoch), rec.epoch, me, Content, AllPowers, <<>>, Never)
        BY <1>1, <1>2, <1>6, <2>1 DEF FoundingGrant
  <2>3. AllPowers \in SUBSET AllPowers /\ Content \in Facets /\ rec.epoch \in Nat /\ Len(roots) = rec.epoch + 1
        BY <1>2, <1>4 DEF Facets, Presence, Content
  <2> QED BY <1>2, <1>4, <2>2, <2>3, RootGrantTrue
<1>8. WritesTrue(ToFound(me, c, root), c, me, <<>>)
  <2>1. PICK todo : todo = ToFound(me, c, root)
        OBVIOUS
  <2>2. /\ Len(todo) = 3 /\ todo[1] = RecordFile(rec, root)
        /\ todo[2] = GrantFile(me, g) /\ todo[3] = ListFile("map", c)
        BY <1>1, <1>6, <2>1, FoundingFiles
  <2>3. Head(todo) = todo[1]
        BY <2>1, <2>2 DEF ToFound
  <2>4. /\ todo[1].is = "record" /\ todo[1].rec = rec /\ todo[1].root = root
        /\ todo[2].is = "grant" /\ todo[2].grant = g /\ todo[3].is = "list"
        BY <2>2 DEF RecordFile, GrantFile, ListFile
  <2>5. 1..3 = {1, 2, 3}
        OBVIOUS
  <2> QED BY <1>2, <1>4, <1>5, <1>7, <2>1, <2>2, <2>3, <2>4, <2>5 DEF WritesTrue
<1> QED BY <1>1, <1>3, <1>5, <1>6, <1>7, <1>8

\* A rotation of the present record, with the true key, writes only truth: the
\* new record, and the grants re-issued for the new epoch.
LEMMA RotationTrue ==
    ASSUME NEW k, NEW ms, GatherOK(k, ms), k.close \in Closes, NEW root \in ContentKeys,
           NEW s \in People, NEW roots \in Seq(ContentKeys), k.rec.steward = s,
           TruthfulTo(k.rec, roots), k.key = KeyAt(roots, k.close, Content, k.rec.epoch)
    PROVE  WritesTrue(ToRotate(k, root), k.close, s, roots)
<1>1. PICK c \in Closes : c = k.close
      OBVIOUS
<1>2. k.rec \in Record(People) /\ k.rec.id = c /\ k.me = s /\ k.keepers \in Seq(KeeperSet)
      BY <1>1 DEF GatherOK, LoadedRec
<1>3. PICK rec : rec = RotateRecord(k.rec, k.key, MintKey(root, c))
      OBVIOUS
<1>4. PICK more : more = Append(roots, root)
      OBVIOUS
<1>5. TruthfulTo(rec, more)
      BY <1>1, <1>2, <1>3, <1>4, RotateTruthful
<1>6. rec.id = c /\ rec.steward = s /\ rec.epoch = k.rec.epoch + 1 /\ rec.epoch \in Nat
  <2>1. k.key \in Key /\ MintKey(root, c) \in Key /\ k.rec.epoch \in Nat
        BY <1>2, MintKeyType DEF GatherOK, Record
  <2>2. PICK old \in Record(People), key \in Key, new \in Key :
           old = k.rec /\ key = k.key /\ new = MintKey(root, c)
        BY <1>2, <2>1
  <2>3. rec = RotateRecord(old, key, new)
        BY <1>3, <2>2
  <2>4. rec.id = old.id /\ rec.steward = old.steward /\ rec.epoch = old.epoch + 1
        BY <2>3, RotateRecordFields
  <2> QED BY <1>2, <2>1, <2>2, <2>4
<1>7. more \in Seq(ContentKeys) /\ Len(more) = rec.epoch + 1 /\ more[rec.epoch + 1] = root
  <2>1. Len(roots) = rec.epoch
        BY <1>6 DEF TruthfulTo
  <2> QED BY <1>4, <2>1
<1>8. MintKey(root, c) = KeyAt(more, c, Content, rec.epoch)
      BY <1>7 DEF KeyAt, FacetKey
<1> DEFINE g(i) == IssueRoot(rec, k.me, MintKey(root, c), rec.epoch, k.keepers[i].who,
                             k.keepers[i].facet, k.keepers[i].powers, <<>>, Never)
<1>9. ASSUME NEW i \in 1..Len(k.keepers)
      PROVE  GrantTrue(g(i), c, s, more)
  <2>1. k.keepers[i] \in KeeperSet
        BY <1>2, ElementIn
  <2>2. k.keepers[i].who \in People /\ k.keepers[i].facet \in Facets /\ k.keepers[i].powers \in SUBSET AllPowers
        BY <2>1 DEF KeeperSet
  <2> QED BY <1>2, <1>6, <1>7, <1>8, <2>2, RootGrantTrue
<1>10. PICK todo : todo = ToRotate(k, root)
      OBVIOUS
<1>11. PICK n \in Nat : n = Len(k.keepers)
      BY <1>2
<1>12. /\ todo \in Seq(FilesFor(c)) /\ Len(todo) = n + 1 /\ todo[1] = RecordFile(rec, root)
       /\ \A i \in 1..n : todo[i + 1] = GrantFile(k.keepers[i].who, g(i))
       BY <1>1, <1>3, <1>10, <1>11, RotationFiles
<1>13. Head(todo) = todo[1]
  <2>1. Len(todo) >= 1
        BY <1>12
  <2> QED BY <1>12, <2>1
<1>14. todo[1].is = "record" /\ todo[1].rec = rec /\ todo[1].root = root
       BY <1>12 DEF RecordFile
<1>15. ASSUME NEW i \in 1..Len(todo), todo[i].is = "grant"
       PROVE  GrantTrue(todo[i].grant, c, s, more)
  <2>1. i # 1
        BY <1>14, <1>15
  <2>2. i - 1 \in 1..n /\ (i - 1) + 1 = i
        BY <1>12, <2>1
  <2>3. PICK h : h = g(i - 1)
        OBVIOUS
  <2>4. todo[i] = GrantFile(k.keepers[i - 1].who, h)
        BY <1>12, <2>2, <2>3
  <2>5. todo[i].grant = h
        BY <2>4 DEF GrantFile
  <2>6. GrantTrue(h, c, s, more)
        BY <1>9, <1>11, <2>2, <2>3
  <2> QED BY <2>5, <2>6
<1> HIDE DEF g
<1> QED BY <1>1, <1>4, <1>5, <1>6, <1>10, <1>13, <1>14, <1>15 DEF WritesTrue

-----------------------------------------------------------------------------
\* The steps, one after the other.

\* One command moves and no file is touched.
LEMMA TrueMoved ==
    ASSUME NEW c, NEW s, NEW roots, NEW cs, NEW gs, NEW cmd, NEW cmdA, NEW t \in Terminals,
           \A u \in Terminals \ {t} : cmdA[u] = cmd[u],
           cmdA[t] # Idle /\ cmdA[t].close = c => CommandTrue(cmdA[t], c, s, roots),
           CloseTrue(c, s, roots, cs, gs, cmd)
    PROVE  CloseTrue(c, s, roots, cs, gs, cmdA)
<1>1. \A u \in Terminals \ {t} : cmdA[u] # Idle /\ cmdA[u].close = c => CommandTrue(cmdA[u], c, s, roots)
      BY DEF CloseTrue
<1>2. \A u \in Terminals : cmdA[u] # Idle /\ cmdA[u].close = c => CommandTrue(cmdA[u], c, s, roots)
      BY <1>1
<1> QED BY <1>2 DEF CloseTrue

\* A step that touches no file, and leaves the command on its way.
LEMMA TrueStill ==
    ASSUME TrueInv, NEW t \in Terminals, NEW k, Moves(t, k), closes' = closes, grants' = grants,
           minted' = minted, trouble.raced \subseteq trouble'.raced,
           \A c \in Closes \ trouble'.raced : \A s \in People :
              CloseTrue(c, s, RootsOf(c, minted), closes, grants, command) /\ k # Idle /\ k.close = c =>
                 CommandTrue(k, c, s, RootsOf(c, minted))
    PROVE  TrueInv'
<1>1. PICK cs, gs, ms, cmd, cmdA : /\ cs = closes /\ gs = grants /\ ms = minted
                                   /\ cmd = command /\ cmdA = command'
      OBVIOUS
<1>2. cmdA[t] = k /\ \A u \in Terminals \ {t} : cmdA[u] = cmd[u]
      BY <1>1 DEF Moves
<1>3. ASSUME NEW c \in Closes \ trouble'.raced
      PROVE  \E s \in People : CloseTrue(c, s, RootsOf(c, ms), cs, gs, cmdA)
  <2>1. PICK s \in People : CloseTrue(c, s, RootsOf(c, ms), cs, gs, cmd)
        BY <1>1 DEF TrueInv
  <2>2. PICK roots : roots = RootsOf(c, ms)
        OBVIOUS
  <2>3. cmdA[t] # Idle /\ cmdA[t].close = c => CommandTrue(cmdA[t], c, s, roots)
        BY <1>1, <1>2, <2>1, <2>2
  <2>4. CloseTrue(c, s, roots, cs, gs, cmd)
        BY <2>1, <2>2
  <2>5. CloseTrue(c, s, roots, cs, gs, cmdA)
        BY <1>2, <2>3, <2>4, TrueMoved
  <2> QED BY <2>2, <2>5
<1>4. TrueInv' <=> \A c \in Closes \ trouble'.raced : \E s \in People :
                      CloseTrue(c, s, RootsOf(c, ms), cs, gs, cmdA)
      BY <1>1 DEF TrueInv, CloseTrue, Terminals, Most
<1> QED BY <1>3, <1>4

\* A command that ends is no matter.
LEMMA TrueIdle ==
    ASSUME TrueInv, NEW t \in Terminals, Moves(t, Idle), closes' = closes, grants' = grants,
           minted' = minted, trouble.raced \subseteq trouble'.raced
    PROVE  TrueInv'
BY TrueStill

\* The command in hand, where it stands, tells the truth.
LEMMA InHand ==
    ASSUME NEW t \in Terminals, command[t] # Idle, NEW c, command[t].close = c, NEW s, NEW roots,
           CloseTrue(c, s, roots, closes, grants, command)
    PROVE  CommandTrue(command[t], c, s, roots)
BY DEF CloseTrue

\* The grants that a person has for the close are true.
LEMMA HeldIsTrue ==
    ASSUME TypesInv, NEW c, NEW s, NEW roots, CloseTrue(c, s, roots, closes, grants, command),
           NEW p \in People
    PROVE  HeldTrue(p, c, s, roots)
<1>1. GrantsOK
      BY DEF TypesInv
<1>2. ASSUME NEW i \in 1..Len(GrantsFor(p)), Leaf(GrantsFor(p)[i]).close = c
      PROVE  GrantTrue(GrantsFor(p)[i], c, s, roots) /\ Leaf(GrantsFor(p)[i]).holder = p
  <2>1. PICK j \in 1..Len(grants[p]) : grants[p][j] # Torn /\ GrantsFor(p)[i] = grants[p][j]
        BY <1>1, GrantsForFacts
  <2> QED BY <1>1, <1>2, <2>1 DEF CloseTrue, GrantsOK
<1> QED BY <1>2 DEF HeldTrue

\* The roots drawn for a close are content keys.
LEMMA RootsTyped ==
    ASSUME TypesInv, NEW c
    PROVE  RootsOf(c, minted) \in Seq(ContentKeys)
<1>1. <<>> \in Seq(ContentKeys)
      OBVIOUS
<1> QED BY <1>1 DEF RootsOf, TypesInv, ClosesOK

\* protect is about to write a true record and a true first grant.
LEMMA ProtectTrue ==
    ASSUME TypesInv, TrueInv, NEW t \in Terminals, NEW me \in People, NEW d \in Closes,
           Protect(t, me, d)
    PROVE  TrueInv'
<1>1. PICK root \in ContentKeys : \E k :
         Moves(t, k) /\ Started(k, "protect", me, d, ToFound(me, d, root))
      BY ProtectMoves
<1>2. PICK k : /\ Moves(t, k) /\ k.do = "protect" /\ k.close = d
               /\ k.todo = ToFound(me, d, root) /\ k.at \in {"open", "prepare"}
      BY <1>1 DEF Started
<1>3. /\ closes' = closes /\ grants' = grants /\ minted' = minted /\ trouble' = trouble
      /\ d \notin DOMAIN closes
      /\ \A u \in Busy : command[u].do = "protect" => command[u].close # d
      BY DEF Protect, files
<1>4. PICK cs, gs, ms, cmd, cmdA : /\ cs = closes /\ gs = grants /\ ms = minted
                                   /\ cmd = command /\ cmdA = command'
      OBVIOUS
<1>5. cmdA[t] = k /\ \A u \in Terminals \ {t} : cmdA[u] = cmd[u]
      BY <1>2, <1>4 DEF Moves
<1>6. d \notin DOMAIN ms /\ d \notin DOMAIN cs
      BY <1>3, <1>4 DEF TypesInv, ClosesOK
<1>7. ASSUME NEW c \in Closes \ trouble'.raced
      PROVE  \E s \in People : CloseTrue(c, s, RootsOf(c, ms), cs, gs, cmdA)
  <2>1. CASE c # d
    <3>1. PICK s \in People : CloseTrue(c, s, RootsOf(c, ms), cs, gs, cmd)
          BY <1>3, <1>4 DEF TrueInv
    <3>2. PICK roots : roots = RootsOf(c, ms)
          OBVIOUS
    <3>3. ~ (cmdA[t] # Idle /\ cmdA[t].close = c)
          BY <1>2, <1>5, <2>1
    <3>4. CloseTrue(c, s, roots, cs, gs, cmd)
          BY <3>1, <3>2
    <3>5. CloseTrue(c, s, roots, cs, gs, cmdA)
          BY <1>5, <3>3, <3>4, TrueMoved
    <3> QED BY <3>2, <3>5
  <2>2. CASE c = d
    <3>1. RootsOf(c, ms) = <<>>
          BY <1>6, <2>2 DEF RootsOf
    <3>2. \A p \in People : \A i \in 1..Len(gs[p]) : ~ (gs[p][i] # Torn /\ Leaf(gs[p][i]).close = c)
          BY <1>4, <1>6, <2>2 DEF TypesInv, GrantsOK
    <3>3. ASSUME NEW u \in Terminals \ {t}, cmd[u] # Idle, cmd[u].close = c
          PROVE  FALSE
      <4>1. CommandOK(cmd[u], cs, gs, ms)
            BY <1>4 DEF TypesInv, CommandsOK
      <4>2. WritingOK(cmd[u], cs, gs, ms)
            BY <1>6, <2>2, <3>3, <4>1 DEF CommandOK, LoadedOK, GatherOK, LoadedRec
      <4>3. cmd[u].do = "protect"
            BY <1>6, <2>2, <3>3, <4>2 DEF WritingOK
      <4> QED BY <1>3, <1>4, <2>2, <3>3, <4>3 DEF Busy
    <3>4. CommandTrue(k, c, me, <<>>)
          BY <1>2, <2>2, FoundingTrue DEF CommandTrue
    <3>5. \A u \in Terminals : cmdA[u] # Idle /\ cmdA[u].close = c => CommandTrue(cmdA[u], c, me, <<>>)
          BY <1>5, <3>3, <3>4
    <3>6. CloseTrue(c, me, <<>>, cs, gs, cmdA)
          BY <1>6, <2>2, <3>2, <3>5 DEF CloseTrue
    <3> QED BY <3>1, <3>6
  <2> QED BY <2>1, <2>2
<1>8. TrueInv' <=> \A c \in Closes \ trouble'.raced : \E s \in People :
                      CloseTrue(c, s, RootsOf(c, ms), cs, gs, cmdA)
      BY <1>3, <1>4 DEF TrueInv, CloseTrue, Terminals, Most
<1> QED BY <1>7, <1>8

\* share has read a record that is true at that moment.
LEMMA ShareTrueStep ==
    ASSUME TypesInv, TrueInv, NEW t \in Terminals, NEW me \in People, NEW d \in Closes, NEW with \in Receivers,
           NEW facet \in ShareFacets, Share(t, me, d, with, facet)
    PROVE  TrueInv'
<1>1. PICK k : /\ Moves(t, k) /\ LoadedOK(k, minted)
               /\ k.do = "share" /\ k.me = me /\ k.close = d /\ k.with = with /\ k.facet = facet
               /\ k.rec = closes[d] /\ closes[d] # Torn
      BY ShareMoves
<1>2. /\ closes' = closes /\ grants' = grants /\ minted' = minted /\ trouble.raced \subseteq trouble'.raced
      /\ d \in DOMAIN closes
      BY DEF Share, files, Loads
<1>3. ASSUME NEW c \in Closes, NEW s \in People,
             CloseTrue(c, s, RootsOf(c, minted), closes, grants, command), k.close = c
      PROVE  CommandTrue(k, c, s, RootsOf(c, minted))
  <2>1. PICK roots \in Seq(ContentKeys) : roots = RootsOf(c, minted)
        BY RootsTyped
  <2>2. k.rec.steward = s /\ TruthfulTo(k.rec, roots)
        BY <1>1, <1>2, <1>3, <2>1 DEF CloseTrue
  <2>3. k.rec \in Record(People) /\ k.at = "loaded"
        BY <1>1 DEF LoadedOK, LoadedRec
  <2>4. OnceTrue(k.rec, roots)
        BY <2>2, <2>3, TrueOnce
  <2> QED BY <1>1, <2>1, <2>2, <2>3, <2>4 DEF CommandTrue
<1> QED BY <1>1, <1>2, <1>3, TrueStill

\* rotate has read a record that is true at that moment.
LEMMA RotateTrueStep ==
    ASSUME TypesInv, TrueInv, NEW t \in Terminals, NEW me \in People, NEW d \in Closes, NEW except,
           Rotate(t, me, d, except)
    PROVE  TrueInv'
<1>0. PICK held : held = [p \in People |-> Readings(p, closes[d])]
      OBVIOUS
<1>1. PICK k : /\ Moves(t, k) /\ LoadedOK(k, minted)
               /\ k.do = "rotate" /\ k.me = me /\ k.close = d /\ k.except = except
               /\ k.held = held
               /\ k.rec = closes[d] /\ closes[d] # Torn
      BY <1>0, RotateMoves
<1>2. /\ closes' = closes /\ grants' = grants /\ minted' = minted /\ trouble.raced \subseteq trouble'.raced
      /\ d \in DOMAIN closes
      BY DEF Rotate, files, Loads, TypesInv, HistoryOK
<1>3. ASSUME NEW c \in Closes, NEW s \in People,
             CloseTrue(c, s, RootsOf(c, minted), closes, grants, command), k.close = c
      PROVE  CommandTrue(k, c, s, RootsOf(c, minted))
  <2>1. PICK roots \in Seq(ContentKeys) : roots = RootsOf(c, minted)
        BY RootsTyped
  <2>2. k.rec.steward = s /\ TruthfulTo(k.rec, roots)
        BY <1>1, <1>2, <1>3, <2>1 DEF CloseTrue
  <2>3. k.rec \in Record(People) /\ k.at = "loaded"
        BY <1>1 DEF LoadedOK, LoadedRec
  <2>4. OnceTrue(k.rec, roots)
        BY <2>2, <2>3, TrueOnce
  <2> QED BY <1>1, <2>1, <2>2, <2>3, <2>4 DEF CommandTrue
<1> QED BY <1>1, <1>2, <1>3, TrueStill

\* cell new writes neither records nor grants.
LEMMA RaiseTrueStep ==
    ASSUME TypesInv, TrueInv, NEW t \in Terminals, NEW me \in People, NEW path \in Signposts,
           Raise(t, me, path)
    PROVE  TrueInv'
<1>1. PICK k : Moves(t, k) /\ Started(k, "raise", me, Commons, << ListFile("index", path) >>)
      BY RaiseMoves
<1>2. /\ closes' = closes /\ grants' = grants /\ minted' = minted /\ trouble.raced \subseteq trouble'.raced
      BY DEF Raise, files
<1>3. PICK todo : todo = << ListFile("index", path) >>
      OBVIOUS
<1>4. k.todo = todo /\ k.at \in {"open", "prepare"}
      BY <1>1, <1>3 DEF Started
<1>5. Len(todo) = 1 /\ Head(todo) = todo[1] /\ todo[1].is = "list"
      BY <1>3 DEF ListFile
<1>6. \A c, s, roots : CommandTrue(k, c, s, roots)
  <2>1. 1..1 = {1}
        OBVIOUS
  <2> QED BY <1>4, <1>5, <2>1 DEF CommandTrue, WritesTrue
<1> QED BY <1>1, <1>2, <1>6, TrueStill

\* The grant that share decides on is true, whatever has been rotated since it
\* read the record.
LEMMA SettleTrueStep ==
    ASSUME TypesInv, TrueInv, NEW t \in Terminals, Settle(t)
    PROVE  TrueInv'
<1>1. PICK j : j = command[t]
      OBVIOUS
<1>2. PICK g \in ToShare(j) : \E k :
         /\ LoadedOK(j, minted) /\ j.do = "share"
         /\ Moves(t, k) /\ Started(k, "share", j.me, j.close, << GrantFile(Leaf(g).holder, g) >>)
      BY <1>1, SettleMoves
<1>3. PICK k : Moves(t, k) /\ Started(k, "share", j.me, j.close, << GrantFile(Leaf(g).holder, g) >>)
      BY <1>2
<1>4. /\ closes' = closes /\ grants' = grants /\ minted' = minted /\ trouble.raced \subseteq trouble'.raced
      BY DEF Settle, files
<1>5. PICK todo : todo = << GrantFile(Leaf(g).holder, g) >>
      OBVIOUS
<1>6. k.todo = todo /\ k.at \in {"open", "prepare"} /\ k.close = j.close
      BY <1>3, <1>5 DEF Started
<1>7. Len(todo) = 1 /\ Head(todo) = todo[1] /\ todo[1].is = "grant" /\ todo[1].grant = g
      BY <1>5 DEF GrantFile
<1>8. ASSUME NEW c \in Closes, NEW s \in People,
             CloseTrue(c, s, RootsOf(c, minted), closes, grants, command), k.close = c
      PROVE  CommandTrue(k, c, s, RootsOf(c, minted))
  <2>1. PICK roots \in Seq(ContentKeys) : roots = RootsOf(c, minted)
        BY RootsTyped
  <2>2. j.at = "loaded" /\ j.me \in People /\ j # Idle
        BY <1>2 DEF LoadedOK, LoadedRec, Idle
  <2>3. CommandTrue(j, c, s, roots)
        BY <1>1, <1>6, <1>8, <2>1, <2>2, InHand
  <2>4. j.rec.steward = s /\ OnceTrue(j.rec, roots)
        BY <2>2, <2>3 DEF CommandTrue
  <2>5. HeldTrue(j.me, c, s, roots)
        BY <1>8, <2>1, <2>2, HeldIsTrue
  <2>6. GrantTrue(g, c, s, roots)
        BY <1>2, <1>6, <1>8, <2>4, <2>5, ShareTrue
  <2>7. 1..1 = {1}
        OBVIOUS
  <2> QED BY <1>6, <1>7, <2>1, <2>6, <2>7 DEF CommandTrue, WritesTrue
<1> QED BY <1>3, <1>4, <1>8, TrueStill

\* The key found is the true one for the epoch of the record that was read.
LEMMA FindKeyTrueStep ==
    ASSUME TypesInv, TrueInv, NEW t \in Terminals, FindKey(t)
    PROVE  TrueInv'
<1>1. PICK j : j = command[t]
      OBVIOUS
<1>2. PICK k : /\ LoadedOK(command[t], minted) /\ command[t].do = "rotate"
               /\ Moves(t, k) /\ GatherOK(k, minted)
               /\ k.me = command[t].me /\ k.close = command[t].close /\ k.rec = command[t].rec
               /\ k.except = command[t].except /\ k.held = command[t].held
               /\ k.key = CurrentKey(k.me, k.rec) /\ k.keepers = <<>> /\ k.left = Without(Order, k.except)
      BY FindKeyMoves
<1>3. /\ closes' = closes /\ grants' = grants /\ minted' = minted /\ trouble.raced \subseteq trouble'.raced
      BY DEF FindKey, files
<1>4. /\ j.at = "loaded" /\ j.do = "rotate" /\ j # Idle
      /\ k.at = "gather" /\ k.do = "rotate" /\ k.me \in People /\ k.rec \in Record(People) /\ k.rec.id = k.close
      /\ k.key \in Key /\ k.rec = j.rec /\ k.close = j.close
      BY <1>1, <1>2 DEF LoadedOK, GatherOK, LoadedRec, Idle
<1>5. k.key # NoKey
      BY <1>4, NoKeyIsNoKey
<1>6. ASSUME NEW c \in Closes, NEW s \in People,
             CloseTrue(c, s, RootsOf(c, minted), closes, grants, command), k.close = c
      PROVE  CommandTrue(k, c, s, RootsOf(c, minted))
  <2>1. PICK roots \in Seq(ContentKeys) : roots = RootsOf(c, minted)
        BY RootsTyped
  <2>2. CommandTrue(j, c, s, roots)
        BY <1>1, <1>4, <1>6, <2>1, InHand
  <2>3. j.rec.steward = s /\ OnceTrue(k.rec, roots) /\ TruthfulTo(k.rec, roots)
        BY <1>4, <2>2 DEF CommandTrue
  <2>4. HeldTrue(k.me, c, s, roots)
        BY <1>4, <1>6, <2>1, HeldIsTrue
  <2>5. k.key = KeyAt(roots, c, Content, k.rec.epoch)
        BY <1>2, <1>4, <1>5, <1>6, <2>3, <2>4, FindTrue
  <2> QED BY <1>4, <2>1, <2>3, <2>5 DEF CommandTrue
<1> QED BY <1>2, <1>3, <1>6, TrueStill

\* Asking for grants changes nothing that was true.
LEMMA GatherTrueStep ==
    ASSUME TypesInv, TrueInv, NEW t \in Terminals, Gather(t)
    PROVE  TrueInv'
<1>1. PICK j : j = command[t]
      OBVIOUS
<1>2. PICK p \in People : \E held : \E k :
         /\ GatherOK(j, minted) /\ Moves(t, k) /\ GatherOK(k, minted)
         /\ k.close = j.close /\ k.rec = j.rec /\ k.key = j.key
      BY <1>1, GatherMoves
<1>3. PICK k : /\ GatherOK(j, minted) /\ Moves(t, k) /\ GatherOK(k, minted)
               /\ k.close = j.close /\ k.rec = j.rec /\ k.key = j.key
      BY <1>2
<1>4. /\ closes' = closes /\ grants' = grants /\ minted' = minted /\ trouble.raced \subseteq trouble'.raced
      BY DEF Gather, files
<1>5. /\ j.at = "gather" /\ j.do = "rotate" /\ j # Idle
      /\ k.at = "gather" /\ k.do = "rotate"
      BY <1>3 DEF GatherOK, Idle
<1>6. ASSUME NEW c \in Closes, NEW s \in People,
             CloseTrue(c, s, RootsOf(c, minted), closes, grants, command), k.close = c
      PROVE  CommandTrue(k, c, s, RootsOf(c, minted))
  <2>1. CommandTrue(j, c, s, RootsOf(c, minted))
        BY <1>1, <1>3, <1>5, <1>6, InHand
  <2> QED BY <1>3, <1>5, <2>1 DEF CommandTrue
<1> QED BY <1>3, <1>4, <1>6, TrueStill

\* The rotation that nobody raced writes truth.
LEMMA ChangeLockTrueStep ==
    ASSUME TypesInv, TrueInv, NEW t \in Terminals, ChangeLock(t)
    PROVE  TrueInv'
<1>1. PICK j : j = command[t]
      OBVIOUS
<1>2. PICK root \in ContentKeys : \E k :
         /\ GatherOK(j, minted) /\ j.close \in Closes
         /\ Moves(t, k) /\ Started(k, "rotate", j.me, j.close, ToRotate(j, root))
      BY <1>1, ChangeLockMoves
<1>3. PICK k : /\ GatherOK(j, minted) /\ j.close \in Closes
               /\ Moves(t, k) /\ Started(k, "rotate", j.me, j.close, ToRotate(j, root))
      BY <1>2
<1>4. /\ closes' = closes /\ grants' = grants /\ minted' = minted /\ trouble.raced \subseteq trouble'.raced
      BY DEF ChangeLock, files
<1>5. /\ j.at = "gather" /\ j.do = "rotate" /\ j # Idle
      /\ k.at \in {"open", "prepare"} /\ k.close = j.close /\ k.todo = ToRotate(j, root)
      BY <1>3 DEF GatherOK, Idle, Started
<1>6. ASSUME NEW c \in Closes, NEW s \in People,
             CloseTrue(c, s, RootsOf(c, minted), closes, grants, command), k.close = c
      PROVE  CommandTrue(k, c, s, RootsOf(c, minted))
  <2>1. PICK roots \in Seq(ContentKeys) : roots = RootsOf(c, minted)
        BY RootsTyped
  <2>2. CommandTrue(j, c, s, roots)
        BY <1>1, <1>5, <1>6, <2>1, InHand
  <2>3. /\ j.rec.steward = s /\ TruthfulTo(j.rec, roots)
        /\ j.key = KeyAt(roots, j.close, Content, j.rec.epoch)
        BY <1>5, <1>6, <2>2 DEF CommandTrue
  <2>4. WritesTrue(ToRotate(j, root), j.close, s, roots)
        BY <1>3, <2>3, RotationTrue
  <2> QED BY <1>5, <1>6, <2>1, <2>4 DEF CommandTrue
<1> QED BY <1>3, <1>4, <1>6, TrueStill

\* Counting the grants and reading a list change nothing that is to be written.
LEMMA SameTrue ==
    ASSUME NEW j, NEW k, j.at \in {"prepare", "open", "fill"}, k.at \in {"prepare", "open", "fill"},
           k.todo = j.todo, NEW c, NEW s, NEW roots, CommandTrue(j, c, s, roots)
    PROVE  CommandTrue(k, c, s, roots)
BY DEF CommandTrue

\* Numbering a file or reading a list changes nothing of what is written.
LEMMA PreparedTrue ==
    ASSUME TrueInv, NEW t \in Terminals, NEW k, Moves(t, k), SameCommand(command[t], k),
           k.todo = command[t].todo, command[t].at = "prepare", k.at = "open",
           closes' = closes, grants' = grants, minted' = minted, trouble.raced \subseteq trouble'.raced
    PROVE  TrueInv'
<1>1. PICK j : j = command[t]
      OBVIOUS
<1>2. j # Idle /\ k.close = j.close
      BY <1>1 DEF Idle, SameCommand
<1>3. ASSUME NEW c \in Closes, NEW s \in People,
             CloseTrue(c, s, RootsOf(c, minted), closes, grants, command), k.close = c
      PROVE  CommandTrue(k, c, s, RootsOf(c, minted))
  <2>1. PICK roots : roots = RootsOf(c, minted)
        OBVIOUS
  <2>2. CommandTrue(j, c, s, roots)
        BY <1>1, <1>2, <1>3, <2>1, InHand
  <2> QED BY <1>1, <2>1, <2>2, SameTrue
<1> QED BY <1>3, TrueStill

\* A file that is opened is torn; the rest of the files is as it was.
LEMMA OpenTrueStep ==
    ASSUME TypesInv, TrueInv, NEW t \in Terminals, Open(t)
    PROVE  TrueInv'
<1>1. PICK j : j = command[t]
      OBVIOUS
<1>2. PICK f : f = File(t)
      OBVIOUS
<1>3. PICK k : /\ WritingOK(j, closes, grants, minted) /\ j.at = "open"
               /\ f = Head(j.todo) /\ f \in FilesFor(j.close)
               /\ Moves(t, k) /\ SameCommand(j, k) /\ k.at = "fill" /\ k.todo = j.todo
               /\ Opened(j.close, f, j.n)
               /\ UNCHANGED <<budget, minted, done, trouble>>
      BY <1>1, <1>2, OpenMoves
<1>4. PICK cs, csA, gs, gsA, ms, cmd, cmdA :
         /\ cs = closes /\ csA = closes' /\ gs = grants /\ gsA = grants' /\ ms = minted
         /\ cmd = command /\ cmdA = command'
      OBVIOUS
<1>5. cmdA[t] = k /\ (\A u \in Terminals \ {t} : cmdA[u] = cmd[u]) /\ cmd[t] = j
      BY <1>1, <1>3, <1>4 DEF Moves
<1>6. ASSUME NEW c
      PROVE  c \in DOMAIN csA /\ csA[c] # Torn => c \in DOMAIN cs /\ csA[c] = cs[c]
  <2>1. CASE f.is = "record"
    <3>1. csA = With(cs, j.close, Torn)
          BY <1>3, <1>4, <2>1 DEF Opened
    <3>2. /\ DOMAIN csA = DOMAIN cs \cup {j.close} /\ csA[j.close] = Torn
          /\ \A y \in DOMAIN cs \ {j.close} : csA[y] = cs[y]
          BY <3>1 DEF With
    <3> QED BY <3>2
  <2>2. CASE f.is # "record"
        BY <1>3, <1>4, <2>2 DEF Opened
  <2> QED BY <2>1, <2>2
<1>7. ASSUME NEW p \in People, NEW i \in 1..Len(gsA[p]), gsA[p][i] # Torn
      PROVE  i \in 1..Len(gs[p]) /\ gsA[p][i] = gs[p][i]
  <2>1. CASE f.is = "grant" /\ p = f.who
    <3>1. gsA[p] = With(gs[p], j.n, Torn) /\ j.n \in 1..(Len(gs[p]) + 1) /\ gs[p] \in Seq(Grant \cup {Torn})
          BY <1>3, <1>4, <2>1 DEF Opened, WritingOK, AtFileOK, TypesInv, GrantsOK
    <3>2. PICK A : A = Grant \cup {Torn}
          OBVIOUS
    <3>3. PICK old \in Seq(A) : old = gs[p]
          BY <3>1, <3>2
    <3>4. PICK n \in 1..(Len(old) + 1) : n = j.n
          BY <3>1, <3>3
    <3>5. Torn \in A /\ old \in Seq(A) /\ n \in 1..(Len(old) + 1) /\ Len(old) \in Nat
          BY <3>2
    <3>6. PICK w : w = With(old, n, Torn)
          OBVIOUS
    <3>7. /\ Len(w) = IF n = Len(old) + 1 THEN n ELSE Len(old)
          /\ w[n] = Torn /\ \A h \in 1..Len(old) : h # n => w[h] = old[h]
      <4>1. /\ Len(With(old, n, Torn)) = IF n = Len(old) + 1 THEN n ELSE Len(old)
            /\ With(old, n, Torn)[n] = Torn
            /\ \A h \in 1..Len(old) : h # n => With(old, n, Torn)[h] = old[h]
            BY <3>5, WithSeq
      <4> QED BY <3>6, <4>1
    <3>8. i # n /\ i \in 1..Len(w) /\ gsA[p] = w
          BY <1>7, <3>1, <3>3, <3>4, <3>6, <3>7
    <3>9. i \in 1..Len(old)
          BY <3>5, <3>7, <3>8
    <3> QED BY <3>3, <3>7, <3>8, <3>9
  <2>2. CASE ~ (f.is = "grant" /\ p = f.who)
    <3>1. gsA[p] = gs[p]
          BY <1>3, <1>4, <2>2 DEF Opened
    <3> QED BY <1>7, <3>1
  <2> QED BY <2>1, <2>2
<1>8. ASSUME NEW c \in Closes \ trouble'.raced
      PROVE  \E s \in People : CloseTrue(c, s, RootsOf(c, ms), csA, gsA, cmdA)
  <2>1. PICK s \in People : CloseTrue(c, s, RootsOf(c, ms), cs, gs, cmd)
        BY <1>3, <1>4 DEF TrueInv
  <2>2. PICK roots : roots = RootsOf(c, ms)
        OBVIOUS
  <2>3. CloseTrue(c, s, roots, cs, gs, cmd)
        BY <2>1, <2>2
  <2>4. cmdA[t] # Idle /\ cmdA[t].close = c => CommandTrue(cmdA[t], c, s, roots)
    <3>1. j # Idle /\ k.close = j.close
          BY <1>3 DEF Idle, SameCommand
    <3>2. j.close = c => CommandTrue(j, c, s, roots)
          BY <1>5, <2>3, <3>1 DEF CloseTrue
    <3>3. j.close = c => CommandTrue(k, c, s, roots)
          BY <1>3, <3>2, SameTrue
    <3> QED BY <1>5, <3>1, <3>3
  <2>5. CloseTrue(c, s, roots, cs, gs, cmdA)
        BY <1>5, <2>3, <2>4, TrueMoved
  <2>6. c \in DOMAIN csA /\ csA[c] # Torn => csA[c].steward = s /\ TruthfulTo(csA[c], roots)
        BY <1>6, <2>5 DEF CloseTrue
  <2>7. ASSUME NEW p \in People, NEW i \in 1..Len(gsA[p]), gsA[p][i] # Torn /\ Leaf(gsA[p][i]).close = c
        PROVE  GrantTrue(gsA[p][i], c, s, roots)
    <3>1. i \in 1..Len(gs[p]) /\ gsA[p][i] = gs[p][i]
          BY <1>7, <2>7
    <3> QED BY <2>5, <2>7, <3>1 DEF CloseTrue
  <2>8. CloseTrue(c, s, roots, csA, gsA, cmdA)
        BY <2>5, <2>6, <2>7 DEF CloseTrue
  <2> QED BY <2>2, <2>8
<1>9. TrueInv' <=> \A c \in Closes \ trouble'.raced : \E s \in People :
                      CloseTrue(c, s, RootsOf(c, ms), csA, gsA, cmdA)
      BY <1>3, <1>4 DEF TrueInv, CloseTrue, Terminals, Most
<1> QED BY <1>8, <1>9

\* What is left to write once a file is written.
LEMMA WritesRest ==
    ASSUME NEW todo, NEW all, NEW d, TodoOK(todo, all, d), Tail(todo) # <<>>,
           NEW c, NEW s, NEW roots, NEW then, WritesTrue(todo, c, s, roots),
           then = IF Head(todo).is = "record" THEN Append(roots, Head(todo).root) ELSE roots
    PROVE  WritesTrue(Tail(todo), c, s, then)
<1>1. PICK rest : rest = Tail(todo)
      OBVIOUS
<1>2. PICK n \in Nat : n = Len(todo)
      BY DEF TodoOK
<1>3. /\ Head(rest).is # "record" /\ Len(rest) = n - 1
      /\ \A i \in 1..Len(rest) : rest[i] = todo[i + 1]
      BY <1>1, <1>2, TailTodo
<1>4. \A i \in 1..n : todo[i].is = "grant" => GrantTrue(todo[i].grant, c, s, then)
      BY <1>2 DEF WritesTrue
<1>5. ASSUME NEW i \in 1..Len(rest), rest[i].is = "grant"
      PROVE  GrantTrue(rest[i].grant, c, s, then)
  <2>1. i + 1 \in 1..n /\ rest[i] = todo[i + 1]
        BY <1>2, <1>3
  <2> QED BY <1>4, <1>5, <2>1
<1> QED BY <1>1, <1>3, <1>5 DEF WritesTrue

\* A command that draws no root of its own, when another root is drawn.
LEMMA CommandTrueGrows ==
    ASSUME NEW k, k # Idle, NEW cs, NEW gs, NEW ms, CommandOK(k, cs, gs, ms), k.do # "rotate", ~ AtRecord(k),
           NEW c, NEW s, NEW roots \in Seq(ContentKeys), Len(roots) >= 1, NEW root \in ContentKeys,
           CommandTrue(k, c, s, roots)
    PROVE  CommandTrue(k, c, s, Append(roots, root))
<1>1. PICK more : more = Append(roots, root)
      OBVIOUS
<1>2. CASE LoadedOK(k, ms)
  <2>1. k.at = "loaded" /\ k.rec \in Record(People)
        BY <1>2 DEF LoadedOK, LoadedRec
  <2>2. k.rec.steward = s /\ OnceTrue(k.rec, roots)
        BY <2>1 DEF CommandTrue
  <2>3. OnceTrue(k.rec, more)
        BY <1>1, <2>1, <2>2, OnceTrueGrows
  <2> QED BY <1>1, <2>1, <2>2, <2>3 DEF CommandTrue
<1>3. CASE WritingOK(k, cs, gs, ms)
  <2>1. k.at \in {"prepare", "open", "fill"} /\ Head(k.todo).is # "record"
        BY <1>3 DEF WritingOK, AtRecord
  <2>2. k.todo \in Seq(FilesFor(k.close))
        BY <1>3, WritingFacts
  <2>3. ASSUME NEW i \in 1..Len(k.todo), k.todo[i].is = "grant"
        PROVE  GrantTrue(k.todo[i].grant, c, s, more)
    <3>1. k.todo[i] \in FilesFor(k.close)
          BY <2>2, ElementIn
    <3>2. k.todo[i].grant \in Grant
          BY <2>3, <3>1, FileFacts
    <3>3. GrantTrue(k.todo[i].grant, c, s, roots)
          BY <2>1, <2>3 DEF CommandTrue, WritesTrue
    <3> QED BY <1>1, <3>2, <3>3, GrantTrueGrows
  <2> QED BY <1>1, <2>1, <2>3 DEF CommandTrue, WritesTrue
<1> QED BY <1>2, <1>3 DEF CommandOK, GatherOK

\* Where a command goes on to tells the truth.
LEMMA GoesOnTrue ==
    ASSUME NEW j, NEW k, NEW cs, NEW gs, NEW ms, WritingOK(j, cs, gs, ms), GoesOn(j, k), k # Idle,
           NEW c, NEW s, NEW roots, NEW then, CommandTrue(j, c, s, roots),
           then = IF Head(j.todo).is = "record" THEN Append(roots, Head(j.todo).root) ELSE roots
    PROVE  CommandTrue(k, c, s, then)
<1>1. Tail(j.todo) # <<>> /\ k.at = "prepare" /\ k.todo = Tail(j.todo)
      BY DEF GoesOn
<1>2. TodoOK(j.todo, j.all, j.close) /\ j.at \in {"prepare", "open", "fill"}
      BY DEF WritingOK
<1>3. PICK todo : todo = j.todo
      OBVIOUS
<1>4. PICK all : all = j.all
      OBVIOUS
<1>5. PICK d : d = j.close
      OBVIOUS
<1>6. TodoOK(todo, all, d) /\ WritesTrue(todo, c, s, roots) /\ Tail(todo) # <<>>
      /\ then = IF Head(todo).is = "record" THEN Append(roots, Head(todo).root) ELSE roots
      BY <1>1, <1>2, <1>3, <1>4, <1>5 DEF CommandTrue
<1>7. WritesTrue(Tail(todo), c, s, then)
      BY <1>6, WritesRest
<1> QED BY <1>1, <1>3, <1>7 DEF CommandTrue

\* A record is written: the root that it names is drawn.
LEMMA FillRecordTrue ==
    ASSUME TypesInv, TurnsInv, TrueInv, NEW t \in Terminals, Fill(t), File(t).is = "record"
    PROVE  TrueInv'
<1>1. PICK j : j = command[t]
      OBVIOUS
<1>2. PICK f : f = File(t)
      OBVIOUS
<1>3. PICK k : /\ WritingOK(j, closes, grants, minted) /\ j.at = "fill"
               /\ f = Head(j.todo) /\ f \in FilesFor(j.close)
               /\ Moves(t, k) /\ GoesOn(j, k)
               /\ Filled(j, f)
               /\ UNCHANGED <<budget, trouble>>
      BY <1>1, <1>2, FillMoves
<1>4. PICK cs, csA, gs, ms, msA, cmd, cmdA :
         /\ cs = closes /\ csA = closes' /\ gs = grants /\ ms = minted /\ msA = minted'
         /\ cmd = command /\ cmdA = command'
      OBVIOUS
<1>5. cmdA[t] = k /\ (\A u \in Terminals \ {t} : cmdA[u] = cmd[u]) /\ cmd[t] = j
      BY <1>1, <1>3, <1>4 DEF Moves
<1>6. f.is = "record" /\ f.rec \in Record(People) /\ f.root \in ContentKeys
      BY <1>2, <1>3, FileFacts
<1>7. /\ DOMAIN csA = DOMAIN cs /\ csA[j.close] \in {f.rec, Torn}
      /\ \A c \in DOMAIN cs \ {j.close} : csA[c] = cs[c]
      /\ DOMAIN msA = DOMAIN ms \cup {j.close}
      /\ msA[j.close] = IF j.do = "protect" THEN <<f.root>> ELSE Append(ms[j.close], f.root)
      /\ \A c \in DOMAIN ms \ {j.close} : msA[c] = ms[c]
      /\ grants' = gs
      BY <1>3, <1>4, <1>6 DEF Filled, FilledRecord
<1>8. /\ j # Idle /\ AtRecord(j) /\ j.do \in {"protect", "rotate"} /\ j.close \in Closes
      /\ (j.do = "protect" => j.close \notin DOMAIN ms)
      /\ (j.do = "rotate" => j.close \in DOMAIN ms)
  <2>1. j # Idle /\ AtRecord(j) /\ j.close \in Closes
        BY <1>3, <1>6 DEF AtRecord, WritingOK, Idle
  <2>2. j.do \in {"protect", "rotate"} /\ (j.do = "protect" => j.close \notin DOMAIN ms)
        BY <1>1, <1>4, <2>1 DEF TurnsInv, Founding
  <2> QED BY <1>3, <1>4, <2>1, <2>2 DEF WritingOK
<1>9. ASSUME NEW c \in Closes \ trouble'.raced
      PROVE  \E s \in People : CloseTrue(c, s, RootsOf(c, msA), csA, gs, cmdA)
  <2>1. PICK s \in People : CloseTrue(c, s, RootsOf(c, ms), cs, gs, cmd)
        BY <1>3, <1>4 DEF TrueInv
  <2>2. PICK roots \in Seq(ContentKeys) : roots = RootsOf(c, ms)
        BY <1>4, RootsTyped
  <2>3. PICK more : more = RootsOf(c, msA)
        OBVIOUS
  <2>4. CloseTrue(c, s, roots, cs, gs, cmd)
        BY <2>1, <2>2
  <2>5. k # Idle => k.close = j.close
        BY <1>3 DEF GoesOn, SameCommand
  <2>6. CASE c # j.close
    <3>1. more = roots
          BY <1>7, <2>2, <2>3, <2>6 DEF RootsOf
    <3>2. ~ (cmdA[t] # Idle /\ cmdA[t].close = c)
          BY <1>5, <2>5, <2>6
    <3>3. CloseTrue(c, s, roots, cs, gs, cmdA)
          BY <1>5, <2>4, <3>2, TrueMoved
    <3>4. c \in DOMAIN csA => c \in DOMAIN cs /\ csA[c] = cs[c]
          BY <1>7, <2>6
    <3>5. CloseTrue(c, s, roots, csA, gs, cmdA)
          BY <3>3, <3>4 DEF CloseTrue
    <3> QED BY <2>3, <3>1, <3>5
  <2>7. CASE c = j.close
    <3>1. more = Append(roots, f.root)
      <4>1. CASE j.do = "protect"
        <5>1. roots = <<>>
              BY <1>8, <2>2, <2>7, <4>1 DEF RootsOf
        <5>2. more = <<f.root>>
              BY <1>7, <2>3, <2>7, <4>1 DEF RootsOf
        <5> QED BY <5>1, <5>2
      <4>2. CASE j.do = "rotate"
        <5>1. roots = ms[c]
              BY <1>8, <2>2, <2>7, <4>2 DEF RootsOf
        <5>2. more = Append(ms[c], f.root)
              BY <1>7, <2>3, <2>7, <4>2 DEF RootsOf
        <5> QED BY <5>1, <5>2
      <4> QED BY <1>8, <4>1, <4>2
    <3>2. CommandTrue(j, c, s, roots)
          BY <1>5, <1>8, <2>4, <2>7 DEF CloseTrue
    <3>3. f.rec.steward = s /\ TruthfulTo(f.rec, more)
      <4>1. WritesTrue(j.todo, c, s, roots)
            BY <1>3, <3>2 DEF CommandTrue
      <4> QED BY <1>3, <1>6, <3>1, <4>1 DEF WritesTrue
    <3>4. k # Idle => CommandTrue(k, c, s, more)
          BY <1>3, <1>6, <3>1, <3>2, GoesOnTrue
    <3>5. CASE j.do = "protect"
      <4>1. c \notin DOMAIN ms
            BY <1>8, <2>7, <3>5
      <4>2. \A p \in People : \A i \in 1..Len(gs[p]) : ~ (gs[p][i] # Torn /\ Leaf(gs[p][i]).close = c)
            BY <1>4, <4>1 DEF TypesInv, GrantsOK
      <4>3. ASSUME NEW u \in Terminals \ {t}, cmd[u] # Idle, cmd[u].close = c
            PROVE  FALSE
        <5>1. CommandOK(cmd[u], cs, gs, ms)
              BY <1>4 DEF TypesInv, CommandsOK
        <5>2. WritingOK(cmd[u], cs, gs, ms)
              BY <4>1, <4>3, <5>1 DEF CommandOK, LoadedOK, GatherOK, LoadedRec
        <5>3. cmd[u].do = "protect"
              BY <4>1, <4>3, <5>2 DEF WritingOK
        <5> QED BY <1>1, <1>4, <1>8, <2>7, <3>5, <4>3, <5>3 DEF TurnsInv, Does
      <4>4. \A u \in Terminals : cmdA[u] # Idle /\ cmdA[u].close = c => CommandTrue(cmdA[u], c, s, more)
            BY <1>5, <3>4, <4>3
      <4>5. csA[c] # Torn => csA[c] = f.rec
            BY <1>7, <2>7
      <4>6. CloseTrue(c, s, more, csA, gs, cmdA)
            BY <3>3, <4>2, <4>4, <4>5 DEF CloseTrue
      <4> QED BY <2>3, <4>6
    <3>6. CASE j.do = "rotate"
      <4>1. c \in DOMAIN ms /\ Len(roots) >= 1
            BY <1>4, <1>8, <2>2, <2>7, <3>6 DEF TurnsInv, RootsOf
      <4>2. ASSUME NEW p \in People, NEW i \in 1..Len(gs[p]), gs[p][i] # Torn /\ Leaf(gs[p][i]).close = c
            PROVE  GrantTrue(gs[p][i], c, s, more)
        <5>1. gs[p] \in Seq(Grant \cup {Torn})
              BY <1>4 DEF TypesInv, GrantsOK
        <5>2. gs[p][i] \in Grant \cup {Torn}
              BY <5>1, ElementIn
        <5>3. PICK g \in Grant : g = gs[p][i]
              BY <4>2, <5>2
        <5>4. GrantTrue(g, c, s, roots)
              BY <2>4, <4>2, <5>3 DEF CloseTrue
        <5>5. GrantTrue(g, c, s, Append(roots, f.root))
              BY <1>6, <4>1, <5>4, GrantTrueGrows
        <5> QED BY <3>1, <5>3, <5>5
      <4>3. ASSUME NEW u \in Terminals \ {t}, cmd[u] # Idle, cmd[u].close = c
            PROVE  CommandTrue(cmd[u], c, s, more)
        <5>1. CommandOK(cmd[u], cs, gs, ms)
              BY <1>4 DEF TypesInv, CommandsOK
        <5>2. cmd[u].do # "rotate"
              BY <1>1, <1>3, <1>4, <1>8, <1>9, <2>7, <3>6, <4>3 DEF TurnsInv, Does
        <5>3. ~ AtRecord(cmd[u])
              BY <1>4, <4>1, <4>3, <5>2 DEF TurnsInv, Founding
        <5>4. PICK l : l = cmd[u]
              OBVIOUS
        <5>5. CommandTrue(l, c, s, roots)
              BY <2>4, <4>3, <5>4 DEF CloseTrue
        <5>6. CommandTrue(l, c, s, Append(roots, f.root))
              BY <1>6, <4>1, <4>3, <5>1, <5>2, <5>3, <5>4, <5>5, CommandTrueGrows
        <5> QED BY <3>1, <5>4, <5>6
      <4>4. \A u \in Terminals : cmdA[u] # Idle /\ cmdA[u].close = c => CommandTrue(cmdA[u], c, s, more)
            BY <1>5, <3>4, <4>3
      <4>5. csA[c] # Torn => csA[c] = f.rec
            BY <1>7, <2>7
      <4>6. CloseTrue(c, s, more, csA, gs, cmdA)
            BY <3>3, <4>2, <4>4, <4>5 DEF CloseTrue
      <4> QED BY <2>3, <4>6
    <3> QED BY <1>8, <3>5, <3>6
  <2> QED BY <2>6, <2>7
<1>10. TrueInv' <=> \A c \in Closes \ trouble'.raced : \E s \in People :
                      CloseTrue(c, s, RootsOf(c, msA), csA, gs, cmdA)
      BY <1>4, <1>7 DEF TrueInv, CloseTrue, Terminals, Most
<1> QED BY <1>9, <1>10

\* A grant or a list is written.
LEMMA FillOtherTrue ==
    ASSUME TypesInv, TrueInv, NEW t \in Terminals, Fill(t), File(t).is # "record"
    PROVE  TrueInv'
<1>1. PICK j : j = command[t]
      OBVIOUS
<1>2. PICK f : f = File(t)
      OBVIOUS
<1>3. PICK k : /\ WritingOK(j, closes, grants, minted) /\ j.at = "fill"
               /\ f = Head(j.todo) /\ f \in FilesFor(j.close)
               /\ Moves(t, k) /\ GoesOn(j, k)
               /\ Filled(j, f)
               /\ UNCHANGED <<budget, trouble>>
      BY <1>1, <1>2, FillMoves
<1>4. PICK cs, gs, gsA, ms, cmd, cmdA :
         /\ cs = closes /\ gs = grants /\ gsA = grants' /\ ms = minted
         /\ cmd = command /\ cmdA = command'
      OBVIOUS
<1>5. cmdA[t] = k /\ (\A u \in Terminals \ {t} : cmdA[u] = cmd[u]) /\ cmd[t] = j
      BY <1>1, <1>3, <1>4 DEF Moves
<1>6. closes' = cs /\ minted' = ms
      BY <1>2, <1>3, <1>4 DEF Filled, FilledGrant, FilledList
<1>7. ASSUME NEW p \in People, NEW i \in 1..Len(gsA[p])
      PROVE  \/ i \in 1..Len(gs[p]) /\ gsA[p][i] = gs[p][i]
             \/ f.is = "grant" /\ gsA[p][i] = f.grant
  <2>1. CASE f.is = "grant" /\ p = f.who
    <3>1. gsA[p] = [gs[p] EXCEPT ![j.n] = f.grant] /\ gs[p] \in Seq(Grant \cup {Torn})
          BY <1>3, <1>4, <2>1 DEF Filled, FilledGrant, TypesInv, GrantsOK
    <3>2. PICK old \in Seq(Grant \cup {Torn}) : old = gs[p]
          BY <3>1
    <3>3. PICK l \in Nat : l = Len(old) /\ DOMAIN old = 1..l
          OBVIOUS
    <3>4. PICK new : new = [old EXCEPT ![j.n] = f.grant]
          OBVIOUS
    <3>5. DOMAIN new = 1..l /\ Len(new) = l /\ \A h \in 1..l : new[h] = f.grant \/ new[h] = old[h]
      <4>1. DOMAIN new = 1..l /\ \A h \in 1..l : new[h] = f.grant \/ new[h] = old[h]
            BY <3>3, <3>4
      <4>2. f.grant \in Grant /\ Len(new) = l
        <5>1. new = [h \in 1..l |-> IF h = j.n THEN f.grant ELSE old[h]]
              BY <3>3, <3>4
        <5>2. f.grant \in Grant
              BY <1>3, <2>1, FileFacts
        <5>3. \A h \in 1..l : (IF h = j.n THEN f.grant ELSE old[h]) \in Grant \cup {Torn}
          <6>1. \A h \in 1..l : old[h] \in Grant \cup {Torn}
                BY <3>3, ElementIn
          <6> QED BY <5>2, <6>1
        <5>4. Len([h \in 1..l |-> IF h = j.n THEN f.grant ELSE old[h]]) = l
              OBVIOUS
        <5> QED BY <5>1, <5>2, <5>4
      <4> QED BY <4>1, <4>2
    <3> QED BY <1>7, <2>1, <3>1, <3>2, <3>3, <3>4, <3>5
  <2>2. CASE ~ (f.is = "grant" /\ p = f.who)
    <3>1. gsA[p] = gs[p]
          BY <1>3, <1>4, <2>2 DEF Filled, FilledGrant, FilledList, FilledRecord
    <3> QED BY <1>7, <3>1
  <2> QED BY <2>1, <2>2
<1>8. ASSUME NEW c \in Closes \ trouble'.raced
      PROVE  \E s \in People : CloseTrue(c, s, RootsOf(c, ms), cs, gsA, cmdA)
  <2>1. PICK s \in People : CloseTrue(c, s, RootsOf(c, ms), cs, gs, cmd)
        BY <1>3, <1>4 DEF TrueInv
  <2>2. PICK roots : roots = RootsOf(c, ms)
        OBVIOUS
  <2>3. CloseTrue(c, s, roots, cs, gs, cmd)
        BY <2>1, <2>2
  <2>4. j.close = c => CommandTrue(j, c, s, roots)
    <3>1. j # Idle
          BY <1>3 DEF Idle
    <3> QED BY <1>5, <2>3, <3>1 DEF CloseTrue
  <2>5. cmdA[t] # Idle /\ cmdA[t].close = c => CommandTrue(cmdA[t], c, s, roots)
    <3>1. k # Idle => k.close = j.close
          BY <1>3 DEF GoesOn, SameCommand
    <3>2. k # Idle /\ j.close = c => CommandTrue(k, c, s, roots)
          BY <1>2, <1>3, <2>4, GoesOnTrue
    <3> QED BY <1>5, <3>1, <3>2
  <2>6. CloseTrue(c, s, roots, cs, gs, cmdA)
        BY <1>5, <2>3, <2>5, TrueMoved
  <2>7. ASSUME f.is = "grant", Leaf(f.grant).close = c
        PROVE  GrantTrue(f.grant, c, s, roots)
    <3>1. j.close = c
          BY <1>3, <2>7, FileFacts
    <3>2. WritesTrue(j.todo, c, s, roots)
          BY <1>3, <2>4, <3>1 DEF CommandTrue
    <3>3. 1 \in 1..Len(j.todo) /\ f = j.todo[1]
          BY <1>3, WritingFacts
    <3> QED BY <1>2, <1>3, <2>7, <3>2, <3>3 DEF WritesTrue
  <2>8. ASSUME NEW p \in People, NEW i \in 1..Len(gsA[p]), gsA[p][i] # Torn /\ Leaf(gsA[p][i]).close = c
        PROVE  GrantTrue(gsA[p][i], c, s, roots)
    <3>1. CASE i \in 1..Len(gs[p]) /\ gsA[p][i] = gs[p][i]
          BY <2>6, <2>8, <3>1 DEF CloseTrue
    <3>2. CASE f.is = "grant" /\ gsA[p][i] = f.grant
          BY <2>7, <2>8, <3>2
    <3> QED BY <1>7, <3>1, <3>2
  <2>9. CloseTrue(c, s, roots, cs, gsA, cmdA)
        BY <2>6, <2>8 DEF CloseTrue
  <2> QED BY <2>2, <2>9
<1>9. TrueInv' <=> \A c \in Closes \ trouble'.raced : \E s \in People :
                      CloseTrue(c, s, RootsOf(c, ms), cs, gsA, cmdA)
      BY <1>4, <1>6 DEF TrueInv, CloseTrue, Terminals, Most
<1> QED BY <1>8, <1>9

\* The invariant holds in the empty folder.
LEMMA InitTrue == Init => TrueInv
<1> SUFFICES ASSUME Init PROVE TrueInv
    OBVIOUS
<1>1. PICK root \in ContentKeys :
        /\ closes = [c \in {Commons} |-> FoundRecord(c, Founder)]
        /\ grants = [p \in People |-> IF p = Founder THEN <<FoundingGrant(p, Commons, root)>> ELSE <<>>]
        /\ command = [t \in Terminals |-> Idle]
        /\ minted = [c \in {Commons} |-> <<root>>]
      BY DEF Init
<1>2. Founder \in People /\ Commons \in Closes
      BY FolderAssumption
<1>3. PICK rec : rec = FoundRecord(Commons, Founder)
      OBVIOUS
<1>4. PICK g : g = FoundingGrant(Founder, Commons, root)
      OBVIOUS
<1>5. /\ TruthfulTo(rec, <<root>>) /\ GrantTrue(g, Commons, Founder, <<root>>)
      /\ rec.steward = Founder /\ Leaf(g).close = Commons
      BY <1>2, <1>3, <1>4, FoundingTrue, FoundingFiles DEF FoundRecord
<1>6. /\ DOMAIN closes = {Commons} /\ closes[Commons] = rec
      /\ grants[Founder] = <<g>> /\ (\A p \in People \ {Founder} : grants[p] = <<>>)
      /\ (\A t \in Terminals : command[t] = Idle)
      /\ DOMAIN minted = {Commons} /\ minted[Commons] = <<root>>
      BY <1>1, <1>2, <1>3, <1>4
<1>7. ASSUME NEW p \in People, NEW i \in 1..Len(grants[p])
      PROVE  grants[p][i] = g
  <2>1. Len(<<g>>) = 1 /\ <<g>>[1] = g /\ Len(<<>>) = 0 /\ 1..0 = {} /\ 1..1 = {1}
        OBVIOUS
  <2>2. p = Founder
        BY <1>6, <1>7, <2>1
  <2>3. i \in 1..Len(<<g>>)
        BY <1>6, <1>7, <2>2
  <2> QED BY <1>6, <2>1, <2>2, <2>3
<1>8. ASSUME NEW c \in Closes
      PROVE  CloseTrue(c, Founder, RootsOf(c, minted), closes, grants, command)
  <2>1. c \in DOMAIN closes => closes[c].steward = Founder /\ TruthfulTo(closes[c], RootsOf(c, minted))
        BY <1>5, <1>6 DEF RootsOf
  <2>2. ASSUME NEW p \in People, NEW i \in 1..Len(grants[p]), Leaf(grants[p][i]).close = c
        PROVE  GrantTrue(grants[p][i], c, Founder, RootsOf(c, minted))
        BY <1>5, <1>6, <1>7, <2>2 DEF RootsOf
  <2> QED BY <1>6, <2>1, <2>2 DEF CloseTrue
<1> QED BY <1>2, <1>8 DEF TrueInv

\* Every step preserves it.
LEMMA NextTrue == TypesInv /\ TurnsInv /\ TrueInv /\ [Next]_vars => TrueInv'
<1> SUFFICES ASSUME TypesInv, TurnsInv, TrueInv, [Next]_vars PROVE TrueInv'
    OBVIOUS
<1>1. ASSUME NEW t \in Terminals, Refuse(t)
      PROVE  TrueInv'
  <2>1. UNCHANGED <<files, minted>> /\ trouble.raced \subseteq trouble'.raced
        BY <1>1 DEF Refuse
  <2> QED BY <1>1, <2>1, RefuseMoves, TrueIdle DEF files
<1>2. ASSUME NEW t \in Terminals, Kill(t)
      PROVE  TrueInv'
  <2>1. UNCHANGED <<files, minted>> /\ trouble.raced \subseteq trouble'.raced
        BY <1>2 DEF Kill
  <2> QED BY <1>2, <2>1, KillMoves, TrueIdle DEF files
<1>3. ASSUME NEW t \in Terminals, Count(t)
      PROVE  TrueInv'
  <2>1. UNCHANGED <<files, minted>> /\ trouble.raced \subseteq trouble'.raced
        BY <1>3 DEF Count
  <2>2. PICK k : /\ Moves(t, k) /\ SameCommand(command[t], k) /\ k.todo = command[t].todo
                 /\ command[t].at = "prepare" /\ k.at = "open"
        BY <1>3, CountMoves
  <2> QED BY <2>1, <2>2, PreparedTrue DEF files
<1>4. ASSUME NEW t \in Terminals, ReadList(t)
      PROVE  TrueInv'
  <2>1. UNCHANGED <<files, minted>> /\ trouble.raced \subseteq trouble'.raced
        BY <1>4 DEF ReadList
  <2>2. CASE Moves(t, Idle)
        BY <2>1, <2>2, TrueIdle DEF files
  <2>3. CASE ~ Moves(t, Idle)
    <3>1. PICK k : /\ Moves(t, k) /\ SameCommand(command[t], k) /\ k.todo = command[t].todo
                   /\ command[t].at = "prepare" /\ k.at = "open"
          BY <1>4, <2>3, ReadListMoves
    <3> QED BY <2>1, <3>1, PreparedTrue DEF files
  <2> QED BY <2>2, <2>3
<1>5. ASSUME UNCHANGED vars
      PROVE  TrueInv'
      BY <1>5 DEF vars, files, TrueInv, CloseTrue, Terminals, Most
<1>6. ASSUME NEW t \in Terminals, Fill(t)
      PROVE  TrueInv'
      BY <1>6, FillRecordTrue, FillOtherTrue
<1> QED BY <1>1, <1>2, <1>3, <1>4, <1>5, <1>6, ProtectTrue, ShareTrueStep, RotateTrueStep, RaiseTrueStep,
           SettleTrueStep, FindKeyTrueStep, GatherTrueStep, ChangeLockTrueStep, OpenTrueStep DEF Next

\* Whatever overlaps and whatever is killed, records and grants agree: the
\* chain of every record and the labels of every grant tell the truth about the
\* keys inside, but for closes of which two rotations ran at once (FilesAgree;
\* CloseRecord::rotate, Grant::issue_root and Grant::attenuate, on a record, a
\* key and grants that were read at different moments).
THEOREM TruthStays == Spec => []FilesAgree
<1>1. Init => TurnsInv /\ TrueInv
      BY InitTurns, InitTrue
<1>2. TypesInv /\ TurnsInv /\ TrueInv /\ [Next]_vars => (TurnsInv /\ TrueInv)'
      BY NextTurns, NextTrue
<1>3. TypesInv /\ TrueInv => FilesAgree
  <2> SUFFICES ASSUME TypesInv, TrueInv, NEW c \in DOMAIN closes \ trouble.raced, Readable(c)
               PROVE  /\ TruthfulTo(closes[c], minted[c])
                      /\ \A p \in People : \A i \in 1..Len(GrantsFor(p)) :
                            Leaf(GrantsFor(p)[i]).close = c =>
                               /\ SoundTo(GrantsFor(p)[i], closes[c])
                               /\ \A j \in 1..Len(GrantsFor(p)[i]) :
                                     LabelTrueTo(GrantsFor(p)[i][j], closes[c], minted[c])
      BY DEF FilesAgree
  <2>1. PICK s \in People : CloseTrue(c, s, RootsOf(c, minted), closes, grants, command)
        BY DEF TypesInv, ClosesOK, TrueInv
  <2>2. PICK roots : roots = minted[c]
        OBVIOUS
  <2>3. PICK rec : rec = closes[c]
        OBVIOUS
  <2>4. /\ RootsOf(c, minted) = roots /\ roots \in Seq(ContentKeys)
        /\ rec \in Record(People) /\ rec.id = c
        BY <2>2, <2>3 DEF RootsOf, Readable, TypesInv, ClosesOK
  <2>5. rec.steward = s /\ TruthfulTo(rec, roots)
        BY <2>1, <2>3, <2>4 DEF CloseTrue, Readable
  <2>6. PICK r : r = RecordOf(c, s, roots)
        OBVIOUS
  <2>7. r.id = rec.id /\ r.steward = rec.steward /\ r.epoch = rec.epoch
    <3>1. rec.epoch \in Nat /\ Len(roots) = rec.epoch + 1
          BY <2>4, <2>5 DEF Record, TruthfulTo
    <3> QED BY <2>4, <2>5, <2>6, <3>1 DEF RecordOf
  <2>8. ASSUME NEW p \in People, NEW i \in 1..Len(GrantsFor(p)), Leaf(GrantsFor(p)[i]).close = c
        PROVE  /\ SoundTo(GrantsFor(p)[i], rec)
               /\ \A j \in 1..Len(GrantsFor(p)[i]) : LabelTrueTo(GrantsFor(p)[i][j], rec, roots)
    <3>1. HeldTrue(p, c, s, roots)
          BY <2>1, <2>4, HeldIsTrue
    <3>2. PICK g : g = GrantsFor(p)[i]
          OBVIOUS
    <3>3. GrantTrue(g, c, s, roots)
          BY <2>8, <3>1, <3>2 DEF HeldTrue
    <3>4. SoundTo(g, r) /\ \A j \in 1..Len(g) : LabelTrueTo(g[j], r, roots)
          BY <2>6, <3>3 DEF GrantTrue
    <3>5. SoundTo(g, rec) /\ \A j \in 1..Len(g) : LabelTrueTo(g[j], rec, roots)
          BY <2>7, <3>4 DEF SoundTo, LabelTrueTo
    <3> QED BY <3>2, <3>5
  <2> QED BY <2>2, <2>3, <2>5, <2>8
<1> QED BY <1>1, <1>2, <1>3, FolderTypes, PTL DEF Spec
-----------------------------------------------------------------------------
(***************************************************************************)
(* The fifth layer: nobody is locked out.  Grants are found by what the    *)
(* record says at the time, so a rotation must provide, by the grants that *)
(* it reads one after the other, for everybody who had a key when it       *)
(* began; and a steward whose record changed must have been given the key. *)
(***************************************************************************)

\* A grant that holds on a record, for facet f or more.
Wide(g, f, rec) == Leaf(g).close = rec.id /\ Verify(g, rec, 0) /\ Leaf(g).facet >= f

\* One that opens facet f at the record's own epoch, without a walk.
Opener(g, f, rec) ==
    /\ Wide(g, f, rec) /\ Leaf(g).epoch = rec.epoch
    /\ UnwrapKey(g, Leaf(g).holder) \in Key

OnFile(g, gs) == \E i \in 1..Len(gs[Leaf(g).holder]) : gs[Leaf(g).holder][i] = g
HoldsWide(p, f, rec, gs) == \E g \in Grant : Leaf(g).holder = p /\ OnFile(g, gs) /\ Wide(g, f, rec)
HasKey(p, f, rec, gs) == \E g \in Grant : Leaf(g).holder = p /\ OnFile(g, gs) /\ Opener(g, f, rec)

InWriting(k) == k.at \in {"prepare", "open", "fill"}

\* The facets that a rotation has to see to: those that were read when it
\* began, and content for its steward, from when a current key was found.
Needs(k, p) == k.held[p] \cup IF p = k.me /\ k.at # "loaded" THEN {Content} ELSE {}

\* How it does, at each point.
Provided(k, p, f, gs) ==
    /\ k.at = "loaded" => HoldsWide(p, f, k.rec, gs)
    /\ k.at = "gather" =>
          \/ \E i \in 1..Len(k.keepers) : k.keepers[i].who = p /\ k.keepers[i].facet >= f
          \/ (\E i \in 1..Len(k.left) : k.left[i] = p) /\ HoldsWide(p, f, k.rec, gs)
    /\ InWriting(k) =>
          \/ \E i \in 1..Len(k.todo) : /\ k.todo[i].is = "grant" /\ k.todo[i].who = p
                                       /\ Opener(k.todo[i].grant, f, k.all[1].rec)
          \/ HasKey(p, f, k.all[1].rec, gs)

RotationOK(k, gs, crowded) ==
    /\ k.except \subseteq Excludable
    /\ \A p \in People : k.held[p] \subseteq Lanes
    /\ InWriting(k) => /\ k.all[1].is = "record" /\ k.all[1].rec.steward = k.me
                       /\ \A i \in 1..Len(k.all) : k.all[i].is # "list"
    /\ \A p \in People \ (k.except \cup crowded) : \A f \in Needs(k, p) : Provided(k, p, f, gs)

RotationsOK ==
    \A t \in Terminals : command[t] # Idle /\ command[t].do = "rotate" =>
        RotationOK(command[t], grants, trouble.crowded)

\* The record of a rotation stays the one it wrote, unless it was raced; and a
\* record stays empty while somebody is writing it.
PastRecord(k) == InWriting(k) /\ k.do = "rotate" /\ Head(k.todo).is # "record"
InFill(k) == k.at = "fill" /\ Head(k.todo).is = "record"
RecordKept(k, cs, raced) ==
    /\ PastRecord(k) /\ k.close \notin raced => cs[k.close] = k.all[1].rec
    /\ InFill(k) /\ (k.do = "protect" \/ k.close \notin raced) => cs[k.close] = Torn
RecordsOK == \A t \in Terminals : RecordKept(command[t], closes, trouble.raced)

\* A close is listed if it is on the map, or about to be put there.
AtMap(k) == InWriting(k) /\ Head(k.todo).is = "list" /\ Head(k.todo).list = "map"
ListsIt(k, c) ==
    AtMap(k) /\ (Head(k.todo).entry = c \/ (k.at # "prepare" /\ \E i \in 1..Len(k.read) : k.read[i] = c))
Listed(c, ls, cmd) ==
    \/ ls["map"] # Torn /\ \E i \in 1..Len(ls["map"]) : ls["map"][i] = c
    \/ \E t \in Terminals : ListsIt(cmd[t], c)

\* Before its founder is at the map, nobody else has to do with a close.
Unlocked(k) == InWriting(k) /\ k.do = "protect" /\ Head(k.todo).is # "list"
FoundingOK(k, cs) ==
    /\ Len(k.all) = 3
    /\ k.all[1].is = "record" /\ k.all[1].rec.steward = k.me
    /\ k.all[2].is = "grant" /\ k.all[2].who = k.me /\ Opener(k.all[2].grant, Content, k.all[1].rec)
    /\ k.all[3].is = "list"
    /\ Head(k.todo).is = "grant" => cs[k.close] = k.all[1].rec
FoundingsOK ==
    \A t \in Terminals : Unlocked(command[t]) =>
        /\ FoundingOK(command[t], closes)
        /\ ~ Listed(command[t].close, lists, command)
        /\ \A u \in Terminals : ~ Does(command[u], "rotate", command[t].close)

\* A rotation between its record and its steward's grant.
Half(k, c, cs) ==
    /\ Does(k, "rotate", c)
    /\ \/ cs[c] = Torn /\ k.at = "fill" /\ Head(k.todo).is = "record"
       \/ /\ cs[c] # Torn /\ InWriting(k) /\ Head(k.todo).is # "record" /\ k.me = cs[c].steward
          /\ \E i \in 1..Len(k.todo) : /\ k.todo[i].is = "grant" /\ k.todo[i].who = k.me
                                       /\ Opener(k.todo[i].grant, Content, cs[c])

\* The steward of a readable record has the key, or will never be promised it.
KeptBy(c, cs, gs, crowded) ==
    cs[c] # Torn /\ (cs[c].steward \in crowded \cup Excludable \/ HasKey(cs[c].steward, Content, cs[c], gs))

SafeLock(c, cs, gs, cmd, tr) ==
    /\ c \in DOMAIN cs
    /\ \/ c \in tr.stranded \cup tr.raced
       \/ KeptBy(c, cs, gs, tr.crowded)
       \/ \E t \in Terminals : Half(cmd[t], c, cs)

LocksOK == \A c \in Closes : Listed(c, lists, command) => SafeLock(c, closes, grants, command, trouble)

LockInv == RotationsOK /\ RecordsOK /\ FoundingsOK /\ LocksOK

-----------------------------------------------------------------------------
\* Grants on file, for a facet.

\* What p holds stays on file but for people who were crowded.
LEMMA HoldsStays ==
    ASSUME StillKept, NEW p \in People, p \notin trouble'.crowded, NEW f, NEW rec
    PROVE  /\ HoldsWide(p, f, rec, grants) => HoldsWide(p, f, rec, grants')
           /\ HasKey(p, f, rec, grants) => HasKey(p, f, rec, grants')
<1>1. ASSUME NEW g \in Grant, Leaf(g).holder = p, OnFile(g, grants)
      PROVE  OnFile(g, grants')
  <2>1. KeptIn(g, grants, trouble.crowded)
        BY <1>1 DEF KeptIn, OnFile
  <2>2. KeptIn(g, grants', trouble'.crowded)
        BY <2>1 DEF StillKept
  <2> QED BY <1>1, <2>2 DEF KeptIn, OnFile
<1> QED BY <1>1 DEF HoldsWide, HasKey

\* Who finds a key for a facet holds a grant for it.
LEMMA FindsWide ==
    ASSUME GrantsOK, NEW p \in People, NEW rec \in Record(People), NEW f \in Lanes, NEW e \in Nat,
           KeyFor(p, rec, f, e) # NoKey
    PROVE  HoldsWide(p, f, rec, grants)
<1>1. PICK held : held = GrantsFor(p)
      OBVIOUS
<1>2. held \in Seq(Grant)
      BY <1>1, GrantsForFacts
<1> DEFINE yielding == {i \in HeldOn(held, rec, 0) : KeyFrom(held[i], p, rec, f, e) # NoKey}
<1>3. yielding # {}
      BY <1>1 DEF KeyFor, FacetKeyFor
<1>4. PICK i \in HeldOn(held, rec, 0) : KeyFrom(held[i], p, rec, f, e) # NoKey
      BY <1>3
<1>5. PICK g : g = held[i]
      OBVIOUS
<1>6. i \in 1..Len(held) /\ Leaf(g).close = rec.id /\ Verify(g, rec, 0)
      BY <1>4, <1>5 DEF HeldOn
<1>7. g \in Grant
      BY <1>2, <1>5, <1>6, ElementIn
<1>8. Leaf(g).facet >= f
  <2>1. ~ Leaf(g).facet < f
        BY <1>4, <1>5 DEF KeyFrom
  <2>2. Leaf(g).facet \in 0..2 /\ f \in 1..2
        BY <1>7, LeafOfGrant DEF Link, Facets, Lanes, Presence, Shape, Content
  <2> QED BY <2>1, <2>2
<1>9. PICK j \in 1..Len(grants[p]) : grants[p][j] # Torn /\ g = grants[p][j]
      BY <1>1, <1>5, <1>6, GrantsForFacts
<1>10. Leaf(g).holder = p
      BY <1>9 DEF GrantsOK
<1> QED BY <1>6, <1>7, <1>8, <1>9, <1>10 DEF HoldsWide, OnFile, Wide

\* A grant that opens a facet yields its key.
LEMMA OpenerYields ==
    ASSUME NEW g \in Grant, NEW rec \in Record(People), NEW f \in Lanes, Opener(g, f, rec)
    PROVE  KeyFrom(g, Leaf(g).holder, rec, f, rec.epoch) # NoKey
<1>1. PICK b : b = Leaf(g)
      OBVIOUS
<1>2. PICK key : key = UnwrapKey(g, b.holder)
      OBVIOUS
<1>3. key \in Key /\ b.facet >= f /\ b.epoch = rec.epoch /\ rec.epoch \in Nat /\ rec.id \in Closes
      BY <1>1, <1>2 DEF Opener, Wide, Record
<1>4. b.facet \in 0..2 /\ f \in {1, 2}
      BY <1>1, LeafOfGrant DEF Link, Facets, Lanes, Presence, Shape, Content
<1>5. WalkChain(rec, key, rec.epoch, rec.epoch, b.facet) = key
  <2>1. PICK n \in Nat : n = rec.epoch
        BY <1>3
  <2> DEFINE S == [m \in {n} |-> {key}]
  <2>2. key \in S[n] /\ S[n] = {key} /\ n <= n /\ n..(n - 1) = {}
        BY <2>1
  <2> HIDE DEF S
  <2>3. \A m \in n..(n - 1) : \A k \in S[m + 1] : StepBack(rec, k, m, b.facet) \in S[m]
        BY <2>2
  <2>4. WalkChain(rec, key, n, n, b.facet) \in S[n]
        BY <2>2, <2>3, WalkKeeps
  <2> QED BY <2>1, <2>2, <2>4
<1>6. LowerFacetKey(key, b.facet, f, rec.id) # NoKey
  <2>1. key # NoKey
        BY <1>3, NoKeyIsNoKey
  <2>2. FacetKey(key, rec.id, f) # NoKey
        BY <1>3, FacetKeyType, NoKeyIsNoKey
  <2> QED BY <1>3, <1>4, <2>1, <2>2 DEF LowerFacetKey, Content, Shape
<1>7. ~ b.facet < f
      BY <1>3, <1>4
<1>8. KeyFrom(g, b.holder, rec, f, rec.epoch) =
         LowerFacetKey(WalkChain(rec, key, rec.epoch, rec.epoch, b.facet), b.facet, f, rec.id)
      BY <1>1, <1>2, <1>3, <1>7 DEF KeyFrom
<1> QED BY <1>1, <1>5, <1>6, <1>8

\* Who has the key on file finds it.
LEMMA HasKeyFinds ==
    ASSUME NEW gs, NEW p, gs[p] \in Seq(Grant \cup {Torn}), NEW rec \in Record(People), NEW f \in Lanes,
           HasKey(p, f, rec, gs)
    PROVE  FacetKeyFor(Without(gs[p], {Torn}), p, rec, f, rec.epoch, 0) # NoKey
<1>1. PICK g \in Grant : Leaf(g).holder = p /\ OnFile(g, gs) /\ Opener(g, f, rec)
      BY DEF HasKey
<1>2. PICK s : s = gs[p]
      OBVIOUS
<1>3. PICK held : held = Without(s, {Torn})
      OBVIOUS
<1>4. held \in Seq(Grant) /\ \E i \in 1..Len(held) : held[i] = g
  <2> DEFINE A == Grant \cup {Torn}
  <2>1. A \ {Torn} \subseteq Grant /\ g # Torn
        BY <1>1, FolderAssumption
  <2>2. s \in Seq(A)
        BY <1>2
  <2> HIDE DEF A
  <2>3. held \in Seq(A \ {Torn}) /\ Leaves(s, {Torn}, held)
        BY <1>3, <2>2, WithoutFacts
  <2>4. held \in Seq(Grant)
        BY <2>1, <2>3, SeqMono
  <2>5. \E i \in 1..Len(s) : s[i] = g
        BY <1>1, <1>2 DEF OnFile
  <2> QED BY <2>1, <2>3, <2>4, <2>5 DEF Leaves
<1>5. PICK i \in 1..Len(held) : held[i] = g
      BY <1>4
<1> DEFINE yielding == {h \in HeldOn(held, rec, 0) : KeyFrom(held[h], p, rec, f, rec.epoch) # NoKey}
<1>6. i \in yielding
  <2>1. i \in HeldOn(held, rec, 0)
        BY <1>1, <1>5 DEF HeldOn, Opener, Wide
  <2>2. KeyFrom(g, p, rec, f, rec.epoch) # NoKey
        BY <1>1, OpenerYields
  <2> QED BY <1>5, <2>1, <2>2
<1>7. yielding \subseteq 1..Len(held) /\ Len(held) \in Nat
      BY <1>4 DEF HeldOn
<1>8. First(yielding) \in yielding
  <2> HIDE DEF yielding
  <2> QED BY <1>6, <1>7, FirstIn
<1>9. KeyFrom(held[First(yielding)], p, rec, f, rec.epoch) # NoKey
      BY <1>8
<1>10. f # Presence
      BY DEF Lanes, Presence, Shape, Content
<1>11. FacetKeyFor(held, p, rec, f, rec.epoch, 0) = KeyFrom(held[First(yielding)], p, rec, f, rec.epoch)
      BY <1>6, <1>10 DEF FacetKeyFor
<1> QED BY <1>2, <1>3, <1>9, <1>11

\* Who holds a grant for a facet is re-issued that facet or more.
LEMMA WideHeld ==
    ASSUME GrantsOK, NEW p \in People, NEW rec, NEW f, HoldsWide(p, f, rec, grants)
    PROVE  HeldBy(p, rec) # {} /\ \E h \in Facets : h >= f /\ h <= Best(HeldBy(p, rec))
<1>1. PICK g \in Grant : Leaf(g).holder = p /\ OnFile(g, grants) /\ Wide(g, f, rec)
      BY DEF HoldsWide
<1>2. PICK j \in 1..Len(grants[p]) : grants[p][j] = g
      BY <1>1 DEF OnFile
<1>3. g # Torn
      BY <1>1, FolderAssumption
<1>4. PICK held : held = GrantsFor(p)
      OBVIOUS
<1>5. PICK i \in 1..Len(held) : held[i] = g
      BY <1>2, <1>3, <1>4, GrantsForFacts
<1>6. g \in HeldBy(p, rec)
  <2>1. i \in HeldOn(held, rec, 0)
        BY <1>1, <1>5 DEF HeldOn, Wide
  <2> QED BY <1>4, <1>5, <2>1 DEF HeldBy
<1>7. HeldBy(p, rec) \subseteq Grant
      BY HeldByFacts
<1>8. Leaf(g).facet <= Best(HeldBy(p, rec))
      BY <1>6, <1>7, BestIsBest
<1>9. Leaf(g).facet \in Facets /\ Leaf(g).facet >= f
      BY <1>1, LeafOfGrant DEF Link, Wide
<1> QED BY <1>6, <1>8, <1>9

\* A grant the steward issues under a lock opens it at once.
LEMMA OpenerMade ==
    ASSUME NEW rec \in Record(People), NEW root \in ContentKeys, NEW who \in People, NEW facet \in Facets,
           NEW powers \in SUBSET AllPowers, NEW f \in Lanes, f <= facet
    PROVE  Opener(IssueRoot(rec, rec.steward, MintKey(root, rec.id), rec.epoch, who, facet, powers, <<>>, Never),
                  f, rec)
<1> DEFINE key == LowerFacetKey(MintKey(root, rec.id), Content, facet, rec.id)
           b == LinkTo(rec.id, rec.steward, who, facet, powers, <<>>, Never, rec.epoch, key)
<1>1. rec.id \in Closes /\ MintKey(root, rec.id) \in Key
      BY MintKeyType DEF Record
<1>2. facet \in Lanes
      BY DEF Facets, Lanes, Presence, Shape, Content
<1>3. key \in Key
  <2>1. FacetKey(MintKey(root, rec.id), rec.id, facet) \in Key
        BY <1>1, <1>2, FacetKeyType
  <2>2. MintKey(root, rec.id) # NoKey
        BY <1>1, NoKeyIsNoKey
  <2>3. facet <= Content /\ ~ facet > Content
        BY <1>2 DEF Lanes, Shape, Content
  <2> QED BY <2>1, <2>2, <2>3 DEF LowerFacetKey
<1> HIDE DEF key
<1>4. /\ b.close = rec.id /\ b.issuer = rec.steward /\ b.holder = who /\ b.facet = facet
      /\ b.expires = Never /\ b.epoch = rec.epoch
      /\ b.wrapped = IF key = NoKey THEN NoKey ELSE WrapTo(who, WrapAad(rec.id, who, facet, rec.epoch), key)
      BY LinkToFields
<1> HIDE DEF b
<1>5. PICK g : g = <<b>>
      OBVIOUS
<1>6. Len(g) = 1 /\ g[1] = b /\ Leaf(g) = b
      BY <1>5 DEF Leaf
<1>7. Verify(g, rec, 0)
      BY <1>4, <1>6 DEF Verify, Alive
<1>8. UnwrapKey(g, who) = key
  <2>1. b.wrapped = WrapTo(who, WrapAad(rec.id, who, facet, rec.epoch), key)
        BY <1>3, <1>4, NoKeyIsNoKey
  <2>2. b.wrapped.to = who /\ b.wrapped.aad = WrapAad(rec.id, who, facet, rec.epoch) /\ b.wrapped.holds = key
        BY <2>1 DEF WrapTo
  <2>3. WrapTo(who, WrapAad(rec.id, who, facet, rec.epoch), key) \in WrappedKey
    <3>1. WrapAad(rec.id, who, facet, rec.epoch) \in Closes \X People \X Lanes \X Nat
          BY <1>1, <1>2 DEF WrapAad, Record
    <3> QED BY <1>3, <3>1 DEF WrapTo, WrappedKey
  <2>4. b.wrapped # NoKey
        BY <2>1, <2>3, NoKeyIsNoBox
  <2> QED BY <1>4, <1>6, <2>2, <2>4 DEF UnwrapKey
<1>9. facet >= f
      BY <1>2 DEF Lanes, Shape, Content
<1>10. Opener(g, f, rec)
      BY <1>3, <1>4, <1>6, <1>7, <1>8, <1>9 DEF Opener, Wide
<1> QED BY <1>5, <1>10 DEF IssueRoot, b, key

-----------------------------------------------------------------------------
\* Rotations.

MoreTrouble ==
    /\ trouble.crowded \subseteq trouble'.crowded
    /\ trouble.raced \subseteq trouble'.raced
    /\ trouble.stranded \subseteq trouble'.stranded
Rotates(k) == k # Idle /\ k.do = "rotate"

\* What provides for the people of a rotation goes on doing so.
LEMMA RotationStays ==
    ASSUME StillKept, MoreTrouble, NEW k, RotationOK(k, grants, trouble.crowded)
    PROVE  RotationOK(k, grants', trouble'.crowded)
<1>1. ASSUME NEW p \in People \ (k.except \cup trouble'.crowded), NEW f \in Needs(k, p)
      PROVE  Provided(k, p, f, grants')
  <2>1. p \in People \ (k.except \cup trouble.crowded) /\ p \notin trouble'.crowded
        BY DEF MoreTrouble
  <2>2. Provided(k, p, f, grants)
        BY <2>1 DEF RotationOK
  <2>3. \A rec : /\ HoldsWide(p, f, rec, grants) => HoldsWide(p, f, rec, grants')
                 /\ HasKey(p, f, rec, grants) => HasKey(p, f, rec, grants')
        BY <2>1, HoldsStays
  <2> QED BY <2>2, <2>3 DEF Provided
<1> QED BY <1>1 DEF RotationOK

\* Only the command that moved has to be looked at again.
LEMMA RotationsStep ==
    ASSUME RotationsOK, NEW t \in Terminals, NEW k, Moves(t, k), StillKept, MoreTrouble,
           Rotates(k) => RotationOK(k, grants', trouble'.crowded)
    PROVE  RotationsOK'
<1>1. ASSUME NEW u \in Terminals, command'[u] # Idle, command'[u].do = "rotate"
      PROVE  RotationOK(command'[u], grants', trouble'.crowded)
  <2>1. CASE u = t
        BY <1>1, <2>1 DEF Moves, Rotates
  <2>2. CASE u # t
    <3>1. command'[u] = command[u]
          BY <2>2 DEF Moves
    <3>2. RotationOK(command[u], grants, trouble.crowded)
          BY <1>1, <3>1 DEF RotationsOK
    <3> QED BY <3>1, <3>2, RotationStays
  <2> QED BY <2>1, <2>2
<1>2. Terminals' = Terminals
      BY DEF Terminals, Most
<1> QED BY <1>1, <1>2 DEF RotationsOK

\* k is j, at the same file, a step further.
Onward(j, k) == InWriting(j) /\ InWriting(k) /\ SameCommand(j, k) /\ k.todo = j.todo

\* It is provided for as it was.
LEMMA RotationOnward ==
    ASSUME NEW j, NEW k, Onward(j, k), NEW gs, NEW crowded, RotationOK(j, gs, crowded)
    PROVE  RotationOK(k, gs, crowded)
<1>1. /\ k.me = j.me /\ k.except = j.except /\ k.held = j.held /\ k.all = j.all /\ k.todo = j.todo
      BY DEF Onward, SameCommand
<1>2. \A p : Needs(k, p) = Needs(j, p)
      BY <1>1 DEF Needs, Onward, InWriting
<1>3. \A p, f : Provided(j, p, f, gs) => Provided(k, p, f, gs)
      BY <1>1 DEF Provided, Onward, InWriting
<1> QED BY <1>1, <1>2, <1>3 DEF RotationOK, Onward

\* Rotate: whoever finds a key holds a grant.
LEMMA RotateProvides ==
    ASSUME TypesInv, NEW t \in Terminals, NEW me \in People, NEW c \in Closes, NEW except \in SUBSET Excludable,
           Rotate(t, me, c, except), NEW k, LoadedOK(k, minted),
           k.except = except, k.held = [p \in People |-> Readings(p, closes[c])], k.rec = closes[c]
    PROVE  RotationOK(k, grants, trouble.crowded)
<1>1. PICK rec : rec = closes[c]
      OBVIOUS
<1>2. rec \in Record(People) /\ rec.epoch \in Nat
      BY <1>1, LoadsFacts DEF Rotate, Record
<1>3. k.at = "loaded" /\ k.rec = rec /\ \A p \in People : k.held[p] = Readings(p, rec)
      BY <1>1 DEF LoadedOK
<1>4. \A p : Readings(p, rec) \subseteq Lanes
      BY DEF Readings
<1>5. ASSUME NEW p \in People, NEW f \in Needs(k, p)
      PROVE  HoldsWide(p, f, rec, grants)
  <2>1. f \in Readings(p, rec)
        BY <1>3 DEF Needs
  <2>2. f \in Lanes
        BY <1>4, <2>1
  <2>3. PICK e \in 0..rec.epoch : KeyFor(p, rec, f, e) # NoKey
        BY <2>1 DEF Readings
  <2>4. e \in Nat
        BY <1>2
  <2> QED BY <1>2, <2>2, <2>3, <2>4, FindsWide DEF TypesInv
<1>6. \A p \in People : \A f \in Needs(k, p) : Provided(k, p, f, grants)
      BY <1>3, <1>5 DEF Provided, InWriting
<1> QED BY <1>3, <1>4, <1>6 DEF RotationOK, InWriting

\* FindKey: everybody who is not left out will be looked at.
LEMMA FindKeyProvides ==
    ASSUME TypesInv, NEW t \in Terminals, FindKey(t), NEW j, NEW k, j = command[t],
           LoadedOK(j, minted), GatherOK(k, minted),
           k.me = j.me, k.rec = j.rec, k.except = j.except, k.held = j.held,
           k.keepers = <<>>, k.left = Without(Order, k.except),
           RotationOK(j, grants, trouble.crowded)
    PROVE  RotationOK(k, grants, trouble.crowded)
<1>1. k.at = "gather" /\ j.at = "loaded" /\ j.rec \in Record(People) /\ j.me \in People
      BY DEF GatherOK, LoadedOK, LoadedRec
<1>2. ASSUME NEW p \in People \ k.except
      PROVE  \E i \in 1..Len(k.left) : k.left[i] = p
  <2>1. Order \in Seq(People) /\ \E i \in 1..Len(Order) : Order[i] = p
        BY FolderAssumption
  <2>2. PICK order : order = Order
        OBVIOUS
  <2>3. PICK out : out = k.except
        OBVIOUS
  <2>4. order \in Seq(People)
        BY <2>1, <2>2
  <2>5. Leaves(order, out, Without(order, out))
        BY <2>4, WithoutFacts
  <2>6. Leaves(order, out, k.left)
        BY <2>2, <2>3, <2>5
  <2>7. PICK left : left = k.left
        OBVIOUS
  <2>8. PICK h \in 1..Len(order) : order[h] = p
        BY <2>1, <2>2
  <2>9. p \notin out
        BY <1>2, <2>3
  <2>10. \E i \in 1..Len(left) : left[i] = p
    <3>1. Leaves(order, out, left)
          BY <2>6, <2>7
    <3> QED BY <2>8, <2>9, <3>1 DEF Leaves
  <2> QED BY <2>7, <2>10
<1>3. ASSUME NEW p \in People \ (k.except \cup trouble.crowded), NEW f \in Needs(k, p)
      PROVE  HoldsWide(p, f, j.rec, grants)
  <2>1. CASE f \in j.held[p]
    <3>1. f \in Needs(j, p)
          BY <2>1 DEF Needs
    <3>2. Provided(j, p, f, grants)
          BY <3>1 DEF RotationOK
    <3> QED BY <1>1, <3>2 DEF Provided
  <2>2. CASE f \notin j.held[p]
    <3>1. p = j.me /\ f = Content
          BY <2>2 DEF Needs
    <3>2. CurrentKey(j.me, j.rec) # NoKey
          BY DEF FindKey
    <3>3. Content \in Lanes /\ j.rec.epoch \in Nat
          BY <1>1 DEF Lanes, Record
    <3> QED BY <1>1, <3>1, <3>2, <3>3, FindsWide DEF CurrentKey, TypesInv
  <2> QED BY <2>1, <2>2
<1>4. \A p \in People \ (k.except \cup trouble.crowded) : \A f \in Needs(k, p) : Provided(k, p, f, grants)
      BY <1>1, <1>2, <1>3 DEF Provided, InWriting
<1>5. k.except \subseteq Excludable /\ \A p \in People : k.held[p] \subseteq Lanes
      BY DEF RotationOK
<1> QED BY <1>1, <1>4, <1>5 DEF RotationOK, InWriting

\* The facets that a rotation sees to have keys.
LEMMA NeedsLanes ==
    ASSUME NEW k, NEW gs, NEW crowded, RotationOK(k, gs, crowded), NEW p \in People, NEW f \in Needs(k, p)
    PROVE  f \in Lanes
BY DEF RotationOK, Needs, Lanes

\* Gather: whoever holds a grant becomes a keeper.
LEMMA GatherProvides ==
    ASSUME TypesInv, NEW j, NEW k, NEW who \in People, NEW held, GatherOK(j, minted), GatherOK(k, minted),
           j.left # <<>>, who = Head(j.left), held = HeldBy(who, k.rec),
           k.me = j.me, k.rec = j.rec, k.except = j.except, k.held = j.held, k.left = Tail(j.left),
           k.keepers = IF held = {} THEN j.keepers ELSE Append(j.keepers, Keeper(who, held)),
           RotationOK(j, grants, trouble.crowded)
    PROVE  RotationOK(k, grants, trouble.crowded)
<1>1. /\ k.at = "gather" /\ j.at = "gather" /\ j.left \in Seq(People) /\ j.keepers \in Seq(KeeperSet)
      /\ k.keepers \in Seq(KeeperSet)
      BY DEF GatherOK
<1>2. PICK left : left = j.left
      OBVIOUS
<1>3. PICK rest : rest = Tail(left)
      OBVIOUS
<1>4. /\ Len(left) \in Nat /\ Len(left) >= 1 /\ left[1] = who /\ Len(rest) = Len(left) - 1
      /\ \A i \in 1..Len(rest) : rest[i] = left[i + 1]
      BY <1>1, <1>2, <1>3
<1>5. \A i \in 1..Len(j.keepers) : i \in 1..Len(k.keepers) /\ k.keepers[i] = j.keepers[i]
  <2>1. PICK had : had = j.keepers
        OBVIOUS
  <2>2. had \in Seq(KeeperSet) /\ Len(had) \in Nat
        BY <1>1, <2>1
  <2>3. CASE held = {}
        BY <2>3
  <2>4. CASE held # {}
    <3>1. PICK keeper : keeper = Keeper(who, held)
          OBVIOUS
    <3>2. k.keepers = Append(had, keeper)
          BY <2>1, <2>4, <3>1
    <3>3. Len(Append(had, keeper)) = Len(had) + 1 /\ \A i \in 1..Len(had) : Append(had, keeper)[i] = had[i]
          BY <2>2
    <3> QED BY <2>1, <2>2, <3>2, <3>3
  <2> QED BY <2>3, <2>4
<1>6. ASSUME NEW p \in People \ (k.except \cup trouble.crowded), NEW f \in Needs(k, p)
      PROVE  Provided(k, p, f, grants)
  <2>1. f \in Needs(j, p) /\ p \in People \ (j.except \cup trouble.crowded)
        BY <1>1, <1>6 DEF Needs
  <2>2. Provided(j, p, f, grants)
        BY <2>1 DEF RotationOK
  <2>3. CASE \E i \in 1..Len(j.keepers) : j.keepers[i].who = p /\ j.keepers[i].facet >= f
    <3>1. \E i \in 1..Len(k.keepers) : k.keepers[i].who = p /\ k.keepers[i].facet >= f
          BY <1>5, <2>3
    <3> QED BY <1>1, <3>1 DEF Provided, InWriting
  <2>4. CASE (\E i \in 1..Len(left) : left[i] = p) /\ HoldsWide(p, f, j.rec, grants)
    <3>1. PICK i \in 1..Len(left) : left[i] = p
          BY <2>4
    <3>2. CASE i = 1
      <4>1. p = who /\ HoldsWide(who, f, k.rec, grants) /\ f \in Lanes
            BY <1>4, <2>1, <2>4, <3>1, <3>2, NeedsLanes
      <4>2. held # {} /\ \E h \in Facets : h >= f /\ h <= Best(held)
            BY <4>1, WideHeld DEF TypesInv
      <4>3. held \subseteq Grant
            BY HeldByFacts DEF TypesInv
      <4>4. Best(held) \in Facets
            BY <4>2, <4>3, BestIsBest
      <4>5. Best(held) >= f
        <5>1. \A a, b, x \in Int : x >= a /\ x <= b => b >= a
              OBVIOUS
        <5>2. Facets \subseteq Int /\ Lanes \subseteq Int
              BY DEF Facets, Lanes, Presence, Shape, Content
        <5> QED BY <4>1, <4>2, <4>4, <5>1, <5>2
      <4>6. PICK keeper : keeper = Keeper(who, held)
            OBVIOUS
      <4>7. keeper.who = p /\ keeper.facet >= f
            BY <4>1, <4>5, <4>6 DEF Keeper
      <4>8. PICK had : had = j.keepers
            OBVIOUS
      <4>9. k.keepers = Append(had, keeper) /\ had \in Seq(KeeperSet)
            BY <1>1, <4>2, <4>6, <4>8
      <4>10. Len(had) + 1 \in 1..Len(Append(had, keeper)) /\ Append(had, keeper)[Len(had) + 1] = keeper
            BY <4>9
      <4>11. \E h \in 1..Len(k.keepers) : k.keepers[h].who = p /\ k.keepers[h].facet >= f
            BY <4>7, <4>9, <4>10
      <4> QED BY <1>1, <4>11 DEF Provided, InWriting
    <3>3. CASE i # 1
      <4>1. i - 1 \in 1..Len(rest) /\ rest[i - 1] = left[i]
            BY <1>4, <3>1, <3>3
      <4>2. \E h \in 1..Len(k.left) : k.left[h] = p
            BY <1>2, <1>3, <3>1, <4>1
      <4> QED BY <1>1, <2>4, <4>2 DEF Provided, InWriting
    <3> QED BY <3>2, <3>3
  <2> QED BY <1>1, <1>2, <2>2, <2>3, <2>4 DEF Provided
<1>7. k.except \subseteq Excludable /\ \A p \in People : k.held[p] \subseteq Lanes
      BY DEF RotationOK
<1> QED BY <1>1, <1>6, <1>7 DEF RotationOK, InWriting

\* ChangeLock: every keeper will be given a grant under the new lock.
LEMMA ChangeLockProvides ==
    ASSUME TypesInv, NEW j, NEW k, NEW root \in ContentKeys, GatherOK(j, minted), j.left = <<>>,
           j.close \in Closes,
           Started(k, "rotate", j.me, j.close, ToRotate(j, root)), k.at = "open",
           k.except = j.except, k.held = j.held,
           RotationOK(j, grants, trouble.crowded)
    PROVE  RotationOK(k, grants, trouble.crowded) /\ Head(k.todo).is = "record"
<1>1. PICK rec : rec = RotateRecord(j.rec, j.key, MintKey(root, j.close))
      OBVIOUS
<1>2. PICK todo : todo = ToRotate(j, root)
      OBVIOUS
<1>3. /\ todo \in Seq(FilesFor(j.close)) /\ Len(j.keepers) \in Nat /\ Len(todo) = Len(j.keepers) + 1
      /\ todo[1] = RecordFile(rec, root) /\ rec \in Record(People) /\ rec.id = j.close
      /\ \A i \in 1..Len(j.keepers) :
            todo[i + 1] = GrantFile(j.keepers[i].who,
                IssueRoot(rec, j.me, MintKey(root, j.close), rec.epoch, j.keepers[i].who,
                          j.keepers[i].facet, j.keepers[i].powers, <<>>, Never))
      BY <1>1, <1>2, RotationFiles
<1>4. /\ k.todo = todo /\ k.all = todo /\ k.me = j.me /\ k.except = j.except /\ k.held = j.held /\ k.at = "open"
      BY <1>2 DEF Started
<1>5. /\ j.me \in People /\ j.key \in Key /\ j.rec \in Record(People) /\ j.rec.steward = j.me
      /\ j.keepers \in Seq(KeeperSet) /\ j.at = "gather"
      BY DEF GatherOK, LoadedRec
<1>6. rec.steward = j.me
      BY <1>1, <1>5, MintKeyType, RotateRecordFields
<1>7. todo[1].is = "record" /\ todo[1].rec = rec /\ Head(todo) = todo[1]
      BY <1>3 DEF RecordFile
<1>8. \A i \in 1..Len(todo) : todo[i].is # "list"
  <2>1. ASSUME NEW i \in 1..Len(todo), i # 1
        PROVE  todo[i].is = "grant"
    <3>1. PICK n \in 1..Len(j.keepers) : n + 1 = i
      <4>1. i - 1 \in 1..Len(j.keepers) /\ (i - 1) + 1 = i
            BY <1>3, <2>1
      <4> QED BY <4>1
    <3>2. PICK g : todo[n + 1] = GrantFile(j.keepers[n].who, g)
          BY <1>3
    <3>3. todo[n + 1].is = "grant"
          BY <3>2 DEF GrantFile
    <3> QED BY <3>1, <3>3
  <2> QED BY <1>7, <2>1
<1>9. ASSUME NEW p \in People \ (k.except \cup trouble.crowded), NEW f \in Needs(k, p)
      PROVE  Provided(k, p, f, grants)
  <2>1. f \in Needs(j, p) /\ p \in People \ (j.except \cup trouble.crowded)
        BY <1>4, <1>5, <1>9 DEF Needs
  <2>2. Provided(j, p, f, grants) /\ f \in Lanes
        BY <2>1, NeedsLanes DEF RotationOK
  <2>3. PICK i \in 1..Len(j.keepers) : j.keepers[i].who = p /\ j.keepers[i].facet >= f
    <3>1. 1..Len(j.left) = {}
          OBVIOUS
    <3> QED BY <1>5, <2>2, <3>1 DEF Provided
  <2>4. PICK keeper \in KeeperSet : keeper = j.keepers[i]
        BY <1>5, <2>3, ElementIn
  <2>5. keeper.who = p /\ keeper.facet \in Facets /\ keeper.powers \in SUBSET AllPowers /\ keeper.facet >= f
        BY <2>3, <2>4 DEF KeeperSet
  <2>6. f <= keeper.facet
        BY <2>2, <2>5 DEF Facets, Lanes, Presence, Shape, Content
  <2>7. PICK g : g = IssueRoot(rec, rec.steward, MintKey(root, rec.id), rec.epoch, p, keeper.facet, keeper.powers, <<>>, Never)
        OBVIOUS
  <2>8. Opener(g, f, rec)
        BY <1>3, <2>2, <2>5, <2>6, <2>7, OpenerMade
  <2>9. todo[i + 1] = GrantFile(p, g)
        BY <1>3, <1>6, <2>4, <2>5, <2>7
  <2>10. i + 1 \in 1..Len(todo) /\ todo[i + 1].is = "grant" /\ todo[i + 1].who = p /\ todo[i + 1].grant = g
        BY <1>3, <2>9 DEF GrantFile
  <2>11. \E h \in 1..Len(k.todo) : /\ k.todo[h].is = "grant" /\ k.todo[h].who = p
                                   /\ Opener(k.todo[h].grant, f, k.all[1].rec)
        BY <1>4, <1>7, <2>8, <2>10
  <2> QED BY <1>4, <2>11 DEF Provided
<1>10. k.except \subseteq Excludable /\ \A p \in People : k.held[p] \subseteq Lanes
      BY <1>4 DEF RotationOK
<1> QED BY <1>4, <1>6, <1>7, <1>8, <1>9, <1>10 DEF RotationOK

\* Filling a grant's file provides for its holder.
LEMMA FillProvides ==
    ASSUME TypesInv, StillKept, MoreTrouble, NEW j, NEW k, WritingOK(j, closes, grants, minted), Rotates(j),
           GoesOn(j, k), Tail(j.todo) # <<>>,
           Head(j.todo).is = "grant" => OnFile(Head(j.todo).grant, grants'),
           RotationOK(j, grants, trouble.crowded)
    PROVE  RotationOK(k, grants', trouble'.crowded)
<1>1. SameCommand(j, k) /\ k.at = "prepare" /\ k.todo = Tail(j.todo)
      BY DEF GoesOn
<1>2. PICK todo : todo = j.todo
      OBVIOUS
<1>3. PICK rest : rest = k.todo
      OBVIOUS
<1>4. Len(rest) = Len(todo) - 1 /\ \A i \in 1..Len(rest) : rest[i] = todo[i + 1]
      BY <1>1, <1>2, <1>3, TailTodo DEF WritingOK
<1>5. Len(todo) \in Nat /\ Len(todo) >= 1 /\ Head(todo) = todo[1] /\ todo[1] \in FilesFor(j.close)
      BY <1>2, WritingFacts
<1>6. /\ k.me = j.me /\ k.except = j.except /\ k.held = j.held /\ k.all = j.all
      BY <1>1 DEF SameCommand
<1>7. j.at # "loaded" /\ InWriting(j)
      BY DEF WritingOK, InWriting
<1>8. RotationOK(j, grants', trouble'.crowded)
      BY RotationStays
<1>9. ASSUME NEW p \in People \ (k.except \cup trouble'.crowded), NEW f \in Needs(k, p)
      PROVE  Provided(k, p, f, grants')
  <2>1. f \in Needs(j, p) /\ p \in People \ (j.except \cup trouble'.crowded)
        BY <1>1, <1>6, <1>7, <1>9 DEF Needs
  <2>2. Provided(j, p, f, grants')
        BY <1>8, <2>1 DEF RotationOK
  <2>3. CASE HasKey(p, f, j.all[1].rec, grants')
        BY <1>1, <1>6, <2>3 DEF Provided, InWriting
  <2>4. ASSUME NEW i \in 1..Len(todo), todo[i].is = "grant", todo[i].who = p,
               Opener(todo[i].grant, f, j.all[1].rec)
        PROVE  Provided(k, p, f, grants')
    <3>1. CASE i = 1
      <4>1. todo[1].grant \in Grant /\ Leaf(todo[1].grant).holder = p
            BY <1>5, <2>4, <3>1, FileFacts
      <4>2. OnFile(todo[1].grant, grants')
            BY <1>2, <1>5, <2>4, <3>1
      <4>3. HasKey(p, f, j.all[1].rec, grants')
            BY <2>4, <3>1, <4>1, <4>2 DEF HasKey
      <4> QED BY <1>1, <1>6, <4>3 DEF Provided, InWriting
    <3>2. CASE i # 1
      <4>1. i - 1 \in 1..Len(rest) /\ rest[i - 1] = todo[i]
            BY <1>4, <1>5, <2>4, <3>2
      <4>2. \E h \in 1..Len(k.todo) : /\ k.todo[h].is = "grant" /\ k.todo[h].who = p
                                      /\ Opener(k.todo[h].grant, f, k.all[1].rec)
            BY <1>3, <1>6, <2>4, <4>1
      <4> QED BY <1>1, <4>2 DEF Provided
    <3> QED BY <3>1, <3>2
  <2> QED BY <1>2, <1>7, <2>2, <2>3, <2>4 DEF Provided
<1>10. /\ k.except \subseteq Excludable /\ \A p \in People : k.held[p] \subseteq Lanes
       /\ k.all[1].is = "record" /\ k.all[1].rec.steward = k.me
       /\ \A i \in 1..Len(k.all) : k.all[i].is # "list"
      BY <1>6, <1>7 DEF RotationOK
<1> QED BY <1>9, <1>10 DEF RotationOK

-----------------------------------------------------------------------------
\* What one move has to satisfy for each part of the invariant to survive it.

\* What one move has to satisfy for the records to stay the ones that
\* rotations wrote.
LEMMA RecordsStep ==
    ASSUME RecordsOK, NEW t \in Terminals, NEW k, Moves(t, k), MoreTrouble,
           RecordKept(k, closes', trouble'.raced),
           \A u \in Terminals \ {t} : PastRecord(command[u]) \/ InFill(command[u]) =>
              \/ closes'[command[u].close] = closes[command[u].close]
              \/ command[u].do # "protect" /\ command[u].close \in trouble'.raced
    PROVE  RecordsOK'
<1>1. ASSUME NEW u \in Terminals
      PROVE  RecordKept(command'[u], closes', trouble'.raced)
  <2>1. CASE u = t
        BY <2>1 DEF Moves
  <2>2. CASE u # t
    <3>1. command'[u] = command[u]
          BY <2>2 DEF Moves
    <3>2. RecordKept(command[u], closes, trouble.raced)
          BY DEF RecordsOK
    <3> QED BY <2>2, <3>1, <3>2 DEF RecordKept, MoreTrouble
  <2> QED BY <2>1, <2>2
<1>2. Terminals' = Terminals
      BY DEF Terminals, Most
<1> QED BY <1>1, <1>2 DEF RecordsOK

\* The same for the founders that are not yet at the map: what the command
\* that moved becomes, and that it does nothing to the closes of the others.
LEMMA FoundingsStep ==
    ASSUME FoundingsOK, NEW t \in Terminals, NEW k, Moves(t, k),
           Unlocked(k) => /\ FoundingOK(k, closes')
                          /\ ~ Listed(k.close, lists', command')
                          /\ \A u \in Terminals \ {t} : ~ Does(command[u], "rotate", k.close),
           \A u \in Terminals \ {t} : Unlocked(command[u]) =>
              /\ Head(command[u].todo).is = "grant" => closes'[command[u].close] = closes[command[u].close]
              /\ ~ Listed(command[u].close, lists', command')
              /\ ~ Does(k, "rotate", command[u].close)
    PROVE  FoundingsOK'
<1>1. ASSUME NEW u \in Terminals, Unlocked(command'[u])
      PROVE  /\ FoundingOK(command'[u], closes')
             /\ ~ Listed(command'[u].close, lists', command')
             /\ \A v \in Terminals : ~ Does(command'[v], "rotate", command'[u].close)
  <2>1. CASE u = t
    <3>1. command'[t] = k /\ ~ Does(k, "rotate", k.close)
          BY <1>1, <2>1 DEF Moves, Unlocked, Does
    <3>2. \A v \in Terminals \ {t} : command'[v] = command[v]
          BY DEF Moves
    <3> QED BY <1>1, <2>1, <3>1, <3>2
  <2>2. CASE u # t
    <3>1. command'[u] = command[u] /\ command'[t] = k /\ \A v \in Terminals \ {t} : command'[v] = command[v]
          BY <2>2 DEF Moves
    <3>2. /\ FoundingOK(command[u], closes)
          /\ \A v \in Terminals : ~ Does(command[v], "rotate", command[u].close)
          BY <1>1, <3>1 DEF FoundingsOK
    <3>3. FoundingOK(command[u], closes')
          BY <1>1, <2>2, <3>1, <3>2 DEF FoundingOK
    <3> QED BY <1>1, <2>2, <3>1, <3>2, <3>3
  <2> QED BY <2>1, <2>2
<1>2. Terminals' = Terminals
      BY DEF Terminals, Most
<1> QED BY <1>1, <1>2 DEF FoundingsOK

\* The same for the locks: a close that is newly listed is safe, and one that
\* was listed either is, or has the record it had and a rotation that is still
\* half done if it was.
LEMMA LocksStep ==
    ASSUME TypesInv, LocksOK, NEW t \in Terminals, NEW k, Moves(t, k), StillKept, MoreTrouble,
           DOMAIN closes \subseteq DOMAIN closes',
           \A c \in Closes : Listed(c, lists', command') =>
              \/ Listed(c, lists, command)
              \/ SafeLock(c, closes', grants', command', trouble'),
           \A c \in Closes : Listed(c, lists, command) =>
              \/ SafeLock(c, closes', grants', command', trouble')
              \/ /\ closes'[c] = closes[c]
                 /\ Half(command[t], c, closes) =>
                       Half(k, c, closes') \/ SafeLock(c, closes', grants', command', trouble')
    PROVE  LocksOK'
<1>1. ASSUME NEW c \in Closes, Listed(c, lists', command'),
             ~ SafeLock(c, closes', grants', command', trouble')
      PROVE  FALSE
  <2>1. Listed(c, lists, command)
        BY <1>1
  <2>2. /\ closes'[c] = closes[c]
        /\ Half(command[t], c, closes) => Half(k, c, closes')
        BY <1>1, <2>1
  <2>3. SafeLock(c, closes, grants, command, trouble)
        BY <2>1 DEF LocksOK
  <2>4. c \in DOMAIN closes' /\ c \in DOMAIN closes
        BY <2>3 DEF SafeLock
  <2>5. CASE c \in trouble.stranded \cup trouble.raced
        BY <1>1, <2>4, <2>5 DEF SafeLock, MoreTrouble
  <2>6. CASE KeptBy(c, closes, grants, trouble.crowded)
    <3>1. closes'[c] # Torn /\ closes'[c].steward \in People
      <4>1. closes[c] \in Record(People)
            BY <2>4, <2>6 DEF KeptBy, TypesInv, ClosesOK
      <4> QED BY <2>2, <2>6, <4>1 DEF KeptBy, Record
    <3>2. CASE closes'[c].steward \in trouble'.crowded \cup Excludable
      <4>1. KeptBy(c, closes', grants', trouble'.crowded)
            BY <3>1, <3>2 DEF KeptBy
      <4> QED BY <1>1, <2>4, <4>1 DEF SafeLock
    <3>3. CASE closes'[c].steward \notin trouble'.crowded \cup Excludable
      <4>1. closes[c].steward \notin trouble.crowded \cup Excludable
            BY <2>2, <3>3 DEF MoreTrouble
      <4>2. HasKey(closes'[c].steward, Content, closes'[c], grants)
            BY <2>2, <2>6, <4>1 DEF KeptBy
      <4>3. HasKey(closes'[c].steward, Content, closes'[c], grants')
            BY <3>1, <3>3, <4>2, HoldsStays
      <4>4. KeptBy(c, closes', grants', trouble'.crowded)
            BY <3>1, <4>3 DEF KeptBy
      <4> QED BY <1>1, <2>4, <4>4 DEF SafeLock
    <3> QED BY <3>2, <3>3
  <2>7. ASSUME NEW u \in Terminals, Half(command[u], c, closes)
        PROVE  FALSE
    <3>1. Half(command'[u], c, closes')
      <4>1. CASE u = t
            BY <2>2, <2>7, <4>1 DEF Moves
      <4>2. CASE u # t
            BY <2>2, <2>7, <4>2 DEF Moves, Half
      <4> QED BY <4>1, <4>2
    <3> QED BY <1>1, <2>4, <3>1 DEF SafeLock
  <2> QED BY <2>3, <2>5, <2>6, <2>7 DEF SafeLock
<1>2. Terminals' = Terminals
      BY DEF Terminals, Most
<1> QED BY <1>1, <1>2 DEF LocksOK

\* What is listed after a move was listed before it.
LEMMA ListedStep ==
    ASSUME NEW t \in Terminals, NEW k, Moves(t, k), NEW c,
           lists'["map"] # Torn /\ Has(lists'["map"], c) => Listed(c, lists, command),
           ListsIt(k, c) => Listed(c, lists, command),
           Listed(c, lists', command')
    PROVE  Listed(c, lists, command)
<1>1. CASE lists'["map"] # Torn /\ Has(lists'["map"], c)
      BY <1>1
<1>2. ASSUME NEW u \in Terminals, ListsIt(command'[u], c)
      PROVE  Listed(c, lists, command)
  <2>1. CASE u = t
        BY <1>2, <2>1 DEF Moves
  <2>2. CASE u # t
        BY <1>2, <2>2 DEF Moves, Listed
  <2> QED BY <2>1, <2>2
<1> QED BY <1>1, <1>2 DEF Listed, Has

\* A move that changes no file of a close.
LEMMA LockQuiet ==
    ASSUME TypesInv, LockInv, NEW t \in Terminals, NEW k, Moves(t, k),
           closes' = closes, lists' = lists, grants' = grants, MoreTrouble,
           Rotates(k) => RotationOK(k, grants, trouble'.crowded),
           RecordKept(k, closes, trouble'.raced),
           \A c : ListsIt(k, c) => Listed(c, lists, command),
           Unlocked(k) => /\ FoundingOK(k, closes)
                          /\ ~ Listed(k.close, lists, command)
                          /\ \A u \in Terminals \ {t} : ~ Does(command[u], "rotate", k.close),
           \A c : Does(k, "rotate", c) => Does(command[t], "rotate", c) \/ Listed(c, lists, command),
           \A c \in Closes : Half(command[t], c, closes) => Half(k, c, closes) \/ c \in trouble'.stranded
    PROVE  LockInv'
<1>1. StillKept
      BY DEF StillKept, MoreTrouble, KeptIn
<1>2. RotationsOK'
      BY <1>1, RotationsStep DEF LockInv
<1>3. RecordsOK'
      BY RecordsStep DEF LockInv
<1>4. \A c : Listed(c, lists', command') => Listed(c, lists, command)
  <2>1. \A c : lists'["map"] # Torn /\ Has(lists'["map"], c) => Listed(c, lists, command)
        BY DEF Listed, Has
  <2> QED BY <2>1, ListedStep
<1>5. FoundingsOK'
  <2>1. ASSUME NEW u \in Terminals \ {t}, Unlocked(command[u])
        PROVE  /\ ~ Listed(command[u].close, lists', command')
               /\ ~ Does(k, "rotate", command[u].close)
    <3>1. /\ ~ Listed(command[u].close, lists, command)
          /\ ~ Does(command[t], "rotate", command[u].close)
          BY <2>1 DEF LockInv, FoundingsOK
    <3> QED BY <1>4, <3>1
  <2>2. Unlocked(k) => ~ Listed(k.close, lists', command')
        BY <1>4
  <2> QED BY <2>1, <2>2, FoundingsStep DEF LockInv
<1>6. LocksOK'
  <2>1. ASSUME NEW c \in Closes, Listed(c, lists, command), Half(command[t], c, closes)
        PROVE  Half(k, c, closes') \/ SafeLock(c, closes', grants', command', trouble')
    <3>1. c \in DOMAIN closes'
          BY <2>1 DEF LockInv, LocksOK, SafeLock
    <3>2. c \in trouble'.stranded => SafeLock(c, closes', grants', command', trouble')
          BY <3>1 DEF SafeLock
    <3> QED BY <2>1, <3>2
  <2> QED BY <1>1, <1>4, <2>1, LocksStep DEF LockInv
<1> QED BY <1>2, <1>3, <1>5, <1>6 DEF LockInv

-----------------------------------------------------------------------------
\* The steps that change no file, one after the other.

\* A command that does not write has nothing to do with records and lists.
LEMMA NotWriting ==
    ASSUME NEW k, ~ InWriting(k), NEW cs, NEW raced
    PROVE  /\ RecordKept(k, cs, raced) /\ ~ Unlocked(k) /\ \A c : ~ ListsIt(k, c) /\ ~ Half(k, c, cs)
BY DEF InWriting, RecordKept, PastRecord, InFill, Unlocked, ListsIt, AtMap, Half

\* A terminal with no command writes nothing and rotates nothing.
LEMMA IdleIsQuiet == ~ InWriting(Idle) /\ ~ Rotates(Idle) /\ \A c : ~ Does(Idle, "rotate", c)
BY DEF InWriting, Idle, Rotates, Does

\* A step that causes no trouble leaves what there was.
LEMMA SameTrouble ==
    ASSUME trouble' = trouble
    PROVE  MoreTrouble
BY DEF MoreTrouble

\* A move between commands that do not write, of a rotation provided for.
LEMMA LockBefore ==
    ASSUME TypesInv, LockInv, NEW t \in Terminals, NEW k, Moves(t, k),
           closes' = closes, lists' = lists, grants' = grants, MoreTrouble,
           ~ InWriting(k), ~ InWriting(command[t]),
           Rotates(k) => RotationOK(k, grants, trouble'.crowded),
           \A c : Does(k, "rotate", c) => Does(command[t], "rotate", c) \/ Listed(c, lists, command)
    PROVE  LockInv'
<1>1. RecordKept(k, closes, trouble'.raced) /\ ~ Unlocked(k) /\ \A c : ~ ListsIt(k, c)
      BY NotWriting
<1>2. \A c : ~ Half(command[t], c, closes)
      BY NotWriting
<1> QED BY <1>1, <1>2, LockQuiet

\* A share or a new signpost starts to write.
LEMMA LockStarted ==
    ASSUME TypesInv, LockInv, NEW t \in Terminals, NEW k, Moves(t, k),
           closes' = closes, lists' = lists, grants' = grants, MoreTrouble,
           k.do \in {"share", "raise"}, k.at # "fill",
           Head(k.todo).is # "list" \/ Head(k.todo).list # "map",
           ~ InWriting(command[t])
    PROVE  LockInv'
<1>1. ~ Rotates(k) /\ RecordKept(k, closes, trouble'.raced) /\ ~ Unlocked(k)
      BY DEF Rotates, RecordKept, PastRecord, InFill, Unlocked
<1>2. \A c : ~ Does(k, "rotate", c) /\ ~ ListsIt(k, c)
      BY DEF Does, ListsIt, AtMap
<1>3. \A c : ~ Half(command[t], c, closes)
      BY NotWriting
<1> QED BY <1>1, <1>2, <1>3, LockQuiet

\* A rotation is of a close that was founded.
LEMMA RotatesFounded ==
    ASSUME TypesInv, NEW u \in Terminals, NEW c, Does(command[u], "rotate", c)
    PROVE  c \in DOMAIN minted /\ c \in DOMAIN closes /\ c \in Closes
<1>1. CommandOK(command[u], closes, grants, minted) /\ command[u] # Idle
      BY DEF TypesInv, CommandsOK, Does
<1>2. command[u].close \in DOMAIN minted
      BY <1>1 DEF CommandOK, LoadedOK, GatherOK, LoadedRec, WritingOK, Does
<1> QED BY <1>2 DEF Does, TypesInv, ClosesOK

\* What protect will write.
LEMMA ProtectFounds ==
    ASSUME NEW me \in People, NEW c \in Closes, NEW root \in ContentKeys, NEW k,
           Started(k, "protect", me, c, ToFound(me, c, root)), NEW cs
    PROVE  FoundingOK(k, cs) /\ Head(k.todo).is = "record"
<1>1. PICK todo : todo = ToFound(me, c, root)
      OBVIOUS
<1>2. PICK rec : rec = FoundRecord(c, me)
      OBVIOUS
<1>3. PICK g : g = FoundingGrant(me, c, root)
      OBVIOUS
<1>4. /\ todo \in Seq(FilesFor(c)) /\ Len(todo) = 3
      /\ todo[1] = RecordFile(rec, root) /\ todo[2] = GrantFile(me, g) /\ todo[3] = ListFile("map", c)
      BY <1>1, <1>2, <1>3, FoundingFiles
<1>5. rec.id = c /\ rec.steward = me /\ rec.epoch = 0 /\ rec \in Record(People)
      BY <1>2 DEF FoundRecord, Record
<1>6. Opener(g, Content, rec)
  <2>1. Content \in Facets /\ Content \in Lanes /\ AllPowers \in SUBSET AllPowers /\ Content <= Content
        BY DEF Facets, Lanes, Presence, Shape, Content
  <2>2. g = IssueRoot(rec, rec.steward, MintKey(root, rec.id), rec.epoch, me, Content, AllPowers, <<>>, Never)
        BY <1>2, <1>3, <1>5 DEF FoundingGrant
  <2> QED BY <1>5, <2>1, <2>2, OpenerMade
<1>7. k.all = todo /\ k.todo = todo /\ k.me = me
      BY <1>1 DEF Started
<1>8. Head(todo) = todo[1]
      BY <1>4
<1>9. /\ todo[1].is = "record" /\ todo[1].rec = rec
      /\ todo[2].is = "grant" /\ todo[2].who = me /\ todo[2].grant = g
      /\ todo[3].is = "list"
      BY <1>4 DEF RecordFile, GrantFile, ListFile
<1> QED BY <1>4, <1>5, <1>6, <1>7, <1>8, <1>9 DEF FoundingOK

\* A founder starts: the close is not on the map, and nobody else has to do
\* with it.
LEMMA ProtectLock ==
    ASSUME TypesInv, LockInv, NEW t \in Terminals, NEW me \in People, NEW c \in Closes, Protect(t, me, c)
    PROVE  LockInv'
<1>1. PICK root \in ContentKeys : \E k : Moves(t, k) /\ Started(k, "protect", me, c, ToFound(me, c, root))
      BY ProtectMoves
<1>2. PICK k : Moves(t, k) /\ Started(k, "protect", me, c, ToFound(me, c, root))
      BY <1>1
<1>3. command[t] = Idle /\ c \notin DOMAIN closes /\ UNCHANGED <<files, trouble>>
      BY DEF Protect, Starts
<1>4. /\ k.do = "protect" /\ k.close = c /\ FoundingOK(k, closes) /\ Head(k.todo).is = "record"
      /\ k.at # "fill"
      BY <1>2, ProtectFounds DEF Started
<1>5. ~ Listed(c, lists, command)
      BY <1>3 DEF LockInv, LocksOK, SafeLock
<1>6. \A u \in Terminals : ~ Does(command[u], "rotate", c)
      BY <1>3, RotatesFounded
<1>7. ~ Rotates(k) /\ RecordKept(k, closes, trouble'.raced) /\ \A d : ~ Does(k, "rotate", d) /\ ~ ListsIt(k, d)
      BY <1>4 DEF Rotates, RecordKept, PastRecord, InFill, Does, ListsIt, AtMap
<1>8. \A d : ~ Half(command[t], d, closes)
      BY <1>3, NotWriting, IdleIsQuiet
<1>9. MoreTrouble /\ closes' = closes /\ lists' = lists /\ grants' = grants
      BY <1>3, SameTrouble DEF files
<1> QED BY <1>2, <1>4, <1>5, <1>6, <1>7, <1>8, <1>9, LockQuiet

\* A share that starts reads only.
LEMMA ShareLock ==
    ASSUME TypesInv, LockInv, NEW t \in Terminals, NEW me \in People, NEW c \in Closes, NEW with \in Receivers,
           NEW facet \in ShareFacets, Share(t, me, c, with, facet)
    PROVE  LockInv'
<1>1. PICK k : Moves(t, k) /\ LoadedOK(k, minted) /\ k.do = "share"
      BY ShareMoves
<1>2. command[t] = Idle /\ UNCHANGED <<files, trouble>>
      BY DEF Share, Starts
<1>3. MoreTrouble /\ closes' = closes /\ lists' = lists /\ grants' = grants
      BY <1>2, SameTrouble DEF files
<1>4. ~ InWriting(k) /\ ~ Rotates(k) /\ \A d : ~ Does(k, "rotate", d)
      BY <1>1 DEF LoadedOK, InWriting, Rotates, Does
<1> QED BY <1>1, <1>2, <1>3, <1>4, LockBefore, IdleIsQuiet

\* A signpost that is raised starts with the index, never the map.
LEMMA RaiseLock ==
    ASSUME TypesInv, LockInv, NEW t \in Terminals, NEW me \in People, NEW path \in Signposts, Raise(t, me, path)
    PROVE  LockInv'
<1>1. PICK k : Moves(t, k) /\ Started(k, "raise", me, Commons, << ListFile("index", path) >>)
      BY RaiseMoves
<1>2. k.do = "raise" /\ Head(k.todo).list = "index" /\ k.at # "fill"
      BY <1>1 DEF Started, ListFile
<1>3. command[t] = Idle /\ UNCHANGED files
      BY DEF Raise, Starts
<1>4. MoreTrouble
  <2>1. /\ trouble'.crowded = trouble.crowded /\ trouble'.raced = trouble.raced
        /\ trouble'.stranded = trouble.stranded
        BY DEF Raise, TypesInv, HistoryOK
  <2> QED BY <2>1 DEF MoreTrouble
<1>5. closes' = closes /\ lists' = lists /\ grants' = grants
      BY <1>3 DEF files
<1> QED BY <1>1, <1>2, <1>3, <1>4, <1>5, LockStarted, IdleIsQuiet

\* A share that goes on has one grant to file, and no record.
LEMMA SettleLock ==
    ASSUME TypesInv, LockInv, NEW t \in Terminals, Settle(t)
    PROVE  LockInv'
<1>1. PICK g, k : Moves(t, k) /\ Started(k, "share", command[t].me, command[t].close, << GrantFile(Leaf(g).holder, g) >>)
      BY SettleMoves
<1>2. k.do = "share" /\ Head(k.todo).is = "grant" /\ k.at # "fill"
      BY <1>1 DEF Started, GrantFile
<1>3. command[t].at = "loaded" /\ UNCHANGED <<files, trouble>>
      BY DEF Settle
<1>4. MoreTrouble /\ closes' = closes /\ lists' = lists /\ grants' = grants /\ ~ InWriting(command[t])
      BY <1>3, SameTrouble DEF files, InWriting
<1> QED BY <1>1, <1>2, <1>4, LockStarted

\* A rotation starts with whom it must see to holding grants for it.
LEMMA RotateLock ==
    ASSUME TypesInv, LockInv, NEW t \in Terminals, NEW me \in People, NEW c \in Closes,
           NEW except \in SUBSET Excludable, Rotate(t, me, c, except)
    PROVE  LockInv'
<1>1. PICK k : /\ Moves(t, k) /\ LoadedOK(k, minted)
               /\ k.do = "rotate" /\ k.me = me /\ k.close = c /\ k.except = except
               /\ k.held = [p \in People |-> Readings(p, closes[c])]
               /\ k.rec = closes[c]
      BY RotateMoves
<1>2. RotationOK(k, grants, trouble.crowded)
      BY <1>1, RotateProvides
<1>3. command[t] = Idle /\ UNCHANGED files /\ Loads(c)
      BY DEF Rotate, Starts
<1>4. /\ trouble'.crowded = trouble.crowded /\ trouble'.stranded = trouble.stranded
      /\ trouble.raced \subseteq trouble'.raced
      BY DEF Rotate, TypesInv, HistoryOK
<1>5. MoreTrouble /\ closes' = closes /\ lists' = lists /\ grants' = grants
      BY <1>3, <1>4 DEF MoreTrouble, files
<1>6. Listed(c, lists, command)
      BY <1>3 DEF Loads, Governs, Lists, Listed
<1>7. ~ InWriting(k) /\ \A d : Does(k, "rotate", d) => Listed(d, lists, command)
      BY <1>1, <1>6 DEF LoadedOK, InWriting, Does
<1> QED BY <1>1, <1>2, <1>3, <1>4, <1>5, <1>7, LockBefore, IdleIsQuiet

\* Its steward finds the current key.
LEMMA FindKeyLock ==
    ASSUME TypesInv, LockInv, NEW t \in Terminals, FindKey(t)
    PROVE  LockInv'
<1>1. PICK j : j = command[t]
      OBVIOUS
<1>2. PICK k : /\ LoadedOK(j, minted) /\ j.do = "rotate"
               /\ Moves(t, k) /\ GatherOK(k, minted)
               /\ k.me = j.me /\ k.close = j.close /\ k.rec = j.rec
               /\ k.except = j.except /\ k.held = j.held
               /\ k.keepers = <<>> /\ k.left = Without(Order, k.except)
      BY <1>1, FindKeyMoves
<1>3. UNCHANGED <<files, trouble>>
      BY DEF FindKey
<1>4. MoreTrouble /\ closes' = closes /\ lists' = lists /\ grants' = grants
      BY <1>3, SameTrouble DEF files
<1>5. ~ InWriting(k) /\ ~ InWriting(j) /\ j # Idle
      BY <1>2 DEF LoadedOK, GatherOK, InWriting, Idle
<1>6. RotationOK(j, grants, trouble.crowded)
      BY <1>1, <1>2, <1>5 DEF LockInv, RotationsOK
<1>7. RotationOK(k, grants, trouble'.crowded)
      BY <1>1, <1>2, <1>3, <1>6, FindKeyProvides
<1>8. \A c : Does(k, "rotate", c) => Does(j, "rotate", c)
      BY <1>2, <1>5 DEF Does
<1> QED BY <1>1, <1>2, <1>4, <1>5, <1>7, <1>8, LockBefore

\* A command that is refused leaves everything.
LEMMA RefuseLock ==
    ASSUME TypesInv, LockInv, NEW t \in Terminals, Refuse(t)
    PROVE  LockInv'
<1>1. UNCHANGED <<files, trouble>>
      BY DEF Refuse
<1>2. MoreTrouble /\ closes' = closes /\ lists' = lists /\ grants' = grants
      BY <1>1, SameTrouble DEF files
<1>3. Moves(t, Idle) /\ ~ InWriting(command[t])
      BY RefuseMoves DEF InWriting
<1> QED BY <1>2, <1>3, LockBefore, IdleIsQuiet

\* A keeper is put down, with the facet to re-issue, or found to hold nothing.
LEMMA GatherLock ==
    ASSUME TypesInv, LockInv, NEW t \in Terminals, Gather(t)
    PROVE  LockInv'
<1>1. PICK j : j = command[t]
      OBVIOUS
<1>2. PICK who \in People : \E held : \E k :
              /\ GatherOK(command[t], minted) /\ Moves(t, k) /\ GatherOK(k, minted)
              /\ command[t].left # <<>> /\ who = Head(command[t].left) /\ held = HeldBy(who, k.rec)
              /\ k.me = command[t].me /\ k.close = command[t].close /\ k.rec = command[t].rec
              /\ k.except = command[t].except /\ k.held = command[t].held /\ k.key = command[t].key
              /\ k.left = Tail(command[t].left)
              /\ k.keepers = IF held = {} THEN command[t].keepers
                             ELSE Append(command[t].keepers, Keeper(who, held))
      BY GatherMoves
<1>3. PICK held : \E k :
              /\ GatherOK(j, minted) /\ Moves(t, k) /\ GatherOK(k, minted)
              /\ j.left # <<>> /\ who = Head(j.left) /\ held = HeldBy(who, k.rec)
              /\ k.me = j.me /\ k.close = j.close /\ k.rec = j.rec
              /\ k.except = j.except /\ k.held = j.held
              /\ k.left = Tail(j.left)
              /\ k.keepers = IF held = {} THEN j.keepers ELSE Append(j.keepers, Keeper(who, held))
      BY <1>1, <1>2
<1>4. PICK k :
              /\ GatherOK(j, minted) /\ Moves(t, k) /\ GatherOK(k, minted)
              /\ j.left # <<>> /\ who = Head(j.left) /\ held = HeldBy(who, k.rec)
              /\ k.me = j.me /\ k.close = j.close /\ k.rec = j.rec
              /\ k.except = j.except /\ k.held = j.held
              /\ k.left = Tail(j.left)
              /\ k.keepers = IF held = {} THEN j.keepers ELSE Append(j.keepers, Keeper(who, held))
      BY <1>3
<1>5. UNCHANGED <<files, trouble>>
      BY DEF Gather
<1>6. MoreTrouble /\ closes' = closes /\ lists' = lists /\ grants' = grants
      BY <1>5, SameTrouble DEF files
<1>7. ~ InWriting(k) /\ ~ InWriting(j) /\ j # Idle /\ j.do = "rotate"
      BY <1>4 DEF GatherOK, InWriting, Idle
<1>8. RotationOK(j, grants, trouble.crowded)
      BY <1>1, <1>7 DEF LockInv, RotationsOK
<1>9. RotationOK(k, grants, trouble'.crowded)
      BY <1>4, <1>5, <1>8, GatherProvides
<1>10. \A c : Does(k, "rotate", c) => Does(j, "rotate", c)
      BY <1>4, <1>7 DEF Does
<1> QED BY <1>1, <1>4, <1>6, <1>7, <1>9, <1>10, LockBefore

\* The record is changed in hand, and the grants are issued by it.
LEMMA ChangeLockLock ==
    ASSUME TypesInv, LockInv, NEW t \in Terminals, ChangeLock(t)
    PROVE  LockInv'
<1>1. PICK j : j = command[t]
      OBVIOUS
<1>2. PICK root, k :
              /\ root \in ContentKeys
              /\ GatherOK(j, minted) /\ j.close \in Closes /\ j.left = <<>>
              /\ Moves(t, k)
              /\ Started(k, "rotate", j.me, j.close, ToRotate(j, root))
              /\ k.except = j.except /\ k.held = j.held
              /\ k.at = "open"
      BY <1>1, ChangeLockMoves
<1>3. UNCHANGED <<files, trouble>>
      BY DEF ChangeLock
<1>4. MoreTrouble /\ closes' = closes /\ lists' = lists /\ grants' = grants
      BY <1>3, SameTrouble DEF files
<1>5. ~ InWriting(j) /\ j # Idle /\ j.do = "rotate" /\ k.do = "rotate" /\ k.close = j.close
      BY <1>2 DEF GatherOK, InWriting, Idle, Started
<1>6. RotationOK(j, grants, trouble.crowded)
      BY <1>1, <1>5 DEF LockInv, RotationsOK
<1>7. RotationOK(k, grants, trouble.crowded) /\ Head(k.todo).is = "record"
      BY <1>2, <1>6, ChangeLockProvides
<1>8. \A c : Does(k, "rotate", c) => Does(j, "rotate", c)
      BY <1>5 DEF Does
<1>9. RecordKept(k, closes, trouble'.raced) /\ ~ Unlocked(k) /\ \A c : ~ ListsIt(k, c)
      BY <1>2, <1>5, <1>7 DEF RecordKept, PastRecord, InFill, Unlocked, ListsIt, AtMap
<1>10. \A c : ~ Half(j, c, closes)
      BY <1>5, NotWriting
<1> QED BY <1>1, <1>2, <1>3, <1>4, <1>7, <1>8, <1>9, <1>10, LockQuiet

\* A command that goes on at the same file.
LEMMA OnwardKeeps ==
    ASSUME LockInv, NEW t \in Terminals, NEW j, j = command[t], NEW k, Onward(j, k), StillKept, MoreTrouble
    PROVE  /\ Rotates(k) => RotationOK(k, grants', trouble'.crowded)
           /\ ~ InFill(k) => RecordKept(k, closes, trouble'.raced)
           /\ Unlocked(k) => /\ Unlocked(j) /\ k.close = j.close /\ FoundingOK(k, closes)
                             /\ ~ Listed(k.close, lists, command)
                             /\ \A u \in Terminals \ {t} : ~ Does(command[u], "rotate", k.close)
           /\ \A c : Does(k, "rotate", c) => Does(j, "rotate", c)
<1>1. /\ InWriting(j) /\ InWriting(k) /\ k.do = j.do /\ k.me = j.me /\ k.close = j.close
      /\ k.all = j.all /\ k.todo = j.todo
      BY DEF Onward, SameCommand
<1>2. j # Idle
      BY <1>1 DEF InWriting, Idle
<1>3. ASSUME Rotates(k)
      PROVE  RotationOK(k, grants', trouble'.crowded)
  <2>1. RotationOK(j, grants, trouble.crowded)
        BY <1>1, <1>2, <1>3 DEF LockInv, RotationsOK, Rotates
  <2>2. RotationOK(j, grants', trouble'.crowded)
        BY <2>1, RotationStays
  <2> QED BY <2>2, RotationOnward
<1>4. ~ InFill(k) => RecordKept(k, closes, trouble'.raced)
  <2>1. RecordKept(j, closes, trouble.raced)
        BY DEF LockInv, RecordsOK
  <2> QED BY <1>1, <2>1 DEF RecordKept, PastRecord, MoreTrouble
<1>5. ASSUME Unlocked(k)
      PROVE  /\ Unlocked(j) /\ FoundingOK(k, closes)
             /\ ~ Listed(k.close, lists, command)
             /\ \A u \in Terminals \ {t} : ~ Does(command[u], "rotate", k.close)
  <2>1. Unlocked(j)
        BY <1>1, <1>5 DEF Unlocked
  <2>2. FoundingOK(j, closes)
        BY <2>1 DEF LockInv, FoundingsOK
  <2>3. FoundingOK(k, closes)
        BY <1>1, <2>2 DEF FoundingOK
  <2> QED BY <1>1, <2>1, <2>3 DEF LockInv, FoundingsOK
<1>6. \A c : Does(k, "rotate", c) => Does(j, "rotate", c)
      BY <1>1, <1>2 DEF Does
<1> QED BY <1>1, <1>3, <1>4, <1>5, <1>6

\* A command that goes on at the same file, writing nothing, keeps the
\* invariant.
LEMMA OnwardLock ==
    ASSUME TypesInv, LockInv, NEW t \in Terminals, NEW j, j = command[t], NEW k, Moves(t, k), Onward(j, k),
           closes' = closes, lists' = lists, grants' = grants, MoreTrouble,
           j.at # "fill", k.at # "fill", \A c : ListsIt(k, c) => Listed(c, lists, command)
    PROVE  LockInv'
<1>1. StillKept
      BY DEF StillKept, MoreTrouble, KeptIn
<1>2. ASSUME NEW c \in Closes, Half(j, c, closes)
      PROVE  Half(k, c, closes)
  <2>1. /\ InWriting(j) /\ InWriting(k) /\ k.do = j.do /\ k.me = j.me /\ k.close = j.close /\ k.todo = j.todo
        BY DEF Onward, SameCommand
  <2>2. k # Idle
        BY <2>1 DEF InWriting, Idle
  <2> QED BY <1>2, <2>1, <2>2 DEF Half, Does
<1>3. /\ Rotates(k) => RotationOK(k, grants, trouble'.crowded)
      /\ RecordKept(k, closes, trouble'.raced)
      /\ Unlocked(k) => /\ FoundingOK(k, closes)
                        /\ ~ Listed(k.close, lists, command)
                        /\ \A u \in Terminals \ {t} : ~ Does(command[u], "rotate", k.close)
      /\ \A c : Does(k, "rotate", c) => Does(j, "rotate", c)
      BY <1>1, OnwardKeeps DEF InFill
<1> QED BY <1>2, <1>3, LockQuiet

\* A grant is numbered.
LEMMA CountLock ==
    ASSUME TypesInv, LockInv, NEW t \in Terminals, Count(t)
    PROVE  LockInv'
<1>1. PICK j : j = command[t]
      OBVIOUS
<1>2. PICK k : /\ Moves(t, k) /\ SameCommand(j, k) /\ k.todo = j.todo
               /\ j.at = "prepare" /\ k.at = "open"
               /\ File(t).is = "grant" /\ Head(k.todo) = File(t)
      BY <1>1, CountMoves
<1>3. UNCHANGED files
      BY DEF Count, files
<1>4. MoreTrouble
  <2>1. /\ trouble.crowded \subseteq trouble'.crowded /\ trouble'.raced = trouble.raced
        /\ trouble'.stranded = trouble.stranded
        BY DEF Count, TypesInv, HistoryOK
  <2> QED BY <2>1 DEF MoreTrouble
<1>5. closes' = closes /\ lists' = lists /\ grants' = grants
      BY <1>3 DEF files
<1>6. Onward(j, k) /\ j.at # "fill" /\ k.at # "fill"
      BY <1>2 DEF Onward, InWriting
<1>7. \A c : ~ ListsIt(k, c)
      BY <1>2 DEF ListsIt, AtMap
<1> QED BY <1>1, <1>2, <1>4, <1>5, <1>6, <1>7, OnwardLock

\* A rotation lists nothing.
LEMMA RotationListsNot ==
    ASSUME NEW k, NEW cs, NEW gs, NEW ms, WritingOK(k, cs, gs, ms), NEW hs, NEW crowded, RotationOK(k, hs, crowded)
    PROVE  LastFile(k).is # "list" /\ Head(k.todo).is # "list"
<1>1. InWriting(k) /\ Len(k.all) \in 1..Len(k.all)
      BY AtList DEF WritingOK, InWriting
<1>2. LastFile(k).is # "list"
      BY <1>1 DEF RotationOK, LastFile
<1> QED BY <1>2, AtList

\* A list is read: what will be put there was there, or is the command's own.
LEMMA ReadListLock ==
    ASSUME TypesInv, LockInv, NEW t \in Terminals, ReadList(t)
    PROVE  LockInv'
<1>1. PICK j : j = command[t]
      OBVIOUS
<1>2. PICK f : f = File(t)
      OBVIOUS
<1>3. j.at = "prepare" /\ f.is = "list" /\ WritingOK(j, closes, grants, minted) /\ f = Head(j.todo)
      BY <1>1, <1>2, ReadListMoves DEF File
<1>4. MoreTrouble
  <2>1. /\ trouble'.crowded = trouble.crowded /\ trouble'.raced = trouble.raced
        /\ trouble'.stranded = trouble.stranded
        BY DEF ReadList, TypesInv, HistoryOK
  <2> QED BY <2>1 DEF MoreTrouble
<1>5. closes' = closes /\ lists' = lists /\ grants' = grants
      BY DEF ReadList, files
<1>6. ~ Rotates(j)
  <2> SUFFICES ASSUME Rotates(j) PROVE FALSE
      OBVIOUS
  <2>1. RotationOK(j, grants, trouble.crowded)
        BY <1>1 DEF LockInv, RotationsOK, Rotates
  <2> QED BY <1>3, <2>1, RotationListsNot
<1>7. CASE Moves(t, Idle)
  <2>1. RecordKept(Idle, closes, trouble'.raced) /\ ~ Unlocked(Idle) /\ \A c : ~ ListsIt(Idle, c)
        BY NotWriting, IdleIsQuiet
  <2>2. \A c : ~ Half(j, c, closes)
        BY <1>6 DEF Half, Does, Rotates
  <2> QED BY <1>1, <1>4, <1>5, <1>7, <2>1, <2>2, LockQuiet, IdleIsQuiet
<1>8. CASE ~ Moves(t, Idle)
  <2>1. PICK k : /\ Moves(t, k) /\ SameCommand(j, k) /\ k.todo = j.todo
                 /\ k.at = "open" /\ Head(k.todo) = f
                 /\ k.read = Append(lists[f.list], f.entry)
                 /\ lists[f.list] # Torn
                 /\ lists[f.list] \in Seq(Entries(f.list, closes))
                 /\ f.entry \in Entries(f.list, closes)
        BY <1>1, <1>2, <1>8, ReadListMoves
  <2>2. Onward(j, k) /\ j.at # "fill" /\ k.at # "fill"
        BY <1>3, <2>1 DEF Onward, InWriting
  <2>3. ASSUME NEW c, ListsIt(k, c)
        PROVE  Listed(c, lists, command)
    <3>1. f.list = "map" /\ AtMap(j) /\ (f.entry = c \/ \E i \in 1..Len(k.read) : k.read[i] = c)
          BY <1>3, <2>1, <2>2, <2>3 DEF ListsIt, AtMap, Onward
    <3>2. CASE f.entry = c
      <4>1. ListsIt(j, c)
            BY <1>3, <3>1, <3>2 DEF ListsIt
      <4> QED BY <1>1, <4>1 DEF Listed
    <3>3. CASE f.entry # c
      <4>1. PICK text : text = lists["map"]
            OBVIOUS
      <4>2. PICK A : A = Entries("map", closes)
            OBVIOUS
      <4>3. PICK e \in A : e = f.entry
            BY <2>1, <3>1, <4>2
      <4>4. text \in Seq(A) /\ k.read = Append(text, e)
            BY <2>1, <3>1, <4>1, <4>2, <4>3
      <4>5. PICK i \in 1..Len(Append(text, e)) : Append(text, e)[i] = c
            BY <3>1, <3>3, <4>4
      <4>6. i \in 1..Len(text) /\ text[i] = c
            BY <3>3, <4>3, <4>4, <4>5
      <4> QED BY <2>1, <3>1, <4>1, <4>6 DEF Listed
    <3> QED BY <3>2, <3>3
  <2> QED BY <1>1, <1>4, <1>5, <2>1, <2>2, <2>3, OnwardLock
<1> QED BY <1>7, <1>8

\* A command is killed: a rotation that was half done leaves its close
\* stranded.
LEMMA KillLock ==
    ASSUME TypesInv, LockInv, NEW t \in Terminals, Kill(t)
    PROVE  LockInv'
<1>1. PICK j : j = command[t]
      OBVIOUS
<1>2. UNCHANGED files
      BY DEF Kill
<1>3. /\ trouble'.crowded = trouble.crowded /\ trouble'.raced = trouble.raced
      /\ trouble'.stranded = IF HalfRotated(t) THEN trouble.stranded \cup {j.close} ELSE trouble.stranded
      BY <1>1 DEF Kill, TypesInv, HistoryOK
<1>4. MoreTrouble /\ closes' = closes /\ lists' = lists /\ grants' = grants
      BY <1>2, <1>3 DEF MoreTrouble, files
<1>5. ASSUME NEW c, Half(j, c, closes)
      PROVE  c \in trouble'.stranded
  <2>1. HalfRotated(t) /\ j.close = c
        BY <1>1, <1>5 DEF Half, HalfRotated, Does, Writing, File, InWriting
  <2> QED BY <1>3, <2>1
<1>6. RecordKept(Idle, closes, trouble'.raced) /\ ~ Unlocked(Idle) /\ \A c : ~ ListsIt(Idle, c)
      BY NotWriting, IdleIsQuiet
<1> QED BY <1>1, <1>4, <1>5, <1>6, KillMoves, LockQuiet, IdleIsQuiet

-----------------------------------------------------------------------------
\* The steps that write.

\* A record is written by its close's founder or by a rotation, and whoever
\* else has to do with the close then knows of it.
LEMMA RecordTouched ==
    ASSUME TypesInv, TurnsInv, LockInv, NEW t \in Terminals, NEW j, j = command[t],
           WritingOK(j, closes, grants, minted), Head(j.todo).is = "record"
    PROVE  /\ j.do = "protect" => Unlocked(j) /\ ~ Listed(j.close, lists, command)
           /\ j.do # "protect" => Does(j, "rotate", j.close)
           /\ \A u \in Terminals \ {t} : PastRecord(command[u]) \/ InFill(command[u]) =>
                 /\ command[u].close \in DOMAIN closes
                 /\ command[u].close = j.close => command[u].do # "protect" /\ j.close \in trouble.raced
           /\ \A u \in Terminals \ {t} : Unlocked(command[u]) /\ Head(command[u].todo).is = "grant" =>
                 command[u].close \in DOMAIN closes /\ command[u].close # j.close
<1>1. /\ InWriting(j) /\ AtRecord(j) /\ j # Idle /\ j.close \in Closes
      BY DEF WritingOK, InWriting, AtRecord, Idle
<1>2. j.do \in {"protect", "rotate"}
      BY <1>1 DEF TurnsInv
<1>3. ASSUME j.do = "protect"
      PROVE  Unlocked(j) /\ ~ Listed(j.close, lists, command)
  <2>1. Unlocked(j)
        BY <1>1, <1>3 DEF Unlocked
  <2> QED BY <2>1 DEF LockInv, FoundingsOK
<1>4. j.do # "protect" => Does(j, "rotate", j.close)
      BY <1>1, <1>2 DEF Does
<1>5. ASSUME NEW u \in Terminals \ {t}, Does(command[u], "rotate", command[u].close)
      PROVE  /\ command[u].close \in DOMAIN closes
             /\ command[u].close = j.close => j.close \in trouble.raced
  <2>1. Does(command[u], "rotate", command[u].close)
        BY <1>5
  <2>2. command[u].close \in DOMAIN closes
        BY <2>1, RotatesFounded
  <2>3. ASSUME command[u].close = j.close
        PROVE  j.close \in trouble.raced
    <3>1. CASE j.do = "protect"
          BY <1>3, <2>1, <2>3, <3>1 DEF LockInv, FoundingsOK
    <3>2. CASE j.do # "protect"
          BY <1>1, <1>4, <2>1, <2>3, <3>2 DEF TurnsInv
    <3> QED BY <3>1, <3>2
  <2> QED BY <2>2, <2>3
<1>6. ASSUME NEW u \in Terminals \ {t}, Unlocked(command[u]), Head(command[u].todo).is = "grant" \/ InFill(command[u])
      PROVE  command[u].close \in DOMAIN closes /\ command[u].close # j.close
  <2>1. WritingOK(command[u], closes, grants, minted)
        BY <1>6, AtWriting DEF Unlocked, InWriting
  <2>2. command[u].close \in DOMAIN closes
        BY <1>6, <2>1 DEF WritingOK, AtFileOK, InFill, TypesInv, ClosesOK
  <2>3. Does(command[u], "protect", command[u].close)
        BY <1>6 DEF Unlocked, InWriting, Does, Idle
  <2>4. ASSUME command[u].close = j.close
        PROVE  FALSE
    <3>1. CASE j.do = "protect"
      <4>1. Does(j, "protect", j.close)
            BY <1>1, <3>1 DEF Does
      <4> QED BY <1>1, <2>3, <2>4, <4>1 DEF TurnsInv
    <3>2. CASE j.do # "protect"
          BY <1>4, <1>6, <2>4, <3>2 DEF LockInv, FoundingsOK
    <3> QED BY <3>1, <3>2
  <2> QED BY <2>2, <2>4
<1>7. ASSUME NEW u \in Terminals \ {t}, PastRecord(command[u]) \/ InFill(command[u])
      PROVE  /\ command[u].close \in DOMAIN closes
             /\ command[u].close = j.close => command[u].do # "protect" /\ j.close \in trouble.raced
  <2>1. InWriting(command[u]) /\ command[u] # Idle
        BY <1>7 DEF PastRecord, InFill, InWriting, Idle
  <2>2. CASE Does(command[u], "rotate", command[u].close)
        BY <1>5, <2>2 DEF Does
  <2>3. CASE ~ Does(command[u], "rotate", command[u].close)
    <3>1. InFill(command[u]) /\ command[u].do # "rotate"
          BY <1>7, <2>1, <2>3 DEF PastRecord, Does
    <3>2. AtRecord(command[u])
          BY <2>1, <3>1 DEF AtRecord, InFill
    <3>3. command[u].do = "protect"
          BY <3>1, <3>2 DEF TurnsInv
    <3>4. Unlocked(command[u])
          BY <2>1, <3>1, <3>3 DEF Unlocked, InFill
    <3> QED BY <1>6, <3>1, <3>4
  <2> QED BY <2>2, <2>3
<1> QED BY <1>3, <1>4, <1>6, <1>7

\* A file is opened, and is torn until it is filled: a record, only under its
\* own founding or rotation.
LEMMA OpenLock ==
    ASSUME TypesInv, GivenInv, TurnsInv, LockInv, NEW t \in Terminals, Open(t)
    PROVE  LockInv'
<1>1. PICK j : j = command[t]
      OBVIOUS
<1>2. PICK f : f = File(t)
      OBVIOUS
<1>3. PICK k : /\ WritingOK(j, closes, grants, minted) /\ j.at = "open"
               /\ f = Head(j.todo) /\ f \in FilesFor(j.close)
               /\ Moves(t, k) /\ SameCommand(j, k) /\ k.at = "fill"
               /\ k.todo = j.todo /\ k.n = j.n /\ k.read = j.read
               /\ Opened(j.close, f, j.n)
               /\ UNCHANGED <<budget, minted, done, trouble>>
      BY <1>1, <1>2, OpenMoves
<1>4. StillKept /\ MoreTrouble /\ trouble' = trouble
      BY <1>3, OpenGiven, SameTrouble
<1>5. Onward(j, k)
      BY <1>3 DEF Onward, InWriting
<1>6. /\ Rotates(k) => RotationOK(k, grants', trouble'.crowded)
      /\ ~ InFill(k) => RecordKept(k, closes, trouble'.raced)
      /\ Unlocked(k) => /\ Unlocked(j) /\ k.close = j.close /\ FoundingOK(k, closes)
                        /\ ~ Listed(k.close, lists, command)
                        /\ \A u \in Terminals \ {t} : ~ Does(command[u], "rotate", k.close)
      /\ \A c : Does(k, "rotate", c) => Does(j, "rotate", c)
      BY <1>1, <1>4, <1>5, OnwardKeeps
<1>7. RotationsOK'
      BY <1>3, <1>4, <1>6, RotationsStep DEF LockInv
<1>8. \A c : ListsIt(k, c) => Listed(c, lists, command)
  <2>1. \A c : ListsIt(k, c) => ListsIt(j, c)
        BY <1>3, <1>5 DEF ListsIt, AtMap, Onward
  <2> QED BY <1>1, <2>1 DEF Listed
<1>9. \A c : lists'["map"] # Torn /\ Has(lists'["map"], c) => Listed(c, lists, command)
  <2>1. lists'["map"] = Torn \/ lists'["map"] = lists["map"]
        BY <1>3 DEF Opened
  <2> QED BY <2>1 DEF Listed, Has
<1>10. \A c : Listed(c, lists', command') => Listed(c, lists, command)
      BY <1>3, <1>8, <1>9, ListedStep
<1>11. ASSUME NEW u \in Terminals \ {t}, Unlocked(command[u])
       PROVE  ~ Listed(command[u].close, lists', command') /\ ~ Does(k, "rotate", command[u].close)
      BY <1>1, <1>6, <1>10, <1>11 DEF LockInv, FoundingsOK
<1>12. DOMAIN closes \subseteq DOMAIN closes'
      BY OpenTypes DEF AllGrown, Grown
<1>13. CASE f.is # "record"
  <2>1. closes' = closes
        BY <1>3, <1>13 DEF Opened
  <2>2. RecordsOK'
    <3>1. ~ InFill(k)
          BY <1>3, <1>13 DEF InFill
    <3> QED BY <1>3, <1>4, <1>6, <2>1, <3>1, RecordsStep DEF LockInv
  <2>3. FoundingsOK'
    <3>1. Unlocked(k) => FoundingOK(k, closes') /\ ~ Listed(k.close, lists', command')
          BY <1>6, <1>10, <2>1
    <3> QED BY <1>3, <1>6, <1>11, <2>1, <3>1, FoundingsStep DEF LockInv
  <2>4. LocksOK'
    <3>1. ASSUME NEW c \in Closes, Half(j, c, closes)
          PROVE  Half(k, c, closes')
      <4>1. k # Idle /\ k.do = j.do /\ k.close = j.close /\ k.me = j.me
            BY <1>3 DEF SameCommand, Idle
      <4>2. InWriting(k)
            BY <1>5 DEF Onward
      <4> QED BY <1>3, <2>1, <3>1, <4>1, <4>2 DEF Half, Does
    <3> QED BY <1>1, <1>3, <1>4, <1>10, <1>12, <2>1, <3>1, LocksStep DEF LockInv
  <2> QED BY <1>7, <2>2, <2>3, <2>4 DEF LockInv
<1>14. CASE f.is = "record"
  <2>1. /\ j.do = "protect" => Unlocked(j) /\ ~ Listed(j.close, lists, command)
        /\ j.do # "protect" => Does(j, "rotate", j.close)
        /\ \A u \in Terminals \ {t} : PastRecord(command[u]) \/ InFill(command[u]) =>
              /\ command[u].close \in DOMAIN closes
              /\ command[u].close = j.close => command[u].do # "protect" /\ j.close \in trouble.raced
        /\ \A u \in Terminals \ {t} : Unlocked(command[u]) /\ Head(command[u].todo).is = "grant" =>
              command[u].close \in DOMAIN closes /\ command[u].close # j.close
        BY <1>1, <1>3, <1>14, RecordTouched
  <2>2. /\ closes'[j.close] = Torn /\ j.close \in DOMAIN closes'
        /\ \A c \in DOMAIN closes \ {j.close} : closes'[c] = closes[c]
    <3>1. PICK c : c = j.close
          OBVIOUS
    <3>2. PICK w : w = With(closes, c, Torn)
          OBVIOUS
    <3>3. closes' = w
          BY <1>3, <1>14, <3>1, <3>2 DEF Opened
    <3>4. w[c] = Torn /\ c \in DOMAIN w /\ \A d \in DOMAIN closes \ {c} : w[d] = closes[d]
          BY <3>2 DEF With
    <3> QED BY <3>1, <3>3, <3>4
  <2>3. RecordsOK'
    <3>1. RecordKept(k, closes', trouble'.raced)
          BY <1>3, <1>14, <2>2 DEF RecordKept, PastRecord, SameCommand
    <3>2. \A u \in Terminals \ {t} : PastRecord(command[u]) \/ InFill(command[u]) =>
              \/ closes'[command[u].close] = closes[command[u].close]
              \/ command[u].do # "protect" /\ command[u].close \in trouble'.raced
          BY <1>4, <2>1, <2>2
    <3> QED BY <1>3, <1>4, <3>1, <3>2, RecordsStep DEF LockInv
  <2>4. FoundingsOK'
    <3>1. Unlocked(k) => FoundingOK(k, closes') /\ ~ Listed(k.close, lists', command')
          BY <1>3, <1>6, <1>10, <1>14 DEF FoundingOK
    <3>2. \A u \in Terminals \ {t} : Unlocked(command[u]) /\ Head(command[u].todo).is = "grant" =>
              closes'[command[u].close] = closes[command[u].close]
          BY <2>1, <2>2
    <3> QED BY <1>3, <1>6, <1>11, <3>1, <3>2, FoundingsStep DEF LockInv
  <2>5. LocksOK'
    <3>1. ASSUME NEW c \in Closes, Listed(c, lists, command)
          PROVE  \/ SafeLock(c, closes', grants', command', trouble')
                 \/ closes'[c] = closes[c] /\ ~ Half(j, c, closes)
      <4>1. CASE c # j.close
        <5>1. c \in DOMAIN closes
              BY <3>1 DEF LockInv, LocksOK, SafeLock
        <5> QED BY <2>2, <4>1, <5>1 DEF Half, Does
      <4>2. CASE c = j.close
        <5>1. Does(j, "rotate", c)
              BY <2>1, <3>1, <4>2
        <5>2. Does(k, "rotate", c) /\ Head(k.todo).is = "record"
              BY <1>3, <1>14, <5>1 DEF Does, SameCommand, Idle
        <5>3. Half(command'[t], c, closes')
              BY <1>3, <2>2, <4>2, <5>2 DEF Half, Moves
        <5> QED BY <2>2, <4>2, <5>3 DEF SafeLock
      <4> QED BY <4>1, <4>2
    <3> QED BY <1>1, <1>3, <1>4, <1>10, <1>12, <3>1, LocksStep DEF LockInv
  <2> QED BY <1>7, <2>3, <2>4, <2>5 DEF LockInv
<1> QED BY <1>13, <1>14

\* The first file of a command that writes a record.
LEMMA AtFirst ==
    ASSUME NEW j, NEW cs, NEW gs, NEW ms, WritingOK(j, cs, gs, ms), j.all[1].is = "record"
    PROVE  /\ Head(j.todo).is = "record" => Head(j.todo) = j.all[1] /\ j.todo = j.all
           /\ Head(j.todo).is # "record" =>
                 \E i \in 2..Len(j.all) : Head(j.todo) = j.all[i] /\ Len(j.todo) = Len(j.all) - i + 1
<1>1. PICK n \in Nat : n = Len(j.todo) /\ n >= 1
      BY WritingFacts
<1>2. PICK F : F = FilesFor(j.close)
      OBVIOUS
<1>3. PICK m \in Nat : m = Len(j.all) /\ n <= m
      BY <1>1 DEF WritingOK, TodoOK
<1>4. /\ j.todo \in Seq(F) /\ j.all \in Seq(F) /\ Head(j.todo) = j.todo[1]
      /\ \A i \in 1..m : j.all[i].is = "record" => i = 1
      /\ \A i \in 1..n : j.todo[i] = j.all[i + (m - n)]
      BY <1>1, <1>2, <1>3, WritingFacts DEF WritingOK, TodoOK
<1>5. PICK i \in 1..m : i = 1 + (m - n)
  <2>1. m \in Nat /\ n \in Nat /\ n >= 1 /\ n <= m
        BY <1>1, <1>3
  <2>2. 1 + (m - n) \in 1..m
        BY <2>1
  <2> QED BY <2>2
<1>6. Head(j.todo) = j.all[i] /\ n = m - i + 1
      BY <1>1, <1>4, <1>5
<1>7. CASE i = 1
  <2>1. n = m /\ \A h \in 1..n : j.todo[h] = j.all[h]
    <3>1. n = m
          BY <1>5, <1>7
    <3>2. \A h \in 1..n : h + (m - n) = h
          BY <3>1
    <3> QED BY <1>4, <3>1, <3>2
  <2>2. PICK todo : todo = j.todo
        OBVIOUS
  <2>3. PICK all : all = j.all
        OBVIOUS
  <2>4. todo \in Seq(F) /\ all \in Seq(F) /\ Len(todo) = Len(all) /\ \A h \in 1..Len(todo) : todo[h] = all[h]
        BY <1>1, <1>3, <1>4, <2>1, <2>2, <2>3
  <2>5. todo = all
        BY <2>4
  <2> QED BY <1>6, <1>7, <2>2, <2>3, <2>5
<1>8. CASE i # 1
  <2>1. i \in 2..Len(j.all)
        BY <1>3, <1>8
  <2>2. Head(j.todo).is # "record"
        BY <1>4, <1>6, <1>8
  <2> QED BY <1>1, <1>3, <1>6, <2>1, <2>2
<1> QED BY <1>7, <1>8

\* Where a founder stands that is past the record and before the list.
LEMMA FounderAt ==
    ASSUME NEW j, NEW cs, NEW gs, NEW ms, WritingOK(j, cs, gs, ms), NEW hs, FoundingOK(j, hs)
    PROVE  /\ Head(j.todo).is = "record" => Head(Tail(j.todo)).is = "grant" /\ Tail(j.todo) # <<>>
           /\ Head(j.todo).is = "grant" =>
                 Head(j.todo) = j.all[2] /\ Tail(j.todo) # <<>> /\ Head(Tail(j.todo)).is = "list"
<1>1. /\ Len(j.all) = 3 /\ j.all[1].is = "record" /\ j.all[2].is = "grant" /\ j.all[3].is = "list"
      BY DEF FoundingOK
<1>2. PICK todo : todo = j.todo
      OBVIOUS
<1>3. PICK all : all = j.all
      OBVIOUS
<1>4. PICK F : F = FilesFor(j.close)
      OBVIOUS
<1>5. /\ todo \in Seq(F) /\ all \in Seq(F) /\ Len(todo) \in Nat
      /\ \A i \in 1..Len(todo) : todo[i] = all[i + (Len(all) - Len(todo))]
      BY <1>2, <1>3, <1>4, WritingFacts DEF WritingOK, TodoOK
<1>6. ASSUME Len(todo) >= 2
      PROVE  Tail(todo) # <<>> /\ Head(Tail(todo)) = todo[2]
  <2>1. PICK rest : rest = Tail(todo)
        OBVIOUS
  <2>2. rest \in Seq(F) /\ Len(rest) = Len(todo) - 1 /\ rest[1] = todo[2]
        BY <1>5, <1>6, <2>1
  <2>3. Len(rest) >= 1
        BY <1>5, <1>6, <2>2
  <2>4. rest # <<>>
        BY <2>3
  <2>5. Head(rest) = rest[1]
        BY <2>2, <2>4
  <2> QED BY <2>1, <2>2, <2>4, <2>5
<1>7. CASE Head(todo).is = "record"
  <2>1. todo = all
        BY <1>1, <1>2, <1>3, <1>7, AtFirst
  <2> QED BY <1>1, <1>2, <1>3, <1>6, <1>7, <2>1
<1>8. CASE Head(todo).is = "grant"
  <2>1. PICK i \in 2..3 : Head(todo) = all[i] /\ Len(todo) = 3 - i + 1
        BY <1>1, <1>2, <1>3, <1>8, AtFirst
  <2>2. i = 2
        BY <1>1, <1>3, <1>8, <2>1
  <2>3. Len(todo) = 2 /\ todo[2] = all[3]
    <3>1. Len(todo) = 2
          BY <2>1, <2>2
    <3>2. 2 \in 1..Len(todo) /\ 2 + (Len(all) - Len(todo)) = 3
          BY <1>1, <1>3, <3>1
    <3> QED BY <1>5, <3>1, <3>2
  <2> QED BY <1>1, <1>2, <1>3, <1>6, <1>8, <2>1, <2>2, <2>3
<1> QED BY <1>2, <1>7, <1>8

\* A grant that was filled is on file.
LEMMA FilledOnFile ==
    ASSUME TypesInv, NEW j, NEW f, WritingOK(j, closes, grants, minted), j.at = "fill",
           f = Head(j.todo), f \in FilesFor(j.close), f.is = "grant", Filled(j, f)
    PROVE  OnFile(f.grant, grants')
<1>1. PICK who \in People : who = f.who /\ f.grant \in Grant /\ Leaf(f.grant).holder = who
      BY FileFacts
<1>2. PICK s : s = grants[who]
      OBVIOUS
<1>3. PICK n : n = j.n
      OBVIOUS
<1>4. PICK g : g = f.grant
      OBVIOUS
<1>5. PICK w : w = [s EXCEPT ![n] = g]
      OBVIOUS
<1>6. grants'[who] = w
      BY <1>1, <1>2, <1>3, <1>4, <1>5 DEF Filled, FilledGrant
<1>7. n \in 1..Len(s)
      BY <1>1, <1>2, <1>3 DEF WritingOK, AtFileOK
<1>8. Len(w) = Len(s) /\ w[n] = g
  <2> DEFINE A == Grant \cup {Torn}
  <2>1. s \in Seq(A) /\ g \in A
        BY <1>1, <1>2, <1>4 DEF TypesInv, GrantsOK
  <2> HIDE DEF A
  <2> QED BY <1>5, <1>7, <2>1, ExceptSeq
<1>9. n \in 1..Len(w) /\ w[n] = f.grant
      BY <1>4, <1>7, <1>8
<1> QED BY <1>1, <1>6, <1>9 DEF OnFile

\* A command comes to the map only from its own founding.
LEMMA ToTheMap ==
    ASSUME NEW j, NEW k, NEW cs, NEW gs, NEW ms, WritingOK(k, cs, gs, ms), KindOK(j),
           SameCommand(j, k), j.at \in {"prepare", "open", "fill"}, AtMap(k)
    PROVE  j.do = "protect" /\ Head(k.todo).entry = j.close
<1>1. Head(k.todo) = LastFile(k) /\ Head(k.todo).is = "list" /\ Head(k.todo).list = "map"
      BY AtList DEF AtMap
<1>2. LastFile(k) = LastFile(j) /\ Entry(k) = Entry(j)
      BY DEF LastFile, Entry, SameCommand
<1>3. ToList(j, "map")
      BY <1>1, <1>2 DEF ToList
<1> QED BY <1>1, <1>2, <1>3 DEF KindOK, Entry

\* What a fill leaves of a rotation.
LEMMA FillRotation ==
    ASSUME TypesInv, LockInv, StillKept, MoreTrouble, NEW t \in Terminals, NEW j, j = command[t], NEW k, NEW f,
           WritingOK(j, closes, grants, minted), j.at = "fill", f = Head(j.todo), f \in FilesFor(j.close),
           GoesOn(j, k), Filled(j, f), Rotates(k)
    PROVE  RotationOK(k, grants', trouble'.crowded)
<1>1. Tail(j.todo) # <<>> /\ SameCommand(j, k)
      BY DEF GoesOn, Rotates
<1>2. Rotates(j)
      BY <1>1 DEF Rotates, SameCommand, Idle
<1>3. RotationOK(j, grants, trouble.crowded)
      BY <1>2 DEF LockInv, RotationsOK, Rotates
<1>4. f.is = "grant" => OnFile(f.grant, grants')
      BY FilledOnFile
<1> QED BY <1>1, <1>2, <1>3, <1>4, FillProvides

-----------------------------------------------------------------------------
\* Filling a file.

\* Terminal t fills the file f of its command j, and goes on as k.
FillsTo(t, j, f, k) ==
    /\ j = command[t] /\ WritingOK(j, closes, grants, minted) /\ j.at = "fill"
    /\ f = Head(j.todo) /\ f \in FilesFor(j.close)
    /\ Moves(t, k) /\ GoesOn(j, k) /\ Filled(j, f) /\ trouble' = trouble
    /\ k # Idle => WritingOK(k, closes', grants', minted')
    /\ KindOK(j) /\ StillKept /\ MoreTrouble
    /\ DOMAIN closes \subseteq DOMAIN closes'

\* Every fill does.
LEMMA FillIsSo ==
    ASSUME TypesInv, GivenInv, ListInv, NEW t \in Terminals, Fill(t)
    PROVE  \E j, f, k : FillsTo(t, j, f, k)
<1>1. PICK j : j = command[t]
      OBVIOUS
<1>2. PICK f : f = File(t)
      OBVIOUS
<1>3. PICK k : /\ WritingOK(j, closes, grants, minted) /\ j.at = "fill"
               /\ f = Head(j.todo) /\ f \in FilesFor(j.close)
               /\ Moves(t, k) /\ GoesOn(j, k)
               /\ Filled(j, f) /\ trouble' = trouble
      BY <1>1, <1>2, FillMoves
<1>4. TypesInv' /\ AllGrown
      BY FillTypes
<1>5. CommandOK(k, closes', grants', minted')
  <2>1. CommandsOK'
        BY <1>4 DEF TypesInv
  <2>2. \A u \in Terminals : CommandOK(command'[u], closes', grants', minted')
        BY <2>1 DEF CommandsOK, Terminals, Most
  <2> QED BY <1>3, <2>2 DEF Moves
<1>6. k # Idle => WritingOK(k, closes', grants', minted')
  <2> SUFFICES ASSUME k # Idle PROVE WritingOK(k, closes', grants', minted')
      OBVIOUS
  <2>1. k.at = "prepare"
        BY <1>3 DEF GoesOn
  <2> QED BY <1>5, <2>1 DEF CommandOK, LoadedOK, GatherOK
<1>7. KindOK(j)
      BY <1>1 DEF ListInv, KindsOK
<1>8. StillKept /\ MoreTrouble
      BY <1>3, FillGiven, SameTrouble
<1>9. DOMAIN closes \subseteq DOMAIN closes'
      BY <1>4 DEF AllGrown, Grown
<1>10. FillsTo(t, j, f, k)
      BY <1>1, <1>3, <1>6, <1>7, <1>8, <1>9 DEF FillsTo
<1> QED BY <1>10

\* A grant that is still to be filed for the steward is so after the next file.
LEMMA HalfGoesOn ==
    ASSUME NEW t, NEW j, NEW f, NEW k, FillsTo(t, j, f, k), NEW c, Does(j, "rotate", c), NEW cs,
           cs[c] # Torn, j.me = cs[c].steward, NEW i \in 1..Len(j.todo), i # 1,
           j.todo[i].is = "grant", j.todo[i].who = j.me, Opener(j.todo[i].grant, Content, cs[c])
    PROVE  Half(k, c, cs)
<1>1. PICK rest : rest = Tail(j.todo)
      OBVIOUS
<1>2. TodoOK(j.todo, j.all, j.close) /\ Len(j.todo) \in Nat /\ Len(j.todo) >= 1
      BY WritingFacts DEF FillsTo, WritingOK
<1>3. rest # <<>>
  <2>1. PICK n \in Nat : n = Len(j.todo)
        BY <1>2
  <2>2. n >= 2
        BY <2>1
  <2>3. j.todo \in Seq(FilesFor(j.close))
        BY <1>2 DEF TodoOK
  <2>4. Len(rest) = n - 1
    <3>1. PICK todo : todo = j.todo
          OBVIOUS
    <3>2. PICK F : F = FilesFor(j.close)
          OBVIOUS
    <3>3. todo \in Seq(F) /\ rest = Tail(todo) /\ Len(todo) = n /\ n >= 2
          BY <1>1, <2>1, <2>2, <2>3, <3>1, <3>2
    <3> QED BY <3>3
  <2>5. Len(rest) >= 1
        BY <2>2, <2>4
  <2> QED BY <2>5, NotEmpty
<1>4. /\ Head(rest).is # "record" /\ Len(rest) = Len(j.todo) - 1
      /\ \A h \in 1..Len(rest) : rest[h] = j.todo[h + 1]
      BY <1>1, <1>2, <1>3, TailTodo
<1>5. k.todo = rest /\ k.at = "prepare" /\ SameCommand(j, k)
      BY <1>1, <1>3 DEF FillsTo, GoesOn
<1>6. PICK h \in 1..Len(rest) : h = i - 1
  <2>1. PICK n \in Nat : n = Len(j.todo)
        BY <1>2
  <2>2. i - 1 \in 1..(n - 1)
        BY <2>1
  <2> QED BY <1>4, <2>1, <2>2
<1>7. rest[h] = j.todo[i]
  <2>1. h + 1 = i
        BY <1>6
  <2> QED BY <1>4, <2>1
<1>8. k # Idle /\ k.do = j.do /\ k.close = j.close /\ k.me = j.me /\ InWriting(k)
      BY <1>5 DEF SameCommand, InWriting, Idle
<1>9. Does(k, "rotate", c)
      BY <1>8 DEF Does
<1> QED BY <1>4, <1>5, <1>7, <1>8, <1>9 DEF Half

\* What is so of the command that goes on, whatever it filled.
LEMMA FillLeaves ==
    ASSUME TypesInv, LockInv, NEW t \in Terminals, NEW j, NEW f, NEW k, FillsTo(t, j, f, k)
    PROVE  /\ RotationsOK'
           /\ \A c : ListsIt(k, c) => j.do = "protect" /\ c = j.close
           /\ \A c : Does(k, "rotate", c) => Does(j, "rotate", c)
           /\ Unlocked(k) => /\ Unlocked(j) /\ f.is = "record"
                             /\ k.close = j.close /\ k.all = j.all
           /\ PastRecord(k) => /\ j.do = "rotate" /\ k.close = j.close /\ k.all = j.all
           /\ ~ InFill(k)
<1>1. /\ j = command[t] /\ WritingOK(j, closes, grants, minted) /\ j.at = "fill"
      /\ f = Head(j.todo) /\ f \in FilesFor(j.close) /\ Moves(t, k) /\ GoesOn(j, k) /\ Filled(j, f)
      /\ StillKept /\ MoreTrouble /\ KindOK(j)
      BY DEF FillsTo
<1>2. RotationsOK'
  <2>1. Rotates(k) => RotationOK(k, grants', trouble'.crowded)
        BY <1>1, FillRotation
  <2> QED BY <1>1, <2>1, RotationsStep DEF LockInv
<1>3. k # Idle => /\ WritingOK(k, closes', grants', minted') /\ SameCommand(j, k) /\ k.at = "prepare"
                  /\ k.todo = Tail(j.todo) /\ Tail(j.todo) # <<>>
      BY DEF FillsTo, GoesOn
<1>4. ~ InWriting(Idle) /\ j # Idle /\ InWriting(j)
      BY <1>1, IdleIsQuiet DEF InWriting, Idle
<1>5. ASSUME NEW c, ListsIt(k, c)
      PROVE  j.do = "protect" /\ c = j.close
  <2>1. AtMap(k) /\ k # Idle
        BY <1>4, <1>5 DEF ListsIt, AtMap
  <2>2. j.do = "protect" /\ Head(k.todo).entry = j.close
        BY <1>1, <1>3, <2>1, ToTheMap
  <2> QED BY <1>3, <1>5, <2>1, <2>2 DEF ListsIt
<1>6. \A c : Does(k, "rotate", c) => Does(j, "rotate", c)
      BY <1>3, <1>4 DEF Does, SameCommand
<1>7. ASSUME Unlocked(k)
      PROVE  Unlocked(j) /\ f.is = "record" /\ k.close = j.close /\ k.all = j.all
  <2>1. k # Idle /\ k.do = "protect" /\ Head(k.todo).is # "list"
        BY <1>4, <1>7 DEF Unlocked
  <2>2. k.close = j.close /\ k.all = j.all /\ j.do = "protect"
        BY <1>3, <2>1 DEF SameCommand
  <2>3. f.is # "list"
        BY <1>1, <1>3, <2>1, AtList
  <2>4. Unlocked(j)
        BY <1>1, <1>4, <2>2, <2>3 DEF Unlocked
  <2>5. FoundingOK(j, closes)
        BY <1>1, <2>4 DEF LockInv, FoundingsOK
  <2>6. f.is # "grant"
        BY <1>1, <1>3, <2>1, <2>5, FounderAt
  <2> QED BY <1>1, <2>2, <2>3, <2>4, <2>6, FileFacts
<1>8. PastRecord(k) => j.do = "rotate" /\ k.close = j.close /\ k.all = j.all
      BY <1>3, <1>4 DEF PastRecord, SameCommand
<1>9. ~ InFill(k)
      BY <1>3 DEF InFill, Idle
<1> QED BY <1>2, <1>5, <1>6, <1>7, <1>8, <1>9

\* A record.
LEMMA FillRecordLock ==
    ASSUME TypesInv, TurnsInv, LockInv, NEW t \in Terminals, NEW j, NEW f, NEW k, FillsTo(t, j, f, k),
           f.is = "record"
    PROVE  LockInv'
<1>1. /\ j = command[t] /\ WritingOK(j, closes, grants, minted) /\ j.at = "fill"
      /\ f = Head(j.todo) /\ f \in FilesFor(j.close) /\ Moves(t, k) /\ GoesOn(j, k)
      /\ StillKept /\ MoreTrouble /\ trouble' = trouble /\ DOMAIN closes \subseteq DOMAIN closes'
      BY DEF FillsTo
<1>2. FilledRecord(j, f)
      BY DEF FillsTo, Filled
<1>3. /\ RotationsOK'
      /\ \A c : ListsIt(k, c) => j.do = "protect" /\ c = j.close
      /\ \A c : Does(k, "rotate", c) => Does(j, "rotate", c)
      /\ Unlocked(k) => Unlocked(j) /\ k.close = j.close /\ k.all = j.all
      /\ PastRecord(k) => j.do = "rotate" /\ k.close = j.close /\ k.all = j.all
      /\ ~ InFill(k)
      BY FillLeaves
<1>4. /\ j.do = "protect" => Unlocked(j) /\ ~ Listed(j.close, lists, command)
      /\ j.do # "protect" => Does(j, "rotate", j.close)
      /\ \A u \in Terminals \ {t} : PastRecord(command[u]) \/ InFill(command[u]) =>
            /\ command[u].close \in DOMAIN closes
            /\ command[u].close = j.close => command[u].do # "protect" /\ j.close \in trouble.raced
      /\ \A u \in Terminals \ {t} : Unlocked(command[u]) /\ Head(command[u].todo).is = "grant" =>
            command[u].close \in DOMAIN closes /\ command[u].close # j.close
      BY <1>1, RecordTouched
<1>5. j.do = "protect" => FoundingOK(j, closes)
      BY <1>1, <1>4 DEF LockInv, FoundingsOK
<1>6. j.do # "protect" => RotationOK(j, grants, trouble.crowded)
      BY <1>1, <1>4 DEF LockInv, RotationsOK, Does
<1>7. InWriting(j)
      BY <1>1 DEF InWriting
<1>8. j.all[1].is = "record" /\ j.all[1].rec.steward = j.me
      BY <1>5, <1>6, <1>7 DEF FoundingOK, RotationOK
<1>9. f = j.all[1]
      BY <1>1, <1>8, AtFirst
<1>10. /\ j.do = "protect" \/ j.close \notin trouble.raced => closes'[j.close] = j.all[1].rec
       /\ j.close \in DOMAIN closes'
       /\ (\A c \in DOMAIN closes \ {j.close} : closes'[c] = closes[c]) /\ lists' = lists
  <2>1. j.close \in DOMAIN closes
        BY <1>1 DEF WritingOK, AtFileOK
  <2>2. j.do = "protect" \/ j.close \notin trouble.raced => closes[j.close] = Torn
    <3>1. InFill(j) /\ RecordKept(j, closes, trouble.raced)
          BY <1>1 DEF InFill, LockInv, RecordsOK
    <3> QED BY <3>1 DEF RecordKept
  <2> QED BY <1>2, <1>9, <2>1, <2>2 DEF FilledRecord
<1>11. \A c : ~ ListsIt(k, c)
  <2> SUFFICES ASSUME NEW c, ListsIt(k, c) PROVE FALSE
      OBVIOUS
  <2>1. j.do = "protect" /\ Head(k.todo).is = "list" /\ InWriting(k)
        BY <1>3 DEF ListsIt, AtMap
  <2>2. Head(Tail(j.todo)).is = "grant" /\ Tail(j.todo) # <<>>
        BY <1>1, <1>5, <2>1, FounderAt
  <2> QED BY <1>1, <2>1, <2>2 DEF GoesOn
<1>12. \A c : Listed(c, lists', command') => Listed(c, lists, command)
  <2>1. \A c : lists'["map"] # Torn /\ Has(lists'["map"], c) => Listed(c, lists, command)
        BY <1>10 DEF Listed, Has
  <2> QED BY <1>1, <1>11, <2>1, ListedStep
<1>13. RecordsOK'
  <2>1. RecordKept(k, closes', trouble'.raced)
        BY <1>1, <1>3, <1>10 DEF RecordKept
  <2>2. \A u \in Terminals \ {t} : PastRecord(command[u]) \/ InFill(command[u]) =>
            \/ closes'[command[u].close] = closes[command[u].close]
            \/ command[u].do # "protect" /\ command[u].close \in trouble'.raced
        BY <1>1, <1>4, <1>10
  <2> QED BY <1>1, <2>1, <2>2, RecordsStep DEF LockInv
<1>14. FoundingsOK'
  <2>1. Unlocked(k) => /\ FoundingOK(k, closes')
                       /\ ~ Listed(k.close, lists', command')
                       /\ \A u \in Terminals \ {t} : ~ Does(command[u], "rotate", k.close)
    <3> SUFFICES ASSUME Unlocked(k)
                 PROVE  /\ FoundingOK(k, closes')
                        /\ ~ Listed(k.close, lists', command')
                        /\ \A u \in Terminals \ {t} : ~ Does(command[u], "rotate", k.close)
        OBVIOUS
    <3>1. Unlocked(j) /\ k.close = j.close /\ k.all = j.all
          BY <1>3
    <3>2. /\ FoundingOK(j, closes) /\ ~ Listed(j.close, lists, command)
          /\ \A u \in Terminals : ~ Does(command[u], "rotate", j.close)
          BY <1>1, <3>1 DEF LockInv, FoundingsOK
    <3>3. k.me = j.me
      <4>1. k # Idle
            BY IdleIsQuiet DEF Unlocked
      <4> QED BY <1>1, <4>1 DEF GoesOn, SameCommand
    <3>4. FoundingOK(k, closes')
          BY <1>10, <3>1, <3>2, <3>3 DEF FoundingOK, Unlocked
    <3> QED BY <1>12, <3>1, <3>2, <3>4
  <2>2. ASSUME NEW u \in Terminals \ {t}, Unlocked(command[u])
        PROVE  /\ Head(command[u].todo).is = "grant" => closes'[command[u].close] = closes[command[u].close]
               /\ ~ Listed(command[u].close, lists', command')
               /\ ~ Does(k, "rotate", command[u].close)
        BY <1>1, <1>3, <1>4, <1>10, <1>12, <2>2 DEF LockInv, FoundingsOK
  <2> QED BY <1>1, <2>1, <2>2, FoundingsStep DEF LockInv
<1>15. LocksOK'
  <2>1. ASSUME NEW c \in Closes, Listed(c, lists, command)
        PROVE  \/ SafeLock(c, closes', grants', command', trouble')
               \/ closes'[c] = closes[c] /\ ~ Half(j, c, closes)
    <3>1. CASE c # j.close
      <4>1. c \in DOMAIN closes
            BY <2>1 DEF LockInv, LocksOK, SafeLock
      <4> QED BY <1>10, <3>1, <4>1 DEF Half, Does
    <3>2. CASE c = j.close /\ c \in trouble.raced
          BY <1>1, <1>10, <3>2 DEF SafeLock
    <3>3. CASE c = j.close /\ c \notin trouble.raced
      <4>0. closes'[c] = j.all[1].rec
            BY <1>10, <3>3
      <4>1. Does(j, "rotate", c) /\ RotationOK(j, grants, trouble.crowded)
            BY <1>4, <1>6, <2>1, <3>3
      <4>2. closes'[c] # Torn /\ closes'[c].steward = j.me /\ j.me \in People
        <5>1. f.rec \in Record(People)
              BY <1>1, FileFacts
        <5> QED BY <1>1, <1>8, <1>9, <1>10, <3>3, <4>0, <5>1, FolderAssumption DEF WritingOK
      <4>3. CASE j.me \in trouble.crowded \cup Excludable
            BY <1>1, <1>10, <3>3, <4>0, <4>2, <4>3 DEF SafeLock, KeptBy
      <4>4. CASE j.me \notin trouble.crowded \cup Excludable
        <5>1. Content \in Needs(j, j.me) /\ j.me \in People \ (j.except \cup trouble.crowded)
              BY <1>1, <4>1, <4>2, <4>4 DEF Needs, RotationOK
        <5>2. Provided(j, j.me, Content, grants)
              BY <4>1, <5>1 DEF RotationOK
        <5>3. CASE HasKey(j.me, Content, j.all[1].rec, grants)
          <6>1. HasKey(j.me, Content, j.all[1].rec, grants')
                BY <1>1, <4>2, <4>4, <5>3, HoldsStays
          <6>2. KeptBy(c, closes', grants', trouble'.crowded)
                BY <1>10, <3>3, <4>0, <4>2, <6>1 DEF KeptBy
          <6> QED BY <1>10, <3>3, <4>0, <6>2 DEF SafeLock
        <5>4. CASE ~ HasKey(j.me, Content, j.all[1].rec, grants)
          <6>1. PICK i \in 1..Len(j.todo) : /\ j.todo[i].is = "grant" /\ j.todo[i].who = j.me
                                            /\ Opener(j.todo[i].grant, Content, j.all[1].rec)
                BY <1>7, <5>2, <5>4 DEF Provided
          <6>2. i # 1
                BY <1>1, <6>1, WritingFacts
          <6>3. Half(k, c, closes')
                BY <1>10, <3>3, <4>0, <4>1, <4>2, <6>1, <6>2, HalfGoesOn
          <6>4. Half(command'[t], c, closes')
                BY <1>1, <6>3 DEF Moves
          <6> QED BY <1>10, <3>3, <4>0, <6>4 DEF SafeLock
        <5> QED BY <5>3, <5>4
      <4> QED BY <4>3, <4>4
    <3> QED BY <3>1, <3>2, <3>3
  <2> QED BY <1>1, <1>12, <2>1, LocksStep DEF LockInv
<1> QED BY <1>3, <1>13, <1>14, <1>15 DEF LockInv

\* A grant.
LEMMA FillGrantLock ==
    ASSUME TypesInv, TurnsInv, LockInv, NEW t \in Terminals, NEW j, NEW f, NEW k, FillsTo(t, j, f, k),
           f.is = "grant"
    PROVE  LockInv'
<1>1. /\ j = command[t] /\ WritingOK(j, closes, grants, minted) /\ j.at = "fill"
      /\ f = Head(j.todo) /\ f \in FilesFor(j.close) /\ Moves(t, k) /\ GoesOn(j, k) /\ Filled(j, f)
      /\ StillKept /\ MoreTrouble /\ trouble' = trouble /\ DOMAIN closes \subseteq DOMAIN closes'
      BY DEF FillsTo
<1>2. closes' = closes /\ lists' = lists
      BY DEF FillsTo, Filled, FilledGrant
<1>3. /\ RotationsOK'
      /\ \A c : ListsIt(k, c) => j.do = "protect" /\ c = j.close
      /\ \A c : Does(k, "rotate", c) => Does(j, "rotate", c)
      /\ ~ Unlocked(k) /\ ~ InFill(k)
      /\ PastRecord(k) => j.do = "rotate" /\ k.close = j.close /\ k.all = j.all
      BY FillLeaves
<1>4. InWriting(j) /\ j # Idle /\ j.close \in Closes /\ j.me \in People
      BY <1>1 DEF InWriting, Idle, WritingOK
<1>5. OnFile(f.grant, grants')
      BY <1>1, FilledOnFile
<1>6. f.grant \in Grant /\ Leaf(f.grant).holder = f.who
      BY <1>1, FileFacts
<1>7. ASSUME NEW c, closes[c] # Torn, c \in DOMAIN closes, f.who = closes[c].steward,
             Opener(f.grant, Content, closes[c])
      PROVE  SafeLock(c, closes', grants', command', trouble')
  <2>1. HasKey(closes[c].steward, Content, closes[c], grants')
        BY <1>5, <1>6, <1>7 DEF HasKey
  <2> QED BY <1>2, <1>7, <2>1 DEF SafeLock, KeptBy
<1>8. ASSUME NEW c, c # j.close \/ j.do # "protect", Listed(c, lists', command')
      PROVE  Listed(c, lists, command)
  <2>1. ~ ListsIt(k, c)
        BY <1>3, <1>8
  <2>2. lists'["map"] # Torn /\ Has(lists'["map"], c) => Listed(c, lists, command)
        BY <1>2 DEF Listed, Has
  <2> QED BY <1>1, <1>8, <2>1, <2>2, ListedStep
<1>9. RecordsOK'
  <2>1. RecordKept(k, closes', trouble'.raced)
    <3>1. PastRecord(k) => PastRecord(j)
          BY <1>1, <1>3, <1>4 DEF PastRecord
    <3>2. RecordKept(j, closes, trouble.raced)
          BY <1>1 DEF LockInv, RecordsOK
    <3> QED BY <1>1, <1>2, <1>3, <3>1, <3>2 DEF RecordKept
  <2> QED BY <1>1, <1>2, <2>1, RecordsStep DEF LockInv
<1>10. FoundingsOK'
  <2>1. ASSUME NEW u \in Terminals \ {t}, Unlocked(command[u])
        PROVE  ~ Listed(command[u].close, lists', command') /\ ~ Does(k, "rotate", command[u].close)
    <3>1. /\ ~ Listed(command[u].close, lists, command)
          /\ ~ Does(j, "rotate", command[u].close)
          BY <1>1, <2>1 DEF LockInv, FoundingsOK
    <3>2. Does(command[u], "protect", command[u].close)
          BY <2>1, IdleIsQuiet DEF Unlocked, Does
    <3>3. command[u].close # j.close \/ j.do # "protect"
          BY <1>1, <1>4, <3>2 DEF TurnsInv, Does
    <3> QED BY <1>3, <1>8, <3>1, <3>3
  <2> QED BY <1>1, <1>2, <1>3, <2>1, FoundingsStep DEF LockInv
<1>11. LocksOK'
  <2>1. ASSUME NEW c \in Closes, Listed(c, lists', command'), ~ Listed(c, lists, command)
        PROVE  SafeLock(c, closes', grants', command', trouble')
    <3>1. j.do = "protect" /\ c = j.close
          BY <1>8, <2>1
    <3>2. Unlocked(j)
          BY <1>1, <1>4, <3>1 DEF Unlocked
    <3>3. FoundingOK(j, closes)
          BY <1>1, <3>2 DEF LockInv, FoundingsOK
    <3>4. f = j.all[2]
          BY <1>1, <3>3, FounderAt
    <3>5. closes[c] = j.all[1].rec /\ closes[c].steward = j.me /\ f.who = j.me /\ Opener(f.grant, Content, closes[c])
          BY <1>1, <3>1, <3>3, <3>4 DEF FoundingOK
    <3>6. closes[c] # Torn
      <4>1. j.all[1] \in FilesFor(j.close) /\ j.all[1].is = "record"
            BY <1>1, <3>3 DEF WritingOK, TodoOK, FoundingOK
      <4>2. j.all[1].rec \in Record(People)
            BY <4>1, FileFacts
      <4> QED BY <3>5, <4>2, FolderAssumption
    <3>7. c \in DOMAIN closes
          BY <1>1, <3>1 DEF WritingOK, TypesInv, ClosesOK
    <3> QED BY <1>7, <3>5, <3>6, <3>7
  <2>2. ASSUME NEW c \in Closes, Listed(c, lists, command), Half(j, c, closes)
        PROVE  Half(k, c, closes') \/ SafeLock(c, closes', grants', command', trouble')
    <3>1. /\ Does(j, "rotate", c) /\ closes[c] # Torn /\ j.me = closes[c].steward
          /\ \E i \in 1..Len(j.todo) : /\ j.todo[i].is = "grant" /\ j.todo[i].who = j.me
                                       /\ Opener(j.todo[i].grant, Content, closes[c])
          BY <1>1, <2>2 DEF Half
    <3>2. PICK i \in 1..Len(j.todo) : /\ j.todo[i].is = "grant" /\ j.todo[i].who = j.me
                                      /\ Opener(j.todo[i].grant, Content, closes[c])
          BY <3>1
    <3>3. c \in DOMAIN closes
          BY <2>2 DEF LockInv, LocksOK, SafeLock
    <3>4. CASE i = 1
      <4>1. f = j.todo[i]
            BY <1>1, <3>4, WritingFacts
      <4> QED BY <1>7, <3>1, <3>2, <3>3, <4>1
    <3>5. CASE i # 1
          BY <1>2, <3>1, <3>2, <3>5, HalfGoesOn
    <3> QED BY <3>4, <3>5
  <2> QED BY <1>1, <1>2, <2>1, <2>2, LocksStep DEF LockInv
<1> QED BY <1>3, <1>9, <1>10, <1>11 DEF LockInv

\* A list: the last file.
LEMMA FillListLock ==
    ASSUME TypesInv, LockInv, NEW t \in Terminals, NEW j, NEW f, NEW k, FillsTo(t, j, f, k),
           f.is = "list"
    PROVE  LockInv'
<1>1. /\ j = command[t] /\ WritingOK(j, closes, grants, minted) /\ j.at = "fill"
      /\ f = Head(j.todo) /\ f \in FilesFor(j.close) /\ Moves(t, k) /\ GoesOn(j, k) /\ Filled(j, f)
      /\ StillKept /\ MoreTrouble /\ trouble' = trouble
      BY DEF FillsTo
<1>2. closes' = closes /\ FilledList(j, f)
      BY DEF FillsTo, Filled, FilledList
<1>3. RotationsOK'
      BY FillLeaves
<1>4. k = Idle
      BY <1>1, AtList DEF GoesOn
<1>5. /\ ~ InWriting(Idle) /\ ~ Unlocked(Idle) /\ (\A c : ~ ListsIt(Idle, c) /\ ~ Does(Idle, "rotate", c))
      /\ RecordKept(Idle, closes, trouble'.raced)
      BY NotWriting, IdleIsQuiet
<1>6. \A c : Listed(c, lists', command') => Listed(c, lists, command)
  <2>1. ASSUME NEW c, lists'["map"] # Torn, Has(lists'["map"], c)
        PROVE  Listed(c, lists, command)
    <3>1. f.list \in {"map", "index"}
          BY <1>1, FileFacts
    <3>2. CASE f.list = "map"
      <4>1. lists'["map"] = j.read
            BY <1>2, <2>1, <3>2 DEF FilledList
      <4>2. AtMap(j) /\ j.at # "prepare"
            BY <1>1, <3>2 DEF AtMap, InWriting
      <4>3. ListsIt(j, c)
            BY <2>1, <4>1, <4>2 DEF ListsIt, Has
      <4> QED BY <1>1, <4>3 DEF Listed
    <3>3. CASE f.list = "index"
      <4>1. lists'["map"] = lists["map"]
            BY <1>2, <3>3 DEF FilledList
      <4> QED BY <2>1, <4>1 DEF Listed, Has
    <3> QED BY <3>1, <3>2, <3>3
  <2> QED BY <1>1, <1>4, <1>5, <2>1, ListedStep
<1>7. RecordsOK'
      BY <1>1, <1>2, <1>4, <1>5, RecordsStep DEF LockInv
<1>8. FoundingsOK'
  <2>1. ASSUME NEW u \in Terminals \ {t}, Unlocked(command[u])
        PROVE  ~ Listed(command[u].close, lists', command') /\ ~ Does(k, "rotate", command[u].close)
        BY <1>4, <1>5, <1>6, <2>1 DEF LockInv, FoundingsOK
  <2> QED BY <1>1, <1>2, <1>4, <1>5, <2>1, FoundingsStep DEF LockInv
<1>9. LocksOK'
  <2>1. ASSUME NEW c, Half(j, c, closes)
        PROVE  FALSE
    <3>1. Rotates(j)
          BY <2>1 DEF Half, Does, Rotates
    <3>2. RotationOK(j, grants, trouble.crowded)
          BY <1>1, <3>1 DEF LockInv, RotationsOK, Rotates
    <3> QED BY <1>1, <3>2, RotationListsNot
  <2> QED BY <1>1, <1>2, <1>6, <2>1, LocksStep DEF LockInv
<1> QED BY <1>3, <1>7, <1>8, <1>9 DEF LockInv

\* Any of them.
LEMMA FillLock ==
    ASSUME TypesInv, GivenInv, ListInv, TurnsInv, LockInv, NEW t \in Terminals, Fill(t)
    PROVE  LockInv'
<1>1. PICK j, f, k : FillsTo(t, j, f, k)
      BY FillIsSo
<1>2. f.is \in {"record", "grant", "list"}
      BY <1>1, FileFacts DEF FillsTo
<1> QED BY <1>1, <1>2, FillRecordLock, FillGrantLock, FillListLock

-----------------------------------------------------------------------------
\* The invariant, and what it says.

\* The folder starts with Commons, on the map, and its founder's grant on file.
LEMMA InitLock == Init => LockInv
<1> SUFFICES ASSUME Init PROVE LockInv
    OBVIOUS
<1>1. PICK root \in ContentKeys :
         /\ closes = [c \in {Commons} |-> FoundRecord(c, Founder)]
         /\ lists = [map |-> <<Commons>>, index |-> <<>>]
         /\ grants = [p \in People |-> IF p = Founder THEN <<FoundingGrant(p, Commons, root)>> ELSE <<>>]
         /\ command = [u \in Terminals |-> Idle]
         /\ trouble = NoTrouble
      BY DEF Init
<1>2. PICK g : g = FoundingGrant(Founder, Commons, root)
      OBVIOUS
<1>3. PICK rec : rec = FoundRecord(Commons, Founder)
      OBVIOUS
<1>4. rec \in Record(People) /\ rec.id = Commons /\ rec.steward = Founder /\ rec.epoch = 0
      BY <1>3, FolderAssumption DEF FoundRecord, Record
<1>5. g \in Grant /\ Leaf(g).holder = Founder
      BY <1>2, FoundingFiles, FolderAssumption
<1>6. Opener(g, Content, rec)
  <2>1. g = IssueRoot(rec, rec.steward, MintKey(root, rec.id), rec.epoch, Founder, Content, AllPowers, <<>>, Never)
        BY <1>2, <1>3, <1>4 DEF FoundingGrant
  <2>2. /\ Content \in Facets /\ Content \in Lanes /\ Content <= Content
        /\ Founder \in People /\ AllPowers \in SUBSET AllPowers
        BY FolderAssumption DEF Content, Facets, Lanes, Presence, Shape
  <2> QED BY <1>4, <2>1, <2>2, OpenerMade
<1>7. \A u \in Terminals : command[u] = Idle
      BY <1>1
<1>8. RotationsOK /\ RecordsOK /\ FoundingsOK
  <2>1. RecordKept(Idle, closes, trouble.raced) /\ ~ Unlocked(Idle)
        BY NotWriting, IdleIsQuiet
  <2> QED BY <1>7, <2>1 DEF RotationsOK, RecordsOK, FoundingsOK
<1>9. LocksOK
  <2> SUFFICES ASSUME NEW c \in Closes, Listed(c, lists, command)
               PROVE  SafeLock(c, closes, grants, command, trouble)
      BY DEF LocksOK
  <2>1. \A u \in Terminals : ~ ListsIt(command[u], c)
        BY <1>7, NotWriting, IdleIsQuiet
  <2>2. c = Commons
    <3>1. lists["map"] = <<Commons>> /\ \E i \in 1..Len(lists["map"]) : lists["map"][i] = c
          BY <1>1, <2>1 DEF Listed
    <3> QED BY <3>1
  <2>3. closes[c] = rec /\ c \in DOMAIN closes /\ rec # Torn
        BY <1>1, <1>3, <1>4, <2>2, FolderAssumption
  <2>4. grants[Founder] = <<g>>
        BY <1>1, <1>2, FolderAssumption
  <2>5. OnFile(g, grants)
        BY <1>5, <2>4 DEF OnFile
  <2>6. HasKey(rec.steward, Content, rec, grants)
        BY <1>4, <1>5, <1>6, <2>5 DEF HasKey
  <2> QED BY <2>3, <2>6 DEF SafeLock, KeptBy
<1> QED BY <1>8, <1>9 DEF LockInv

\* Every step preserves it.
LEMMA NextLock == TypesInv /\ GivenInv /\ ListInv /\ TurnsInv /\ LockInv /\ [Next]_vars => LockInv'
<1> SUFFICES ASSUME TypesInv, GivenInv, ListInv, TurnsInv, LockInv, [Next]_vars PROVE LockInv'
    OBVIOUS
<1>1. ASSUME UNCHANGED vars
      PROVE  LockInv'
      BY <1>1 DEF vars, files, LockInv, RotationsOK, RecordsOK, FoundingsOK, LocksOK, SafeLock, Listed,
                  Terminals, Most
<1> QED BY <1>1, ProtectLock, ShareLock, RaiseLock, SettleLock, RotateLock, FindKeyLock, RefuseLock,
           GatherLock, ChangeLockLock, CountLock, ReadListLock, OpenLock, FillLock, KillLock DEF Next

\* All the layers, at every step.
LEMMA LockStays == Spec => [](TypesInv /\ TurnsInv /\ GivenInv /\ ListInv /\ LockInv)
<1>1. Init => TurnsInv /\ GivenInv /\ ListInv /\ LockInv
      BY InitTurns, InitGiven, InitLists, InitLock
<1>2. /\ TypesInv /\ TurnsInv /\ GivenInv /\ ListInv /\ LockInv /\ [Next]_vars
         => (TurnsInv /\ GivenInv /\ ListInv /\ LockInv)'
      BY NextTurns, NextGiven, NextLists, NextLock
<1> QED BY <1>1, <1>2, FolderTypes, PTL DEF Spec

\* Nobody is locked out of a close that is on the map: its record parses and
\* its steward finds the key that was drawn last by the grants on file, but
\* while a rotation is between the record and the steward's grant or was killed
\* there, or the steward was crowded or left out, or the close was raced
\* (StewardKeepsTheLock; cmd_rotate, cmd_protect, save_close, add_grant).
THEOREM LockIsKept == Spec => []StewardKeepsTheLock
<1>1. Init => TrueInv
      BY InitTrue
<1>2. TypesInv /\ TurnsInv /\ TrueInv /\ [Next]_vars => TrueInv'
      BY NextTrue
<1>3. TypesInv /\ LockInv /\ TrueInv => StewardKeepsTheLock
  <2> SUFFICES ASSUME TypesInv, LockInv, TrueInv, NEW c \in Closes \ trouble.raced, Lists("map", c)
               PROVE  \/ /\ Readable(c)
                         /\ CurrentKey(closes[c].steward, closes[c]) = MintKey(minted[c][Len(minted[c])], c)
                      \/ \E t \in Busy : command[t].close = c /\ HalfRotated(t)
                      \/ c \in trouble.stranded
                      \/ Readable(c) /\ closes[c].steward \in trouble.crowded \cup Excludable
      BY DEF StewardKeepsTheLock
  <2>1. Listed(c, lists, command)
        BY DEF Lists, Listed
  <2>2. SafeLock(c, closes, grants, command, trouble)
        BY <2>1 DEF LockInv, LocksOK
  <2>3. CASE KeptBy(c, closes, grants, trouble.crowded)
    <3>1. PICK rec : rec = closes[c]
          OBVIOUS
    <3>2. rec \in Record(People) /\ rec.id = c /\ Readable(c) /\ rec # Torn
          BY <2>2, <2>3, <3>1 DEF SafeLock, KeptBy, TypesInv, ClosesOK, Readable
    <3>3. PICK p \in People : p = rec.steward
          BY <3>2 DEF Record
    <3>4. PICK s \in People : CloseTrue(c, s, RootsOf(c, minted), closes, grants, command)
          BY DEF TrueInv
    <3>5. PICK roots \in Seq(ContentKeys) : roots = minted[c] /\ roots = RootsOf(c, minted)
          BY <3>1, <3>2 DEF RootsOf, Readable, TypesInv, ClosesOK
    <3>6. TruthfulTo(rec, roots) /\ OnceTrue(rec, roots) /\ HeldTrue(p, c, s, roots)
      <4>1. TruthfulTo(rec, roots)
            BY <3>1, <3>2, <3>4, <3>5 DEF CloseTrue, Readable
      <4> QED BY <3>2, <3>4, <3>5, <4>1, TrueOnce, HeldIsTrue
    <3>7. ASSUME HasKey(p, Content, rec, grants)
          PROVE  CurrentKey(p, rec) = MintKey(roots[Len(roots)], c)
      <4>1. grants[p] \in Seq(Grant \cup {Torn}) /\ Content \in Lanes
            BY DEF TypesInv, GrantsOK, Lanes
      <4>2. FacetKeyFor(Without(grants[p], {Torn}), p, rec, Content, rec.epoch, 0) # NoKey
            BY <3>2, <3>7, <4>1, HasKeyFinds
      <4>3. CurrentKey(p, rec) # NoKey
            BY <4>2 DEF CurrentKey, KeyFor, GrantsFor
      <4>4. CurrentKey(p, rec) = KeyAt(roots, c, Content, rec.epoch)
            BY <3>2, <3>6, <4>3, FindTrue
      <4>5. Len(roots) = rec.epoch + 1
            BY <3>6 DEF TruthfulTo
      <4> QED BY <4>4, <4>5 DEF KeyAt, FacetKey
    <3> QED BY <2>3, <3>1, <3>2, <3>3, <3>5, <3>7 DEF KeptBy
  <2>4. ASSUME NEW t \in Terminals, Half(command[t], c, closes)
        PROVE  t \in Busy /\ command[t].close = c /\ HalfRotated(t)
    BY <2>4 DEF Half, HalfRotated, Does, Writing, File, InWriting, Busy
  <2> QED BY <2>2, <2>3, <2>4 DEF SafeLock
<1> QED BY <1>1, <1>2, <1>3, LockStays, PTL DEF Spec

\* Only the last file of a command adds to what is on record of it.
LEMMA OnlyFillReports ==
    ASSUME [Next]_vars, done' # done
    PROVE  \E t \in Terminals : Fill(t)
BY DEF Next, vars, files, Protect, Share, Raise, Settle, Rotate, FindKey, Refuse, Gather, ChangeLock, Count,
       ReadList, Open, Kill

\* A rotation that ends has written its record, and provided by it.
LEMMA LastFileProvides ==
    ASSUME TypesInv, TypesInv', LockInv, NEW t \in Terminals, NEW j, NEW f, NEW k, FillsTo(t, j, f, k),
           Does(j, "rotate", j.close), Len(j.todo) = 1, j.close \notin trouble.raced,
           NEW p \in People \ (j.except \cup trouble.crowded), NEW facet \in j.held[p]
    PROVE  FacetKeyFor(Without(grants'[p], {Torn}), p, closes'[j.close], facet, closes'[j.close].epoch, 0) # NoKey
<1>1. /\ j = command[t] /\ WritingOK(j, closes, grants, minted) /\ j.at = "fill"
      /\ f = Head(j.todo) /\ f \in FilesFor(j.close) /\ Filled(j, f)
      /\ StillKept /\ trouble' = trouble
      BY DEF FillsTo
<1>2. InWriting(j) /\ Rotates(j)
      BY <1>1 DEF InWriting, Rotates, Does
<1>3. RotationOK(j, grants, trouble.crowded)
      BY <1>1, <1>2 DEF LockInv, RotationsOK, Rotates
<1>4. j.all[1].is = "record" /\ f.is # "list"
      BY <1>1, <1>2, <1>3, RotationListsNot DEF RotationOK
<1>5. PICK rec : rec = j.all[1].rec
      OBVIOUS
<1>6. rec \in Record(People)
  <2>1. j.all[1] \in FilesFor(j.close)
        BY <1>1, WritingFacts DEF WritingOK, TodoOK
  <2> QED BY <1>4, <1>5, <2>1, FileFacts
<1>7. closes'[j.close] = rec
  <2>1. CASE f.is = "record"
    <3>1. InFill(j) /\ RecordKept(j, closes, trouble.raced)
          BY <1>1, <2>1 DEF InFill, LockInv, RecordsOK
    <3>2. closes[j.close] = Torn
          BY <3>1 DEF RecordKept
    <3> QED BY <1>1, <1>4, <1>5, <2>1, <3>2, AtFirst DEF Filled, FilledRecord
  <2>2. CASE f.is # "record"
    <3>1. PastRecord(j)
          BY <1>1, <1>2, <2>2 DEF PastRecord, Rotates
    <3>2. closes[j.close] = rec
          BY <1>1, <1>5, <3>1 DEF LockInv, RecordsOK, RecordKept
    <3> QED BY <1>1, <1>4, <2>2, <3>2 DEF Filled, FilledGrant
  <2> QED BY <2>1, <2>2
<1>8. facet \in Lanes /\ Provided(j, p, facet, grants)
  <2>1. facet \in Needs(j, p)
        BY DEF Needs
  <2> QED BY <1>3, <2>1, NeedsLanes DEF RotationOK
<1>9. HasKey(p, facet, rec, grants')
  <2>1. CASE HasKey(p, facet, rec, grants)
        BY <1>1, <2>1, HoldsStays
  <2>2. CASE ~ HasKey(p, facet, rec, grants)
    <3>1. PICK i \in 1..Len(j.todo) : /\ j.todo[i].is = "grant" /\ j.todo[i].who = p
                                      /\ Opener(j.todo[i].grant, facet, rec)
          BY <1>2, <1>5, <1>8, <2>2 DEF Provided
    <3>2. f = j.todo[i]
          BY <1>1, <3>1, WritingFacts
    <3>3. OnFile(f.grant, grants') /\ f.grant \in Grant /\ Leaf(f.grant).holder = p
          BY <1>1, <3>1, <3>2, FilledOnFile, FileFacts
    <3> QED BY <3>1, <3>2, <3>3 DEF HasKey
  <2> QED BY <2>1, <2>2
<1>10. PICK gs : gs = grants'
      OBVIOUS
<1>11. gs[p] \in Seq(Grant \cup {Torn})
      BY <1>10 DEF TypesInv, GrantsOK
<1>12. FacetKeyFor(Without(gs[p], {Torn}), p, rec, facet, rec.epoch, 0) # NoKey
      BY <1>6, <1>8, <1>9, <1>10, <1>11, HasKeyFinds
<1> QED BY <1>7, <1>10, <1>12

\* Whoever read a close when its rotation began, and was not left out of it,
\* reads it once it is done: by the grants the rotation found on the way, for
\* the record that is there at its end (KeepersKeepUp; cmd_rotate,
\* Repo::save_grant).
THEOREM KeepersStay == Spec => KeepersKeepUp
<1>1. /\ TypesInv /\ TurnsInv /\ GivenInv /\ ListInv /\ LockInv /\ TypesInv' /\ [Next]_vars
         => [\A t \in Busy :
                LET c == command[t].close
                IN  RotationDone(t) /\ c \notin trouble.raced =>
                        \A p \in People \ (command[t].except \cup trouble.crowded) :
                            \A facet \in command[t].held[p] :
                                FacetKeyFor(Without(grants'[p], {Torn}), p, closes'[c],
                                            facet, closes'[c].epoch, 0) # NoKey]_vars
  <2> SUFFICES ASSUME TypesInv, TurnsInv, GivenInv, ListInv, LockInv, TypesInv', [Next]_vars,
                      NEW t \in Busy, RotationDone(t), command[t].close \notin trouble.raced,
                      NEW p \in People \ (command[t].except \cup trouble.crowded),
                      NEW facet \in command[t].held[p]
               PROVE  FacetKeyFor(Without(grants'[p], {Torn}), p, closes'[command[t].close],
                                  facet, closes'[command[t].close].epoch, 0) # NoKey
      OBVIOUS
  <2>1. t \in Terminals /\ command[t] # Idle /\ command'[t] = Idle /\ done' # done
        BY DEF Busy, RotationDone
  <2>2. PICK u \in Terminals : Fill(u)
        BY <2>1, OnlyFillReports
  <2>3. PICK j, f, k : FillsTo(u, j, f, k)
        BY <2>2, FillIsSo
  <2>4. u = t /\ j = command[t]
        BY <2>1, <2>3 DEF FillsTo, Moves
  <2>5. Does(j, "rotate", j.close) /\ Len(j.todo) = 1
        BY <2>1, <2>4 DEF RotationDone, Does
  <2> QED BY <2>1, <2>3, <2>4, <2>5, LastFileProvides
<1> QED BY <1>1, LockStays, PTL DEF Spec, KeepersKeepUp
=============================================================================
