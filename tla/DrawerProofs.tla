---------------------------- MODULE DrawerProofs ----------------------------
(***************************************************************************)
(* Theorems of Drawer, for any number of people, closes, grants, epochs    *)
(* and days.  The inductive invariant says that every chain and every      *)
(* stored grant was made with the right keys; what a reader finds in them  *)
(* (Grants, Lock) then follows without looking at how they came about.     *)
(* Of that, Readership says who reads what, and Drawer implements it.      *)
(***************************************************************************)
EXTENDS Drawer, GrantsProofs

\* A grant filed for p: p's own, on a founded close, sound, every link with
\* the key its label names.  cs and ms are values of closes and minted.
FiledTrue(p, g, cs, ms) ==
    /\ Leaf(g).holder = p
    /\ Leaf(g).close \in DOMAIN cs
    /\ SoundTo(g, cs[Leaf(g).close])
    /\ \A j \in 1..Len(g) :
          g[j].close \in DOMAIN cs /\ LabelTrueTo(g[j], cs[g[j].close], ms[g[j].close])

GrantsTrue ==
    \A p \in People : \A i \in 1..Len(grants[p]) : FiledTrue(p, grants[p][i], closes, minted)

\* The inductive invariant.
IInv == TypeOK /\ ChainTruthful /\ GrantsTrue

-----------------------------------------------------------------------------
\* What the invariant says of one founded close.
LEMMA CloseFacts ==
    ASSUME TypeOK, ChainTruthful, NEW c \in Founded
    PROVE  /\ c \in Closes /\ closes[c] \in Record(People) /\ minted[c] \in Seq(ContentKeys)
           /\ closes[c].id = c /\ closes[c].epoch \in Nat /\ closes[c].steward \in People
           /\ TruthfulTo(closes[c], minted[c]) /\ Len(minted[c]) = closes[c].epoch + 1
BY DEF TypeOK, ChainTruthful, TruthfulTo, Record

\* What it says of one person's grants.
LEMMA GrantFacts ==
    ASSUME TypeOK, NEW p \in People
    PROVE  /\ grants[p] \in Seq(Grant) /\ Len(grants[p]) \in Nat
           /\ \A i \in 1..Len(grants[p]) : grants[p][i] \in Grant
<1>1. grants[p] \in Seq(Grant)
      BY DEF TypeOK
<1> QED BY <1>1

\* Every link of a stored grant is a stored link.
LEMMA StoredLink ==
    ASSUME NEW p \in People, NEW i \in 1..Len(grants[p]), NEW j \in 1..Len(grants[p][i])
    PROVE  grants[p][i][j] \in StoredLinks
<1>1. grants[p][i][j] \in {grants[p][i][k] : k \in 1..Len(grants[p][i])}
      OBVIOUS
<1>2. grants[p][i][j] \in UNION {{grants[p][h][k] : k \in 1..Len(grants[p][h])} :
                                    h \in 1..Len(grants[p])}
      BY <1>1
<1> QED BY <1>2 DEF StoredLinks

\* And every stored link is one of a stored grant.
LEMMA LinkStored ==
    ASSUME NEW b \in StoredLinks
    PROVE  \E p \in People : \E i \in 1..Len(grants[p]) : \E j \in 1..Len(grants[p][i]) :
              b = grants[p][i][j]
<1>1. PICK p \in People : b \in UNION {{grants[p][i][j] : j \in 1..Len(grants[p][i])} :
                                          i \in 1..Len(grants[p])}
      BY DEF StoredLinks
<1>2. PICK i \in 1..Len(grants[p]) : b \in {grants[p][i][j] : j \in 1..Len(grants[p][i])}
      BY <1>1
<1> QED BY <1>2

\* The grants that hold on c are those on c whose leaf is alive.
LEMMA HeldAlive ==
    ASSUME IInv, NEW p \in People, NEW c \in Founded
    PROVE  Held(p, c) = {i \in 1..Len(grants[p]) : /\ Leaf(grants[p][i]).close = c
                                                   /\ Alive(Leaf(grants[p][i]).expires, now)}
<1>1. closes[c].id = c /\ now \in Nat
      BY CloseFacts DEF IInv, TypeOK
<1>2. ASSUME NEW i \in 1..Len(grants[p]), Leaf(grants[p][i]).close = c
      PROVE  Verify(grants[p][i], closes[c], now) <=> Alive(Leaf(grants[p][i]).expires, now)
  <2>1. grants[p][i] \in Grant
        BY GrantFacts DEF IInv
  <2>2. SoundTo(grants[p][i], closes[c])
        BY <1>2 DEF IInv, GrantsTrue, FiledTrue
  <2> QED BY <1>1, <2>1, <2>2, SoundVerifies
<1> QED BY <1>1, <1>2 DEF Held, HeldOn

\* What a held grant yields.
LEMMA HeldKey ==
    ASSUME IInv, NEW p \in People, NEW c \in Founded, NEW i \in Held(p, c),
           NEW facet \in Lanes, NEW epoch \in Nat
    PROVE  KeyFrom(grants[p][i], p, closes[c], facet, epoch) =
             IF facet <= Leaf(grants[p][i]).facet /\ epoch <= Leaf(grants[p][i]).epoch
             THEN EpochKey(c, facet, epoch) ELSE NoKey
<1> DEFINE g == grants[p][i]
<1>1. i \in 1..Len(grants[p]) /\ Leaf(g).close = c
      BY HeldAlive
<1>2. g \in Grant
      BY <1>1, GrantFacts DEF IInv
<1>3. Leaf(g).holder = p
      BY <1>1 DEF IInv, GrantsTrue, FiledTrue
<1>4. LabelTrueTo(Leaf(g), closes[c], minted[c])
  <2>1. Len(g) \in 1..Len(g)
        BY <1>2, LeafOfGrant
  <2>2. LabelTrueTo(g[Len(g)], closes[g[Len(g)].close], minted[g[Len(g)].close])
        BY <1>1, <2>1 DEF IInv, GrantsTrue, FiledTrue
  <2> QED BY <1>1, <2>2 DEF Leaf
<1>5. /\ closes[c] \in Record(People) /\ minted[c] \in Seq(ContentKeys)
      /\ TruthfulTo(closes[c], minted[c]) /\ closes[c].id = c
      BY CloseFacts DEF IInv
<1> QED BY <1>2, <1>3, <1>4, <1>5, KeyFromTrue DEF EpochKey

\* A founded close has a key for each lane and epoch.
LEMMA EpochKeyType ==
    ASSUME IInv, NEW c \in Founded, NEW facet \in Lanes, NEW epoch \in 0..closes[c].epoch
    PROVE  EpochKey(c, facet, epoch) \in Key /\ EpochKey(c, facet, epoch) # NoKey
<1>1. /\ c \in Closes /\ minted[c] \in Seq(ContentKeys) /\ closes[c].epoch \in Nat
      /\ Len(minted[c]) = closes[c].epoch + 1
      BY CloseFacts DEF IInv
<1>2. epoch \in Nat /\ epoch < Len(minted[c])
      BY <1>1
<1>3. KeyAt(minted[c], c, facet, epoch) \in Key
      BY <1>1, <1>2, KeyAtType
<1> QED BY <1>3, NoKeyIsNoKey DEF EpochKey

\* The label of a held grant names an epoch that has begun.
LEMMA HeldBegun ==
    ASSUME IInv, NEW p \in People, NEW i \in 1..Len(grants[p])
    PROVE  /\ Leaf(grants[p][i]) \in Link
           /\ Leaf(grants[p][i]).close \in Founded
           /\ Leaf(grants[p][i]).epoch <= closes[Leaf(grants[p][i]).close].epoch
<1>1. grants[p][i] \in Grant
      BY GrantFacts DEF IInv
<1>2. Len(grants[p][i]) \in 1..Len(grants[p][i]) /\ Leaf(grants[p][i]) \in Link
      BY <1>1, LeafOfGrant
<1>3. LabelTrueTo(Leaf(grants[p][i]), closes[Leaf(grants[p][i]).close],
                  minted[Leaf(grants[p][i]).close])
      BY <1>2 DEF IInv, GrantsTrue, FiledTrue, Leaf
<1> QED BY <1>2, <1>3 DEF IInv, GrantsTrue, FiledTrue, LabelTrueTo, Founded

\* facet_key_for, on true grants and a truthful chain.
LEMMA KeyOfExact ==
    ASSUME IInv, NEW p \in ids, NEW c \in Founded, NEW facet \in Lanes,
           NEW epoch \in 0..closes[c].epoch
    PROVE  KeyOf(p, c, facet, epoch) =
             IF Entitled(p, c, facet, epoch) THEN EpochKey(c, facet, epoch) ELSE NoKey
<1> DEFINE yielding == {i \in Held(p, c) :
                          KeyFrom(grants[p][i], p, closes[c], facet, epoch) # NoKey}
<1>1. p \in People /\ epoch \in Nat /\ facet # Presence
  <2>1. closes[c].epoch \in Nat
        BY CloseFacts DEF IInv
  <2> QED BY <2>1 DEF IInv, TypeOK, Lanes, Presence, Shape, Content
<1>2. KeyOf(p, c, facet, epoch) =
        IF yielding = {} THEN NoKey
        ELSE KeyFrom(grants[p][First(yielding)], p, closes[c], facet, epoch)
      BY <1>1 DEF KeyOf, FacetKeyFor, Held
<1>3. EpochKey(c, facet, epoch) # NoKey
      BY EpochKeyType
<1>4. yielding = {i \in Held(p, c) : /\ facet <= Leaf(grants[p][i]).facet
                                     /\ epoch <= Leaf(grants[p][i]).epoch}
      BY <1>1, <1>3, HeldKey
<1>5. yielding # {} <=> Entitled(p, c, facet, epoch)
  <2>1. \A i \in 1..Len(grants[p]) :
           /\ Leaf(grants[p][i]).facet \in Facets /\ Leaf(grants[p][i]).epoch \in Nat
        BY <1>1, HeldBegun DEF Link
  <2>2. \A i \in 1..Len(grants[p]) :
           /\ facet <= Leaf(grants[p][i]).facet <=> Leaf(grants[p][i]).facet >= facet
           /\ epoch <= Leaf(grants[p][i]).epoch <=> Leaf(grants[p][i]).epoch >= epoch
        BY <1>1, <2>1 DEF Facets, Lanes, Presence, Shape, Content
  <2>3. yielding = {i \in 1..Len(grants[p]) :
                      /\ Leaf(grants[p][i]).close = c /\ Alive(Leaf(grants[p][i]).expires, now)
                      /\ Leaf(grants[p][i]).facet >= facet /\ Leaf(grants[p][i]).epoch >= epoch}
        BY <1>1, <1>4, <2>2, HeldAlive
  <2> QED BY <2>3 DEF Entitled
<1>6. ASSUME yielding # {}
      PROVE  KeyFrom(grants[p][First(yielding)], p, closes[c], facet, epoch) =
               EpochKey(c, facet, epoch)
  <2>1. yielding \subseteq 1..Len(grants[p]) /\ Len(grants[p]) \in Nat
        BY <1>1, HeldAlive, GrantFacts DEF IInv
  <2>2. First(yielding) \in yielding
        <3> HIDE DEF yielding
        <3> QED BY <1>6, <2>1, FirstIn
  <2> QED BY <1>1, <2>2, HeldKey
<1> QED BY <1>2, <1>5, <1>6

\* What current_content_key finds is the key of the present epoch.
LEMMA CurrentKeyTrue ==
    ASSUME IInv, NEW me \in ids, NEW c \in Founded, CurrentKey(me, c) # NoKey
    PROVE  CurrentKey(me, c) = KeyAt(minted[c], c, Content, closes[c].epoch)
<1>1. closes[c].epoch \in 0..closes[c].epoch
      BY CloseFacts DEF IInv
<1>2. Content \in Lanes
      BY DEF Lanes
<1> QED BY <1>1, <1>2, KeyOfExact DEF CurrentKey, EpochKey

-----------------------------------------------------------------------------
\* The founding grant of a close, on the record it is founded with.
LEMMA FoundingTrue ==
    ASSUME NEW me \in People, NEW c \in Closes, NEW root \in ContentKeys
    PROVE  LET g == FoundingGrant(me, c, root)
               rec == FoundRecord(c, me)
           IN  /\ rec \in Record(People) /\ rec.id = c /\ rec.epoch = 0
               /\ <<root>> \in Seq(ContentKeys) /\ TruthfulTo(rec, <<root>>)
               /\ g \in Grant /\ Len(g) = 1 /\ Leaf(g) = g[1]
               /\ Leaf(g).holder = me /\ Leaf(g).close = c
               /\ Leaf(g).facet = Content /\ Leaf(g).epoch = 0
               /\ SoundTo(g, rec) /\ LabelTrueTo(g[1], rec, <<root>>)
<1> DEFINE rec == FoundRecord(c, me)
           roots == <<root>>
<1>1. /\ rec \in Record(People) /\ rec.id = c /\ rec.epoch = 0 /\ rec.steward = me
      /\ rec.chain = <<>>
      BY DEF FoundRecord, Record
<1>2. roots \in Seq(ContentKeys) /\ Len(roots) = 1 /\ roots[1] = root
      OBVIOUS
<1>3. TruthfulTo(rec, roots)
      BY <1>1, <1>2 DEF TruthfulTo
<1>4. KeyAt(roots, c, Content, 0) = MintKey(root, c)
      BY <1>2 DEF KeyAt, FacetKey
<1>5. FoundingGrant(me, c, root) =
        IssueRoot(rec, rec.steward, KeyAt(roots, rec.id, Content, rec.epoch), rec.epoch,
                  me, Content, AllPowers, <<>>, Never)
      BY <1>1, <1>4 DEF FoundingGrant
<1>6. Content \in Facets /\ AllPowers \in SUBSET AllPowers /\ <<>> \in Seq(Names) /\ Never \in Expiry
      BY DEF Facets, Presence, Content, Expiry
<1>8. /\ rec.id \in Closes /\ rec.epoch \in Nat /\ Len(roots) = rec.epoch + 1
      /\ rec.steward \in People
      BY <1>1, <1>2
<1> HIDE DEF rec, roots
<1>7. RootTrue(FoundingGrant(me, c, root), rec, roots, me, Content, AllPowers, Never)
      BY <1>2, <1>5, <1>6, <1>8, IssueRootTrue
<1> QED BY <1>1, <1>2, <1>3, <1>7 DEF RootTrue, rec, roots

\* What a later record must keep for the grants filed before to stay true.
LEMMA FiledStaysTrue ==
    ASSUME NEW p, NEW g \in Grant, NEW cs, NEW ms, NEW cs2, NEW ms2,
           FiledTrue(p, g, cs, ms), DOMAIN cs \subseteq DOMAIN cs2,
           \A d \in DOMAIN cs :
              /\ cs2[d].steward = cs[d].steward
              /\ \A b \in Link : LabelTrueTo(b, cs[d], ms[d]) => LabelTrueTo(b, cs2[d], ms2[d])
    PROVE  FiledTrue(p, g, cs2, ms2)
<1>1. \A j \in 1..Len(g) : g[j] \in Link
      BY LeafOfGrant
<1>2. SoundTo(g, cs2[Leaf(g).close])
      BY DEF FiledTrue, SoundTo
<1>3. \A j \in 1..Len(g) :
         g[j].close \in DOMAIN cs2 /\ LabelTrueTo(g[j], cs2[g[j].close], ms2[g[j].close])
      BY <1>1 DEF FiledTrue
<1> QED BY <1>2, <1>3 DEF FiledTrue

\* Filing one more true grant.
LEMMA AppendFiled ==
    ASSUME NEW p, NEW gs \in Seq(Grant), NEW g \in Grant, NEW cs, NEW ms,
           \A i \in 1..Len(gs) : FiledTrue(p, gs[i], cs, ms),
           FiledTrue(p, g, cs, ms)
    PROVE  /\ Append(gs, g) \in Seq(Grant)
           /\ \A i \in 1..Len(Append(gs, g)) : FiledTrue(p, Append(gs, g)[i], cs, ms)
<1>1. /\ Append(gs, g) \in Seq(Grant) /\ Len(Append(gs, g)) = Len(gs) + 1 /\ Len(gs) \in Nat
      /\ \A i \in 1..Len(gs) : Append(gs, g)[i] = gs[i]
      /\ Append(gs, g)[Len(gs) + 1] = g
      OBVIOUS
<1>2. \A i \in 1..Len(Append(gs, g)) : i \in 1..Len(gs) \/ i = Len(gs) + 1
      BY <1>1
<1> QED BY <1>1, <1>2

-----------------------------------------------------------------------------
\* The invariant holds before anything is founded.
LEMMA InitIInv == Init => IInv
<1> SUFFICES ASSUME Init PROVE IInv
    OBVIOUS
<1> USE DrawerAssumption
<1>1. PICK root \in ContentKeys :
        /\ ids = {Founder}
        /\ closes = [c \in {Commons} |-> FoundRecord(c, Founder)]
        /\ grants = [p \in People |-> IF p = Founder
                                      THEN <<FoundingGrant(Founder, Commons, root)>>
                                      ELSE <<>>]
        /\ now = 0
        /\ minted = [c \in {Commons} |-> <<root>>]
      BY DEF Init
<1> DEFINE g == FoundingGrant(Founder, Commons, root)
           rec == FoundRecord(Commons, Founder)
<1>2. /\ rec \in Record(People) /\ rec.id = Commons
      /\ <<root>> \in Seq(ContentKeys) /\ TruthfulTo(rec, <<root>>)
      /\ g \in Grant /\ Len(g) = 1 /\ Leaf(g) = g[1]
      /\ Leaf(g).holder = Founder /\ Leaf(g).close = Commons
      /\ SoundTo(g, rec) /\ LabelTrueTo(g[1], rec, <<root>>)
      BY FoundingTrue
<1> HIDE DEF g, rec
<1>3. /\ DOMAIN closes = {Commons} /\ closes[Commons] = rec
      /\ DOMAIN minted = {Commons} /\ minted[Commons] = <<root>>
      BY <1>1 DEF rec
<1>4. \A p \in People : grants[p] = IF p = Founder THEN <<g>> ELSE <<>>
      BY <1>1 DEF g
<1>5. TypeOK
  <2>1. grants \in [People -> Seq(Grant)]
        BY <1>1, <1>2, <1>4
  <2> QED BY <1>1, <1>2, <1>3, <2>1 DEF TypeOK, Founded
<1>6. ChainTruthful
      BY <1>2, <1>3 DEF ChainTruthful, Founded
<1>7. GrantsTrue
  <2>1. g[1].close = Commons
        BY <1>2
  <2>2. FiledTrue(Founder, g, closes, minted)
        BY <1>2, <1>3, <2>1 DEF FiledTrue
  <2>3. ASSUME NEW p \in People, NEW i \in 1..Len(grants[p])
        PROVE  FiledTrue(p, grants[p][i], closes, minted)
    <3>1. CASE p = Founder
          BY <1>4, <2>2, <3>1
    <3>2. CASE p # Founder
          BY <1>4, <3>2
    <3> QED BY <3>1, <3>2
  <2> QED BY <2>3 DEF GrantsTrue
<1> QED BY <1>5, <1>6, <1>7 DEF IInv

\* What both forms of sharing do: file one more true grant, all of whose links
\* but the last were stored before, and nothing else.
Shared(with, g) ==
    /\ FiledTrue(with, g, closes, minted)
    /\ \A j \in 1..Len(g) : j = Len(g) \/ g[j] \in StoredLinks
    /\ grants' = [grants EXCEPT ![with] = Append(@, g)]
    /\ UNCHANGED <<ids, closes, now, minted>>

\* Adding a good grant keeps it.
LEMMA ShareIInv ==
    ASSUME IInv, NEW with \in People, NEW g \in Grant, Shared(with, g)
    PROVE  IInv'
<1> USE DEF Shared
<1>1. grants \in [People -> Seq(Grant)]
      BY DEF IInv, TypeOK
<1>2. \A p \in People : grants'[p] = IF p = with THEN Append(grants[p], g) ELSE grants[p]
      BY <1>1
<1>3. \A p \in People : /\ grants'[p] \in Seq(Grant)
                        /\ \A i \in 1..Len(grants'[p]) : FiledTrue(p, grants'[p][i], closes, minted)
  <2> TAKE p \in People
  <2>1. /\ grants[p] \in Seq(Grant)
        /\ \A i \in 1..Len(grants[p]) : FiledTrue(p, grants[p][i], closes, minted)
        BY <1>1 DEF IInv, GrantsTrue
  <2>2. CASE p = with
        BY <1>2, <2>1, <2>2, AppendFiled
  <2>3. CASE p # with
        BY <1>2, <2>1, <2>3
  <2> QED BY <2>2, <2>3
<1>4. grants' \in [People -> Seq(Grant)]
      BY <1>1, <1>3
<1>5. TypeOK'
      BY <1>4 DEF IInv, TypeOK, Founded
<1>6. ChainTruthful'
      BY DEF IInv, ChainTruthful, Founded
<1>7. GrantsTrue'
      BY <1>3 DEF GrantsTrue
<1> QED BY <1>5, <1>6, <1>7 DEF IInv

\* Protecting: one more close, and its founding grant.
LEMMA ProtectIInv ==
    ASSUME IInv, NEW me \in ids, NEW c \in Closes, Protect(me, c)
    PROVE  IInv'
<1>1. PICK root \in ContentKeys :
        /\ closes' = With(closes, c, FoundRecord(c, me))
        /\ grants' = [grants EXCEPT ![me] = Append(@, FoundingGrant(me, c, root))]
        /\ minted' = With(minted, c, <<root>>)
      BY DEF Protect
<1> DEFINE g == FoundingGrant(me, c, root)
           rec == FoundRecord(c, me)
<1>2. /\ me \in People /\ c \notin Founded /\ DOMAIN minted = Founded
      /\ ids' = ids /\ now' = now
      /\ grants \in [People -> Seq(Grant)]
      BY DEF IInv, TypeOK, Protect
<1>3. /\ rec \in Record(People) /\ rec.id = c
      /\ <<root>> \in Seq(ContentKeys) /\ TruthfulTo(rec, <<root>>)
      /\ g \in Grant /\ Len(g) = 1 /\ Leaf(g) = g[1]
      /\ Leaf(g).holder = me /\ Leaf(g).close = c
      /\ SoundTo(g, rec) /\ LabelTrueTo(g[1], rec, <<root>>)
      BY <1>2, FoundingTrue
<1>4. /\ DOMAIN closes' = Founded \cup {c} /\ closes'[c] = rec
      /\ DOMAIN minted' = Founded \cup {c} /\ minted'[c] = <<root>>
      /\ \A d \in Founded : closes'[d] = closes[d] /\ minted'[d] = minted[d]
      BY <1>1, <1>2 DEF With, Founded
<1>5. \A p \in People : grants'[p] = IF p = me THEN Append(grants[p], g) ELSE grants[p]
      BY <1>1, <1>2
<1> HIDE DEF g, rec
<1>6. FiledTrue(me, g, closes', minted')
  <2>1. g[1].close = c
        BY <1>3
  <2> QED BY <1>3, <1>4, <2>1 DEF FiledTrue
<1>7. ASSUME NEW p \in People
      PROVE  /\ grants'[p] \in Seq(Grant)
             /\ \A i \in 1..Len(grants'[p]) : FiledTrue(p, grants'[p][i], closes', minted')
  <2>1. grants[p] \in Seq(Grant) /\ \A i \in 1..Len(grants[p]) : grants[p][i] \in Grant
        BY GrantFacts DEF IInv
  <2>2. ASSUME NEW i \in 1..Len(grants[p])
        PROVE  FiledTrue(p, grants[p][i], closes', minted')
    <3>1. FiledTrue(p, grants[p][i], closes, minted)
          BY DEF IInv, GrantsTrue
    <3>2. grants[p][i] \in Grant
          BY <2>1
    <3>3. DOMAIN closes \subseteq DOMAIN closes'
          BY <1>4 DEF Founded
    <3>4. \A d \in DOMAIN closes :
             /\ closes'[d].steward = closes[d].steward
             /\ \A b \in Link :
                   LabelTrueTo(b, closes[d], minted[d]) => LabelTrueTo(b, closes'[d], minted'[d])
          BY <1>4 DEF Founded
    <3> QED BY <3>1, <3>2, <3>3, <3>4, FiledStaysTrue
  <2>3. CASE p = me
        BY <1>3, <1>5, <1>6, <2>1, <2>2, <2>3, AppendFiled
  <2>4. CASE p # me
        BY <1>5, <2>1, <2>2, <2>4
  <2> QED BY <2>3, <2>4
<1>8. grants' \in [People -> Seq(Grant)]
      BY <1>1, <1>2, <1>7
<1>9. TypeOK'
  <2>1. \A d \in Founded \cup {c} :
           d \in Closes /\ closes'[d] \in Record(People) /\ minted'[d] \in Seq(ContentKeys)
        BY <1>3, <1>4 DEF IInv, TypeOK
  <2> QED BY <1>2, <1>4, <1>8, <2>1 DEF IInv, TypeOK, Founded
<1>10. ChainTruthful'
  <2>1. \A d \in Founded : closes[d].id = d /\ TruthfulTo(closes[d], minted[d])
        BY DEF IInv, ChainTruthful
  <2>2. \A d \in Founded \cup {c} : closes'[d].id = d /\ TruthfulTo(closes'[d], minted'[d])
        BY <1>3, <1>4, <2>1
  <2> QED BY <1>4, <2>2 DEF ChainTruthful, Founded
<1>11. GrantsTrue'
       BY <1>7 DEF GrantsTrue
<1> QED BY <1>9, <1>10, <1>11 DEF IInv

\* The day after so many days is a day, or never.
LEMMA ExpiresAtType ==
    ASSUME now \in Nat, NEW days \in Expiry
    PROVE  ExpiresAt(days) \in Expiry
BY DEF ExpiresAt, Expiry, Never

\* A link handing on, of close c, no more than one grant that `me` holds.
GivenFrom(me, c, b) ==
    /\ b.close = c
    /\ \E i \in Held(me, c) : /\ b.facet <= Leaf(grants[me][i]).facet
                             /\ b.epoch <= Leaf(grants[me][i]).epoch

\* The steward's share adds one good grant, a root of its own.
LEMMA ShareAsStewardEffect ==
    ASSUME IInv, NEW me \in ids, NEW c \in Founded, NEW with \in Receivers,
           NEW facet \in ShareFacets, NEW powers \in SharePowers, NEW days \in ShareDays,
           ShareAsSteward(me, c, with, facet, powers, days)
    PROVE  with \in People /\ \E g \in Grant : Shared(with, g) /\ GivenFrom(me, c, Leaf(g))
<1> DEFINE g == IssueRoot(closes[c], me, CurrentKey(me, c), closes[c].epoch,
                          with, facet, powers, <<>>, ExpiresAt(days))
<1>1. /\ with \in People /\ facet \in Facets /\ powers \in SUBSET AllPowers
      /\ <<>> \in Seq(Names) /\ ExpiresAt(days) \in Expiry
      BY DrawerAssumption, ExpiresAtType DEF IInv, TypeOK
<1>2. /\ c \in Closes /\ closes[c].id = c /\ minted[c] \in Seq(ContentKeys)
      /\ closes[c].epoch \in Nat /\ Len(minted[c]) = closes[c].epoch + 1
      /\ closes[c].steward \in People
      BY CloseFacts DEF IInv
<1>3. /\ closes[c].steward = me
      /\ CurrentKey(me, c) = KeyAt(minted[c], closes[c].id, Content, closes[c].epoch)
      BY <1>2, CurrentKeyTrue DEF ShareAsSteward
<1>4. RootTrue(g, closes[c], minted[c], with, facet, powers, ExpiresAt(days))
      BY <1>1, <1>2, <1>3, IssueRootTrue
<1>5. /\ grants' = [grants EXCEPT ![with] = Append(@, g)]
      /\ UNCHANGED <<ids, closes, now, minted>>
      BY DEF ShareAsSteward
<1> HIDE DEF g
<1>6. g \in Grant /\ Len(g) = 1 /\ FiledTrue(with, g, closes, minted)
      BY <1>2, <1>4 DEF RootTrue, FiledTrue, Founded
<1>7. Shared(with, g)
      BY <1>5, <1>6 DEF Shared
<1>8. GivenFrom(me, c, Leaf(g))
  <2>1. Entitled(me, c, Content, closes[c].epoch)
    <3>1. closes[c].epoch \in 0..closes[c].epoch /\ Content \in Lanes
          BY <1>2 DEF Lanes
    <3> QED BY <3>1, KeyOfExact DEF ShareAsSteward, CurrentKey
  <2>2. PICK i \in 1..Len(grants[me]) :
           LET b == Leaf(grants[me][i])
           IN  b.close = c /\ b.facet >= Content /\ b.epoch >= closes[c].epoch /\ Alive(b.expires, now)
        BY <2>1 DEF Entitled
  <2>3. me \in People
        BY DEF IInv, TypeOK
  <2>4. i \in Held(me, c) /\ Leaf(grants[me][i]) \in Link
        BY <2>2, <2>3, HeldAlive, HeldBegun
  <2>5. Leaf(g).close = c /\ Leaf(g).facet = facet /\ Leaf(g).epoch = closes[c].epoch
        BY <1>2, <1>4 DEF RootTrue
  <2>6. facet <= Leaf(grants[me][i]).facet
        BY <1>1, <2>2, <2>4 DEF Link, Facets, Presence, Content
  <2> QED BY <1>2, <2>2, <2>4, <2>5, <2>6 DEF GivenFrom, Link
<1> QED BY <1>1, <1>6, <1>7, <1>8

\* Anybody else's adds one that continues a grant they hold.
LEMMA ShareOnwardEffect ==
    ASSUME IInv, NEW me \in ids, NEW c \in Founded, NEW with \in Receivers,
           NEW facet \in ShareFacets, NEW powers \in SharePowers, NEW days \in ShareDays,
           ShareOnward(me, c, with, facet, powers, days)
    PROVE  with \in People /\ \E g \in Grant : Shared(with, g) /\ GivenFrom(me, c, Leaf(g))
<1> DEFINE wide == WideEnough(me, c, facet, powers)
           mine == grants[me][First(wide)]
           tightened == Earlier(ExpiresAt(days), Leaf(mine).expires)
           prefix == Leaf(mine).prefix
           g == Attenuate(mine, me, closes[c], with, facet, powers, prefix, tightened)
<1>1. /\ with \in People /\ facet \in Facets /\ powers \in SUBSET AllPowers
      /\ ExpiresAt(days) \in Expiry /\ me \in People
      BY DrawerAssumption, ExpiresAtType DEF IInv, TypeOK
<1>2. /\ c \in Closes /\ closes[c].id = c /\ minted[c] \in Seq(ContentKeys)
      /\ closes[c].epoch \in Nat /\ Len(minted[c]) = closes[c].epoch + 1
      BY CloseFacts DEF IInv
<1>3. /\ MayAttenuate(mine, me, closes[c], facet, powers, prefix, tightened)
      /\ grants' = [grants EXCEPT ![with] = Append(@, g)]
      /\ UNCHANGED <<ids, closes, now, minted>>
      BY DEF ShareOnward
<1>4. First(wide) \in wide
  <2>1. wide # {}
        BY DEF ShareOnward
  <2>2. wide \subseteq 1..Len(grants[me]) /\ Len(grants[me]) \in Nat
        BY <1>1, HeldAlive, GrantFacts DEF WideEnough, IInv
  <2> HIDE DEF wide
  <2> QED BY <2>1, <2>2, FirstIn
<1>5. First(wide) \in 1..Len(grants[me]) /\ Leaf(mine).close = c
      BY <1>1, <1>4, HeldAlive DEF WideEnough
<1>6. mine \in Grant /\ FiledTrue(me, mine, closes, minted)
      BY <1>1, <1>5, GrantFacts DEF IInv, GrantsTrue
<1>13. \A j \in 1..Len(mine) : mine[j] \in StoredLinks
       BY <1>1, <1>5, StoredLink
<1> HIDE DEF wide, mine
<1>7. Len(mine) \in 1..Len(mine) /\ Leaf(mine) \in Link
      BY <1>6, LeafOfGrant
<1>8. /\ SoundTo(mine, closes[c])
      /\ LabelTrueTo(Leaf(mine), closes[c], minted[c])
      BY <1>5, <1>6, <1>7 DEF FiledTrue, Leaf
<1>9. prefix \in Seq(Names) /\ tightened \in Expiry
      BY <1>1, <1>7 DEF Link, Earlier
<1> HIDE DEF tightened, prefix
<1>10. ChildTrue(g, mine, closes[c], minted[c], with, facet, powers, tightened)
       BY <1>1, <1>2, <1>3, <1>6, <1>8, <1>9, AttenuateTrue
<1> HIDE DEF g
<1>11. /\ g \in Grant /\ FiledTrue(with, g, closes, minted)
       /\ \A j \in 1..Len(g) : j = Len(g) \/ g[j] \in StoredLinks
  <2>1. /\ g \in Grant /\ Len(g) = Len(mine) + 1 /\ Leaf(g) = g[Len(mine) + 1]
        /\ \A j \in 1..Len(mine) : g[j] = mine[j]
        /\ Leaf(g).holder = with /\ Leaf(g).close = c
        /\ SoundTo(g, closes[c]) /\ LabelTrueTo(Leaf(g), closes[c], minted[c])
        BY <1>2, <1>10 DEF ChildTrue
  <2>2. \A j \in 1..Len(g) : j \in 1..Len(mine) \/ j = Len(mine) + 1
        BY <1>7, <2>1
  <2>3. \A j \in 1..Len(mine) :
           mine[j].close \in DOMAIN closes
             /\ LabelTrueTo(mine[j], closes[mine[j].close], minted[mine[j].close])
        BY <1>6 DEF FiledTrue
  <2>4. FiledTrue(with, g, closes, minted)
        BY <2>1, <2>2, <2>3 DEF FiledTrue, Founded
  <2> QED BY <1>13, <2>1, <2>2, <2>4
<1>12. Shared(with, g)
       BY <1>3, <1>11 DEF Shared
<1>14. GivenFrom(me, c, Leaf(g))
  <2>1. /\ First(WideEnough(me, c, facet, powers)) \in Held(me, c)
        /\ mine = grants[me][First(WideEnough(me, c, facet, powers))]
        BY <1>4 DEF wide, mine, WideEnough
  <2>2. /\ Leaf(g).close = c /\ Leaf(g).facet = facet
        /\ Leaf(g).epoch = Leaf(mine).epoch /\ facet <= Leaf(mine).facet
        BY <1>2, <1>3, <1>10 DEF ChildTrue, MayAttenuate
  <2>3. Leaf(mine).epoch <= Leaf(mine).epoch
        BY <1>7 DEF Link
  <2> QED BY <2>1, <2>2, <2>3 DEF GivenFrom
<1> QED BY <1>1, <1>11, <1>12, <1>14

-----------------------------------------------------------------------------
\* What a keeper is re-issued is well formed.
LEMMA KeptFacts ==
    ASSUME IInv, NEW c \in Founded, NEW except, NEW p \in Keepers(c, except)
    PROVE  /\ p \in ids
           /\ BestFacet(p, c) \in Facets
           /\ \A i \in Held(p, c) : Leaf(grants[p][i]).facet <= BestFacet(p, c)
           /\ KeptPowers(p, c) \in SUBSET AllPowers
           /\ KeptExpiry(p, c) \in Expiry
<1> DEFINE T == {Leaf(grants[p][i]).facet : i \in Held(p, c)}
<1>1. p \in People /\ p \in ids /\ Held(p, c) # {}
      BY DEF Keepers, IInv, TypeOK
<1>2. Held(p, c) \subseteq 1..Len(grants[p]) /\ Len(grants[p]) \in Nat
      BY <1>1, HeldAlive, GrantFacts DEF IInv
<1>3. ASSUME NEW i \in Held(p, c) PROVE Leaf(grants[p][i]) \in Link
      BY <1>1, <1>2, HeldBegun
<1>4. T \subseteq 0..2 /\ T # {}
      BY <1>1, <1>3 DEF Link, Facets, Presence, Content
<1>5. \E f \in T : \A h \in T : h <= f
  <2> HIDE DEF T
  <2> QED BY <1>4, GreatestElement
<1>6. \E f \in Facets : /\ \E i \in Held(p, c) : Leaf(grants[p][i]).facet = f
                        /\ \A i \in Held(p, c) : Leaf(grants[p][i]).facet <= f
      BY <1>4, <1>5 DEF Facets, Presence, Content
<1>7. /\ BestFacet(p, c) \in Facets
      /\ \E i \in Held(p, c) : Leaf(grants[p][i]).facet = BestFacet(p, c)
      /\ \A i \in Held(p, c) : Leaf(grants[p][i]).facet <= BestFacet(p, c)
      BY <1>6 DEF BestFacet
<1>8. KeptPowers(p, c) \in SUBSET AllPowers
      BY <1>3 DEF KeptPowers, Link
<1>9. KeptExpiry(p, c) \in Expiry
  <2> DEFINE best == {i \in Held(p, c) : Leaf(grants[p][i]).facet = BestFacet(p, c)}
  <2>1. best # {} /\ best \subseteq 1..Len(grants[p])
        BY <1>2, <1>7
  <2>2. Last(best) \in best
    <3> HIDE DEF best
    <3> QED BY <1>2, <2>1, LastIn
  <2>3. Leaf(grants[p][Last(best)]).expires \in Expiry
        BY <1>3, <2>2 DEF Link
  <2> QED BY <2>3 DEF KeptExpiry
<1> QED BY <1>1, <1>7, <1>8, <1>9

\* The state after a rotation that drew `root`: the lock changed on
\* truthfully, and every keeper holds one more grant, true to the new record.
Rotated(c, except, root) ==
    /\ Fresh(root)
    /\ DOMAIN closes' = Founded /\ DOMAIN minted' = Founded
    /\ \A d \in Founded \ {c} : closes'[d] = closes[d] /\ minted'[d] = minted[d]
    /\ minted'[c] = Append(minted[c], root)
    /\ closes'[c] \in Record(People) /\ closes'[c].id = c
    /\ closes'[c].epoch = closes[c].epoch + 1 /\ closes'[c].steward = closes[c].steward
    /\ TruthfulTo(closes'[c], minted'[c])
    /\ \A p \in People \ Keepers(c, except) : grants'[p] = grants[p]
    /\ \A p \in Keepers(c, except) : \E g \in Grant :
          /\ grants'[p] = Append(grants[p], g)
          /\ RootTrue(g, closes'[c], minted'[c], p, BestFacet(p, c),
                      KeptPowers(p, c), KeptExpiry(p, c))
    /\ grants' = [p \in People |-> grants'[p]]
    /\ ids' = ids /\ now' = now

\* rotate advances the record under a fresh root and re-issues to its keepers.
LEMMA RotateEffect ==
    ASSUME IInv, NEW me \in ids, NEW c \in Founded, NEW except, Rotate(me, c, except)
    PROVE  \E root \in ContentKeys : Rotated(c, except, root)
<1> DEFINE current == CurrentKey(me, c)
           New(root) == RotateRecord(closes[c], current, MintKey(root, c))
           Reissue(root, p) == IssueRoot(New(root), me, MintKey(root, c), New(root).epoch, p,
                                         BestFacet(p, c), KeptPowers(p, c), <<>>, KeptExpiry(p, c))
<1>1. PICK root \in ContentKeys :
        /\ Fresh(root)
        /\ closes' = [closes EXCEPT ![c] = New(root)]
        /\ minted' = [minted EXCEPT ![c] = Append(@, root)]
        /\ grants' = [p \in People |-> IF p \in Keepers(c, except)
                                       THEN Append(grants[p], Reissue(root, p))
                                       ELSE grants[p]]
      BY DEF Rotate
<1>2. /\ c \in Closes /\ closes[c] \in Record(People) /\ closes[c].id = c
      /\ minted[c] \in Seq(ContentKeys)
      /\ closes[c].epoch \in Nat /\ Len(minted[c]) = closes[c].epoch + 1
      /\ TruthfulTo(closes[c], minted[c]) /\ DOMAIN minted = Founded
      BY CloseFacts DEF IInv, TypeOK
<1>3. /\ closes[c].steward = me /\ me \in People /\ ids' = ids /\ now' = now
      /\ current = KeyAt(minted[c], c, Content, closes[c].epoch)
      BY CurrentKeyTrue DEF Rotate, IInv, TypeOK
<1>4. current \in Key /\ MintKey(root, c) \in Key
  <2>1. Content \in Lanes /\ closes[c].epoch < Len(minted[c])
        BY <1>2 DEF Lanes
  <2> QED BY <1>2, <1>3, <2>1, KeyAtType, MintKeyType
<1> DEFINE new == New(root)
           roots == Append(minted[c], root)
<1>5. /\ new \in Record(People) /\ new.id = c /\ new.steward = me
      /\ new.epoch = closes[c].epoch + 1
      BY <1>2, <1>3, <1>4, RotateRecordFields
<1>6. TruthfulTo(new, roots)
      BY <1>2, <1>3, RotateTruthful
<1>7. /\ roots \in Seq(ContentKeys) /\ Len(roots) = new.epoch + 1
      /\ roots[new.epoch + 1] = root
      BY <1>2, <1>5
<1>8. KeyAt(roots, new.id, Content, new.epoch) = MintKey(root, c)
      BY <1>5, <1>7 DEF KeyAt, FacetKey
<1>9. /\ DOMAIN closes' = Founded /\ DOMAIN minted' = Founded
      /\ \A d \in Founded \ {c} : closes'[d] = closes[d] /\ minted'[d] = minted[d]
      /\ closes'[c] = new /\ minted'[c] = roots
      BY <1>1, <1>2 DEF Founded
<1> HIDE DEF new, roots, current, New
<1>10. ASSUME NEW p \in Keepers(c, except)
       PROVE  \E g \in Grant :
                /\ grants'[p] = Append(grants[p], g)
                /\ RootTrue(g, new, roots, p, BestFacet(p, c), KeptPowers(p, c), KeptExpiry(p, c))
  <2> DEFINE g == Reissue(root, p)
  <2>1. /\ p \in People /\ BestFacet(p, c) \in Facets /\ KeptPowers(p, c) \in SUBSET AllPowers
        /\ KeptExpiry(p, c) \in Expiry
        BY KeptFacts DEF IInv, TypeOK
  <2>2. new.id \in Closes /\ new.epoch \in Nat /\ new.steward \in People /\ <<>> \in Seq(Names)
        BY <1>2, <1>3, <1>5
  <2>3. g = IssueRoot(new, new.steward, KeyAt(roots, new.id, Content, new.epoch), new.epoch, p,
                      BestFacet(p, c), KeptPowers(p, c), <<>>, KeptExpiry(p, c))
        BY <1>5, <1>8 DEF new
  <2> HIDE DEF g
  <2>4. RootTrue(g, new, roots, p, BestFacet(p, c), KeptPowers(p, c), KeptExpiry(p, c))
        BY <1>7, <2>1, <2>2, <2>3, IssueRootTrue
  <2>5. grants'[p] = Append(grants[p], g)
        BY <1>1, <2>1 DEF g
  <2>6. g \in Grant
        BY <2>4 DEF RootTrue
  <2> QED BY <2>4, <2>5, <2>6
<1>11. \A p \in People \ Keepers(c, except) : grants'[p] = grants[p]
       BY <1>1
<1>12. grants' = [p \in People |-> grants'[p]]
       BY <1>1
<1>13. \A p \in Keepers(c, except) : \E g \in Grant :
          /\ grants'[p] = Append(grants[p], g)
          /\ RootTrue(g, closes'[c], minted'[c], p, BestFacet(p, c),
                      KeptPowers(p, c), KeptExpiry(p, c))
       BY <1>9, <1>10
<1>14. minted'[c] = Append(minted[c], root)
       BY <1>9 DEF roots
<1>15. Rotated(c, except, root)
       BY <1>1, <1>3, <1>5, <1>6, <1>9, <1>11, <1>12, <1>13, <1>14 DEF Rotated
<1> QED BY <1>15

\* That keeps the invariant.
LEMMA RotateIInv ==
    ASSUME IInv, NEW me \in ids, NEW c \in Founded, NEW except, Rotate(me, c, except)
    PROVE  IInv'
<1>1. PICK root \in ContentKeys : Rotated(c, except, root)
      BY RotateEffect
<1>2. /\ DOMAIN closes' = Founded /\ DOMAIN minted' = Founded
      /\ \A d \in Founded \ {c} : closes'[d] = closes[d] /\ minted'[d] = minted[d]
      /\ minted'[c] = Append(minted[c], root)
      /\ closes'[c] \in Record(People) /\ closes'[c].id = c
      /\ closes'[c].epoch = closes[c].epoch + 1 /\ closes'[c].steward = closes[c].steward
      /\ TruthfulTo(closes'[c], minted'[c])
      /\ \A p \in People \ Keepers(c, except) : grants'[p] = grants[p]
      /\ grants' = [p \in People |-> grants'[p]]
      /\ ids' = ids /\ now' = now
      BY <1>1 DEF Rotated
<1>3. /\ c \in Closes /\ closes[c].id = c /\ minted[c] \in Seq(ContentKeys)
      /\ closes[c].epoch \in Nat /\ Len(minted[c]) = closes[c].epoch + 1
      BY CloseFacts DEF IInv
<1>4. ASSUME NEW p \in People, NEW i \in 1..Len(grants[p])
      PROVE  FiledTrue(p, grants[p][i], closes', minted')
  <2>1. FiledTrue(p, grants[p][i], closes, minted)
        BY DEF IInv, GrantsTrue
  <2>2. grants[p][i] \in Grant
        BY GrantFacts DEF IInv
  <2>3. ASSUME NEW d \in DOMAIN closes
        PROVE  /\ closes'[d].steward = closes[d].steward
               /\ \A b \in Link :
                     LabelTrueTo(b, closes[d], minted[d]) => LabelTrueTo(b, closes'[d], minted'[d])
    <3>1. CASE d = c
      <4>1. root \in ContentKeys
            OBVIOUS
      <4>2. ASSUME NEW b \in Link, LabelTrueTo(b, closes[c], minted[c])
            PROVE  LabelTrueTo(b, closes'[c], Append(minted[c], root))
            BY <1>2, <1>3, <4>1, <4>2, LabelOutlivesRotation
      <4> QED BY <1>2, <3>1, <4>2
    <3>2. CASE d # c
          BY <1>2, <3>2 DEF Founded
    <3> QED BY <3>1, <3>2
  <2>4. DOMAIN closes \subseteq DOMAIN closes'
        BY <1>2 DEF Founded
  <2> QED BY <2>1, <2>2, <2>3, <2>4, FiledStaysTrue
<1>5. ASSUME NEW p \in People
      PROVE  /\ grants'[p] \in Seq(Grant)
             /\ \A i \in 1..Len(grants'[p]) : FiledTrue(p, grants'[p][i], closes', minted')
  <2>1. grants[p] \in Seq(Grant)
        BY GrantFacts DEF IInv
  <2>2. CASE p \in Keepers(c, except)
    <3>1. PICK g \in Grant :
            /\ grants'[p] = Append(grants[p], g)
            /\ RootTrue(g, closes'[c], minted'[c], p, BestFacet(p, c),
                        KeptPowers(p, c), KeptExpiry(p, c))
          BY <1>1, <2>2 DEF Rotated
    <3>2. /\ Leaf(g).holder = p /\ Leaf(g).close = c /\ Len(g) = 1 /\ g[1].close = c
          /\ SoundTo(g, closes'[c]) /\ LabelTrueTo(g[1], closes'[c], minted'[c])
          BY <1>2, <3>1 DEF RootTrue
    <3>3. c \in DOMAIN closes'
          BY <1>2
    <3>4. \A j \in 1..Len(g) : j = 1
          BY <3>2
    <3>5. FiledTrue(p, g, closes', minted')
          BY <3>2, <3>3, <3>4 DEF FiledTrue
    <3> QED BY <1>4, <2>1, <3>1, <3>5, AppendFiled
  <2>3. CASE p \notin Keepers(c, except)
        BY <1>2, <1>4, <2>1, <2>3
  <2> QED BY <2>2, <2>3
<1>6. grants' \in [People -> Seq(Grant)]
      BY <1>2, <1>5
<1>7. TypeOK'
  <2>1. \A d \in Founded :
           d \in Closes /\ closes[d] \in Record(People) /\ minted[d] \in Seq(ContentKeys)
        BY DEF IInv, TypeOK
  <2>2. minted'[c] \in Seq(ContentKeys)
        BY <1>2, <1>3
  <2>3. \A d \in Founded : closes'[d] \in Record(People) /\ minted'[d] \in Seq(ContentKeys)
        BY <1>2, <2>1, <2>2
  <2> QED BY <1>2, <1>6, <2>1, <2>3 DEF IInv, TypeOK, Founded
<1>8. ChainTruthful'
  <2>1. \A d \in Founded : closes[d].id = d /\ TruthfulTo(closes[d], minted[d])
        BY DEF IInv, ChainTruthful
  <2>2. \A d \in Founded : closes'[d].id = d /\ TruthfulTo(closes'[d], minted'[d])
        BY <1>2, <2>1
  <2> QED BY <1>2, <2>2 DEF ChainTruthful, Founded
<1>9. GrantsTrue'
      BY <1>5 DEF GrantsTrue
<1> QED BY <1>7, <1>8, <1>9 DEF IInv

\* Steps that leave locks and grants alone.
LEMMA QuietIInv ==
    ASSUME IInv, UNCHANGED <<closes, grants, minted>>, ids' \subseteq People, now' \in Nat
    PROVE  IInv'
<1>1. TypeOK'
      BY DEF IInv, TypeOK, Founded
<1>2. ChainTruthful'
      BY DEF IInv, ChainTruthful, Founded
<1>3. GrantsTrue'
      BY DEF IInv, GrantsTrue
<1> QED BY <1>1, <1>2, <1>3 DEF IInv

\* Every step preserves it.
LEMMA NextIInv == IInv /\ [Next]_vars => IInv'
<1> SUFFICES ASSUME IInv, [Next]_vars PROVE IInv'
    OBVIOUS
<1>0. ids \subseteq People /\ now \in Nat
      BY DEF IInv, TypeOK
<1>1. CASE \E name \in People : NewIdentity(name)
  <2>1. UNCHANGED <<closes, grants, minted>> /\ ids' \subseteq People /\ now' \in Nat
        BY <1>0, <1>1 DEF NewIdentity
  <2> QED BY <2>1, QuietIInv
<1>2. CASE \E me \in People, c \in Closes : Protect(me, c)
  <2>1. PICK me \in People, c \in Closes : Protect(me, c)
        BY <1>2
  <2>2. me \in ids
        BY <2>1 DEF Protect
  <2> QED BY <2>1, <2>2, ProtectIInv
<1>3. CASE \E me \in ids, c \in Founded, with \in Receivers, facet \in ShareFacets,
              powers \in SharePowers, days \in ShareDays :
              ShareAsSteward(me, c, with, facet, powers, days)
      BY <1>3, ShareAsStewardEffect, ShareIInv
<1>4. CASE \E me \in ids, c \in Founded, with \in Receivers, facet \in ShareFacets,
              powers \in SharePowers, days \in ShareDays :
              ShareOnward(me, c, with, facet, powers, days)
      BY <1>4, ShareOnwardEffect, ShareIInv
<1>5. CASE \E me \in ids, c \in Founded, except \in SUBSET Excludable : Rotate(me, c, except)
      BY <1>5, RotateIInv
<1>6. CASE Tick
  <2>1. UNCHANGED <<closes, grants, minted>> /\ ids' \subseteq People /\ now' \in Nat
        BY <1>0, <1>6 DEF Tick
  <2> QED BY <2>1, QuietIInv
<1>7. CASE UNCHANGED vars
  <2>1. UNCHANGED <<closes, grants, minted>> /\ ids' \subseteq People /\ now' \in Nat
        BY <1>0, <1>7 DEF vars
  <2> QED BY <2>1, QuietIInv
<1> QED BY <1>1, <1>2, <1>3, <1>4, <1>5, <1>6, <1>7 DEF Next

\* Every reachable state satisfies the inductive invariant.
THEOREM Invariance == Spec => []IInv
BY InitIInv, NextIInv, PTL DEF Spec

-----------------------------------------------------------------------------
\* Every variable keeps its type: what `share`, `rotate` and the rest write is
\* always a well-formed record, grant and key.
THEOREM TypeCorrect == Spec => []TypeOK
<1>1. IInv => TypeOK
      BY DEF IInv
<1> QED BY Invariance, <1>1, PTL

\* CloseRecord::rotate keeps the public chain truthful: link i holds the keys
\* of epoch i - 1 under those of epoch i, for every close and any number of
\* rotations.
THEOREM ChainsTellTheTruth == Spec => []ChainTruthful
<1>1. IInv => ChainTruthful
      BY DEF IInv
<1> QED BY Invariance, <1>1, PTL

\* The key inside every link of every grant is the key its label names,
\* whether founded, shared, passed on or re-issued.
THEOREM LabelsTellTheTruth == Spec => []LabelsTruthful
<1>1. IInv => LabelsTruthful
  <2> SUFFICES ASSUME IInv, NEW b \in StoredLinks
               PROVE  b.close \in Founded /\ LabelTrueTo(b, closes[b.close], minted[b.close])
      BY DEF LabelsTruthful
  <2>3. PICK p \in People : \E i \in 1..Len(grants[p]) : \E j \in 1..Len(grants[p][i]) :
                               b = grants[p][i][j]
        BY LinkStored
  <2>1. PICK i \in 1..Len(grants[p]) : \E j \in 1..Len(grants[p][i]) : b = grants[p][i][j]
        BY <2>3
  <2>5. PICK j \in 1..Len(grants[p][i]) : b = grants[p][i][j]
        BY <2>1
  <2>4. FiledTrue(p, grants[p][i], closes, minted)
        BY DEF IInv, GrantsTrue
  <2> QED BY <2>5, <2>4 DEF FiledTrue, Founded
<1> QED BY Invariance, <1>1, PTL

\* No command writes a grant that Grant::verify refuses before the day the
\* grant itself names, however long its chain of parents.
THEOREM GrantsVerify == Spec => []StoredGrantsVerify
<1>1. IInv => StoredGrantsVerify
  <2> SUFFICES ASSUME IInv, NEW p \in People, NEW i \in 1..Len(grants[p])
               PROVE  LET g == grants[p][i]
                      IN  /\ Leaf(g).holder = p
                          /\ Leaf(g).close \in Founded
                          /\ Alive(Leaf(g).expires, now) => Verify(g, closes[Leaf(g).close], now)
      BY DEF StoredGrantsVerify
  <2>1. grants[p][i] \in Grant /\ now \in Nat
        BY GrantFacts DEF IInv, TypeOK
  <2>2. FiledTrue(p, grants[p][i], closes, minted)
        BY DEF IInv, GrantsTrue
  <2> QED BY <2>1, <2>2, SoundVerifies DEF FiledTrue, Founded
<1> QED BY Invariance, <1>1, PTL

\* facet_key_for is exact: it finds the true key of a facet at an epoch for
\* whoever has a live grant covering both, and no key for anyone else.
THEOREM KeysAreExact == Spec => []KeysExactlyByGrant
<1>1. IInv => KeysExactlyByGrant
      BY KeyOfExact DEF KeysExactlyByGrant
<1> QED BY Invariance, <1>1, PTL

-----------------------------------------------------------------------------
\* facet_key_for in any state of the invariant, so that it can be used of the
\* state after a step as well.
KeysExact ==
    \A p \in ids, c \in Founded, facet \in Lanes : \A epoch \in 0..closes[c].epoch :
        FacetKeyFor(grants[p], p, closes[c], facet, epoch, now) =
            IF Entitled(p, c, facet, epoch) THEN EpochKey(c, facet, epoch) ELSE NoKey

\* The keys that people find are those their grants entitle them to.
LEMMA KeysExactHolds == IInv => KeysExact
BY KeyOfExact DEF KeysExact, KeyOf

\* The same of the state after a step.
LEMMA KeysExactAfter == IInv' => KeysExact'
<1>1. IInv => KeysExact
      BY KeysExactHolds
<1> QED BY <1>1, PTL

\* Nothing is ever taken back: people, closes, roots and grants only grow.
Grows ==
    /\ ids \subseteq ids' /\ Founded \subseteq Founded'
    /\ \A c \in Founded :
          /\ closes'[c].epoch >= closes[c].epoch
          /\ \A i \in 1..Len(minted[c]) : minted'[c][i] = minted[c][i]
    /\ \A p \in People : \A i \in 1..Len(grants[p]) :
          i \in 1..Len(grants'[p]) /\ grants'[p][i] = grants[p][i]

\* A close that a step leaves alone does not go back: its epoch is a number.
LEMMA EpochsOrdered ==
    ASSUME IInv
    PROVE  \A c \in Founded : closes[c].epoch >= closes[c].epoch
<1>1. \A c \in Founded : closes[c].epoch \in Nat
      BY CloseFacts DEF IInv
<1> QED BY <1>1

\* Sharing adds one grant to those of `with`.
LEMMA ShareGrows ==
    ASSUME IInv, NEW with \in People, NEW g \in Grant, Shared(with, g)
    PROVE  Grows
<1> USE DEF Shared
<1>1. ASSUME NEW p \in People, NEW i \in 1..Len(grants[p])
      PROVE  i \in 1..Len(grants'[p]) /\ grants'[p][i] = grants[p][i]
  <2>1. grants \in [People -> Seq(Grant)] /\ grants[p] \in Seq(Grant)
        BY DEF IInv, TypeOK
  <2>2. CASE p = with
    <3>1. grants'[p] = Append(grants[p], g)
          BY <2>1, <2>2
    <3> QED BY <2>1, <3>1, GrownByAppend
  <2>3. CASE p # with
        BY <2>1, <2>3
  <2> QED BY <2>2, <2>3
<1> QED BY <1>1, EpochsOrdered DEF Grows, Founded

\* Founding a close takes nothing away.
LEMMA ProtectGrows ==
    ASSUME IInv, NEW me \in ids, NEW c \in Closes, Protect(me, c)
    PROVE  Grows
<1>1. PICK root \in ContentKeys :
        /\ closes' = With(closes, c, FoundRecord(c, me))
        /\ grants' = [grants EXCEPT ![me] = Append(@, FoundingGrant(me, c, root))]
        /\ minted' = With(minted, c, <<root>>)
      BY DEF Protect
<1>2. /\ me \in People /\ c \notin Founded /\ DOMAIN minted = Founded /\ ids' = ids
      /\ grants \in [People -> Seq(Grant)]
      BY DEF IInv, TypeOK, Protect
<1>3. FoundingGrant(me, c, root) \in Grant
      BY <1>2, FoundingTrue
<1>4. /\ Founded \subseteq Founded'
      /\ \A d \in Founded : closes'[d] = closes[d] /\ minted'[d] = minted[d]
      BY <1>1, <1>2 DEF With, Founded
<1>5. ASSUME NEW p \in People, NEW i \in 1..Len(grants[p])
      PROVE  i \in 1..Len(grants'[p]) /\ grants'[p][i] = grants[p][i]
  <2>1. grants[p] \in Seq(Grant)
        BY <1>2
  <2>2. CASE p = me
    <3>1. grants'[p] = Append(grants[p], FoundingGrant(me, c, root))
          BY <1>1, <1>2, <2>2
    <3> QED BY <1>3, <2>1, <3>1, GrownByAppend
  <2>3. CASE p # me
    <3>1. grants'[p] = grants[p]
          BY <1>1, <1>2, <2>3
    <3> QED BY <3>1
  <2> QED BY <2>2, <2>3
<1> QED BY <1>2, <1>4, <1>5, EpochsOrdered DEF Grows

\* Nor does a rotation,
LEMMA RotateGrows ==
    ASSUME IInv, NEW c \in Founded, NEW except, NEW root \in ContentKeys, Rotated(c, except, root)
    PROVE  Grows
<1>1. /\ Founded' = Founded /\ ids' = ids
      /\ \A d \in Founded \ {c} : closes'[d] = closes[d] /\ minted'[d] = minted[d]
      /\ minted'[c] = Append(minted[c], root) /\ closes'[c].epoch = closes[c].epoch + 1
      BY DEF Rotated, Founded
<1>2. minted[c] \in Seq(ContentKeys) /\ closes[c].epoch \in Nat
      BY CloseFacts DEF IInv
<1>3. ASSUME NEW d \in Founded
      PROVE  /\ closes'[d].epoch >= closes[d].epoch
             /\ \A i \in 1..Len(minted[d]) : minted'[d][i] = minted[d][i]
  <2>1. CASE d = c
    <3>1. \A i \in 1..Len(minted[c]) : Append(minted[c], root)[i] = minted[c][i]
          BY <1>2, GrownByAppend
    <3> QED BY <1>1, <1>2, <2>1, <3>1
  <2>2. CASE d # c
        BY <1>1, <2>2, EpochsOrdered
  <2> QED BY <2>1, <2>2
<1>4. ASSUME NEW p \in People, NEW i \in 1..Len(grants[p])
      PROVE  i \in 1..Len(grants'[p]) /\ grants'[p][i] = grants[p][i]
  <2>1. grants[p] \in Seq(Grant)
        BY GrantFacts DEF IInv
  <2>2. CASE p \in Keepers(c, except)
    <3>1. PICK g \in Grant : grants'[p] = Append(grants[p], g)
          BY <2>2 DEF Rotated
    <3> QED BY <2>1, <3>1, GrownByAppend
  <2>3. CASE p \notin Keepers(c, except)
        BY <2>3 DEF Rotated
  <2> QED BY <2>2, <2>3
<1> QED BY <1>1, <1>3, <1>4 DEF Grows

\* nor a step that writes no file.
LEMMA QuietGrows ==
    ASSUME IInv, UNCHANGED <<closes, grants, minted>>, ids \subseteq ids'
    PROVE  Grows
BY EpochsOrdered DEF Grows, Founded

\* No step removes a close, a grant, a root or an identity.
LEMMA NextGrows == IInv /\ [Next]_vars => Grows
<1> SUFFICES ASSUME IInv, [Next]_vars PROVE Grows
    OBVIOUS
<1>1. CASE \E name \in People : NewIdentity(name)
      BY <1>1, QuietGrows DEF NewIdentity
<1>2. CASE \E me \in People, c \in Closes : Protect(me, c)
  <2>1. PICK me \in People, c \in Closes : Protect(me, c)
        BY <1>2
  <2>2. me \in ids
        BY <2>1 DEF Protect
  <2> QED BY <2>1, <2>2, ProtectGrows
<1>3. CASE \E me \in ids, c \in Founded, with \in Receivers, facet \in ShareFacets,
              powers \in SharePowers, days \in ShareDays :
              ShareAsSteward(me, c, with, facet, powers, days)
      BY <1>3, ShareAsStewardEffect, ShareGrows
<1>4. CASE \E me \in ids, c \in Founded, with \in Receivers, facet \in ShareFacets,
              powers \in SharePowers, days \in ShareDays :
              ShareOnward(me, c, with, facet, powers, days)
      BY <1>4, ShareOnwardEffect, ShareGrows
<1>5. CASE \E me \in ids, c \in Founded, except \in SUBSET Excludable : Rotate(me, c, except)
      BY <1>5, RotateEffect, RotateGrows
<1>6. CASE Tick
      BY <1>6, QuietGrows DEF Tick
<1>7. CASE UNCHANGED vars
      BY <1>7, QuietGrows DEF vars
<1> QED BY <1>1, <1>2, <1>3, <1>4, <1>5, <1>6, <1>7 DEF Next

\* A close keeps its steward.
LEMMA StewardsStay ==
    ASSUME IInv, [Next]_vars, NEW c \in Founded
    PROVE  closes'[c].steward = closes[c].steward
<1>1. CASE \E me \in People, d \in Closes : Protect(me, d)
      BY <1>1 DEF Protect, With, Founded
<1>2. CASE \E me \in ids, d \in Founded, except \in SUBSET Excludable : Rotate(me, d, except)
  <2>1. PICK me \in ids, d \in Founded, except \in SUBSET Excludable : Rotate(me, d, except)
        BY <1>2
  <2>2. PICK root \in ContentKeys : Rotated(d, except, root)
        BY <2>1, RotateEffect
  <2> QED BY <2>2 DEF Rotated
<1>3. CASE closes' = closes
      BY <1>3
<1> QED BY <1>1, <1>2, <1>3 DEF Next, vars, NewIdentity, ShareAsSteward, ShareOnward, Tick

\* The keys of the epochs there were stay what they are.
LEMMA EpochKeysStay ==
    ASSUME IInv, [Next]_vars, NEW c \in Founded
    PROVE  /\ c \in Founded' /\ closes[c].epoch \in Nat /\ closes'[c].epoch \in Nat
           /\ closes[c].epoch <= closes'[c].epoch
           /\ \A facet, e : e \in 0..closes[c].epoch => EpochKey(c, facet, e)' = EpochKey(c, facet, e)
<1>1. Grows /\ IInv'
      BY NextGrows, NextIInv
<1>2. closes[c].epoch \in Nat /\ Len(minted[c]) = closes[c].epoch + 1
      BY CloseFacts DEF IInv
<1>3. c \in Founded' /\ closes'[c] \in Record(People)
      BY <1>1 DEF Grows, IInv, TypeOK
<1>4. closes'[c].epoch \in Nat /\ closes[c].epoch <= closes'[c].epoch
      BY <1>1, <1>2, <1>3 DEF Grows, Record
<1>5. ASSUME NEW facet, NEW e \in 0..closes[c].epoch
      PROVE  EpochKey(c, facet, e)' = EpochKey(c, facet, e)
  <2>1. e + 1 \in 1..Len(minted[c])
        BY <1>2
  <2>2. minted'[c][e + 1] = minted[c][e + 1]
        BY <1>1, <2>1 DEF Grows
  <2> QED BY <2>2 DEF EpochKey, KeyAt
<1> QED BY <1>2, <1>3, <1>4, <1>5

\* The keys found after a step, by what the grants entitle to after it.
LEMMA KeyAfterExact ==
    ASSUME IInv, [Next]_vars, NEW p \in ids, NEW c \in Founded, NEW facet \in Lanes,
           NEW epoch \in 0..closes'[c].epoch
    PROVE  KeyAfter(p, c, facet, epoch) =
             IF Entitled(p, c, facet, epoch)' THEN EpochKey(c, facet, epoch)' ELSE NoKey
<1>1. KeysExact'
      BY NextIInv, KeysExactAfter
<1>2. p \in ids' /\ c \in Founded'
      BY NextGrows DEF Grows
<1> QED BY <1>1, <1>2 DEF KeysExact, KeyAfter

\* "Locks are not time machines": short of a grant running out, no command
\* takes a key away from anyone.  New records keep every old link and grants
\* are only added.
THEOREM PastKeysStay == Spec => PastStaysReadable
<1>1. ASSUME IInv, [Next]_vars, now' = now,
             NEW p \in ids, NEW c \in Founded, NEW facet \in Lanes,
             NEW epoch \in 0..closes[c].epoch, KeyOf(p, c, facet, epoch) # NoKey
      PROVE  KeyAfter(p, c, facet, epoch) = KeyOf(p, c, facet, epoch)
  <2> USE <1>1
  <2>1. Grows /\ p \in People
        BY NextGrows DEF IInv, TypeOK
  <2>2. Entitled(p, c, facet, epoch) /\ KeyOf(p, c, facet, epoch) = EpochKey(c, facet, epoch)
        BY KeyOfExact
  <2>3. /\ closes[c].epoch \in Nat /\ minted[c] \in Seq(ContentKeys)
        /\ Len(minted[c]) = closes[c].epoch + 1
        BY CloseFacts DEF IInv
  <2>4. Entitled(p, c, facet, epoch)'
    <3>1. PICK i \in 1..Len(grants[p]) :
            LET b == Leaf(grants[p][i])
            IN  b.close = c /\ b.facet >= facet /\ b.epoch >= epoch /\ Alive(b.expires, now)
          BY <2>2 DEF Entitled
    <3>2. i \in 1..Len(grants'[p]) /\ grants'[p][i] = grants[p][i]
          BY <2>1, <3>1 DEF Grows
    <3> QED BY <3>1, <3>2 DEF Entitled
  <2>5. EpochKey(c, facet, epoch)' = EpochKey(c, facet, epoch)
    <3>1. epoch + 1 \in 1..Len(minted[c])
          BY <2>3
    <3>2. minted'[c][epoch + 1] = minted[c][epoch + 1]
          BY <2>1, <3>1 DEF Grows
    <3> QED BY <3>2 DEF EpochKey, KeyAt
  <2>6. epoch \in 0..closes'[c].epoch
    <3>1. closes'[c].epoch >= closes[c].epoch /\ closes'[c].epoch \in Int
      <4>1. TypeOK' /\ c \in Founded'
            BY <2>1, NextIInv DEF IInv, Grows
      <4>2. closes'[c] \in Record(People)
            BY <4>1 DEF TypeOK
      <4> QED BY <2>1, <4>2 DEF Grows, Record
    <3> QED BY <2>3, <3>1
  <2> QED BY <2>2, <2>4, <2>5, <2>6, KeyAfterExact
<1>2. IInv /\ [Next]_vars =>
        [now' = now =>
           \A p \in ids, c \in Founded, facet \in Lanes :
              \A epoch \in 0..closes[c].epoch :
                 KeyOf(p, c, facet, epoch) # NoKey =>
                    KeyAfter(p, c, facet, epoch) = KeyOf(p, c, facet, epoch)]_vars
      BY <1>1
<1> QED BY Invariance, <1>2, PTL DEF Spec, PastStaysReadable

\* "Whoever is left out keeps only the past": a person to whom a lock change
\* adds no grant reaches no key of the new epoch.
THEOREM LeftOutReadNothingNew == Spec => LeftOutGetNoNewKey
<1>1. ASSUME IInv, [Next]_vars, NEW p \in ids, NEW c \in Founded, NEW facet \in Lanes,
             LockChanged(c), grants'[p] = grants[p]
      PROVE  KeyAfter(p, c, facet, closes'[c].epoch) = NoKey
  <2> USE <1>1
  <2>1. p \in People /\ c \in Founded' /\ IInv'
        BY NextGrows, NextIInv DEF IInv, TypeOK, Grows
  <2>2. closes'[c].epoch \in Nat /\ closes[c].epoch \in Nat
    <3>1. closes'[c] \in Record(People)
          BY <2>1 DEF IInv, TypeOK
    <3> QED BY <3>1, CloseFacts DEF IInv, Record
  <2>3. closes'[c].epoch \in 0..closes'[c].epoch
        BY <2>2
  <2>8. PICK e \in 0..closes'[c].epoch : e = closes'[c].epoch
        BY <2>3
  <2>4. ASSUME NEW i \in 1..Len(grants'[p]), Leaf(grants'[p][i]).close = c,
               Leaf(grants'[p][i]).epoch >= e
        PROVE  FALSE
    <3>1. i \in 1..Len(grants[p]) /\ Leaf(grants[p][i]).close = c /\ Leaf(grants[p][i]).epoch >= e
          BY <2>4
    <3>2. Leaf(grants[p][i]).epoch <= closes[c].epoch /\ Leaf(grants[p][i]).epoch \in Nat
          BY <2>1, <3>1, HeldBegun DEF Link
    <3>3. e > closes[c].epoch
          BY <2>8 DEF LockChanged
    <3> QED BY <2>2, <2>8, <3>1, <3>2, <3>3
  <2> DEFINE some == \E i \in 1..Len(grants'[p]) :
                        LET b == Leaf(grants'[p][i])
                        IN  /\ b.close = c /\ b.facet >= facet /\ b.epoch >= e
                            /\ Alive(b.expires, now')
  <2>5. ~ some
        BY <2>4
  <2>6. Entitled(p, c, facet, e)' <=> some
        BY DEF Entitled
  <2>7. KeyAfter(p, c, facet, e) =
          IF Entitled(p, c, facet, e)' THEN EpochKey(c, facet, e)' ELSE NoKey
        BY KeyAfterExact
  <2> HIDE DEF some
  <2> QED BY <2>5, <2>6, <2>7, <2>8
<1>2. IInv /\ [Next]_vars =>
        [\A p \in ids, c \in Founded, facet \in Lanes :
            LockChanged(c) /\ grants'[p] = grants[p] =>
                KeyAfter(p, c, facet, closes'[c].epoch) = NoKey]_vars
      BY <1>1
<1> QED BY Invariance, <1>2, PTL DEF Spec, LeftOutGetNoNewKey

-----------------------------------------------------------------------------
\* What holding every key ever handed out amounts to.

\* No close drew the same root twice.
RootsDistinct ==
    \A c \in Founded : \A i, j \in 1..Len(minted[c]) : minted[c][i] = minted[c][j] => i = j

\* Whoever a stored link was ever sealed to was granted that much: the grants
\* that others extended are on file with those they were made for.
HoldersHold ==
    \A b \in StoredLinks : GrantedEver(b.holder, b.close, b.facet, b.epoch)

HInv == IInv /\ RootsDistinct /\ HoldersHold

\* What has been granted at some time stays so.
LEMMA GrantedEverGrows ==
    ASSUME Grows, NEW p \in People, NEW c, NEW facet, NEW epoch, GrantedEver(p, c, facet, epoch)
    PROVE  GrantedEver(p, c, facet, epoch)'
<1>1. PICK i \in 1..Len(grants[p]) :
        LET b == Leaf(grants[p][i]) IN b.close = c /\ b.facet >= facet /\ b.epoch >= epoch
      BY DEF GrantedEver
<1>2. i \in 1..Len(grants'[p]) /\ grants'[p][i] = grants[p][i]
      BY <1>1 DEF Grows
<1> QED BY <1>1, <1>2 DEF GrantedEver

\* A stored link is well formed and truthful.
LEMMA StoredTrue ==
    ASSUME IInv, NEW b \in StoredLinks
    PROVE  b \in Link /\ b.close \in Founded /\ LabelTrueTo(b, closes[b.close], minted[b.close])
<1>1. PICK p \in People : \E i \in 1..Len(grants[p]) : \E j \in 1..Len(grants[p][i]) :
                             b = grants[p][i][j]
      BY LinkStored
<1>2. PICK i \in 1..Len(grants[p]) : \E j \in 1..Len(grants[p][i]) : b = grants[p][i][j]
      BY <1>1
<1>3. PICK j \in 1..Len(grants[p][i]) : b = grants[p][i][j]
      BY <1>2
<1>4. grants[p][i] \in Grant /\ FiledTrue(p, grants[p][i], closes, minted)
      BY GrantFacts DEF IInv, GrantsTrue
<1> QED BY <1>3, <1>4, LeafOfGrant DEF FiledTrue, Founded

\* A stored grant's holder was granted what its leaf says; every stored link
\* sits in some grant; stated of states, to be used of either end of a step.
LeavesGranted ==
    \A p \in People : \A i \in 1..Len(grants[p]) :
        LET b == Leaf(grants[p][i])
        IN  b.holder = p /\ GrantedEver(p, b.close, b.facet, b.epoch)

LinksFiled ==
    \A b \in StoredLinks : \E p \in People : \E i \in 1..Len(grants[p]) :
        \E j \in 1..Len(grants[p][i]) : b = grants[p][i][j]

\* Every grant a person has was granted to that person, and every stored link
\* is one of a grant that somebody has.
LEMMA LeavesGrantedHolds == IInv => LeavesGranted /\ LinksFiled
<1>1. ASSUME IInv, NEW p \in People, NEW i \in 1..Len(grants[p])
      PROVE  LET b == Leaf(grants[p][i])
             IN  b.holder = p /\ GrantedEver(p, b.close, b.facet, b.epoch)
  <2> DEFINE b == Leaf(grants[p][i])
  <2>1. b \in Link
        BY <1>1, HeldBegun
  <2>2. b.facet >= b.facet /\ b.epoch >= b.epoch
        BY <2>1 DEF Link, Facets, Presence, Content
  <2>3. b.holder = p
        BY <1>1 DEF IInv, GrantsTrue, FiledTrue
  <2> QED BY <2>2, <2>3 DEF GrantedEver
<1> QED BY <1>1, LinkStored DEF LeavesGranted, LinksFiled

\* The same of the state after a step.
LEMMA LeavesGrantedAfter == IInv' => LeavesGranted' /\ LinksFiled'
<1>1. IInv => LeavesGranted /\ LinksFiled
      BY LeavesGrantedHolds
<1> QED BY <1>1, PTL

\* A grant written by the step extends links that were stored before it.
NewLinksKnown ==
    \A p \in People : \A i \in 1..Len(grants'[p]) :
        \/ i \in 1..Len(grants[p])
        \/ \A j \in 1..Len(grants'[p][i]) :
              j = Len(grants'[p][i]) \/ grants'[p][i][j] \in StoredLinks

\* Appending a grant whose other links are stored brings one new link.
LEMMA AppendKnown ==
    ASSUME NEW gs \in Seq(Grant), NEW g \in Grant,
           \A j \in 1..Len(g) : j = Len(g) \/ g[j] \in StoredLinks
    PROVE  \A i \in 1..Len(Append(gs, g)) :
             \/ i \in 1..Len(gs)
             \/ \A j \in 1..Len(Append(gs, g)[i]) :
                   j = Len(Append(gs, g)[i]) \/ Append(gs, g)[i][j] \in StoredLinks
<1>1. \A i \in 1..Len(Append(gs, g)) : i \in 1..Len(gs) \/ Append(gs, g)[i] = g
      OBVIOUS
<1> QED BY <1>1

\* share brings one new link,
LEMMA SharedKnown ==
    ASSUME IInv, NEW with \in People, NEW g \in Grant, Shared(with, g)
    PROVE  NewLinksKnown
<1>1. ASSUME NEW p \in People
      PROVE  \A i \in 1..Len(grants'[p]) :
               \/ i \in 1..Len(grants[p])
               \/ \A j \in 1..Len(grants'[p][i]) :
                     j = Len(grants'[p][i]) \/ grants'[p][i][j] \in StoredLinks
  <2>1. grants \in [People -> Seq(Grant)] /\ grants[p] \in Seq(Grant)
        BY DEF IInv, TypeOK
  <2>2. CASE p = with
    <3>1. grants'[p] = Append(grants[p], g)
          BY <2>1, <2>2 DEF Shared
    <3>2. \A j \in 1..Len(g) : j = Len(g) \/ g[j] \in StoredLinks
          BY DEF Shared
    <3> QED BY <2>1, <3>1, <3>2, AppendKnown
  <2>3. CASE p # with
    <3>1. grants'[p] = grants[p]
          BY <2>1, <2>3 DEF Shared
    <3> QED BY <3>1
  <2> QED BY <2>2, <2>3
<1> QED BY <1>1 DEF NewLinksKnown

\* protect the founding grant's,
LEMMA ProtectKnown ==
    ASSUME IInv, NEW me \in ids, NEW c \in Closes, Protect(me, c)
    PROVE  NewLinksKnown
<1>1. PICK root \in ContentKeys :
        grants' = [grants EXCEPT ![me] = Append(@, FoundingGrant(me, c, root))]
      BY DEF Protect
<1> DEFINE g == FoundingGrant(me, c, root)
<1>2. me \in People /\ grants \in [People -> Seq(Grant)]
      BY DEF IInv, TypeOK
<1>3. g \in Grant /\ Len(g) = 1
      BY <1>2, FoundingTrue
<1>4. \A p \in People : grants'[p] = IF p = me THEN Append(grants[p], g) ELSE grants[p]
      BY <1>1, <1>2
<1> HIDE DEF g
<1>5. ASSUME NEW p \in People
      PROVE  \A i \in 1..Len(grants'[p]) :
               \/ i \in 1..Len(grants[p])
               \/ \A j \in 1..Len(grants'[p][i]) :
                     j = Len(grants'[p][i]) \/ grants'[p][i][j] \in StoredLinks
  <2>1. CASE p = me
    <3>1. \A j \in 1..Len(g) : j = Len(g) \/ g[j] \in StoredLinks
          BY <1>3
    <3>2. grants'[p] = Append(grants[p], g) /\ grants[p] \in Seq(Grant)
          BY <1>2, <1>4, <2>1
    <3> QED BY <1>3, <3>1, <3>2, AppendKnown
  <2>2. CASE p # me
        BY <1>4, <2>2
  <2> QED BY <2>1, <2>2
<1> QED BY <1>5 DEF NewLinksKnown

\* and rotate one for each keeper.
LEMMA RotateKnown ==
    ASSUME IInv, NEW c \in Founded, NEW except, NEW root \in ContentKeys, Rotated(c, except, root)
    PROVE  NewLinksKnown
<1>1. ASSUME NEW p \in People
      PROVE  \A i \in 1..Len(grants'[p]) :
               \/ i \in 1..Len(grants[p])
               \/ \A j \in 1..Len(grants'[p][i]) :
                     j = Len(grants'[p][i]) \/ grants'[p][i][j] \in StoredLinks
  <2>1. grants[p] \in Seq(Grant)
        BY GrantFacts DEF IInv
  <2>2. CASE p \in Keepers(c, except)
    <3>1. PICK g \in Grant :
            /\ grants'[p] = Append(grants[p], g)
            /\ RootTrue(g, closes'[c], minted'[c], p, BestFacet(p, c),
                        KeptPowers(p, c), KeptExpiry(p, c))
          BY <2>2 DEF Rotated
    <3>2. \A j \in 1..Len(g) : j = Len(g) \/ g[j] \in StoredLinks
          BY <3>1 DEF RootTrue
    <3> QED BY <2>1, <3>1, <3>2, AppendKnown
  <2>3. CASE p \notin Keepers(c, except)
    <3>1. grants'[p] = grants[p]
          BY <2>3 DEF Rotated
    <3> QED BY <3>1
  <2> QED BY <2>2, <2>3
<1> QED BY <1>1 DEF NewLinksKnown

\* If only last links are new, whoever holds a key through a chain still has a
\* grant of their own for it.
LEMMA HoldersHoldAfter ==
    ASSUME IInv, HoldersHold, IInv', Grows, NewLinksKnown
    PROVE  HoldersHold'
<1> SUFFICES ASSUME NEW b \in StoredLinks'
             PROVE  GrantedEver(b.holder, b.close, b.facet, b.epoch)'
    BY DEF HoldersHold
<1>1. LeavesGranted' /\ LinksFiled'
      BY LeavesGrantedAfter
<1>2. PICK p \in People : \E i \in 1..Len(grants'[p]) : \E j \in 1..Len(grants'[p][i]) :
                             b = grants'[p][i][j]
      BY <1>1 DEF LinksFiled
<1>3. PICK i \in 1..Len(grants'[p]) : \E j \in 1..Len(grants'[p][i]) : b = grants'[p][i][j]
      BY <1>2
<1>4. PICK j \in 1..Len(grants'[p][i]) : b = grants'[p][i][j]
      BY <1>3
<1>5. CASE b \in StoredLinks
  <2>1. b \in Link
        BY <1>5, StoredTrue
  <2>2. b.holder \in People /\ GrantedEver(b.holder, b.close, b.facet, b.epoch)
        BY <1>5, <2>1 DEF HoldersHold, Link
  <2> QED BY <2>2, GrantedEverGrows
<1>6. CASE b \notin StoredLinks
  <2>1. i \notin 1..Len(grants[p])
    <3>1. i \in 1..Len(grants[p]) => grants'[p][i] = grants[p][i]
          BY DEF Grows
    <3> QED BY <1>4, <1>6, <3>1, StoredLink
  <2>2. b = Leaf(grants'[p][i])
        BY <1>4, <1>6, <2>1 DEF NewLinksKnown, Leaf
  <2> QED BY <1>1, <2>2 DEF LeavesGranted
<1> QED BY <1>5, <1>6

\* A rotation draws a root that was not drawn before.
LEMMA RootsStayDistinct ==
    ASSUME IInv, RootsDistinct, NEW c \in Founded, NEW except, NEW root \in ContentKeys,
           Rotated(c, except, root)
    PROVE  RootsDistinct'
<1>1. /\ Founded' = Founded
      /\ \A d \in Founded \ {c} : minted'[d] = minted[d]
      /\ minted'[c] = Append(minted[c], root) /\ Fresh(root)
      BY DEF Rotated, Founded
<1>2. minted[c] \in Seq(ContentKeys)
      BY CloseFacts DEF IInv
<1>3. ASSUME NEW i \in 1..Len(minted'[c]), NEW j \in 1..Len(minted'[c]),
             minted'[c][i] = minted'[c][j]
      PROVE  i = j
  <2>1. /\ Len(minted'[c]) = Len(minted[c]) + 1 /\ minted'[c][Len(minted[c]) + 1] = root
        /\ \A k \in 1..Len(minted[c]) : minted'[c][k] = minted[c][k]
        /\ Len(minted[c]) \in Nat
        BY <1>1, <1>2
  <2>2. \A k \in 1..Len(minted[c]) : minted[c][k] # root
        BY <1>1 DEF Fresh
  <2>3. /\ i \in 1..Len(minted[c]) \/ i = Len(minted[c]) + 1
        /\ j \in 1..Len(minted[c]) \/ j = Len(minted[c]) + 1
        BY <2>1
  <2> QED BY <1>3, <2>1, <2>2, <2>3 DEF RootsDistinct
<1>4. ASSUME NEW d \in Founded, d # c, NEW i \in 1..Len(minted'[d]), NEW j \in 1..Len(minted'[d]),
             minted'[d][i] = minted'[d][j]
      PROVE  i = j
      BY <1>1, <1>4 DEF RootsDistinct
<1> QED BY <1>1, <1>3, <1>4 DEF RootsDistinct

\* The stronger invariant holds before anything is founded.
LEMMA InitHInv == Init => HInv
<1> SUFFICES ASSUME Init PROVE HInv
    OBVIOUS
<1>1. IInv
      BY InitIInv
<1>2. PICK root \in ContentKeys :
        /\ grants = [p \in People |-> IF p = Founder
                                      THEN <<FoundingGrant(Founder, Commons, root)>>
                                      ELSE <<>>]
        /\ minted = [c \in {Commons} |-> <<root>>]
        /\ closes = [c \in {Commons} |-> FoundRecord(c, Founder)]
      BY DEF Init
<1>3. RootsDistinct
      BY <1>2 DEF RootsDistinct, Founded
<1>4. HoldersHold
  <2> SUFFICES ASSUME NEW b \in StoredLinks
               PROVE  GrantedEver(b.holder, b.close, b.facet, b.epoch)
      BY DEF HoldersHold
  <2>1. PICK p \in People : \E i \in 1..Len(grants[p]) : \E j \in 1..Len(grants[p][i]) :
                               b = grants[p][i][j]
        BY LinkStored
  <2>2. PICK i \in 1..Len(grants[p]) : \E j \in 1..Len(grants[p][i]) : b = grants[p][i][j]
        BY <2>1
  <2>3. PICK j \in 1..Len(grants[p][i]) : b = grants[p][i][j]
        BY <2>2
  <2>4. Len(FoundingGrant(Founder, Commons, root)) = 1
        BY DrawerAssumption, FoundingTrue
  <2>5. grants[p] = IF p = Founder THEN <<FoundingGrant(Founder, Commons, root)>> ELSE <<>>
        BY <1>2
  <2>6. Len(grants[p][i]) = 1
        BY <2>4, <2>5
  <2>7. b = Leaf(grants[p][i])
        BY <2>3, <2>6 DEF Leaf
  <2> QED BY <1>1, <2>7, LeavesGrantedHolds DEF LeavesGranted
<1> QED BY <1>1, <1>3, <1>4 DEF HInv

\* Every step preserves it.
LEMMA NextHInv == HInv /\ [Next]_vars => HInv'
<1> SUFFICES ASSUME HInv, [Next]_vars PROVE HInv'
    OBVIOUS
<1>0. IInv /\ RootsDistinct /\ HoldersHold /\ IInv' /\ Grows
      BY NextIInv, NextGrows DEF HInv
<1>a. ASSUME UNCHANGED <<closes, minted, grants>>
      PROVE  RootsDistinct' /\ HoldersHold'
  <2>1. StoredLinks' = StoredLinks
        BY <1>a DEF StoredLinks
  <2> QED BY <1>0, <1>a, <2>1 DEF RootsDistinct, HoldersHold, GrantedEver, Founded
<1>b. ASSUME NEW with \in People, NEW g \in Grant, Shared(with, g)
      PROVE  RootsDistinct' /\ HoldersHold'
  <2>1. RootsDistinct'
        BY <1>0, <1>b DEF Shared, RootsDistinct, Founded
  <2> QED BY <1>0, <1>b, <2>1, SharedKnown, HoldersHoldAfter
<1>1. CASE \E name \in People : NewIdentity(name)
      BY <1>0, <1>1, <1>a DEF NewIdentity, HInv
<1>2. CASE \E me \in People, c \in Closes : Protect(me, c)
  <2>1. PICK me \in People, c \in Closes : Protect(me, c)
        BY <1>2
  <2>2. me \in ids
        BY <2>1 DEF Protect
  <2>3. HoldersHold'
        BY <1>0, <2>1, <2>2, ProtectKnown, HoldersHoldAfter
  <2>4. RootsDistinct'
    <3>1. PICK root \in ContentKeys :
            /\ closes' = With(closes, c, FoundRecord(c, me)) /\ minted' = With(minted, c, <<root>>)
          BY <2>1 DEF Protect
    <3>2. DOMAIN minted = Founded /\ c \notin Founded
          BY <1>0, <2>1 DEF IInv, TypeOK, Protect
    <3>3. /\ Founded' = Founded \cup {c} /\ minted'[c] = <<root>>
          /\ \A d \in Founded : minted'[d] = minted[d]
          BY <3>1, <3>2 DEF With, Founded
    <3>4. Len(minted'[c]) = 1
          BY <3>3
    <3> QED BY <1>0, <3>3, <3>4 DEF RootsDistinct
  <2> QED BY <1>0, <2>3, <2>4 DEF HInv
<1>3. CASE \E me \in ids, c \in Founded, with \in Receivers, facet \in ShareFacets,
              powers \in SharePowers, days \in ShareDays :
              ShareAsSteward(me, c, with, facet, powers, days)
      BY <1>0, <1>3, <1>b, ShareAsStewardEffect DEF HInv
<1>4. CASE \E me \in ids, c \in Founded, with \in Receivers, facet \in ShareFacets,
              powers \in SharePowers, days \in ShareDays :
              ShareOnward(me, c, with, facet, powers, days)
      BY <1>0, <1>4, <1>b, ShareOnwardEffect DEF HInv
<1>5. CASE \E me \in ids, c \in Founded, except \in SUBSET Excludable : Rotate(me, c, except)
  <2>1. PICK me \in ids, c \in Founded, except \in SUBSET Excludable : Rotate(me, c, except)
        BY <1>5
  <2>2. PICK root \in ContentKeys : Rotated(c, except, root)
        BY <1>0, <2>1, RotateEffect
  <2>3. RootsDistinct'
        BY <1>0, <2>2, RootsStayDistinct
  <2>4. HoldersHold'
        BY <1>0, <2>2, RotateKnown, HoldersHoldAfter
  <2> QED BY <1>0, <2>3, <2>4 DEF HInv
<1>6. CASE Tick
      BY <1>0, <1>6, <1>a DEF Tick, HInv
<1>7. CASE UNCHANGED vars
      BY <1>0, <1>7, <1>a DEF vars, HInv
<1> QED BY <1>1, <1>2, <1>3, <1>4, <1>5, <1>6, <1>7 DEF Next

-----------------------------------------------------------------------------
\* What is sealed to p was granted to p.
LEMMA SealedGranted ==
    ASSUME HInv, NEW p \in People
    PROVE  SealedTo(p) \subseteq GrantedKeys(p)
<1> SUFFICES ASSUME NEW b \in StoredLinks, b.wrapped # NoKey, b.wrapped.to = p
             PROVE  b.wrapped.holds \in GrantedKeys(p)
    BY DEF SealedTo
<1>1. IInv /\ HoldersHold
      BY DEF HInv
<1>2. b \in Link /\ b.close \in Founded /\ LabelTrueTo(b, closes[b.close], minted[b.close])
      BY <1>1, StoredTrue
<1>3. /\ b.facet # Presence /\ b.epoch <= closes[b.close].epoch /\ b.epoch \in Nat
      /\ b.holder = p /\ b.wrapped.holds = EpochKey(b.close, b.facet, b.epoch)
      BY <1>2 DEF LabelTrueTo, WrapTo, Link, EpochKey
<1>4. b.facet \in Lanes
      BY <1>2, <1>3 DEF Link, Facets, Lanes, Presence, Shape, Content
<1>5. b.epoch \in 0..closes[b.close].epoch
      BY <1>1, <1>2, <1>3, CloseFacts DEF IInv
<1>6. EpochKey(b.close, b.facet, b.epoch) \in Key
      BY <1>1, <1>2, <1>4, <1>5, EpochKeyType
<1>7. GrantedEver(p, b.close, b.facet, b.epoch)
      BY <1>1, <1>3 DEF HoldersHold
<1> QED BY <1>2, <1>3, <1>4, <1>5, <1>6, <1>7 DEF GrantedKeys

\* A key tells its close, facet and epoch.
LEMMA EpochKeyParts ==
    ASSUME IInv, NEW c \in Founded, NEW facet \in Lanes, NEW epoch \in 0..closes[c].epoch
    PROVE  /\ EpochKey(c, facet, epoch).root = minted[c][epoch + 1]
           /\ EpochKey(c, facet, epoch).facet = facet
           /\ EpochKey(c, facet, epoch).salt = c
BY DEF EpochKey, KeyAt, FacetKey, MintKey, Lanes, Shape, Content

\* A grant covers every lower facet and every earlier epoch.
LEMMA GrantedBelow ==
    ASSUME IInv, NEW p \in People, NEW c \in Founded, NEW facet \in Lanes, NEW epoch \in Nat,
           GrantedEver(p, c, facet, epoch), NEW lower \in Lanes, lower <= facet,
           NEW earlier \in Nat, earlier <= epoch
    PROVE  GrantedEver(p, c, lower, earlier)
<1>1. PICK i \in 1..Len(grants[p]) :
        LET b == Leaf(grants[p][i]) IN b.close = c /\ b.facet >= facet /\ b.epoch >= epoch
      BY DEF GrantedEver
<1> DEFINE b == Leaf(grants[p][i])
<1>2. b \in Link
      BY HeldBegun
<1>3. b.facet \in 0..2 /\ b.epoch \in Nat /\ facet \in 0..2 /\ lower \in 0..2
      BY <1>2 DEF Link, Facets, Lanes, Presence, Shape, Content
<1>4. b.close = c /\ b.facet >= lower /\ b.epoch >= earlier
  <2> HIDE DEF b
  <2>1. b.close = c /\ b.facet >= facet /\ b.epoch >= epoch
        BY <1>1 DEF b
  <2> QED BY <1>3, <2>1
<1> QED BY <1>4 DEF GrantedEver

\* From granted keys, every box and every derivation leads to granted keys.
LEMMA NothingLeadsOutOfGranted ==
    ASSUME HInv, NEW p \in People
    PROVE  NothingLeadsOut(GrantedKeys(p))
<1>0. IInv /\ RootsDistinct
      BY DEF HInv
<1>1. ASSUME NEW k \in GrantedKeys(p)
      PROVE  FacetKey(k, k.salt, Shape) \in GrantedKeys(p)
  <2>1. PICK c \in Founded, facet \in Lanes : \E epoch \in 0..closes[c].epoch :
           k = EpochKey(c, facet, epoch) /\ GrantedEver(p, c, facet, epoch)
        BY DEF GrantedKeys
  <2>2. PICK epoch \in 0..closes[c].epoch :
           k = EpochKey(c, facet, epoch) /\ GrantedEver(p, c, facet, epoch)
        BY <2>1
  <2>3. k.root = minted[c][epoch + 1] /\ k.salt = c
        BY <1>0, <2>2, EpochKeyParts
  <2>4. FacetKey(k, k.salt, Shape) = EpochKey(c, Shape, epoch)
        BY <2>3 DEF EpochKey, KeyAt, FacetKey, MintKey, Shape, Content
  <2>5. epoch \in Nat /\ Shape \in Lanes /\ Shape <= facet
    <3>1. closes[c].epoch \in Nat
          BY <1>0, CloseFacts DEF IInv
    <3> QED BY <3>1 DEF Lanes, Shape, Content
  <2>6. GrantedEver(p, c, Shape, epoch)
    <3>1. epoch <= epoch
          BY <2>5
    <3> QED BY <1>0, <2>2, <2>5, <3>1, GrantedBelow
  <2>7. EpochKey(c, Shape, epoch) \in Key
        BY <1>0, <2>5, EpochKeyType
  <2> QED BY <2>4, <2>5, <2>6, <2>7 DEF GrantedKeys
<1>2. ASSUME NEW c \in Founded, NEW i \in 1..Len(closes[c].chain), NEW lane \in Lanes,
             closes[c].chain[i][lane].under \in GrantedKeys(p)
      PROVE  closes[c].chain[i][lane].holds \in GrantedKeys(p)
  <2>1. /\ closes[c].epoch \in Nat /\ closes[c].id = c /\ Len(minted[c]) = closes[c].epoch + 1
        /\ TruthfulTo(closes[c], minted[c])
        BY <1>0, CloseFacts DEF IInv
  <2>2. /\ i \in 1..closes[c].epoch /\ i \in 0..closes[c].epoch /\ i - 1 \in 0..closes[c].epoch
        /\ i \in Nat /\ i - 1 \in Nat /\ i - 1 <= i
        BY <2>1 DEF TruthfulTo
  <2>3. /\ closes[c].chain[i][lane].under = EpochKey(c, lane, i)
        /\ closes[c].chain[i][lane].holds = EpochKey(c, lane, i - 1)
    <3>1. closes[c].chain[i][lane] = Wrap(KeyAt(minted[c], c, lane, i), ChainAad(c, i - 1, lane),
                                          KeyAt(minted[c], c, lane, i - 1))
          BY <2>1, <2>2 DEF TruthfulTo
    <3> QED BY <3>1 DEF Wrap, EpochKey
  <2>4. PICK d \in Founded, facet \in Lanes : \E epoch \in 0..closes[d].epoch :
           EpochKey(c, lane, i) = EpochKey(d, facet, epoch) /\ GrantedEver(p, d, facet, epoch)
        BY <1>2, <2>3 DEF GrantedKeys
  <2>5. PICK epoch \in 0..closes[d].epoch :
           EpochKey(c, lane, i) = EpochKey(d, facet, epoch) /\ GrantedEver(p, d, facet, epoch)
        BY <2>4
  <2>6. /\ EpochKey(c, lane, i).root = minted[c][i + 1] /\ EpochKey(c, lane, i).facet = lane
        /\ EpochKey(c, lane, i).salt = c
        BY <1>0, <2>2, EpochKeyParts
  <2>7. /\ EpochKey(d, facet, epoch).root = minted[d][epoch + 1]
        /\ EpochKey(d, facet, epoch).facet = facet /\ EpochKey(d, facet, epoch).salt = d
        BY <1>0, EpochKeyParts
  <2>8. c = d /\ lane = facet /\ minted[c][i + 1] = minted[c][epoch + 1]
        BY <2>5, <2>6, <2>7
  <2>9. i + 1 = epoch + 1
    <3>1. i + 1 \in 1..Len(minted[c]) /\ epoch + 1 \in 1..Len(minted[c])
          BY <2>1, <2>2, <2>8
    <3> QED BY <1>0, <2>8, <3>1 DEF RootsDistinct
  <2>10. GrantedEver(p, c, lane, i)
    <3>1. epoch = i
          BY <2>1, <2>2, <2>8, <2>9
    <3> QED BY <2>5, <2>8, <3>1
  <2>11. GrantedEver(p, c, lane, i - 1)
    <3>1. lane <= lane
          BY DEF Lanes, Shape, Content
    <3> QED BY <1>0, <2>2, <2>10, <3>1, GrantedBelow
  <2>12. EpochKey(c, lane, i - 1) \in Key
         BY <1>0, <2>2, EpochKeyType
  <2> QED BY <2>2, <2>3, <2>11, <2>12 DEF GrantedKeys
<1> QED BY <1>1, <1>2 DEF NothingLeadsOut

\* A person who keeps every key ever handed to them and computes at will holds
\* what they were granted and no more: neither derivation nor the public chain
\* leads from an old key to a newer one, or from the shape to the reading.
THEOREM NoKeyBeyondGrants == Spec => []OnlyGrantedKeys
<1>1. HInv => OnlyGrantedKeys
      BY SealedGranted, NothingLeadsOutOfGranted DEF OnlyGrantedKeys
<1> QED BY InitHInv, NextHInv, <1>1, PTL DEF Spec

-----------------------------------------------------------------------------
\* Who reads what.

\* What one link lets its holder read of close c, on a day.
LeafReads(b, c, facet, epoch, day) ==
    b.close = c /\ b.facet >= facet /\ b.epoch >= epoch /\ Alive(b.expires, day)

\* Being entitled looks at the leaves of a person's grants only, before and
\* after the step.
LEMMA EntitledBy ==
    ASSUME NEW p, NEW c, NEW facet, NEW epoch
    PROVE  /\ Entitled(p, c, facet, epoch) <=>
                 \E i \in 1..Len(grants[p]) : LeafReads(Leaf(grants[p][i]), c, facet, epoch, now)
           /\ Entitled(p, c, facet, epoch)' <=>
                 \E i \in 1..Len(grants'[p]) : LeafReads(Leaf(grants'[p][i]), c, facet, epoch, now')
BY DEF Entitled, LeafReads

\* A reader opens what they are entitled to, and nothing else.
ReadsExact ==
    \A c \in Founded, p \in People :
        ReadBy(c, p) = {t \in Lanes \X (0..closes[c].epoch) : Entitled(p, c, t[1], t[2])}

\* What a person reads is what their grants entitle them to.
LEMMA ReadsExactHolds == IInv => ReadsExact
<1> SUFFICES ASSUME IInv, NEW c \in Founded, NEW p \in People
             PROVE  ReadBy(c, p) = {t \in Lanes \X (0..closes[c].epoch) : Entitled(p, c, t[1], t[2])}
    BY DEF ReadsExact
<1>1. closes[c].epoch \in Nat
      BY CloseFacts DEF IInv
<1>2. ASSUME NEW facet \in Lanes, NEW epoch \in 0..closes[c].epoch
      PROVE  Opens(grants[p], p, closes[c], facet, epoch, now) <=> Entitled(p, c, facet, epoch)
  <2>1. epoch \in Nat
        BY <1>1
  <2>2. EpochKey(c, facet, epoch) # NoKey
        BY EpochKeyType
  <2>3. ASSUME NEW i \in Held(p, c)
        PROVE  KeyFrom(grants[p][i], p, closes[c], facet, epoch) # NoKey <=>
                  facet <= Leaf(grants[p][i]).facet /\ epoch <= Leaf(grants[p][i]).epoch
        BY <2>1, <2>2, HeldKey
  <2>4. Held(p, c) = {i \in 1..Len(grants[p]) : /\ Leaf(grants[p][i]).close = c
                                                /\ Alive(Leaf(grants[p][i]).expires, now)}
        BY HeldAlive
  <2>5. ASSUME NEW i \in 1..Len(grants[p])
        PROVE  Leaf(grants[p][i]).facet \in Int /\ Leaf(grants[p][i]).epoch \in Int
        BY HeldBegun DEF Link, Facets, Presence, Content
  <2>6. Opens(grants[p], p, closes[c], facet, epoch, now) <=>
           \E i \in Held(p, c) :
              facet <= Leaf(grants[p][i]).facet /\ epoch <= Leaf(grants[p][i]).epoch
        BY <2>3 DEF Opens, Held
  <2>7. facet \in Int
        BY DEF Lanes, Shape, Content
  <2> QED BY <2>1, <2>4, <2>5, <2>6, <2>7 DEF Entitled
<1> QED BY <1>2 DEF ReadBy

\* The same of the state after a step.
LEMMA ReadsExactAfter == IInv' => ReadsExact'
<1>1. IInv => ReadsExact
      BY ReadsExactHolds
<1> QED BY <1>1, PTL

\* The readings of the abstract state, before and after a step.
LEMMA Reads ==
    ASSUME IInv, [Next]_vars
    PROVE  /\ \A c \in Founded, p \in People : \A t \in Lanes \X (0..closes[c].epoch) :
                 t \in ReadBy(c, p) <=> Entitled(p, c, t[1], t[2])
           /\ \A c \in Founded', p \in People : \A t \in Lanes \X (0..closes'[c].epoch) :
                 t \in ReadBy(c, p)' <=> Entitled(p, c, t[1], t[2])'
           /\ \A c \in Founded, p \in People : ReadBy(c, p) \subseteq Lanes \X (0..closes[c].epoch)
           /\ \A c \in Founded', p \in People : ReadBy(c, p)' \subseteq Lanes \X (0..closes'[c].epoch)
<1>1. ReadsExact /\ ReadsExact'
      BY NextIInv, ReadsExactHolds, ReadsExactAfter
<1> QED BY <1>1 DEF ReadsExact

\* There is a key to find.
KeysFound ==
    \A c \in Founded, facet \in Lanes : \A epoch \in 0..closes[c].epoch :
        EpochKey(c, facet, epoch) # NoKey

\* The keys found after a step are the true ones.
LEMMA KeysFoundAfter == IInv' => KeysFound'
<1>1. IInv => KeysFound
      BY EpochKeyType DEF KeysFound
<1> QED BY <1>1, PTL

-----------------------------------------------------------------------------
\* What a keeper is re-issued lets them read.

\* A keeper has an unexpired grant of their best facet, and one that lasts as
\* long as the re-issued one will.
LEMMA KeptReads ==
    ASSUME IInv, NEW c \in Founded, NEW except, NEW p \in Keepers(c, except)
    PROVE  /\ \E i \in Held(p, c) : Leaf(grants[p][i]).facet = BestFacet(p, c)
           /\ Alive(KeptExpiry(p, c), now)
           /\ \E i \in Held(p, c) : Leaf(grants[p][i]).expires = KeptExpiry(p, c)
<1>1. p \in People /\ Held(p, c) # {}
      BY DEF Keepers, IInv, TypeOK
<1>2. Held(p, c) \subseteq 1..Len(grants[p]) /\ Len(grants[p]) \in Nat
      BY <1>1, HeldAlive, GrantFacts DEF IInv
<1>3. \E i \in Held(p, c) : Leaf(grants[p][i]).facet = BestFacet(p, c)
  <2> DEFINE T == {Leaf(grants[p][i]).facet : i \in Held(p, c)}
  <2>1. T \subseteq 0..2 /\ T # {}
        BY <1>1, <1>2, HeldBegun DEF Link, Facets, Presence, Content
  <2>2. \E f \in T : \A h \in T : h <= f
    <3> HIDE DEF T
    <3> QED BY <2>1, GreatestElement
  <2>3. \E f \in Facets : /\ \E i \in Held(p, c) : Leaf(grants[p][i]).facet = f
                          /\ \A i \in Held(p, c) : Leaf(grants[p][i]).facet <= f
        BY <2>1, <2>2 DEF Facets, Presence, Content
  <2> QED BY <2>3 DEF BestFacet
<1> DEFINE best == {i \in Held(p, c) : Leaf(grants[p][i]).facet = BestFacet(p, c)}
<1>4. best # {} /\ best \subseteq 1..Len(grants[p])
      BY <1>2, <1>3
<1>5. Last(best) \in best
  <2> HIDE DEF best
  <2> QED BY <1>2, <1>4, LastIn
<1>6. KeptExpiry(p, c) = Leaf(grants[p][Last(best)]).expires
      BY DEF KeptExpiry
<1>7. Last(best) \in Held(p, c)
      BY <1>5
<1> HIDE DEF best
<1>8. Alive(Leaf(grants[p][Last(best)]).expires, now)
      BY <1>1, <1>7, HeldAlive
<1> QED BY <1>3, <1>6, <1>7, <1>8

\* The grants of a keeper after a rotation: those before it, and one of the
\* new lock.
LEMMA KeeperHolds ==
    ASSUME IInv, NEW c \in Founded, NEW except, NEW root \in ContentKeys, Rotated(c, except, root),
           NEW p \in Keepers(c, except)
    PROVE  \E g \in Grant :
             /\ grants'[p] = Append(grants[p], g)
             /\ Leaf(g).close = c /\ Leaf(g).facet = BestFacet(p, c)
             /\ Leaf(g).epoch = closes[c].epoch + 1
             /\ Leaf(g).powers = KeptPowers(p, c) /\ Leaf(g).expires = KeptExpiry(p, c)
BY DEF Rotated, RootTrue

\* Reading with one more grant.
LEMMA AppendReads ==
    ASSUME IInv, NEW p \in People, NEW g \in Grant, grants'[p] = Append(grants[p], g), now' = now,
           NEW c, NEW facet, NEW epoch
    PROVE  Entitled(p, c, facet, epoch)' <=>
              Entitled(p, c, facet, epoch) \/ LeafReads(Leaf(g), c, facet, epoch, now)
<1> DEFINE gs == grants[p]
           more == Append(gs, g)
<1>1. gs \in Seq(Grant)
      BY GrantFacts DEF IInv
<1>2. /\ Len(more) = Len(gs) + 1 /\ Len(gs) \in Nat /\ more[Len(gs) + 1] = g
      /\ \A i \in 1..Len(gs) : more[i] = gs[i]
  <2> HIDE DEF gs
  <2> QED BY <1>1
<1>3. Entitled(p, c, facet, epoch)' <=>
         \E i \in 1..Len(more) : LeafReads(Leaf(more[i]), c, facet, epoch, now)
      BY EntitledBy
<1>4. Entitled(p, c, facet, epoch) <=>
         \E i \in 1..Len(gs) : LeafReads(Leaf(gs[i]), c, facet, epoch, now)
      BY EntitledBy
<1> HIDE DEF more, gs
<1>5. \A i \in 1..Len(more) : i \in 1..Len(gs) \/ i = Len(gs) + 1
      BY <1>2
<1>6. Len(gs) + 1 \in 1..Len(more) /\ \A i \in 1..Len(gs) : i \in 1..Len(more)
      BY <1>2
<1> QED BY <1>2, <1>3, <1>4, <1>5, <1>6

\* Whoever's grants stay the same reads the same.
LEMMA SameReads ==
    ASSUME NEW p, grants'[p] = grants[p], now' = now, NEW c, NEW facet, NEW epoch
    PROVE  Entitled(p, c, facet, epoch)' <=> Entitled(p, c, facet, epoch)
BY DEF Entitled

\* Nobody holds a grant of an epoch that has not begun.
LEMMA NothingAhead ==
    ASSUME IInv, NEW p \in People, NEW c \in Founded, NEW facet, NEW epoch \in Nat,
           epoch > closes[c].epoch
    PROVE  ~ Entitled(p, c, facet, epoch)
<1> SUFFICES ASSUME NEW i \in 1..Len(grants[p]), Leaf(grants[p][i]).close = c,
                    Leaf(grants[p][i]).epoch >= epoch
             PROVE  FALSE
    BY DEF Entitled
<1>1. Leaf(grants[p][i]).epoch <= closes[c].epoch /\ Leaf(grants[p][i]).epoch \in Nat
      BY HeldBegun DEF Link
<1>2. closes[c].epoch \in Nat
      BY CloseFacts DEF IInv
<1> QED BY <1>1, <1>2

\* Who reads a lane at an epoch reads what is below, and before.
LEMMA ReadsBelow ==
    ASSUME IInv, NEW p \in People, NEW c, NEW facet \in Lanes, NEW epoch \in Nat,
           Entitled(p, c, facet, epoch), NEW lower \in Lanes, lower <= facet,
           NEW earlier \in Nat, earlier <= epoch
    PROVE  Entitled(p, c, lower, earlier)
<1>1. PICK i \in 1..Len(grants[p]) : LeafReads(Leaf(grants[p][i]), c, facet, epoch, now)
      BY EntitledBy
<1>2. Leaf(grants[p][i]).facet \in Int /\ Leaf(grants[p][i]).epoch \in Int
      BY HeldBegun DEF Link, Facets, Presence, Content
<1>3. LeafReads(Leaf(grants[p][i]), c, lower, earlier, now)
      BY <1>1, <1>2 DEF LeafReads, Lanes, Shape, Content
<1> QED BY <1>3, EntitledBy

\* What a keeper reads after a rotation: every lane they read before it, at
\* every epoch up to the new one.
LEMMA KeeperReads ==
    ASSUME IInv, NEW c \in Founded, NEW except, NEW root \in ContentKeys, Rotated(c, except, root),
           NEW p \in Keepers(c, except), NEW facet \in Lanes, NEW epoch \in 0..(closes[c].epoch + 1)
    PROVE  Entitled(p, c, facet, epoch)' <=> \E e \in 0..closes[c].epoch : Entitled(p, c, facet, e)
<1>1. /\ p \in People /\ now' = now /\ closes[c].epoch \in Nat
      /\ BestFacet(p, c) \in Facets /\ Alive(KeptExpiry(p, c), now)
      /\ \A i \in Held(p, c) : Leaf(grants[p][i]).facet <= BestFacet(p, c)
      BY CloseFacts, KeptFacts, KeptReads DEF Rotated, IInv, TypeOK
<1>2. PICK g \in Grant :
         /\ grants'[p] = Append(grants[p], g)
         /\ Leaf(g).close = c /\ Leaf(g).facet = BestFacet(p, c)
         /\ Leaf(g).epoch = closes[c].epoch + 1 /\ Leaf(g).expires = KeptExpiry(p, c)
      BY KeeperHolds
<1>3. LeafReads(Leaf(g), c, facet, epoch, now) <=> facet <= BestFacet(p, c)
      BY <1>1, <1>2 DEF LeafReads, Lanes, Facets, Presence, Shape, Content
<1>4. \A i \in Held(p, c) : /\ i \in 1..Len(grants[p]) /\ Leaf(grants[p][i]) \in Link
                            /\ Leaf(grants[p][i]).close = c /\ Alive(Leaf(grants[p][i]).expires, now)
      BY <1>1, HeldAlive, HeldBegun
<1>5. ASSUME NEW e \in Nat, Entitled(p, c, facet, e)
      PROVE  facet <= BestFacet(p, c) /\ Entitled(p, c, facet, 0)
  <2>1. PICK i \in 1..Len(grants[p]) : LeafReads(Leaf(grants[p][i]), c, facet, e, now)
        BY <1>5, EntitledBy
  <2>2. i \in Held(p, c)
        BY <1>1, <2>1, HeldAlive DEF LeafReads
  <2>3. facet <= BestFacet(p, c)
        BY <1>1, <1>4, <2>1, <2>2 DEF LeafReads, Link, Lanes, Facets, Presence, Shape, Content
  <2>4. facet <= facet /\ 0 <= e /\ 0 \in Nat
        BY DEF Lanes, Shape, Content
  <2> QED BY <1>1, <1>5, <2>3, <2>4, ReadsBelow
<1>6. ASSUME facet <= BestFacet(p, c)
      PROVE  Entitled(p, c, facet, 0)
  <2>1. PICK i \in Held(p, c) : Leaf(grants[p][i]).facet = BestFacet(p, c)
        BY KeptReads
  <2>2. LeafReads(Leaf(grants[p][i]), c, facet, 0, now)
        BY <1>1, <1>4, <1>6, <2>1 DEF LeafReads, Link, Lanes, Facets, Presence, Shape, Content
  <2> QED BY <1>4, <2>1, <2>2, EntitledBy
<1>7. Entitled(p, c, facet, epoch)' <=>
         Entitled(p, c, facet, epoch) \/ LeafReads(Leaf(g), c, facet, epoch, now)
      BY <1>1, <1>2, AppendReads
<1>8. epoch \in Nat /\ 0 \in 0..closes[c].epoch /\ \A e \in 0..closes[c].epoch : e \in Nat
      BY <1>1
<1> QED BY <1>3, <1>5, <1>6, <1>7, <1>8

-----------------------------------------------------------------------------
\* What kind of step changes a lock.
LEMMA LockChangeIsRotation ==
    ASSUME IInv, [Next]_vars, NEW c \in Founded, LockChanged(c)
    PROVE  \E except \in SUBSET Excludable : \E root \in ContentKeys : Rotated(c, except, root)
<1>1. closes[c].epoch \in Nat
      BY CloseFacts DEF IInv
<1>2. closes'[c] # closes[c]
      BY <1>1 DEF LockChanged
<1>3. CASE \E me \in People, d \in Closes : Protect(me, d)
      BY <1>2, <1>3 DEF Protect, With, Founded
<1>4. CASE \E me \in ids, d \in Founded, except \in SUBSET Excludable : Rotate(me, d, except)
  <2>1. PICK me \in ids, d \in Founded, except \in SUBSET Excludable : Rotate(me, d, except)
        BY <1>4
  <2>2. PICK root \in ContentKeys : Rotated(d, except, root)
        BY <2>1, RotateEffect
  <2>3. d = c
        BY <1>2, <2>2 DEF Rotated
  <2> QED BY <2>2, <2>3
<1>5. CASE closes' = closes
      BY <1>2, <1>5
<1> QED BY <1>3, <1>4, <1>5 DEF Next, vars, NewIdentity, ShareAsSteward, ShareOnward, Tick

\* rotate re-issues "the best facet held": whoever gets a grant from a lock
\* change reads under the new lock every lane they read under some lock before
\* it, and keeps every power they had.
THEOREM KeepersCatchUp == Spec => KeptKeepUp
<1>1. ASSUME IInv, [Next]_vars, NEW p \in ids, NEW c \in Founded,
             LockChanged(c), grants'[p] # grants[p]
      PROVE  /\ \A facet \in Lanes :
                   (\E epoch \in 0..closes[c].epoch : KeyOf(p, c, facet, epoch) # NoKey) =>
                      KeyAfter(p, c, facet, closes'[c].epoch) # NoKey
             /\ KeptPowers(p, c) \subseteq Leaf(grants'[p][Len(grants'[p])]).powers
  <2> USE <1>1
  <2>1. PICK except \in SUBSET Excludable, root \in ContentKeys : Rotated(c, except, root)
        BY LockChangeIsRotation
  <2>2. p \in People /\ p \in Keepers(c, except)
        BY <2>1 DEF Rotated, IInv, TypeOK
  <2>3. /\ closes'[c].epoch = closes[c].epoch + 1 /\ closes[c].epoch \in Nat
        /\ c \in Founded'
        BY <2>1, CloseFacts DEF Rotated, IInv, Founded
  <2>4. ASSUME NEW facet \in Lanes, NEW epoch \in 0..closes[c].epoch, KeyOf(p, c, facet, epoch) # NoKey
        PROVE  KeyAfter(p, c, facet, closes'[c].epoch) # NoKey
    <3>1. PICK next \in 0..closes'[c].epoch : next = closes'[c].epoch
          BY <2>3
    <3>2. Entitled(p, c, facet, epoch)
          BY <2>4, KeyOfExact
    <3>3. next \in 0..(closes[c].epoch + 1)
          BY <2>3, <3>1
    <3>4. Entitled(p, c, facet, next)'
          BY <2>1, <2>2, <3>2, <3>3, KeeperReads
    <3>5. KeyAfter(p, c, facet, next) = EpochKey(c, facet, next)'
          BY <3>4, KeyAfterExact
    <3>6. EpochKey(c, facet, next)' # NoKey
      <4>1. KeysFound'
            BY NextIInv, KeysFoundAfter
      <4> QED BY <2>3, <4>1 DEF KeysFound
    <3> QED BY <3>1, <3>5, <3>6
  <2>5. KeptPowers(p, c) \subseteq Leaf(grants'[p][Len(grants'[p])]).powers
    <3>1. PICK g \in Grant : grants'[p] = Append(grants[p], g) /\ Leaf(g).powers = KeptPowers(p, c)
          BY <2>1, <2>2, KeeperHolds
    <3>2. grants[p] \in Seq(Grant)
          BY <2>2, GrantFacts DEF IInv
    <3>3. grants'[p][Len(grants'[p])] = g
      <4> HIDE DEF Grant
      <4> QED BY <3>1, <3>2
    <3> QED BY <3>1, <3>3
  <2> QED BY <2>4, <2>5
<1>2. IInv /\ [Next]_vars =>
        [\A p \in ids, c \in Founded :
            LockChanged(c) /\ grants'[p] # grants[p] =>
                /\ \A facet \in Lanes :
                      (\E epoch \in 0..closes[c].epoch : KeyOf(p, c, facet, epoch) # NoKey) =>
                          KeyAfter(p, c, facet, closes'[c].epoch) # NoKey
                /\ KeptPowers(p, c) \subseteq Leaf(grants'[p][Len(grants'[p])]).powers]_vars
      BY <1>1
<1> QED BY Invariance, <1>2, PTL DEF Spec, KeptKeepUp

-----------------------------------------------------------------------------
\* The steward's own grants.

\* On close c, `me` holds only grants of everything for good, and one of
\* today's lock.
HoldsForGood(me, c) ==
    /\ me \in ids
    /\ \A i \in 1..Len(grants[me]) : Leaf(grants[me][i]).close = c =>
          Leaf(grants[me][i]).facet = Content /\ Leaf(grants[me][i]).expires = Never
    /\ \E i \in 1..Len(grants[me]) :
          Leaf(grants[me][i]).close = c /\ Leaf(grants[me][i]).epoch = closes[c].epoch

\* So does a steward no rotation leaves out and no share is addressed to, on
\* what they steward.
StewardHolds ==
    \A c \in Founded :
        closes[c].steward \notin Excludable \cup Receivers => HoldsForGood(closes[c].steward, c)

\* The steward's hold, before any close is founded.
LEMMA StewardHoldsInit == Init => StewardHolds
<1> SUFFICES ASSUME Init PROVE StewardHolds
    OBVIOUS
<1>1. PICK root \in ContentKeys :
        /\ ids = {Founder}
        /\ closes = [c \in {Commons} |-> FoundRecord(c, Founder)]
        /\ grants = [p \in People |-> IF p = Founder
                                      THEN <<FoundingGrant(Founder, Commons, root)>>
                                      ELSE <<>>]
      BY DEF Init
<1> DEFINE g == FoundingGrant(Founder, Commons, root)
<1>2. /\ FoundRecord(Commons, Founder).epoch = 0 /\ FoundRecord(Commons, Founder).steward = Founder
      /\ Len(g) = 1 /\ Leaf(g) = g[1] /\ Leaf(g).close = Commons /\ Leaf(g).epoch = 0
      /\ Leaf(g).facet = Content /\ Leaf(g).expires = Never
      BY DEF FoundRecord, FoundingGrant, IssueRoot, LinkTo, Leaf
<1>3. Founder \in People /\ grants[Founder] = <<g>> /\ Founded = {Commons}
      BY <1>1, DrawerAssumption DEF Founded
<1> HIDE DEF g
<1>4. Len(grants[Founder]) = 1 /\ grants[Founder][1] = g
      BY <1>3
<1> QED BY <1>1, <1>2, <1>3, <1>4 DEF StewardHolds, HoldsForGood

\* One more grant, of another close or of everything for good.
LEMMA StewardAppend ==
    ASSUME NEW gs \in Seq(Grant), NEW g \in Grant, NEW c,
           \A i \in 1..Len(gs) : Leaf(gs[i]).close = c =>
              Leaf(gs[i]).facet = Content /\ Leaf(gs[i]).expires = Never,
           Leaf(g).close = c => Leaf(g).facet = Content /\ Leaf(g).expires = Never
    PROVE  /\ \A i \in 1..Len(Append(gs, g)) : Leaf(Append(gs, g)[i]).close = c =>
                 Leaf(Append(gs, g)[i]).facet = Content /\ Leaf(Append(gs, g)[i]).expires = Never
           /\ Len(Append(gs, g)) \in 1..Len(Append(gs, g)) /\ Append(gs, g)[Len(Append(gs, g))] = g
           /\ \A i \in 1..Len(gs) : i \in 1..Len(Append(gs, g)) /\ Append(gs, g)[i] = gs[i]
<1> DEFINE more == Append(gs, g)
<1>1. /\ Len(more) = Len(gs) + 1 /\ Len(gs) \in Nat /\ more[Len(gs) + 1] = g
      /\ \A i \in 1..Len(gs) : more[i] = gs[i]
  <2> HIDE DEF Grant
  <2> QED OBVIOUS
<1> HIDE DEF more
<1>2. \A i \in 1..Len(more) : i \in 1..Len(gs) \/ i = Len(gs) + 1
      BY <1>1
<1>3. \A i \in 1..Len(more) : Leaf(more[i]).close = c =>
         Leaf(more[i]).facet = Content /\ Leaf(more[i]).expires = Never
      BY <1>1, <1>2
<1>4. Len(more) \in 1..Len(more) /\ more[Len(more)] = g
      BY <1>1
<1>5. \A i \in 1..Len(gs) : i \in 1..Len(more) /\ more[i] = gs[i]
      BY <1>1
<1> QED BY <1>3, <1>4, <1>5 DEF more

\* The hold survives another grant and a rotation that re-issues it.
LEMMA ForGoodAppend ==
    ASSUME IInv, NEW me \in People, NEW c, NEW g \in Grant, grants'[me] = Append(grants[me], g),
           HoldsForGood(me, c), ids \subseteq ids',
           Leaf(g).close = c => Leaf(g).facet = Content /\ Leaf(g).expires = Never,
           \/ closes'[c].epoch = closes[c].epoch
           \/ Leaf(g).close = c /\ Leaf(g).epoch = closes'[c].epoch
    PROVE  HoldsForGood(me, c)'
<1>1. PICK gs \in Seq(Grant) : gs = grants[me]
      BY GrantFacts DEF IInv
<1> DEFINE more == Append(gs, g)
<1>2. /\ \A i \in 1..Len(gs) : Leaf(gs[i]).close = c =>
             Leaf(gs[i]).facet = Content /\ Leaf(gs[i]).expires = Never
      /\ \E i \in 1..Len(gs) : Leaf(gs[i]).close = c /\ Leaf(gs[i]).epoch = closes[c].epoch
      /\ me \in ids' /\ grants'[me] = more
      BY <1>1 DEF HoldsForGood
<1>3. /\ \A i \in 1..Len(more) : Leaf(more[i]).close = c =>
             Leaf(more[i]).facet = Content /\ Leaf(more[i]).expires = Never
      /\ Len(more) \in 1..Len(more) /\ more[Len(more)] = g
      /\ \A i \in 1..Len(gs) : i \in 1..Len(more) /\ more[i] = gs[i]
      BY <1>2, StewardAppend
<1> HIDE DEF more
<1>4. \E i \in 1..Len(more) : Leaf(more[i]).close = c /\ Leaf(more[i]).epoch = closes'[c].epoch
  <2>1. CASE closes'[c].epoch = closes[c].epoch
        BY <1>2, <1>3, <2>1
  <2>2. CASE Leaf(g).close = c /\ Leaf(g).epoch = closes'[c].epoch
        BY <1>3, <2>2
  <2> QED BY <2>1, <2>2
<1> QED BY <1>2, <1>3, <1>4 DEF HoldsForGood

\* And a step that gives this person nothing and rotates nothing.
LEMMA ForGoodSame ==
    ASSUME NEW me, NEW c, grants'[me] = grants[me], HoldsForGood(me, c), ids \subseteq ids',
           closes'[c].epoch = closes[c].epoch
    PROVE  HoldsForGood(me, c)'
BY DEF HoldsForGood

\* Everything such a steward holds on the close holds today, so that rotate
\* re-issues them everything for good.
LEMMA StewardIsKept ==
    ASSUME IInv, NEW c \in Founded, NEW except \in SUBSET Excludable, NEW me \in People,
           me \notin Excludable, HoldsForGood(me, c)
    PROVE  /\ me \in Keepers(c, except)
           /\ BestFacet(me, c) = Content /\ KeptExpiry(me, c) = Never
<1>1. Held(me, c) = {i \in 1..Len(grants[me]) : /\ Leaf(grants[me][i]).close = c
                                                /\ Alive(Leaf(grants[me][i]).expires, now)}
      BY HeldAlive
<1>2. \A i \in 1..Len(grants[me]) : Leaf(grants[me][i]).close = c =>
         i \in Held(me, c) /\ Leaf(grants[me][i]).facet = Content /\ Leaf(grants[me][i]).expires = Never
      BY <1>1 DEF HoldsForGood, Alive
<1>3. Held(me, c) # {} /\ me \in ids
      BY <1>2 DEF HoldsForGood
<1>4. me \in Keepers(c, except)
      BY <1>3 DEF Keepers
<1>5. /\ \E i \in Held(me, c) : Leaf(grants[me][i]).facet = BestFacet(me, c)
      /\ \E i \in Held(me, c) : Leaf(grants[me][i]).expires = KeptExpiry(me, c)
      BY <1>4, KeptReads
<1> QED BY <1>1, <1>2, <1>4, <1>5

\* Every step preserves the stewards' hold.
LEMMA StewardHoldsNext == IInv /\ StewardHolds /\ [Next]_vars => StewardHolds'
<1> SUFFICES ASSUME IInv, StewardHolds, [Next]_vars PROVE StewardHolds'
    OBVIOUS
<1>1. ASSUME UNCHANGED <<closes, grants>>, ids \subseteq ids'
      PROVE  StewardHolds'
  <2>1. ASSUME NEW c \in Founded, closes[c].steward \notin Excludable \cup Receivers
        PROVE  HoldsForGood(closes[c].steward, c)'
    <3>1. PICK me \in People : me = closes[c].steward
          BY CloseFacts DEF IInv
    <3>2. HoldsForGood(me, c)'
          BY <1>1, <2>1, <3>1, ForGoodSame DEF StewardHolds
    <3> QED BY <1>1, <3>1, <3>2 DEF HoldsForGood
  <2> QED BY <1>1, <2>1 DEF StewardHolds, Founded
<1>2. ASSUME NEW with \in Receivers, NEW g \in Grant, Shared(with, g)
      PROVE  StewardHolds'
  <2>1. /\ UNCHANGED <<ids, closes>>
        /\ \A p \in People \ Receivers : grants'[p] = grants[p]
        BY <1>2 DEF Shared, IInv, TypeOK
  <2>2. ASSUME NEW c \in Founded, closes[c].steward \notin Excludable \cup Receivers
        PROVE  HoldsForGood(closes[c].steward, c)'
    <3>1. PICK me \in People : me = closes[c].steward
          BY CloseFacts DEF IInv
    <3>2. HoldsForGood(me, c)'
          BY <2>1, <2>2, <3>1, ForGoodSame DEF StewardHolds
    <3> QED BY <2>1, <3>1, <3>2 DEF HoldsForGood
  <2> QED BY <2>1, <2>2 DEF StewardHolds, Founded
<1>3. ASSUME NEW founder \in ids, NEW d \in Closes, Protect(founder, d)
      PROVE  StewardHolds'
  <2>1. PICK root \in ContentKeys :
          /\ closes' = With(closes, d, FoundRecord(d, founder))
          /\ grants' = [grants EXCEPT ![founder] = Append(@, FoundingGrant(founder, d, root))]
        BY <1>3 DEF Protect
  <2>2. /\ founder \in People /\ d \notin Founded /\ ids' = ids
        /\ grants \in [People -> Seq(Grant)]
        BY <1>3 DEF IInv, TypeOK, Protect
  <2>3. PICK g \in Grant :
          /\ g = FoundingGrant(founder, d, root) /\ Leaf(g).close = d /\ Leaf(g).epoch = 0
          /\ Leaf(g).facet = Content /\ Leaf(g).expires = Never
    <3> DEFINE founding == FoundingGrant(founder, d, root)
    <3>1. Leaf(founding).expires = Never
          BY DEF FoundingGrant, IssueRoot, LinkTo, Leaf
    <3>2. founder \in People
          BY <2>2
    <3>3. /\ founding \in Grant /\ Len(founding) = 1 /\ Leaf(founding) = founding[1]
          /\ Leaf(founding).close = d
          /\ Leaf(founding).facet = Content /\ Leaf(founding).epoch = 0
          BY ONLY <3>2, FoundingTrue, d \in Closes, root \in ContentKeys DEF founding
    <3> HIDE DEF founding
    <3> QED BY <3>1, <3>3 DEF founding
  <2>4. /\ grants'[founder] = Append(grants[founder], g)
        /\ \A p \in People \ {founder} : grants'[p] = grants[p]
        BY <2>1, <2>2, <2>3
  <2>5. /\ Founded' = Founded \cup {d}
        /\ closes'[d].steward = founder /\ closes'[d].epoch = 0
        /\ \A c \in Founded : closes'[c] = closes[c]
        BY <2>1, <2>2 DEF With, Founded, FoundRecord
  <2>6. HoldsForGood(founder, d)'
    <3>1. PICK gs \in Seq(Grant) : gs = grants[founder]
          BY <2>2
    <3>2. \A i \in 1..Len(gs) : Leaf(gs[i]).close # d
          BY <2>2, <3>1, HeldBegun
    <3>3. /\ \A i \in 1..Len(Append(gs, g)) : Leaf(Append(gs, g)[i]).close = d =>
                 Leaf(Append(gs, g)[i]).facet = Content /\ Leaf(Append(gs, g)[i]).expires = Never
          /\ Len(Append(gs, g)) \in 1..Len(Append(gs, g)) /\ Append(gs, g)[Len(Append(gs, g))] = g
          BY <2>3, <3>2, StewardAppend
    <3>4. grants'[founder] = Append(gs, g) /\ founder \in ids'
          BY <2>2, <2>4, <3>1
    <3> QED BY <2>3, <2>5, <3>3, <3>4 DEF HoldsForGood
  <2>7. ASSUME NEW c \in Founded, closes'[c].steward \notin Excludable \cup Receivers
        PROVE  HoldsForGood(closes[c].steward, c)'
    <3>1. PICK me \in People : me = closes[c].steward
          BY CloseFacts DEF IInv
    <3>2. HoldsForGood(me, c) /\ closes'[c] = closes[c] /\ ids \subseteq ids'
          BY <2>2, <2>5, <2>7, <3>1 DEF StewardHolds
    <3>3. CASE me = founder
      <4>1. Leaf(g).close = c => Leaf(g).facet = Content /\ Leaf(g).expires = Never
            BY <2>3
      <4>2. HoldsForGood(me, c)'
            BY <2>4, <3>2, <3>3, <4>1, ForGoodAppend
      <4> QED BY <3>1, <3>2, <4>2 DEF HoldsForGood
    <3>4. CASE me # founder
      <4>1. grants'[me] = grants[me]
            BY <2>4, <3>4
      <4>2. HoldsForGood(me, c)'
            BY <3>2, <4>1, ForGoodSame
      <4> QED BY <3>1, <3>2, <4>2 DEF HoldsForGood
    <3> QED BY <3>3, <3>4
  <2>8. closes'[d].steward \notin Excludable \cup Receivers => HoldsForGood(closes[d].steward, d)'
        BY <2>5, <2>6 DEF HoldsForGood
  <2> QED BY <2>5, <2>7, <2>8 DEF StewardHolds
<1>4. ASSUME NEW d \in Founded, NEW except \in SUBSET Excludable, NEW root \in ContentKeys,
             Rotated(d, except, root)
      PROVE  StewardHolds'
  <2>1. /\ Founded' = Founded /\ ids' = ids
        /\ \A c \in Founded \ {d} : closes'[c] = closes[c]
        /\ closes'[d].steward = closes[d].steward /\ closes'[d].epoch = closes[d].epoch + 1
        /\ \A p \in People \ Keepers(d, except) : grants'[p] = grants[p]
        BY <1>4 DEF Rotated, Founded
  <2>2. ASSUME NEW c \in Founded, closes'[c].steward \notin Excludable \cup Receivers
        PROVE  HoldsForGood(closes[c].steward, c)'
    <3>1. PICK me \in People : me = closes[c].steward
          BY CloseFacts DEF IInv
    <3>2. closes'[c].steward = me
          BY <2>1, <3>1
    <3>3. HoldsForGood(me, c) /\ ids \subseteq ids' /\ me \notin Excludable
          BY <2>1, <2>2, <3>1, <3>2 DEF StewardHolds
    <3>4. HoldsForGood(me, c)'
      <4>1. CASE me \notin Keepers(d, except)
        <5>1. c # d
              BY <3>3, <4>1, StewardIsKept
        <5> QED BY <2>1, <3>3, <4>1, <5>1, ForGoodSame
      <4>2. CASE me \in Keepers(d, except)
        <5>1. PICK g \in Grant :
                /\ grants'[me] = Append(grants[me], g)
                /\ Leaf(g).close = d /\ Leaf(g).facet = BestFacet(me, d)
                /\ Leaf(g).epoch = closes'[d].epoch /\ Leaf(g).expires = KeptExpiry(me, d)
              BY <1>4, <2>1, <4>2, KeeperHolds
        <5>2. Leaf(g).close = c => Leaf(g).facet = Content /\ Leaf(g).expires = Never
              BY <3>3, <5>1, StewardIsKept
        <5>3. \/ closes'[c].epoch = closes[c].epoch
              \/ Leaf(g).close = c /\ Leaf(g).epoch = closes'[c].epoch
              BY <2>1, <5>1
        <5> QED BY <3>3, <5>1, <5>2, <5>3, ForGoodAppend
      <4> QED BY <4>1, <4>2
    <3> QED BY <3>2, <3>4 DEF HoldsForGood
  <2> QED BY <2>1, <2>2 DEF StewardHolds
<1>5. CASE \E name \in People : NewIdentity(name)
      BY <1>1, <1>5 DEF NewIdentity
<1>6. CASE \E me \in People, c \in Closes : Protect(me, c)
      BY <1>3, <1>6 DEF Protect
<1>7. CASE \E me \in ids, c \in Founded, with \in Receivers, facet \in ShareFacets,
              powers \in SharePowers, days \in ShareDays :
              ShareAsSteward(me, c, with, facet, powers, days)
      BY <1>2, <1>7, ShareAsStewardEffect
<1>8. CASE \E me \in ids, c \in Founded, with \in Receivers, facet \in ShareFacets,
              powers \in SharePowers, days \in ShareDays :
              ShareOnward(me, c, with, facet, powers, days)
      BY <1>2, <1>8, ShareOnwardEffect
<1>9. CASE \E me \in ids, c \in Founded, except \in SUBSET Excludable : Rotate(me, c, except)
      BY <1>4, <1>9, RotateEffect
<1>10. CASE Tick
       BY <1>1, <1>10 DEF Tick
<1>11. CASE UNCHANGED vars
       BY <1>1, <1>11 DEF vars
<1> QED BY <1>5, <1>6, <1>7, <1>8, <1>9, <1>10, <1>11 DEF Next

\* rotate needs the current content key: a steward whom no rotation leaves out
\* and to whom nobody shares always has it, so that what they steward can have
\* its lock changed again, whatever else was shared, re-issued or run out.
THEOREM StewardsKeepTheKey == Spec => []StewardKeepsKey
<1>1. IInv /\ StewardHolds => StewardKeepsKey
  <2> SUFFICES ASSUME IInv, StewardHolds, NEW c \in Founded,
                      closes[c].steward \notin Excludable \cup Receivers
               PROVE  CurrentKey(closes[c].steward, c) # NoKey
      BY DEF StewardKeepsKey
  <2>1. HoldsForGood(closes[c].steward, c)
        BY DEF StewardHolds
  <2>2. closes[c].epoch \in 0..closes[c].epoch /\ Content \in Lanes
        BY CloseFacts DEF IInv, Lanes
  <2>3. PICK i \in 1..Len(grants[closes[c].steward]) :
          /\ Leaf(grants[closes[c].steward][i]).close = c
          /\ Leaf(grants[closes[c].steward][i]).epoch = closes[c].epoch
        BY <2>1 DEF HoldsForGood
  <2>4. /\ Leaf(grants[closes[c].steward][i]).facet >= Content
        /\ Leaf(grants[closes[c].steward][i]).epoch >= closes[c].epoch
        /\ Alive(Leaf(grants[closes[c].steward][i]).expires, now)
        BY <2>1, <2>2, <2>3 DEF HoldsForGood, Alive, Content
  <2>5. Entitled(closes[c].steward, c, Content, closes[c].epoch)
        BY <2>3, <2>4 DEF Entitled
  <2>6. closes[c].steward \in ids
        BY <2>1 DEF HoldsForGood
  <2>7. CurrentKey(closes[c].steward, c) = EpochKey(c, Content, closes[c].epoch)
        BY <2>2, <2>5, <2>6, KeyOfExact DEF CurrentKey
  <2> QED BY <2>2, <2>7, EpochKeyType
<1> QED BY InitIInv, NextIInv, StewardHoldsInit, StewardHoldsNext, <1>1, PTL DEF Spec

-----------------------------------------------------------------------------
\* The steps of Readership.

\* The abstract state, as the refinement shows it.
Epochs == [c \in Founded |-> closes[c].epoch]
Readings == [c \in Founded |-> [p \in People |-> ReadBy(c, p)]]

\* Equal entitlements, equal readings.
LEMMA SameReading ==
    ASSUME IInv, [Next]_vars, NEW c \in Founded, c \in Founded', closes'[c].epoch = closes[c].epoch,
           NEW p \in People,
           \A facet \in Lanes : \A epoch \in 0..closes[c].epoch :
              Entitled(p, c, facet, epoch)' <=> Entitled(p, c, facet, epoch)
    PROVE  ReadBy(c, p)' = ReadBy(c, p)
<1> DEFINE pairs == Lanes \X (0..closes[c].epoch)
<1>1. \A t \in pairs : t \in ReadBy(c, p)' <=> t \in ReadBy(c, p)
  <2>1. ASSUME NEW t \in pairs
        PROVE  t \in ReadBy(c, p)' <=> t \in ReadBy(c, p)
    <3>1. t \in ReadBy(c, p) <=> Entitled(p, c, t[1], t[2])
          BY Reads
    <3>2. t \in ReadBy(c, p)' <=> Entitled(p, c, t[1], t[2])'
          BY Reads
    <3>3. t[1] \in Lanes /\ t[2] \in 0..closes[c].epoch
          OBVIOUS
    <3> QED BY <3>1, <3>2, <3>3
  <2> QED BY <2>1
<1>2. ReadBy(c, p) \subseteq pairs /\ ReadBy(c, p)' \subseteq pairs
      BY Reads
<1> QED BY <1>1, <1>2

\* A step that changes no close, grant or day is a stutter of Readership.
LEMMA QuietStep ==
    ASSUME UNCHANGED <<closes, grants, now>>
    PROVE  UNCHANGED Promise!vars
<1>1. Epochs' = Epochs
      BY DEF Epochs, Founded
<1>2. Readings' = Readings
      BY DEF Readings, Founded, ReadBy
<1> QED BY <1>1, <1>2 DEF Promise!vars, Epochs, Readings

\* Protecting founds.
LEMMA FoundStep ==
    ASSUME IInv, [Next]_vars, NEW me \in ids, NEW c \in Closes, Protect(me, c)
    PROVE  me \in People /\ Promise!Found(c, me)
<1>1. PICK root \in ContentKeys :
        /\ closes' = With(closes, c, FoundRecord(c, me))
        /\ grants' = [grants EXCEPT ![me] = Append(@, FoundingGrant(me, c, root))]
      BY DEF Protect
<1>2. /\ me \in People /\ c \notin Founded /\ now' = now
      /\ grants \in [People -> Seq(Grant)]
      BY DEF IInv, TypeOK, Protect
<1>3. PICK g \in Grant :
        /\ g = FoundingGrant(me, c, root) /\ Leaf(g).close = c /\ Leaf(g).epoch = 0
        /\ Leaf(g).facet = Content /\ Leaf(g).expires = Never
  <2> DEFINE founding == FoundingGrant(me, c, root)
  <2>1. Leaf(founding).expires = Never
        BY DEF FoundingGrant, IssueRoot, LinkTo, Leaf
  <2>2. me \in People
        BY <1>2
  <2>3. /\ founding \in Grant /\ Len(founding) = 1 /\ Leaf(founding) = founding[1]
        /\ Leaf(founding).close = c
        /\ Leaf(founding).facet = Content /\ Leaf(founding).epoch = 0
        BY ONLY <2>2, FoundingTrue, c \in Closes, root \in ContentKeys DEF founding
  <2> HIDE DEF founding
  <2> QED BY <2>1, <2>3 DEF founding
<1>4. /\ grants'[me] = Append(grants[me], g)
      /\ \A p \in People \ {me} : grants'[p] = grants[p]
      BY <1>1, <1>2, <1>3
<1>5. /\ Founded' = Founded \cup {c} /\ closes'[c].epoch = 0
      /\ \A d \in Founded : closes'[d] = closes[d]
      BY <1>1, <1>2 DEF With, Founded, FoundRecord
<1>6. ASSUME NEW p \in People, NEW d \in Closes, NEW facet \in Lanes, NEW epoch
      PROVE  Entitled(p, d, facet, epoch)' <=>
                \/ Entitled(p, d, facet, epoch)
                \/ p = me /\ d = c /\ LeafReads(Leaf(g), c, facet, epoch, now)
  <2>1. CASE p = me
        BY <1>2, <1>3, <1>4, <2>1, AppendReads DEF LeafReads
  <2>2. CASE p # me
        BY <1>2, <1>4, <2>2, SameReads
  <2> QED BY <2>1, <2>2
<1>7. \A d \in Founded, p \in People : ReadBy(d, p)' = ReadBy(d, p)
  <2> TAKE d \in Founded, p \in People
  <2>1. d \in Closes /\ d # c /\ d \in Founded' /\ closes'[d].epoch = closes[d].epoch
        BY <1>2, <1>5 DEF IInv, TypeOK
  <2>2. \A facet \in Lanes : \A epoch \in 0..closes[d].epoch :
           Entitled(p, d, facet, epoch)' <=> Entitled(p, d, facet, epoch)
        BY <1>6, <2>1
  <2> QED BY <2>1, <2>2, SameReading
<1>8. \A p \in People : ReadBy(c, p)' = IF p = me THEN Lanes \X {0} ELSE {}
  <2> TAKE p \in People
  <2>1. c \in Founded' /\ closes'[c].epoch = 0 /\ 0..0 = {0}
        BY <1>5
  <2>2. /\ \A t \in Lanes \X {0} : t \in ReadBy(c, p)' <=> Entitled(p, c, t[1], t[2])'
        /\ ReadBy(c, p)' \subseteq Lanes \X {0}
        BY <2>1, Reads
  <2>3. ASSUME NEW facet \in Lanes
        PROVE  Entitled(p, c, facet, 0)' <=> p = me
    <3>1. ~ Entitled(p, c, facet, 0)
          BY <1>2, HeldBegun DEF Entitled
    <3>2. LeafReads(Leaf(g), c, facet, 0, now)
          BY <1>3 DEF LeafReads, Alive, Lanes, Shape, Content
    <3> QED BY <1>6, <3>1, <3>2
  <2>4. \A t \in Lanes \X {0} : t \in ReadBy(c, p)' <=> p = me
    <3>1. \A t \in Lanes \X {0} : t[1] \in Lanes /\ t[2] = 0
          OBVIOUS
    <3> QED BY <2>2, <2>3, <3>1
  <2> QED BY <2>2, <2>4
<1>9. Epochs' = [d \in Founded \cup {c} |-> IF d = c THEN 0 ELSE Epochs[d]]
      BY <1>2, <1>5 DEF Epochs
<1>10. Readings' = [d \in Founded \cup {c} |-> IF d = c THEN Promise!FoundedBy(me) ELSE Readings[d]]
  <2>1. [p \in People |-> ReadBy(c, p)'] = Promise!FoundedBy(me)
        BY <1>8 DEF Promise!FoundedBy
  <2>2. \A d \in Founded : [p \in People |-> ReadBy(d, p)'] = [p \in People |-> ReadBy(d, p)]
        BY <1>7
  <2>3. Readings' = [d \in Founded \cup {c} |-> [p \in People |-> ReadBy(d, p)']]
        BY <1>5 DEF Readings
  <2>4. \A d \in Founded \cup {c} : [p \in People |-> ReadBy(d, p)'] =
           IF d = c THEN Promise!FoundedBy(me) ELSE Readings[d]
        BY <1>2, <2>1, <2>2 DEF Readings
  <2> QED BY <2>3, <2>4
<1>11. DOMAIN Epochs = Founded
       BY DEF Epochs
<1> QED BY <1>2, <1>9, <1>10, <1>11 DEF Promise!Found, Epochs, Readings

\* Sharing hands on no more than the giver reads.
LEMMA HandStep ==
    ASSUME IInv, [Next]_vars, NEW me \in ids, NEW c \in Founded, NEW with \in People,
           NEW g \in Grant, Shared(with, g), GivenFrom(me, c, Leaf(g))
    PROVE  [Promise!Next]_(Promise!vars)
<1>1. /\ grants'[with] = Append(grants[with], g)
      /\ \A p \in People \ {with} : grants'[p] = grants[p]
      /\ UNCHANGED <<ids, closes, now>> /\ Founded' = Founded /\ me \in People
      BY DEF Shared, IInv, TypeOK, Founded
<1>2. ASSUME NEW p \in People, NEW d \in Founded, NEW facet \in Lanes, NEW epoch
      PROVE  Entitled(p, d, facet, epoch)' <=>
                \/ Entitled(p, d, facet, epoch)
                \/ p = with /\ d = c /\ LeafReads(Leaf(g), c, facet, epoch, now)
  <2>1. CASE p = with
        BY <1>1, <2>1, AppendReads DEF LeafReads, GivenFrom
  <2>2. CASE p # with
        BY <1>1, <2>2, SameReads
  <2> QED BY <2>1, <2>2
<1>3. ASSUME NEW facet \in Lanes, NEW epoch \in 0..closes[c].epoch,
             LeafReads(Leaf(g), c, facet, epoch, now)
      PROVE  Entitled(me, c, facet, epoch)
  <2>1. PICK i \in Held(me, c) : /\ Leaf(g).facet <= Leaf(grants[me][i]).facet
                                 /\ Leaf(g).epoch <= Leaf(grants[me][i]).epoch
        BY DEF GivenFrom
  <2>2. /\ i \in 1..Len(grants[me]) /\ Leaf(grants[me][i]) \in Link
        /\ Leaf(grants[me][i]).close = c /\ Alive(Leaf(grants[me][i]).expires, now)
        BY <1>1, HeldAlive, HeldBegun
  <2>3. Leaf(g) \in Link /\ closes[c].epoch \in Nat
        BY LeafOfGrant, CloseFacts DEF IInv
  <2>4. /\ Leaf(g).facet \in Int /\ Leaf(g).epoch \in Int
        /\ Leaf(grants[me][i]).facet \in Int /\ Leaf(grants[me][i]).epoch \in Int
        /\ facet \in Int /\ epoch \in Int
        BY <2>2, <2>3 DEF Link, Facets, Lanes, Presence, Shape, Content
  <2>5. LeafReads(Leaf(grants[me][i]), c, facet, epoch, now)
        BY <1>3, <2>1, <2>2, <2>4 DEF LeafReads
  <2> QED BY <2>2, <2>5, EntitledBy
<1>4. \A d \in Founded, p \in People : (d = c /\ p = with) \/ ReadBy(d, p)' = ReadBy(d, p)
  <2> SUFFICES ASSUME NEW d \in Founded, NEW p \in People, ~ (d = c /\ p = with)
               PROVE  ReadBy(d, p)' = ReadBy(d, p)
      OBVIOUS
  <2>1. \A facet \in Lanes : \A epoch \in 0..closes[d].epoch :
           Entitled(p, d, facet, epoch)' <=> Entitled(p, d, facet, epoch)
        BY <1>2
  <2> QED BY <1>1, <2>1, SameReading
<1>5. /\ ReadBy(c, with) \subseteq ReadBy(c, with)'
      /\ ReadBy(c, with)' \subseteq ReadBy(c, with) \cup ReadBy(c, me)
  <2> DEFINE pairs == Lanes \X (0..closes[c].epoch)
  <2>1. /\ ReadBy(c, with) \subseteq pairs /\ ReadBy(c, with)' \subseteq pairs
        /\ \A t \in pairs : t \in ReadBy(c, with) <=> Entitled(with, c, t[1], t[2])
        /\ \A t \in pairs : t \in ReadBy(c, me) <=> Entitled(me, c, t[1], t[2])
        /\ \A t \in pairs : t \in ReadBy(c, with)' <=> Entitled(with, c, t[1], t[2])'
        BY <1>1, Reads
  <2>2. ASSUME NEW t \in pairs
        PROVE  /\ t \in ReadBy(c, with) => t \in ReadBy(c, with)'
               /\ t \in ReadBy(c, with)' => t \in ReadBy(c, with) \/ t \in ReadBy(c, me)
    <3>1. t[1] \in Lanes /\ t[2] \in 0..closes[c].epoch
          OBVIOUS
    <3>2. /\ Entitled(with, c, t[1], t[2]) => Entitled(with, c, t[1], t[2])'
          /\ Entitled(with, c, t[1], t[2])' =>
                Entitled(with, c, t[1], t[2]) \/ Entitled(me, c, t[1], t[2])
          BY <1>2, <1>3, <3>1
    <3> QED BY <2>1, <3>2
  <2> QED BY <2>1, <2>2
<1>6. Epochs' = Epochs
      BY <1>1 DEF Epochs
<1>7. CASE ReadBy(c, with)' = ReadBy(c, with)
  <2>1. \A d \in Founded : [p \in People |-> ReadBy(d, p)'] = [p \in People |-> ReadBy(d, p)]
        BY <1>4, <1>7
  <2>2. Readings' = Readings
        BY <1>1, <2>1 DEF Readings
  <2> QED BY <1>6, <2>2 DEF Promise!vars, Epochs, Readings
<1>8. CASE ReadBy(c, with)' # ReadBy(c, with)
  <2>1. /\ DOMAIN Readings = Founded /\ DOMAIN Readings' = Founded /\ DOMAIN Epochs = Founded
        /\ \A d \in Founded, p \in People :
              Readings[d][p] = ReadBy(d, p) /\ Readings'[d][p] = ReadBy(d, p)'
        BY <1>1 DEF Readings, Epochs
  <2>2. Promise!Handed(Readings, Readings', c, me, with)
        BY <1>1, <1>4, <1>5, <1>8, <2>1 DEF Promise!Handed
  <2>3. Promise!Hand
        BY <1>1, <1>6, <2>1, <2>2 DEF Promise!Hand, Epochs, Readings
  <2> QED BY <2>3 DEF Promise!Next
<1> QED BY <1>7, <1>8

\* Changing the lock: keepers catch up, the others stay where they were.
LEMMA ChangeLockStep ==
    ASSUME IInv, [Next]_vars, NEW me \in ids, NEW c \in Founded, CurrentKey(me, c) # NoKey,
           NEW except, NEW root \in ContentKeys, Rotated(c, except, root)
    PROVE  Promise!ChangeLock(c)
<1>1. /\ Founded' = Founded /\ now' = now /\ me \in People
      /\ \A d \in Founded \ {c} : closes'[d] = closes[d]
      /\ closes'[c].epoch = closes[c].epoch + 1
      /\ \A p \in People \ Keepers(c, except) : grants'[p] = grants[p]
      BY DEF Rotated, IInv, TypeOK, Founded
<1>2. PICK e \in Nat : e = closes[c].epoch
      BY CloseFacts DEF IInv
<1>3. \A lane \in Lanes : <<lane, e>> \in ReadBy(c, me)
  <2> TAKE lane \in Lanes
  <2>1. /\ e \in 0..closes[c].epoch /\ Content \in Lanes /\ lane <= Content /\ e <= e
        BY <1>2 DEF Lanes, Shape, Content
  <2>2. Entitled(me, c, Content, e)
        BY <1>2, <2>1, KeyOfExact DEF CurrentKey
  <2>3. Entitled(me, c, lane, e)
        BY <1>1, <2>1, <2>2, ReadsBelow
  <2>4. <<lane, e>> \in Lanes \X (0..closes[c].epoch) /\ <<lane, e>>[1] = lane /\ <<lane, e>>[2] = e
        BY <2>1
  <2> QED BY <1>1, <2>3, <2>4, Reads
<1>4. ASSUME NEW d \in Founded, NEW p \in People, d # c
      PROVE  ReadBy(d, p)' = ReadBy(d, p)
  <2>1. ASSUME NEW facet \in Lanes, NEW epoch \in 0..closes[d].epoch
        PROVE  Entitled(p, d, facet, epoch)' <=> Entitled(p, d, facet, epoch)
    <3>1. CASE p \in Keepers(c, except)
      <4>1. PICK g \in Grant : grants'[p] = Append(grants[p], g) /\ Leaf(g).close = c
            BY <3>1, KeeperHolds
      <4>2. ~ LeafReads(Leaf(g), d, facet, epoch, now)
            BY <1>4, <4>1 DEF LeafReads
      <4> QED BY <1>1, <4>1, <4>2, AppendReads
    <3>2. CASE p \notin Keepers(c, except)
          BY <1>1, <3>2, SameReads
    <3> QED BY <3>1, <3>2
  <2> QED BY <1>1, <1>4, <2>1, SameReading
<1> DEFINE old == Lanes \X (0..e)
           new == Lanes \X (0..e + 1)
<1>5. /\ 0..e \subseteq 0..e + 1
      /\ \A epoch \in 0..e + 1 : epoch \in 0..e \/ (epoch \in Nat /\ epoch > e)
      BY <1>2
<1>6. ASSUME NEW p \in People
      PROVE  /\ ReadBy(c, p) \subseteq old /\ ReadBy(c, p)' \subseteq new
             /\ \A facet \in Lanes : \A epoch \in 0..e :
                   <<facet, epoch>> \in ReadBy(c, p) <=> Entitled(p, c, facet, epoch)
             /\ \A facet \in Lanes : \A epoch \in 0..e + 1 :
                   <<facet, epoch>> \in ReadBy(c, p)' <=> Entitled(p, c, facet, epoch)'
  <2>1. /\ ReadBy(c, p) \subseteq old /\ ReadBy(c, p)' \subseteq new
        /\ \A t \in old : t \in ReadBy(c, p) <=> Entitled(p, c, t[1], t[2])
        /\ \A t \in new : t \in ReadBy(c, p)' <=> Entitled(p, c, t[1], t[2])'
        BY <1>1, <1>2, Reads
  <2>2. \A facet \in Lanes : \A epoch \in 0..e :
           <<facet, epoch>> \in ReadBy(c, p) <=> Entitled(p, c, facet, epoch)
    <3> TAKE facet \in Lanes
    <3> TAKE epoch \in 0..e
    <3>1. <<facet, epoch>> \in old /\ <<facet, epoch>>[1] = facet /\ <<facet, epoch>>[2] = epoch
          OBVIOUS
    <3> QED BY <2>1, <3>1
  <2>3. \A facet \in Lanes : \A epoch \in 0..e + 1 :
           <<facet, epoch>> \in ReadBy(c, p)' <=> Entitled(p, c, facet, epoch)'
    <3> TAKE facet \in Lanes
    <3> TAKE epoch \in 0..e + 1
    <3>1. <<facet, epoch>> \in new /\ <<facet, epoch>>[1] = facet /\ <<facet, epoch>>[2] = epoch
          OBVIOUS
    <3> QED BY <2>1, <3>1
  <2> QED BY <2>1, <2>2, <2>3
<1>7. ASSUME NEW p \in People, p \notin Keepers(c, except)
      PROVE  ReadBy(c, p)' = ReadBy(c, p)
  <2>1. \A facet \in Lanes : \A epoch \in 0..e + 1 :
           Entitled(p, c, facet, epoch)' <=> Entitled(p, c, facet, epoch)
        BY <1>1, <1>7, SameReads
  <2>2. \A facet \in Lanes : \A epoch \in 0..e + 1 :
           Entitled(p, c, facet, epoch) => epoch \in 0..e
        BY <1>2, <1>5, NothingAhead
  <2>3. \A facet \in Lanes : \A epoch \in 0..e + 1 :
           <<facet, epoch>> \in ReadBy(c, p)' <=> <<facet, epoch>> \in ReadBy(c, p)
        BY <1>5, <1>6, <2>1, <2>2
  <2>4. ReadBy(c, p) \subseteq new /\ ReadBy(c, p)' \subseteq new
        BY <1>5, <1>6
  <2> QED BY <2>3, <2>4
<1>8. ASSUME NEW p \in Keepers(c, except)
      PROVE  ReadBy(c, p)' = Promise!CaughtUp(ReadBy(c, p), e)
  <2>1. p \in People
        BY DEF Keepers, IInv, TypeOK
  <2>2. \A facet \in Lanes : \A epoch \in 0..e + 1 :
           Entitled(p, c, facet, epoch)' <=> \E n \in 0..e : Entitled(p, c, facet, n)
        BY <1>2, KeeperReads
  <2> DEFINE lanes == {t[1] : t \in ReadBy(c, p)}
  <2>3. \A facet \in Lanes : facet \in lanes <=> \E n \in 0..e : Entitled(p, c, facet, n)
    <3> TAKE facet \in Lanes
    <3>1. ASSUME facet \in lanes
          PROVE  \E n \in 0..e : Entitled(p, c, facet, n)
      <4>1. PICK t \in ReadBy(c, p) : facet = t[1]
            BY <3>1
      <4>2. t = <<t[1], t[2]>> /\ t[2] \in 0..e
            BY <1>6, <2>1
      <4> QED BY <1>6, <2>1, <4>1, <4>2
    <3>2. ASSUME NEW n \in 0..e, Entitled(p, c, facet, n)
          PROVE  facet \in lanes
      <4>1. <<facet, n>> \in ReadBy(c, p) /\ <<facet, n>>[1] = facet
            BY <1>6, <2>1, <3>2
      <4> QED BY <4>1
    <3> QED BY <3>1, <3>2
  <2>4. lanes \subseteq Lanes
        BY <1>6, <2>1
  <2> HIDE DEF lanes
  <2>5. \A facet \in Lanes : \A epoch \in 0..e + 1 :
           <<facet, epoch>> \in ReadBy(c, p)' <=> <<facet, epoch>> \in lanes \X (0..e + 1)
        BY <1>6, <2>1, <2>2, <2>3
  <2>6. ReadBy(c, p)' \subseteq new /\ lanes \X (0..e + 1) \subseteq new
        BY <1>6, <2>1, <2>4
  <2>7. ReadBy(c, p)' = lanes \X (0..e + 1)
        BY <2>5, <2>6
  <2> QED BY <2>7 DEF Promise!CaughtUp, lanes
<1> HIDE DEF old, new
<1>9. /\ DOMAIN Readings = Founded /\ DOMAIN Readings' = Founded /\ Epochs[c] = e
      /\ \A d \in Founded, p \in People :
            Readings[d][p] = ReadBy(d, p) /\ Readings'[d][p] = ReadBy(d, p)'
      BY <1>1, <1>2 DEF Readings, Epochs
<1>10. Epochs' = [Epochs EXCEPT ![c] = @ + 1]
       BY <1>1 DEF Epochs
<1>11. \A lane \in Lanes : <<lane, Epochs[c]>> \in Readings[c][me]
       BY <1>1, <1>3, <1>9
<1>12. \A d \in Founded, p \in People :
          \/ Readings'[d][p] = Readings[d][p]
          \/ d = c /\ Readings'[d][p] = Promise!CaughtUp(Readings[d][p], Epochs[c])
       BY <1>4, <1>7, <1>8, <1>9
<1>13. Promise!LockChanged(Readings, Readings', c)
       BY <1>1, <1>9, <1>11, <1>12 DEF Promise!LockChanged, Epochs
<1> QED BY <1>9, <1>10, <1>13 DEF Promise!ChangeLock, Epochs, Readings

\* Entitlements have no gaps.
Downward ==
    \A p \in People, c \in Founded, facet \in Lanes : \A epoch \in Nat :
        Entitled(p, c, facet, epoch) => \A n \in 0..epoch : Entitled(p, c, facet, n)

\* Who opens an epoch opens those before it, after the step too.
LEMMA DownwardAfter == IInv' => Downward'
<1>1. IInv => Downward
  <2> SUFFICES ASSUME IInv, NEW p \in People, NEW c \in Founded, NEW facet \in Lanes,
                      NEW epoch \in Nat, Entitled(p, c, facet, epoch), NEW n \in 0..epoch
               PROVE  Entitled(p, c, facet, n)
      BY DEF Downward
  <2>1. facet <= facet /\ n \in Nat /\ n <= epoch
        BY DEF Lanes, Shape, Content
  <2> QED BY <2>1, ReadsBelow
<1> QED BY <1>1, PTL

\* A day takes readings away, in each lane the newest epochs first.
LEMMA FadeStep ==
    ASSUME IInv, [Next]_vars, Tick
    PROVE  Promise!Fade
<1>1. UNCHANGED <<ids, closes, grants>> /\ Founded' = Founded /\ now' = now + 1 /\ now \in Nat
      BY DEF Tick, Founded, IInv, TypeOK
<1>2. IInv' /\ Downward'
      BY NextIInv, DownwardAfter
<1>3. ASSUME NEW c \in Founded, NEW p \in People
      PROVE  /\ ReadBy(c, p)' \subseteq ReadBy(c, p)
             /\ \A t \in ReadBy(c, p)' : \A e \in 0..t[2] : <<t[1], e>> \in ReadBy(c, p)'
  <2> DEFINE pairs == Lanes \X (0..closes[c].epoch)
  <2>1. /\ ReadBy(c, p)' \subseteq pairs
        /\ \A t \in pairs : t \in ReadBy(c, p) <=> Entitled(p, c, t[1], t[2])
        /\ \A t \in pairs : t \in ReadBy(c, p)' <=> Entitled(p, c, t[1], t[2])'
        BY <1>1, Reads
  <2>2. \A facet, epoch : Entitled(p, c, facet, epoch)' => Entitled(p, c, facet, epoch)
    <3>1. \A i \in 1..Len(grants[p]) :
             Alive(Leaf(grants[p][i]).expires, now + 1) => Alive(Leaf(grants[p][i]).expires, now)
      <4> TAKE i \in 1..Len(grants[p])
      <4>1. Leaf(grants[p][i]).expires \in Nat \cup {Never}
            BY HeldBegun DEF Link, Expiry
      <4> QED BY <1>1, <4>1 DEF Alive
    <3> QED BY <1>1, <3>1 DEF Entitled
  <2>3. closes[c].epoch \in Nat /\ c \in Founded'
        BY <1>1, CloseFacts DEF IInv
  <2>4. ASSUME NEW t \in ReadBy(c, p)', NEW e \in 0..t[2]
        PROVE  <<t[1], e>> \in ReadBy(c, p)'
    <3>1. /\ t \in pairs /\ t[1] \in Lanes /\ t[2] \in 0..closes[c].epoch /\ t[2] \in Nat
          /\ Entitled(p, c, t[1], t[2])'
          BY <2>1, <2>3
    <3>2. Entitled(p, c, t[1], e)'
          BY <1>2, <2>3, <3>1 DEF Downward
    <3>3. <<t[1], e>> \in pairs /\ <<t[1], e>>[1] = t[1] /\ <<t[1], e>>[2] = e
          BY <2>3, <3>1
    <3> QED BY <2>1, <3>2, <3>3
  <2> QED BY <2>1, <2>2, <2>4
<1>4. /\ DOMAIN Readings = Founded /\ DOMAIN Readings' = Founded
      /\ \A c \in Founded, p \in People :
            Readings[c][p] = ReadBy(c, p) /\ Readings'[c][p] = ReadBy(c, p)'
      BY <1>1 DEF Readings
<1>5. Promise!Faded(Readings, Readings')
      BY <1>3, <1>4 DEF Promise!Faded
<1>6. Epochs' = Epochs
      BY <1>1 DEF Epochs
<1> QED BY <1>4, <1>5, <1>6 DEF Promise!Fade, Epochs, Readings

\* Every step is a step of Readership or a stutter.
LEMMA PromiseStep ==
    ASSUME IInv, [Next]_vars
    PROVE  [Promise!Next]_(Promise!vars)
<1>1. CASE \E name \in People : NewIdentity(name)
      BY <1>1, QuietStep DEF NewIdentity
<1>2. CASE \E me \in People, c \in Closes : Protect(me, c)
  <2>1. PICK me \in People, c \in Closes : Protect(me, c)
        BY <1>2
  <2>2. me \in ids
        BY <2>1 DEF Protect
  <2> QED BY <2>1, <2>2, FoundStep DEF Promise!Next
<1>3. CASE \E me \in ids, c \in Founded, with \in Receivers, facet \in ShareFacets,
              powers \in SharePowers, days \in ShareDays :
              ShareAsSteward(me, c, with, facet, powers, days)
      BY <1>3, ShareAsStewardEffect, HandStep
<1>4. CASE \E me \in ids, c \in Founded, with \in Receivers, facet \in ShareFacets,
              powers \in SharePowers, days \in ShareDays :
              ShareOnward(me, c, with, facet, powers, days)
      BY <1>4, ShareOnwardEffect, HandStep
<1>5. CASE \E me \in ids, c \in Founded, except \in SUBSET Excludable : Rotate(me, c, except)
  <2>1. PICK me \in ids, c \in Founded, except \in SUBSET Excludable : Rotate(me, c, except)
        BY <1>5
  <2>2. CurrentKey(me, c) # NoKey
        BY <2>1 DEF Rotate
  <2>3. PICK root \in ContentKeys : Rotated(c, except, root)
        BY <2>1, RotateEffect
  <2>4. Promise!ChangeLock(c)
        BY <2>2, <2>3, ChangeLockStep
  <2>5. c \in DOMAIN Epochs
        BY DEF Epochs
  <2> QED BY <2>4, <2>5 DEF Promise!Next, Epochs
<1>6. CASE Tick
      BY <1>6, FadeStep DEF Promise!Next
<1>7. CASE UNCHANGED vars
      BY <1>7, QuietStep DEF vars
<1> QED BY <1>1, <1>2, <1>3, <1>4, <1>5, <1>6, <1>7 DEF Next

\* The initial states are initial states of Readership.
LEMMA PromiseInit == Init => Promise!Init
<1> SUFFICES ASSUME Init PROVE Promise!Init
    OBVIOUS
<1>0. IInv /\ ReadsExact
      BY InitIInv, ReadsExactHolds
<1>1. PICK root \in ContentKeys :
        /\ closes = [c \in {Commons} |-> FoundRecord(c, Founder)]
        /\ grants = [p \in People |-> IF p = Founder
                                      THEN <<FoundingGrant(Founder, Commons, root)>>
                                      ELSE <<>>]
      BY DEF Init
<1> DEFINE g == FoundingGrant(Founder, Commons, root)
<1>2. /\ Leaf(g).close = Commons /\ Leaf(g).epoch = 0
      /\ Leaf(g).facet = Content /\ Leaf(g).expires = Never
      BY DEF FoundRecord, FoundingGrant, IssueRoot, LinkTo, Leaf
<1>3. /\ Founded = {Commons} /\ closes[Commons].epoch = 0
      /\ \A p \in People : grants[p] = IF p = Founder THEN <<g>> ELSE <<>>
      BY <1>1 DEF Founded, FoundRecord
<1> HIDE DEF g
<1>4. \A p \in People : ReadBy(Commons, p) = IF p = Founder THEN Lanes \X {0} ELSE {}
  <2> TAKE p \in People
  <2>1. ReadBy(Commons, p) = {t \in Lanes \X {0} : Entitled(p, Commons, t[1], t[2])}
    <3>1. 0..0 = {0}
          OBVIOUS
    <3> QED BY <1>0, <1>3, <3>1 DEF ReadsExact
  <2>2. \A facet \in Lanes : Entitled(p, Commons, facet, 0) <=> p = Founder
    <3> TAKE facet \in Lanes
    <3>1. CASE p = Founder
      <4>1. Len(grants[p]) = 1 /\ grants[p][1] = g
            BY <1>3, <3>1
      <4>2. LeafReads(Leaf(g), Commons, facet, 0, now)
            BY <1>2 DEF LeafReads, Alive, Lanes, Shape, Content
      <4> QED BY <3>1, <4>1, <4>2, EntitledBy
    <3>2. CASE p # Founder
      <4>1. Len(grants[p]) = 0
            BY <1>3, <3>2
      <4> QED BY <3>2, <4>1 DEF Entitled
    <3> QED BY <3>1, <3>2
  <2>3. \A t \in Lanes \X {0} : t[1] \in Lanes /\ t[2] = 0
        OBVIOUS
  <2> QED BY <2>1, <2>2, <2>3
<1>5. Epochs = [c \in {Commons} |-> 0]
      BY <1>3 DEF Epochs
<1>6. Readings = [c \in {Commons} |-> Promise!FoundedBy(Founder)]
      BY <1>3, <1>4 DEF Readings, Promise!FoundedBy
<1> QED BY <1>5, <1>6 DEF Promise!Init, Epochs, Readings

\* With the keys forgotten and only what each person can open kept, the
\* commands are Readership: a share hands on what its giver reads, changing
\* the lock adds an epoch for those who keep up and for nobody else, days take
\* readings away newest first, and nothing else touches who reads what.
THEOREM CommandsKeepTheReadership == Spec => ImplementsReadership
<1>1. IInv /\ [Next]_vars => [Promise!Next]_(Promise!vars)
      BY PromiseStep
<1> QED BY Invariance, PromiseInit, <1>1, PTL DEF Spec, ImplementsReadership, Promise!Spec
=============================================================================
