---------------------------- MODULE GrantsProofs ----------------------------
(***************************************************************************)
(* Theorems about the operators of Lock and of Grants: what deriving,      *)
(* wrapping and above all walking the chain return; what issuing and       *)
(* attenuating produce; that a chain of grants lives as long as its leaf;  *)
(* and which key a truthfully labelled grant yields.                       *)
(***************************************************************************)
EXTENDS Grants, Basics

-----------------------------------------------------------------------------
\* The equation of the recursive function inside WalkChain.
Walk(rec, key, have, want, lane, at) ==
    [n \in want..have |-> IF n = have THEN key ELSE StepBack(rec, at[n + 1], n, lane)]

\* The equation has a solution: the walk can always be carried through.
LEMMA WalkExists ==
    ASSUME NEW rec, NEW key, NEW have \in Nat, NEW want \in Nat, want <= have, NEW lane
    PROVE  \E at : at = Walk(rec, key, have, want, lane, at)
<1> DEFINE Solved(d) == \E at : at = Walk(rec, key, have, have - d, lane, at)
           T == {d \in Nat : d <= have /\ ~ Solved(d)}
<1>1. T = {}
  <2> SUFFICES ASSUME T # {} PROVE FALSE
      OBVIOUS
  <2>1. T \subseteq Nat
        OBVIOUS
  <2>2. \E d \in T : \A e \in T : d <= e
        <3> HIDE DEF T
        <3> QED BY <2>1, LeastElement
  <2>3. PICK d \in T : \A e \in T : d <= e
        BY <2>2
  <2>4. d \in Nat /\ d <= have /\ ~ Solved(d)
        OBVIOUS
  <2>5. CASE d = 0
    <3> DEFINE one == [n \in have..have |-> key]
    <3>1. one = Walk(rec, key, have, have, lane, one)
          BY DEF Walk
    <3>2. Solved(0)
          BY <3>1
    <3> QED BY <2>4, <2>5, <3>2
  <2>6. CASE d # 0
    <3>1. d - 1 \in Nat /\ d - 1 <= have /\ ~ (d <= d - 1)
          BY <2>4, <2>6
    <3>2. Solved(d - 1)
          BY <2>3, <3>1
    <3>3. PICK at : at = Walk(rec, key, have, have - (d - 1), lane, at)
          BY <3>2
    <3> DEFINE m == have - d
               more == [n \in m..have |-> IF n = m THEN StepBack(rec, at[m + 1], m, lane) ELSE at[n]]
    <3>4. m \in Nat /\ m < have /\ have - (d - 1) = m + 1
          BY <2>4, <2>6
    <3>5. ASSUME NEW n \in (m + 1)..have
          PROVE  at[n] = IF n = have THEN key ELSE StepBack(rec, at[n + 1], n, lane)
          BY <3>3, <3>4 DEF Walk
    <3>6. ASSUME NEW n \in m..have
          PROVE  more[n] = IF n = have THEN key ELSE StepBack(rec, more[n + 1], n, lane)
      <4>1. CASE n = m
        <5>1. more[n + 1] = at[m + 1]
              BY <3>4, <4>1
        <5> QED BY <3>4, <4>1, <5>1
      <4>2. CASE n # m /\ n = have
            BY <3>4, <3>5, <4>2
      <4>3. CASE n # m /\ n # have
        <5>1. n + 1 \in (m + 1)..have /\ n + 1 # m
              BY <3>4, <4>3
        <5>2. more[n + 1] = at[n + 1]
              BY <3>4, <5>1
        <5> QED BY <3>4, <3>5, <4>3, <5>2
      <4> QED BY <4>1, <4>2, <4>3
    <3>7. more = Walk(rec, key, have, m, lane, more)
      <4> DEFINE goal == [n \in m..have |-> IF n = have THEN key ELSE StepBack(rec, more[n + 1], n, lane)]
      <4>1. more = goal
            BY <3>6
      <4> QED BY <4>1 DEF Walk
    <3>8. Solved(d)
      <4> HIDE DEF more
      <4> QED BY <3>7
    <3> QED BY <2>4, <3>8
  <2> QED BY <2>5, <2>6
<1>2. have - want \in Nat /\ have - want <= have /\ have - (have - want) = want
      OBVIOUS
<1>3. Solved(have - want)
      BY <1>1, <1>2
<1> QED BY <1>2, <1>3

\* What holds of the key in hand and is kept by every step back holds of the
\* key a walk returns: S[n] is the set of what the key of epoch n may be.
LEMMA WalkKeeps ==
    ASSUME NEW rec, NEW key, NEW have \in Nat, NEW want \in Nat, want <= have, NEW lane,
           NEW S,
           key \in S[have],
           \A n \in want..(have - 1) : \A k \in S[n + 1] : StepBack(rec, k, n, lane) \in S[n]
    PROVE  WalkChain(rec, key, have, want, lane) \in S[want]
<1> DEFINE walked == CHOOSE at : at = Walk(rec, key, have, want, lane, at)
<1>1. WalkChain(rec, key, have, want, lane) = walked[want]
      BY DEF WalkChain, Walk
<1>2. walked = Walk(rec, key, have, want, lane, walked)
      BY WalkExists
<1> HIDE DEF walked
<1>3. \A n \in want..have :
         walked[n] = IF n = have THEN key ELSE StepBack(rec, walked[n + 1], n, lane)
      BY <1>2 DEF Walk
<1> DEFINE T == {d \in Nat : d <= have - want /\ walked[have - d] \notin S[have - d]}
<1>4. T = {}
  <2> SUFFICES ASSUME T # {} PROVE FALSE
      OBVIOUS
  <2>1. T \subseteq Nat
        OBVIOUS
  <2>2. \E d \in T : \A e \in T : d <= e
        <3> HIDE DEF T
        <3> QED BY <2>1, LeastElement
  <2>3. PICK d \in T : \A e \in T : d <= e
        BY <2>2
  <2>4. d # 0
        BY <1>3
  <2>5. d - 1 \in Nat /\ d - 1 <= have - want /\ d - 1 \notin T
        BY <2>3, <2>4
  <2> DEFINE n == have - d
  <2>6. n \in want..(have - 1) /\ have - (d - 1) = n + 1
        BY <2>4
  <2>7. walked[n + 1] \in S[n + 1]
        BY <2>5, <2>6
  <2>8. walked[n] = StepBack(rec, walked[n + 1], n, lane)
        BY <1>3, <2>6
  <2>9. walked[n] \in S[n]
        BY <2>6, <2>7, <2>8
  <2> QED BY <2>9
<1>6. walked[want] \in S[want]
  <2> DEFINE e == have - want
  <2>1. e \in Nat /\ e <= have - want /\ have - e = want
        OBVIOUS
  <2>2. e \notin T
        BY <1>4
  <2>3. walked[have - e] \in S[have - e]
        BY <2>1, <2>2
  <2> QED BY <2>1, <2>3
<1> QED BY <1>1, <1>6

-----------------------------------------------------------------------------
\* A minted key is a key.
LEMMA MintKeyType ==
    ASSUME NEW root \in ContentKeys, NEW c \in Closes
    PROVE  MintKey(root, c) \in Key
BY DEF MintKey, Key, Lanes

\* Deriving downward from a content key gives a key for each lane.
LEMMA FacetKeyType ==
    ASSUME NEW k \in Key, NEW c \in Closes, NEW lane \in Lanes
    PROVE  FacetKey(k, c, lane) \in Key
BY DEF FacetKey, Key, Lanes, Shape, Content, Presence

\* Lowering the key of a lane that derives from one content key gives the key
\* of the wanted lane that derives from it.
LEMMA LowerDerived ==
    ASSUME NEW k \in Key, NEW c \in Closes, NEW have \in Lanes, NEW want \in Facets
    PROVE  LowerFacetKey(FacetKey(k, c, have), have, want, c) =
             IF want = Presence \/ want > have THEN NoKey ELSE FacetKey(k, c, want)
<1>1. FacetKey(k, c, have) # NoKey
      BY FacetKeyType, NoKeyIsNoKey
<1>2. CASE have = Content
      BY <1>1, <1>2 DEF LowerFacetKey, FacetKey, Lanes, Facets, Shape, Content, Presence
<1>3. CASE have = Shape
      BY <1>1, <1>3 DEF LowerFacetKey, FacetKey, Lanes, Facets, Shape, Content, Presence
<1> QED BY <1>2, <1>3 DEF Lanes

\* No key is lowered to no key.
LEMMA LowerNoKey ==
    ASSUME NEW have, NEW want, NEW c
    PROVE  LowerFacetKey(NoKey, have, want, c) = NoKey
BY DEF LowerFacetKey

\* A link between two epochs has a box for each lane.
LEMMA EpochLinkType ==
    ASSUME NEW rec, rec.id \in Closes, rec.epoch \in Nat, NEW current \in Key, NEW new \in Key
    PROVE  EpochLink(rec, current, new) \in [Lanes -> Box]
<1>1. ASSUME NEW lane \in Lanes
      PROVE  Wrap(FacetKey(new, rec.id, lane), ChainAad(rec.id, rec.epoch, lane),
                  FacetKey(current, rec.id, lane)) \in Box
      BY FacetKeyType DEF Wrap, ChainAad, Box
<1> QED BY <1>1 DEF EpochLink

\* Rotation leaves the id and the steward alone, and adds one epoch and one link.
LEMMA RotateRecordFields ==
    ASSUME NEW P, NEW rec \in Record(P), NEW current \in Key, NEW new \in Key
    PROVE  /\ RotateRecord(rec, current, new) \in Record(P)
           /\ RotateRecord(rec, current, new).id = rec.id
           /\ RotateRecord(rec, current, new).steward = rec.steward
           /\ RotateRecord(rec, current, new).epoch = rec.epoch + 1
           /\ RotateRecord(rec, current, new).chain =
                 Append(rec.chain, EpochLink(rec, current, new))
<1>1. EpochLink(rec, current, new) \in [Lanes -> Box]
      BY EpochLinkType DEF Record
<1>2. Append(rec.chain, EpochLink(rec, current, new)) \in Seq([Lanes -> Box])
      BY <1>1 DEF Record
<1>3. RotateRecord(rec, current, new) =
        [id |-> rec.id, steward |-> rec.steward, epoch |-> rec.epoch + 1,
         chain |-> Append(rec.chain, EpochLink(rec, current, new))]
      BY DEF RotateRecord, Record
<1> QED BY <1>2, <1>3 DEF Record

\* Opening the link that holds `held` under `key` gives `held`.
LEMMA StepBackOpens ==
    ASSUME NEW rec, NEW n \in Nat, NEW lane, NEW key, NEW held,
           n + 1 <= Len(rec.chain), Len(rec.chain) \in Nat,
           rec.chain[n + 1][lane] = Wrap(key, ChainAad(rec.id, n, lane), held)
    PROVE  StepBack(rec, key, n, lane) = held
BY DEF StepBack, Unwrap, Wrap

-----------------------------------------------------------------------------
\* The key of a lane at an epoch that has a root is a key.
LEMMA KeyAtType ==
    ASSUME NEW roots \in Seq(ContentKeys), NEW c \in Closes, NEW lane \in Lanes,
           NEW epoch \in Nat, epoch < Len(roots)
    PROVE  KeyAt(roots, c, lane, epoch) \in Key
<1>1. roots[epoch + 1] \in ContentKeys
      OBVIOUS
<1> QED BY <1>1, MintKeyType, FacetKeyType DEF KeyAt

\* A later root changes no earlier key.
LEMMA KeyAtAppend ==
    ASSUME NEW roots \in Seq(ContentKeys), NEW root \in ContentKeys, NEW c, NEW lane,
           NEW epoch \in Nat, epoch < Len(roots)
    PROVE  KeyAt(Append(roots, root), c, lane, epoch) = KeyAt(roots, c, lane, epoch)
<1>1. Append(roots, root)[epoch + 1] = roots[epoch + 1]
      OBVIOUS
<1> QED BY <1>1 DEF KeyAt

\* A record that tells the truth opens the past: from the key of one epoch,
\* the walk returns the very key of any earlier epoch, and none of a later.
THEOREM WalkTruthful ==
    ASSUME NEW P, NEW rec \in Record(P), NEW roots \in Seq(ContentKeys),
           TruthfulTo(rec, roots), NEW lane \in Lanes,
           NEW have \in 0..rec.epoch, NEW want \in Nat
    PROVE  WalkChain(rec, KeyAt(roots, rec.id, lane, have), have, want, lane) =
             IF want > have THEN NoKey ELSE KeyAt(roots, rec.id, lane, want)
<1>0. rec.epoch \in Nat /\ rec.id \in Closes
      BY DEF Record
<1>1. CASE want > have
      BY <1>1 DEF WalkChain
<1>2. CASE want <= have
  <2> DEFINE S == [n \in 0..rec.epoch |-> {KeyAt(roots, rec.id, lane, n)}]
             key == KeyAt(roots, rec.id, lane, have)
  <2>1. have \in Nat /\ want <= have
        BY <1>0, <1>2
  <2>2. key \in S[have]
        OBVIOUS
  <2>3. ASSUME NEW n \in want..(have - 1), NEW k \in S[n + 1]
        PROVE  StepBack(rec, k, n, lane) \in S[n]
    <3>1. n \in Nat /\ n \in 0..rec.epoch /\ n + 1 \in 1..rec.epoch /\ n + 1 \in 0..rec.epoch
          BY <1>0, <2>1
    <3>2. k = KeyAt(roots, rec.id, lane, n + 1)
          BY <3>1
    <3>3. Len(rec.chain) = rec.epoch
          BY DEF TruthfulTo
    <3>4. rec.chain[n + 1][lane] = Wrap(KeyAt(roots, rec.id, lane, n + 1),
                                        ChainAad(rec.id, (n + 1) - 1, lane),
                                        KeyAt(roots, rec.id, lane, (n + 1) - 1))
          BY <3>1 DEF TruthfulTo
    <3>5. (n + 1) - 1 = n
          BY <3>1
    <3>6. rec.chain[n + 1][lane] = Wrap(k, ChainAad(rec.id, n, lane), KeyAt(roots, rec.id, lane, n))
          BY <3>2, <3>4, <3>5
    <3>7. n + 1 <= Len(rec.chain) /\ Len(rec.chain) \in Nat
          BY <1>0, <3>1, <3>3
    <3>8. StepBack(rec, k, n, lane) = KeyAt(roots, rec.id, lane, n)
          BY <3>1, <3>6, <3>7, StepBackOpens
    <3> QED BY <3>1, <3>8
  <2> HIDE DEF S, key
  <2>4. WalkChain(rec, key, have, want, lane) \in S[want]
        BY <2>1, <2>2, <2>3, WalkKeeps
  <2>5. want \in 0..rec.epoch
        BY <1>0, <2>1
  <2> QED BY <1>2, <1>0, <2>1, <2>4, <2>5 DEF S, key
<1> QED BY <1>0, <1>1, <1>2

\* Changing the lock with the current content key keeps the record truthful.
THEOREM RotateTruthful ==
    ASSUME NEW P, NEW rec \in Record(P), NEW roots \in Seq(ContentKeys), TruthfulTo(rec, roots),
           NEW root \in ContentKeys
    PROVE  TruthfulTo(RotateRecord(rec, KeyAt(roots, rec.id, Content, rec.epoch),
                                   MintKey(root, rec.id)),
                      Append(roots, root))
<1> DEFINE current == KeyAt(roots, rec.id, Content, rec.epoch)
           fresh == MintKey(root, rec.id)
           after == RotateRecord(rec, current, fresh)
           longer == Append(roots, root)
<1>0. /\ rec.epoch \in Nat /\ rec.id \in Closes
      /\ rec.chain \in Seq([Lanes -> Box])
      /\ Len(roots) = rec.epoch + 1 /\ Len(rec.chain) = rec.epoch
      BY DEF Record, TruthfulTo
<1>1. current \in Key /\ fresh \in Key
      BY <1>0, KeyAtType, MintKeyType DEF Lanes
<1>2. /\ after.id = rec.id /\ after.epoch = rec.epoch + 1
      /\ after.chain = Append(rec.chain, EpochLink(rec, current, fresh))
      BY <1>1, RotateRecordFields
<1>3. EpochLink(rec, current, fresh) \in [Lanes -> Box]
      BY <1>0, <1>1, EpochLinkType
<1>4. Len(longer) = after.epoch + 1 /\ Len(after.chain) = after.epoch
      BY <1>0, <1>2, <1>3
<1> HIDE DEF after
<1>5. ASSUME NEW i \in 1..after.epoch, NEW lane \in Lanes
      PROVE  after.chain[i][lane] = Wrap(KeyAt(longer, rec.id, lane, i),
                                         ChainAad(rec.id, i - 1, lane),
                                         KeyAt(longer, rec.id, lane, i - 1))
  <2>1. CASE i <= rec.epoch
    <3>1. i \in 1..rec.epoch
          BY <1>0, <2>1
    <3>2. after.chain[i] = rec.chain[i]
          BY <1>0, <1>2, <1>3, <3>1
    <3>3. i \in Nat /\ i < Len(roots) /\ i - 1 \in Nat /\ i - 1 < Len(roots)
          BY <1>0, <3>1
    <3>4. /\ KeyAt(longer, rec.id, lane, i) = KeyAt(roots, rec.id, lane, i)
          /\ KeyAt(longer, rec.id, lane, i - 1) = KeyAt(roots, rec.id, lane, i - 1)
          BY <3>3, KeyAtAppend
    <3> QED BY <3>1, <3>2, <3>4 DEF TruthfulTo
  <2>2. CASE i = rec.epoch + 1
    <3>1. after.chain[i] = EpochLink(rec, current, fresh)
          BY <1>0, <1>2, <1>3, <2>2
    <3>2. KeyAt(longer, rec.id, lane, i) = FacetKey(fresh, rec.id, lane)
      <4>1. longer[i + 1] = root
            BY <1>0, <2>2
      <4> QED BY <4>1 DEF KeyAt
    <3>3. i - 1 = rec.epoch /\ rec.epoch < Len(roots)
          BY <1>0, <2>2
    <3>4. KeyAt(longer, rec.id, lane, i - 1) = KeyAt(roots, rec.id, lane, rec.epoch)
          BY <1>0, <3>3, KeyAtAppend
    <3>5. FacetKey(current, rec.id, lane) = KeyAt(roots, rec.id, lane, rec.epoch)
          BY DEF KeyAt, FacetKey
    <3> QED BY <3>1, <3>2, <3>3, <3>4, <3>5 DEF EpochLink
  <2> QED BY <1>0, <1>2, <2>1, <2>2
<1>6. TruthfulTo(after, longer)
      BY <1>2, <1>4, <1>5 DEF TruthfulTo
<1> QED BY <1>6 DEF after

-----------------------------------------------------------------------------
\* A grant is a chain of links and has a last one.
LEMMA LeafOfGrant ==
    ASSUME NEW g \in Grant
    PROVE  /\ Len(g) \in Nat /\ Len(g) >= 1
           /\ Leaf(g) \in Link
           /\ \A j \in 1..Len(g) : g[j] \in Link
<1>1. g \in Seq(Link) /\ g # <<>>
      BY DEF Grant
<1>2. Len(g) \in Nat /\ Len(g) >= 1
      BY <1>1
<1>3. \A j \in 1..Len(g) : g[j] \in Link
      BY <1>1
<1> QED BY <1>2, <1>3 DEF Leaf

\* What issue_root and attenuate append to a chain is a link.
LEMMA LinkToType ==
    ASSUME NEW c \in Closes, NEW issuer \in People, NEW holder \in People,
           NEW facet \in Facets, NEW powers \in SUBSET AllPowers, NEW prefix \in Seq(Names),
           NEW expires \in Expiry, NEW epoch \in Nat, NEW key,
           key # NoKey => key \in Key /\ facet \in Lanes
    PROVE  LinkTo(c, issuer, holder, facet, powers, prefix, expires, epoch, key) \in Link
<1> DEFINE box == IF key = NoKey THEN NoKey
                  ELSE WrapTo(holder, WrapAad(c, holder, facet, epoch), key)
<1>1. box \in WrappedKey \cup {NoKey}
      BY DEF WrapTo, WrapAad, WrappedKey
<1> QED BY <1>1 DEF LinkTo, Link

\* And has the fields it was made with.
LEMMA LinkToFields ==
    ASSUME NEW c, NEW issuer, NEW holder, NEW facet, NEW powers, NEW prefix,
           NEW expires, NEW epoch, NEW key
    PROVE  LET b == LinkTo(c, issuer, holder, facet, powers, prefix, expires, epoch, key)
           IN  /\ b.close = c /\ b.issuer = issuer /\ b.holder = holder
               /\ b.facet = facet /\ b.powers = powers /\ b.prefix = prefix
               /\ b.expires = expires /\ b.epoch = epoch
               /\ b.wrapped = IF key = NoKey THEN NoKey
                              ELSE WrapTo(holder, WrapAad(c, holder, facet, epoch), key)
BY DEF LinkTo

\* The key that a link of a facet at an epoch should carry.
TrueKey(roots, c, facet, epoch) ==
    IF facet = Presence THEN NoKey ELSE KeyAt(roots, c, facet, epoch)

\* The key that a grant of a facet should carry: none for presence, else that
\* of its lane.
LEMMA TrueKeyType ==
    ASSUME NEW roots \in Seq(ContentKeys), NEW c \in Closes, NEW facet \in Facets,
           NEW epoch \in Nat, epoch < Len(roots)
    PROVE  /\ TrueKey(roots, c, facet, epoch) \in KeyOrNone
           /\ TrueKey(roots, c, facet, epoch) # NoKey <=> facet # Presence
           /\ facet # Presence => facet \in Lanes
<1>1. facet # Presence => facet \in Lanes
      BY DEF Facets, Lanes, Presence, Shape, Content
<1>2. facet # Presence => KeyAt(roots, c, facet, epoch) \in Key
      BY <1>1, KeyAtType
<1> QED BY <1>1, <1>2, NoKeyIsNoKey DEF TrueKey, KeyOrNone

\* A link made with the true key of its facet and epoch is truthfully labelled.
LEMMA LinkToTrue ==
    ASSUME NEW rec, NEW roots \in Seq(ContentKeys),
           rec.id \in Closes, rec.epoch \in Nat, Len(roots) = rec.epoch + 1,
           NEW issuer \in People, NEW holder \in People, NEW facet \in Facets,
           NEW powers \in SUBSET AllPowers, NEW prefix \in Seq(Names),
           NEW expires \in Expiry, NEW epoch \in 0..rec.epoch
    PROVE  LET b == LinkTo(rec.id, issuer, holder, facet, powers, prefix, expires, epoch,
                           TrueKey(roots, rec.id, facet, epoch))
           IN  b \in Link /\ LabelTrueTo(b, rec, roots)
<1> DEFINE key == TrueKey(roots, rec.id, facet, epoch)
           b == LinkTo(rec.id, issuer, holder, facet, powers, prefix, expires, epoch, key)
<1>1. epoch \in Nat /\ epoch <= rec.epoch /\ epoch < Len(roots)
      OBVIOUS
<1>2. /\ key \in KeyOrNone /\ (key # NoKey <=> facet # Presence)
      /\ facet # Presence => facet \in Lanes
      BY <1>1, TrueKeyType
<1>3. b \in Link
      BY <1>1, <1>2, LinkToType DEF KeyOrNone
<1>4. LabelTrueTo(b, rec, roots)
  <2>1. /\ b.close = rec.id /\ b.holder = holder /\ b.facet = facet /\ b.epoch = epoch
        /\ b.wrapped = IF key = NoKey THEN NoKey
                       ELSE WrapTo(holder, WrapAad(rec.id, holder, facet, epoch), key)
        BY LinkToFields
  <2>2. facet # Presence => key = KeyAt(roots, rec.id, facet, epoch)
        BY DEF TrueKey
  <2> HIDE DEF b, key
  <2> QED BY <1>1, <1>2, <2>1, <2>2 DEF LabelTrueTo
<1> QED BY <1>3, <1>4

-----------------------------------------------------------------------------
\* What a root issued at a record's epoch should be.
RootTrue(g, rec, roots, holder, facet, powers, expires) ==
    /\ g \in Grant
    /\ Len(g) = 1 /\ Leaf(g) = g[1]
    /\ Leaf(g).holder = holder /\ Leaf(g).close = rec.id /\ Leaf(g).facet = facet
    /\ Leaf(g).epoch = rec.epoch /\ Leaf(g).powers = powers /\ Leaf(g).expires = expires
    /\ SoundTo(g, rec)
    /\ LabelTrueTo(g[1], rec, roots)

\* A root issued with the true content key is sound and truthfully labelled.
LEMMA IssueRootTrue ==
    ASSUME NEW rec, NEW roots \in Seq(ContentKeys),
           rec.id \in Closes, rec.epoch \in Nat, Len(roots) = rec.epoch + 1,
           rec.steward \in People, NEW holder \in People, NEW facet \in Facets,
           NEW powers \in SUBSET AllPowers, NEW prefix \in Seq(Names), NEW expires \in Expiry
    PROVE  RootTrue(IssueRoot(rec, rec.steward, KeyAt(roots, rec.id, Content, rec.epoch),
                              rec.epoch, holder, facet, powers, prefix, expires),
                    rec, roots, holder, facet, powers, expires)
<1> DEFINE content == KeyAt(roots, rec.id, Content, rec.epoch)
           minted == MintKey(roots[rec.epoch + 1], rec.id)
           key == LowerFacetKey(content, Content, facet, rec.id)
           b == LinkTo(rec.id, rec.steward, holder, facet, powers, prefix, expires, rec.epoch, key)
           g == IssueRoot(rec, rec.steward, content, rec.epoch, holder, facet, powers, prefix, expires)
<1>1. key = TrueKey(roots, rec.id, facet, rec.epoch)
  <2>1. roots[rec.epoch + 1] \in ContentKeys
        OBVIOUS
  <2>2. minted \in Key
        BY <2>1, MintKeyType
  <2>3. Content \in Lanes /\ ~ (facet > Content)
        BY DEF Lanes, Facets, Presence, Shape, Content
  <2>4. content = FacetKey(minted, rec.id, Content)
        BY DEF KeyAt
  <2>5. key = IF facet = Presence THEN NoKey ELSE FacetKey(minted, rec.id, facet)
        BY <2>2, <2>3, <2>4, LowerDerived
  <2> QED BY <2>5 DEF TrueKey, KeyAt
<1>2. b \in Link /\ LabelTrueTo(b, rec, roots)
  <2>1. rec.epoch \in 0..rec.epoch
        OBVIOUS
  <2> QED BY <1>1, <2>1, LinkToTrue
<1>3. g = <<b>>
      BY DEF IssueRoot
<1>4. /\ b.holder = holder /\ b.close = rec.id /\ b.facet = facet /\ b.epoch = rec.epoch
      /\ b.powers = powers /\ b.expires = expires /\ b.issuer = rec.steward
      BY LinkToFields
<1> HIDE DEF b, g
<1>5. g \in Grant /\ Len(g) = 1 /\ g[1] = b /\ Leaf(g) = b
      BY <1>2, <1>3 DEF Grant, Leaf
<1>6. SoundTo(g, rec)
      BY <1>4, <1>5 DEF SoundTo
<1> QED BY <1>2, <1>4, <1>5, <1>6 DEF RootTrue, g

-----------------------------------------------------------------------------
\* The holder of a truthfully labelled grant unwraps the key it is labelled with.
LEMMA UnwrapTrue ==
    ASSUME NEW g \in Grant, NEW rec, NEW roots \in Seq(ContentKeys),
           rec.id \in Closes, rec.epoch \in Nat, Len(roots) = rec.epoch + 1,
           LabelTrueTo(Leaf(g), rec, roots)
    PROVE  UnwrapKey(g, Leaf(g).holder) =
             TrueKey(roots, rec.id, Leaf(g).facet, Leaf(g).epoch)
<1> DEFINE b == Leaf(g)
<1>1. /\ b \in Link /\ b.close = rec.id /\ b.epoch <= rec.epoch
      /\ b.wrapped = IF b.facet = Presence THEN NoKey
                     ELSE WrapTo(b.holder, WrapAad(b.close, b.holder, b.facet, b.epoch),
                                 KeyAt(roots, b.close, b.facet, b.epoch))
      BY LeafOfGrant DEF LabelTrueTo
<1>2. b.facet \in Facets /\ b.epoch \in Nat /\ b.epoch < Len(roots)
      /\ b.wrapped \in WrappedKey \cup {NoKey} /\ b.holder \in People /\ b.close \in Closes
      BY <1>1 DEF Link
<1> HIDE DEF b
<1>3. CASE b.facet = Presence
      BY <1>1, <1>3 DEF UnwrapKey, TrueKey, b
<1>4. CASE b.facet # Presence
  <2>1. b.facet \in Lanes /\ KeyAt(roots, b.close, b.facet, b.epoch) \in Key
    <3>1. b.facet \in Lanes
          BY <1>2, <1>4 DEF Facets, Lanes, Presence, Shape, Content
    <3> QED BY <1>2, <3>1, KeyAtType
  <2>2. b.wrapped \in WrappedKey
        BY <1>1, <1>2, <1>4, <2>1 DEF WrapTo, WrapAad, WrappedKey
  <2>3. b.wrapped # NoKey
        BY <2>2, NoKeyIsNoBox
  <2>4. /\ b.wrapped.to = b.holder
        /\ b.wrapped.aad = WrapAad(b.close, b.holder, b.facet, b.epoch)
        /\ b.wrapped.holds = KeyAt(roots, b.close, b.facet, b.epoch)
        BY <1>1, <1>4 DEF WrapTo
  <2> QED BY <1>1, <1>4, <2>3, <2>4 DEF UnwrapKey, TrueKey, b
<1> QED BY <1>3, <1>4 DEF b

-----------------------------------------------------------------------------
\* The key handed on by an attenuation that is not refused is the true key of
\* the new facet at the parent's epoch.
LEMMA PassedTrue ==
    ASSUME NEW g \in Grant, NEW rec, NEW roots \in Seq(ContentKeys),
           rec.id \in Closes, rec.epoch \in Nat, Len(roots) = rec.epoch + 1,
           LabelTrueTo(Leaf(g), rec, roots),
           NEW facet \in Facets, facet <= Leaf(g).facet
    PROVE  PassedKey(g, Leaf(g).holder, rec, facet) =
             TrueKey(roots, rec.id, facet, Leaf(g).epoch)
<1> DEFINE b == Leaf(g)
           minted == MintKey(roots[b.epoch + 1], rec.id)
<1>1. /\ b.facet \in Facets /\ b.epoch \in Nat /\ b.epoch < Len(roots)
      /\ b.epoch + 1 \in 1..Len(roots)
  <2>1. b \in Link /\ b.epoch <= rec.epoch
        BY LeafOfGrant DEF LabelTrueTo
  <2> QED BY <2>1 DEF Link
<1>2. PassedKey(g, b.holder, rec, facet) =
        LowerFacetKey(TrueKey(roots, rec.id, b.facet, b.epoch), b.facet, facet, rec.id)
      BY UnwrapTrue DEF PassedKey
<1> HIDE DEF b
<1>3. CASE b.facet = Presence
  <2>1. facet = Presence
        BY <1>1, <1>3 DEF b, Facets, Presence, Shape, Content
  <2> QED BY <1>2, <1>3, <2>1, LowerNoKey DEF TrueKey, b
<1>4. CASE b.facet # Presence
  <2>1. b.facet \in Lanes
        BY <1>1, <1>4 DEF Facets, Lanes, Presence, Shape, Content
  <2>2. minted \in Key
    <3>1. roots[b.epoch + 1] \in ContentKeys
          BY <1>1
    <3> QED BY <3>1, MintKeyType
  <2>3. TrueKey(roots, rec.id, b.facet, b.epoch) = FacetKey(minted, rec.id, b.facet)
        BY <1>4 DEF TrueKey, KeyAt
  <2>4. ~ (facet > b.facet)
        BY <1>1 DEF b, Facets, Presence, Shape, Content
  <2>5. LowerFacetKey(FacetKey(minted, rec.id, b.facet), b.facet, facet, rec.id) =
          IF facet = Presence THEN NoKey ELSE FacetKey(minted, rec.id, facet)
        BY <2>1, <2>2, <2>4, LowerDerived
  <2> QED BY <1>2, <2>3, <2>5 DEF TrueKey, KeyAt, b
<1> QED BY <1>3, <1>4

\* What a grant attenuated from `parent` should be.
ChildTrue(g, parent, rec, roots, holder, facet, powers, expires) ==
    /\ g \in Grant
    /\ Len(g) = Len(parent) + 1 /\ Leaf(g) = g[Len(parent) + 1]
    /\ \A j \in 1..Len(parent) : g[j] = parent[j]
    /\ Leaf(g).holder = holder /\ Leaf(g).close = rec.id /\ Leaf(g).facet = facet
    /\ Leaf(g).epoch = Leaf(parent).epoch /\ Leaf(g).powers = powers /\ Leaf(g).expires = expires
    /\ SoundTo(g, rec)
    /\ LabelTrueTo(Leaf(g), rec, roots)

\* An attenuation that is not refused yields a grant that is sound and
\* truthfully labelled whenever its parent is.
LEMMA AttenuateTrue ==
    ASSUME NEW parent \in Grant, NEW rec, NEW roots \in Seq(ContentKeys),
           rec.id \in Closes, rec.epoch \in Nat, Len(roots) = rec.epoch + 1,
           SoundTo(parent, rec), LabelTrueTo(Leaf(parent), rec, roots),
           NEW me \in People, NEW holder \in People, NEW facet \in Facets,
           NEW powers \in SUBSET AllPowers, NEW prefix \in Seq(Names), NEW expires \in Expiry,
           MayAttenuate(parent, me, rec, facet, powers, prefix, expires)
    PROVE  ChildTrue(Attenuate(parent, me, rec, holder, facet, powers, prefix, expires),
                     parent, rec, roots, holder, facet, powers, expires)
<1> DEFINE b == Leaf(parent)
           n == Len(parent)
           key == PassedKey(parent, me, rec, facet)
           new == LinkTo(b.close, me, holder, facet, powers, prefix, expires, b.epoch, key)
           g == Attenuate(parent, me, rec, holder, facet, powers, prefix, expires)
<1>1. /\ parent \in Seq(Link) /\ n \in Nat /\ n >= 1 /\ b = parent[n] /\ b \in Link
      /\ b.close = rec.id /\ b.epoch <= rec.epoch
      BY LeafOfGrant DEF Grant, Leaf, LabelTrueTo
<1>2. b.epoch \in 0..rec.epoch
      BY <1>1 DEF Link
<1>3. /\ facet <= b.facet /\ powers \subseteq b.powers /\ PrefixUnder(prefix, b.prefix)
      /\ NoLater(expires, b.expires) /\ b.holder = me
      BY DEF MayAttenuate
<1>4. key = TrueKey(roots, rec.id, facet, b.epoch)
      BY <1>3, PassedTrue
<1>5. new \in Link /\ LabelTrueTo(new, rec, roots)
      BY <1>1, <1>2, <1>4, LinkToTrue
<1>6. /\ new.close = b.close /\ new.issuer = me /\ new.holder = holder /\ new.facet = facet
      /\ new.powers = powers /\ new.prefix = prefix /\ new.expires = expires
      /\ new.epoch = b.epoch
      BY LinkToFields
<1>7. g = Append(parent, new)
      BY DEF Attenuate
<1> HIDE DEF b, new, g, key
<1>8. /\ g \in Seq(Link) /\ Len(g) = n + 1 /\ g[n + 1] = new
      /\ \A j \in 1..n : g[j] = parent[j]
      BY <1>1, <1>5, <1>7
<1>9. g \in Grant /\ Leaf(g) = new
      BY <1>1, <1>8 DEF Grant, Leaf
<1>10. Narrows(new, b)
      BY <1>3, <1>6 DEF Narrows
<1>11. SoundTo(g, rec)
  <2>1. g[1].issuer = rec.steward
        BY <1>1, <1>8 DEF SoundTo
  <2>2. ASSUME NEW j \in 2..Len(g) PROVE Narrows(g[j], g[j - 1])
    <3>1. CASE j = n + 1
          BY <1>1, <1>8, <1>10, <3>1
    <3>2. CASE j <= n
      <4>1. j \in 2..n /\ j \in 1..n /\ j - 1 \in 1..n
            BY <1>1, <1>8, <3>2
      <4>2. g[j] = parent[j] /\ g[j - 1] = parent[j - 1]
            BY <1>8, <4>1
      <4> QED BY <4>1, <4>2 DEF SoundTo
    <3> QED BY <1>1, <1>8, <3>1, <3>2
  <2> QED BY <2>1, <2>2 DEF SoundTo
<1> QED BY <1>1, <1>5, <1>6, <1>8, <1>9, <1>11 DEF ChildTrue, g, b

-----------------------------------------------------------------------------
\* No link of a sound grant runs out before its leaf does.
LEMMA LeafDissolvesFirst ==
    ASSUME NEW g \in Grant, NEW rec, SoundTo(g, rec), NEW now \in Nat,
           Alive(Leaf(g).expires, now)
    PROVE  \A j \in 1..Len(g) : Alive(g[j].expires, now)
<1> DEFINE n == Len(g)
           T == {j \in 1..n : Alive(g[j].expires, now)}
           D == {d \in Nat : d < n /\ ~ Alive(g[n - d].expires, now)}
<1>1. n \in Nat /\ n >= 1 /\ \A j \in 1..n : g[j] \in Link
      BY LeafOfGrant
<1>2. D = {}
  <2> SUFFICES ASSUME D # {} PROVE FALSE
      OBVIOUS
  <2>1. D \subseteq Nat
        OBVIOUS
  <2>2. \E d \in D : \A e \in D : d <= e
        <3> HIDE DEF D
        <3> QED BY <2>1, LeastElement
  <2>3. PICK d \in D : \A e \in D : d <= e
        BY <2>2
  <2>4. d \in Nat /\ d < n /\ ~ Alive(g[n - d].expires, now)
        OBVIOUS
  <2>5. d # 0
        BY <1>1, <2>4 DEF Leaf
  <2>6. Alive(g[n - (d - 1)].expires, now)
    <3>1. d - 1 \in Nat /\ d - 1 < n /\ ~ (d <= d - 1)
          BY <1>1, <2>4, <2>5
    <3> QED BY <2>3, <3>1
  <2>7. n - (d - 1) \in 2..n /\ (n - (d - 1)) - 1 = n - d /\ n - d \in 1..n
        BY <1>1, <2>4, <2>5
  <2>8. NoLater(g[n - (d - 1)].expires, g[n - d].expires)
        BY <2>7 DEF SoundTo, Narrows
  <2>9. g[n - (d - 1)].expires \in Expiry /\ g[n - d].expires \in Expiry
    <3>1. n - (d - 1) \in 1..n
          BY <1>1, <2>7
    <3> QED BY <1>1, <2>7, <3>1 DEF Link
  <2> QED BY <2>4, <2>6, <2>8, <2>9 DEF Alive, NoLater, Expiry, Never
<1>3. ASSUME NEW j \in 1..n PROVE Alive(g[j].expires, now)
  <2>1. n - j \in Nat /\ n - j < n /\ n - (n - j) = j
        BY <1>1
  <2> QED BY <1>2, <2>1
<1> QED BY <1>3

\* A sound grant verifies exactly while its leaf is alive.
THEOREM SoundVerifies ==
    ASSUME NEW g \in Grant, NEW rec, SoundTo(g, rec), NEW now \in Nat
    PROVE  Verify(g, rec, now) <=> Alive(Leaf(g).expires, now)
<1>1. Len(g) \in 1..Len(g)
      BY LeafOfGrant
<1>2. Verify(g, rec, now) => Alive(Leaf(g).expires, now)
      BY <1>1 DEF Verify, Leaf
<1>3. ASSUME Alive(Leaf(g).expires, now) PROVE Verify(g, rec, now)
      BY <1>3, LeafDissolvesFirst DEF Verify, SoundTo
<1> QED BY <1>2, <1>3

\* What a truthfully labelled grant yields its holder, on a truthful record:
\* the key asked for when the label covers its facet and epoch, else none.
LEMMA KeyFromTrue ==
    ASSUME NEW g \in Grant, NEW P, NEW rec \in Record(P), NEW roots \in Seq(ContentKeys),
           TruthfulTo(rec, roots), LabelTrueTo(Leaf(g), rec, roots),
           NEW facet \in Lanes, NEW epoch \in Nat
    PROVE  KeyFrom(g, Leaf(g).holder, rec, facet, epoch) =
             IF facet <= Leaf(g).facet /\ epoch <= Leaf(g).epoch
             THEN KeyAt(roots, rec.id, facet, epoch) ELSE NoKey
<1> DEFINE b == Leaf(g)
<1>0. /\ rec.id \in Closes /\ rec.epoch \in Nat /\ Len(roots) = rec.epoch + 1
      BY DEF Record, TruthfulTo
<1>1. /\ b.facet \in Facets /\ b.epoch \in Nat /\ b.epoch \in 0..rec.epoch
      /\ b.epoch < Len(roots)
  <2>1. b \in Link /\ b.epoch <= rec.epoch
        BY LeafOfGrant DEF LabelTrueTo
  <2> QED BY <1>0, <2>1 DEF Link
<1>2. facet \in Facets /\ facet # Presence
      BY DEF Lanes, Facets, Presence, Shape, Content
<1>3. CASE b.facet < facet
  <2>1. ~ (facet <= b.facet)
        BY <1>1, <1>2, <1>3 DEF b, Facets, Presence, Content
  <2> QED BY <1>3, <2>1 DEF KeyFrom
<1>4. CASE ~ (b.facet < facet)
  <2>1. facet <= b.facet /\ b.facet \in Lanes /\ b.facet # Presence /\ ~ (facet > b.facet)
        BY <1>1, <1>2, <1>4 DEF Lanes, Facets, Presence, Shape, Content
  <2>2. UnwrapKey(g, b.holder) = KeyAt(roots, rec.id, b.facet, b.epoch)
        BY <1>0, <2>1, UnwrapTrue DEF TrueKey
  <2> HIDE DEF b
  <2>3. WalkChain(rec, UnwrapKey(g, b.holder), b.epoch, epoch, b.facet) =
          IF epoch > b.epoch THEN NoKey ELSE KeyAt(roots, rec.id, b.facet, epoch)
        BY <1>1, <2>1, <2>2, WalkTruthful
  <2>4. KeyFrom(g, b.holder, rec, facet, epoch) =
          LowerFacetKey(WalkChain(rec, UnwrapKey(g, b.holder), b.epoch, epoch, b.facet),
                        b.facet, facet, rec.id)
        BY <1>4 DEF KeyFrom, b
  <2>5. CASE epoch > b.epoch
    <3>1. ~ (epoch <= b.epoch)
          BY <1>1, <2>5
    <3> QED BY <2>3, <2>4, <2>5, <3>1, LowerNoKey DEF b
  <2>6. CASE ~ (epoch > b.epoch)
    <3>1. epoch <= b.epoch /\ epoch + 1 \in 1..Len(roots)
          BY <1>0, <1>1, <2>6
    <3>2. roots[epoch + 1] \in ContentKeys
          BY <3>1
    <3> DEFINE minted == MintKey(roots[epoch + 1], rec.id)
    <3>3. minted \in Key
          BY <1>0, <3>2, MintKeyType
    <3>4. LowerFacetKey(FacetKey(minted, rec.id, b.facet), b.facet, facet, rec.id) =
            FacetKey(minted, rec.id, facet)
          BY <1>0, <1>2, <2>1, <3>3, LowerDerived
    <3>5. KeyFrom(g, b.holder, rec, facet, epoch) = KeyAt(roots, rec.id, facet, epoch)
          BY <2>3, <2>4, <2>6, <3>4 DEF KeyAt
    <3> QED BY <2>1, <3>1, <3>5 DEF b
  <2> QED BY <2>5, <2>6
<1> QED BY <1>3, <1>4

-----------------------------------------------------------------------------
\* A label that was true stays true when the lock is changed.
LEMMA LabelOutlivesRotation ==
    ASSUME NEW b \in Link, NEW rec, NEW after, NEW roots \in Seq(ContentKeys),
           NEW root \in ContentKeys,
           rec.epoch \in Nat, Len(roots) = rec.epoch + 1, LabelTrueTo(b, rec, roots),
           after.id = rec.id, after.epoch = rec.epoch + 1
    PROVE  LabelTrueTo(b, after, Append(roots, root))
<1>1. b.epoch \in Nat /\ b.epoch < Len(roots) /\ b.epoch <= after.epoch
      BY DEF LabelTrueTo, Link
<1>2. KeyAt(Append(roots, root), b.close, b.facet, b.epoch) = KeyAt(roots, b.close, b.facet, b.epoch)
      BY <1>1, KeyAtAppend
<1> QED BY <1>1, <1>2 DEF LabelTrueTo

\* The first index of a set of indices is one of them.
LEMMA FirstIn ==
    ASSUME NEW n \in Nat, NEW T, T \subseteq 1..n, T # {}
    PROVE  First(T) \in T
<1>1. T \subseteq Nat
      OBVIOUS
<1>2. \E i \in T : \A j \in T : i <= j
      BY <1>1, LeastElement
<1> QED BY <1>2 DEF First

\* So is the last.
LEMMA LastIn ==
    ASSUME NEW n \in Nat, NEW T, T \subseteq 1..n, T # {}
    PROVE  Last(T) \in T
<1>1. T \subseteq 0..n
      OBVIOUS
<1>2. \E i \in T : \A j \in T : j <= i
      BY <1>1, GreatestElement
<1> QED BY <1>2 DEF Last
=============================================================================
