--------------------------- MODULE FolderStepProofs ---------------------------
(***************************************************************************)
(* Folder implements Drawer, one command at a time: whatever the order in  *)
(* which a command reads and writes its files, it is one step of Drawer.   *)
(***************************************************************************)
EXTENDS FolderProofs

-----------------------------------------------------------------------------
(***************************************************************************)
(* What Drawer and Folder both compute, they compute alike.  The instance  *)
(* of Drawer brings operators of its own, each the same as the one here.   *)
(***************************************************************************)

\* Drawer reads grants and walks chains as Folder does.
LEMMA SameHeld ==
    ASSUME NEW held, NEW rec
    PROVE  Steps!HeldOn(held, rec, 0) = HeldOn(held, rec, 0)
BY DEF HeldOn, Verify, Leaf, Narrows, PrefixUnder, NoLater, Alive, Never, Steps!HeldOn, Steps!Verify, Steps!Leaf,
       Steps!Narrows, Steps!PrefixUnder, Steps!NoLater, Steps!Alive, Steps!Never

\* Drawer finds in a grant the key that Folder finds.
LEMMA SameKey ==
    ASSUME NEW g, NEW who, NEW rec, NEW facet, NEW epoch
    PROVE  Steps!KeyFrom(g, who, rec, facet, epoch) = KeyFrom(g, who, rec, facet, epoch)
<1>1. \A key, have, want, lane : Steps!WalkChain(rec, key, have, want, lane) = WalkChain(rec, key, have, want, lane)
      BY DEF WalkChain, StepBack, Unwrap, ChainAad, Steps!WalkChain, Steps!StepBack, Steps!Unwrap, Steps!ChainAad
<1>2. \A key, have, want, c : Steps!LowerFacetKey(key, have, want, c) = LowerFacetKey(key, have, want, c)
      BY DEF LowerFacetKey, FacetKey, Shape, Content, Steps!LowerFacetKey, Steps!FacetKey, Steps!Shape, Steps!Content
<1>3. Steps!UnwrapKey(g, who) = UnwrapKey(g, who) /\ Steps!Leaf(g) = Leaf(g)
      BY DEF UnwrapKey, Leaf, WrapAad, Steps!UnwrapKey, Steps!Leaf, Steps!WrapAad
<1> QED BY <1>1, <1>2, <1>3 DEF KeyFrom, Steps!KeyFrom

\* Drawer finds among a person's grants the key that Folder finds.
LEMMA SameFind ==
    ASSUME NEW held, NEW who, NEW rec, NEW facet, NEW epoch
    PROVE  Steps!FacetKeyFor(held, who, rec, facet, epoch, 0) = FacetKeyFor(held, who, rec, facet, epoch, 0)
<1> DEFINE mine == {i \in HeldOn(held, rec, 0) : KeyFrom(held[i], who, rec, facet, epoch) # NoKey}
           theirs == {i \in Steps!HeldOn(held, rec, 0) : Steps!KeyFrom(held[i], who, rec, facet, epoch) # NoKey}
<1>1. theirs = mine
      BY SameHeld, SameKey
<1>2. FacetKeyFor(held, who, rec, facet, epoch, 0) =
         IF facet = Presence \/ mine = {} THEN NoKey ELSE KeyFrom(held[First(mine)], who, rec, facet, epoch)
      BY DEF FacetKeyFor
<1>3. Steps!FacetKeyFor(held, who, rec, facet, epoch, 0) =
         IF facet = Presence \/ theirs = {} THEN NoKey
         ELSE Steps!KeyFrom(held[Steps!First(theirs)], who, rec, facet, epoch)
      BY DEF Steps!FacetKeyFor, Steps!Presence, Presence
<1> HIDE DEF mine, theirs
<1>4. Steps!First(mine) = First(mine)
      BY DEF First, Steps!First
<1> QED BY <1>1, <1>2, <1>3, <1>4, SameKey

-----------------------------------------------------------------------------
(***************************************************************************)
(* Drawer's steps, as relations between the files before a command and the *)
(* files after it.                                                         *)
(***************************************************************************)

\* The files that Drawer knows of.
Files(cs, gs, ms) == [closes |-> cs, grants |-> gs, minted |-> ms]

MostGrants == 1 + Most("share") + Most("rotate") + Most("protect")

KeyIn(b, p, c) == FacetKeyFor(b.grants[p], p, b.closes[c], Content, b.closes[c].epoch, 0)
Unused(b, root) == \A c \in DOMAIN b.closes : \A e \in 1..Len(b.minted[c]) : b.minted[c][e] # root

\* Those of a person's grants that hold on a close.
HoldsIn(b, p, c) == {b.grants[p][i] : i \in HeldOn(b.grants[p], b.closes[c], 0)}

Founds(b, a, me, c) ==
    /\ c \notin DOMAIN b.closes
    /\ \E root \in ContentKeys :
          /\ Unused(b, root)
          /\ a.closes = With(b.closes, c, FoundRecord(c, me))
          /\ a.grants = [b.grants EXCEPT ![me] = Append(b.grants[me], FoundingGrant(me, c, root))]
          /\ a.minted = With(b.minted, c, <<root>>)

WideIn(b, me, c, facet) ==
    {i \in HeldOn(b.grants[me], b.closes[c], 0) : Leaf(b.grants[me][i]).facet >= facet}

\* The grant a steward makes, and the one anybody else passes on.
RootShare(b, me, c, with, facet, g) ==
    /\ b.closes[c].steward = me /\ KeyIn(b, me, c) # NoKey
    /\ g = IssueRoot(b.closes[c], me, KeyIn(b, me, c), b.closes[c].epoch, with, facet, {}, <<>>, Never)
OnwardShare(b, me, c, with, facet, g) ==
    LET mine == b.grants[me][First(WideIn(b, me, c, facet))]
    IN  /\ b.closes[c].steward # me /\ WideIn(b, me, c, facet) # {}
        /\ MayAttenuate(mine, me, b.closes[c], facet, {}, Leaf(mine).prefix, Leaf(mine).expires)
        /\ g = Attenuate(mine, me, b.closes[c], with, facet, {}, Leaf(mine).prefix, Leaf(mine).expires)

Shares(b, a, me, c, with, facet) ==
    /\ c \in DOMAIN b.closes /\ Len(b.grants[with]) < MostGrants
    /\ \E g : /\ RootShare(b, me, c, with, facet, g) \/ OnwardShare(b, me, c, with, facet, g)
              /\ a.grants = [b.grants EXCEPT ![with] = Append(b.grants[with], g)]
    /\ a.closes = b.closes /\ a.minted = b.minted

\* What a rotation re-issues to whoever keeps up.
Reissued(b, me, c, root, p) ==
    LET new == RotateRecord(b.closes[c], KeyIn(b, me, c), MintKey(root, c))
    IN  IssueRoot(new, me, MintKey(root, c), new.epoch, p, Best(HoldsIn(b, p, c)),
                  UNION {Leaf(g).powers : g \in HoldsIn(b, p, c)}, <<>>, Never)

Relocks(b, a, me, c, except) ==
    /\ c \in DOMAIN b.closes /\ b.closes[c].steward = me /\ KeyIn(b, me, c) # NoKey
    /\ b.closes[c].epoch < Most("rotate")
    /\ \E root \in ContentKeys :
          /\ Unused(b, root)
          /\ a.closes = [b.closes EXCEPT ![c] = RotateRecord(b.closes[c], KeyIn(b, me, c), MintKey(root, c))]
          /\ a.minted = [b.minted EXCEPT ![c] = Append(b.minted[c], root)]
          /\ a.grants = [p \in People |-> IF p \notin except /\ HoldsIn(b, p, c) # {}
                                          THEN Append(b.grants[p], Reissued(b, me, c, root, p))
                                          ELSE b.grants[p]]

\* What each kind of command makes of the files.
Made(do, b, a) ==
    \/ do = "protect" /\ \E me \in People, c \in Closes : Founds(b, a, me, c)
    \/ /\ do = "share"
       /\ \E me \in People, c \in Closes, with \in Receivers, facet \in ShareFacets :
             Shares(b, a, me, c, with, facet)
    \/ do = "rotate" /\ \E me \in People, c \in Closes, except \in SUBSET Excludable : Relocks(b, a, me, c, except)
    \/ do = "raise" /\ a = b

\* Files of which none is torn, with grants that never run out.
Clean(b) ==
    /\ DOMAIN b.grants = People
    /\ \A c \in DOMAIN b.closes : b.closes[c] \in Record(People)
    /\ \A p \in People : /\ b.grants[p] \in Seq(Grant)
                         /\ \A i \in 1..Len(b.grants[p]) : Leaf(b.grants[p][i]).expires = Never

-----------------------------------------------------------------------------
\* Drawer makes records and grants as Folder does.
LEMMA SameMakes ==
    /\ \A root, c : Steps!MintKey(root, c) = MintKey(root, c)
    /\ \A c, p : Steps!FoundRecord(c, p) = FoundRecord(c, p)
    /\ \A rec, old, new : Steps!RotateRecord(rec, old, new) = RotateRecord(rec, old, new)
    /\ \A f, x, v : Steps!With(f, x, v) = With(f, x, v)
    /\ \A g : Steps!Leaf(g) = Leaf(g)
    /\ \A S : Steps!First(S) = First(S) /\ Steps!Last(S) = Last(S)
    /\ Steps!Never = Never /\ Steps!Content = Content /\ Steps!AllPowers = AllPowers
BY DEF Steps!MintKey, MintKey, Steps!FoundRecord, FoundRecord, Steps!RotateRecord, RotateRecord,
       Steps!With, With, Steps!Leaf, Leaf, Steps!Never, Never, Steps!Content, Content, Steps!EpochLink, EpochLink,
       Steps!Lanes, Lanes, Steps!Wrap, Wrap, Steps!FacetKey, FacetKey, Steps!ChainAad, ChainAad, Steps!Shape, Shape,
       Steps!AllPowers, AllPowers, Steps!First, First, Steps!Last, Last

\* The same of a grant that a steward issues.
LEMMA SameIssue ==
    ASSUME NEW rec, NEW me, NEW key, NEW e, NEW p, NEW facet, NEW powers, NEW prefix, NEW expires
    PROVE  Steps!IssueRoot(rec, me, key, e, p, facet, powers, prefix, expires)
              = IssueRoot(rec, me, key, e, p, facet, powers, prefix, expires)
BY DEF Steps!IssueRoot, IssueRoot, Steps!LinkTo, LinkTo, Steps!LowerFacetKey, LowerFacetKey, Steps!FacetKey, FacetKey,
       Steps!Content, Content, Steps!Shape, Shape, Steps!WrapTo, WrapTo, Steps!WrapAad, WrapAad

\* The same of a grant passed on.
LEMMA SameAttenuate ==
    ASSUME NEW g, NEW me, NEW rec, NEW p, NEW facet, NEW powers, NEW prefix, NEW expires
    PROVE  /\ Steps!Attenuate(g, me, rec, p, facet, powers, prefix, expires)
                 = Attenuate(g, me, rec, p, facet, powers, prefix, expires)
           /\ Steps!MayAttenuate(g, me, rec, facet, powers, prefix, expires)
                 <=> MayAttenuate(g, me, rec, facet, powers, prefix, expires)
<1>1. Steps!PassedKey(g, me, rec, facet) = PassedKey(g, me, rec, facet)
      BY DEF Steps!PassedKey, PassedKey, Steps!LowerFacetKey, LowerFacetKey, Steps!FacetKey, FacetKey,
       Steps!Content, Content, Steps!Shape, Shape, Steps!UnwrapKey, UnwrapKey, Steps!WrapAad, WrapAad, Steps!Leaf, Leaf
<1>2. Steps!Attenuate(g, me, rec, p, facet, powers, prefix, expires)
                 = Attenuate(g, me, rec, p, facet, powers, prefix, expires)
      BY <1>1 DEF Steps!Attenuate, Attenuate, Steps!LinkTo, LinkTo, Steps!WrapTo, WrapTo, Steps!WrapAad, WrapAad,
       Steps!Leaf, Leaf
<1>3. Steps!MayAttenuate(g, me, rec, facet, powers, prefix, expires)
                 <=> MayAttenuate(g, me, rec, facet, powers, prefix, expires)
      BY <1>1 DEF Steps!MayAttenuate, MayAttenuate, Steps!Leaf, Leaf, Steps!PrefixUnder, PrefixUnder, Steps!NoLater, NoLater,
       Steps!Presence, Presence, Steps!Never, Never
<1> QED BY <1>2, <1>3

\* A protect is one of Drawer.
LEMMA FoundsIsProtect ==
    ASSUME NEW b, NEW a, Standing = b, Standing' = a, NEW me \in People, NEW c \in Closes, Founds(b, a, me, c)
    PROVE  Steps!Protect(me, c)
<1>1. PICK root \in ContentKeys :
          /\ Unused(b, root)
          /\ a.closes = With(b.closes, c, FoundRecord(c, me))
          /\ a.grants = [b.grants EXCEPT ![me] = Append(b.grants[me], FoundingGrant(me, c, root))]
          /\ a.minted = With(b.minted, c, <<root>>)
      BY DEF Founds
<1>2. Steps!FoundingGrant(me, c, root) = FoundingGrant(me, c, root)
      BY SameMakes, SameIssue DEF FoundingGrant, Steps!FoundingGrant
<1>3. Steps!Fresh(root)
      BY <1>1 DEF Unused, Steps!Fresh, Steps!Founded
<1>4. c \notin Steps!Founded
      BY DEF Founds, Steps!Founded
<1>5. /\ Standing'.closes = Steps!With(Standing.closes, c, Steps!FoundRecord(c, me))
      /\ Standing'.grants = [Standing.grants EXCEPT ![me] = Append(@, Steps!FoundingGrant(me, c, root))]
      /\ Standing'.minted = Steps!With(Standing.minted, c, <<root>>)
      BY <1>1, <1>2, SameMakes
<1> QED BY <1>3, <1>4, <1>5 DEF Steps!Protect

\* Drawer and Folder take the same grants for wide enough.
LEMMA SameWide ==
    ASSUME NEW b, Standing = b, NEW me, NEW c, NEW facet
    PROVE  Steps!WideEnough(me, c, facet, {}) = WideIn(b, me, c, facet)
<1>1. Steps!Held(me, c) = HeldOn(b.grants[me], b.closes[c], 0)
      BY SameHeld DEF Steps!Held
<1>2. {} \subseteq Leaf(b.grants[me][1]).powers
      OBVIOUS
<1> QED BY <1>1, SameMakes DEF Steps!WideEnough, WideIn

\* The key found in Drawer is the one found in the files.
LEMMA SameCurrentKey ==
    ASSUME NEW b, Standing = b, NEW me \in People, NEW c
    PROVE  Steps!CurrentKey(me, c) = KeyIn(b, me, c)
BY SameFind, SameMakes DEF Steps!CurrentKey, Steps!KeyOf, KeyIn

\* A share is one of Drawer.
LEMMA SharesIsShare ==
    ASSUME NEW b, NEW a, Standing = b, Standing' = a, NEW me \in People, NEW c \in Closes, NEW with \in Receivers,
           NEW facet \in ShareFacets, Shares(b, a, me, c, with, facet)
    PROVE  \/ Steps!ShareAsSteward(me, c, with, facet, {}, Never)
           \/ Steps!ShareOnward(me, c, with, facet, {}, Never)
<1>1. PICK g : /\ RootShare(b, me, c, with, facet, g) \/ OnwardShare(b, me, c, with, facet, g)
               /\ a.grants = [b.grants EXCEPT ![with] = Append(b.grants[with], g)]
      BY DEF Shares
<1>2. Len(Standing.grants[with]) < MostGrants /\ Standing'.closes = Standing.closes /\ Standing'.minted = Standing.minted
      BY DEF Shares
<1>3. with \in People
      BY FolderAssumption
<1>4. Steps!ExpiresAt(Never) = Never
      BY SameMakes DEF Steps!ExpiresAt
<1>5. Standing'.grants = [Standing.grants EXCEPT ![with] = Append(@, g)]
      BY <1>1
<1>6. CASE RootShare(b, me, c, with, facet, g)
  <2>1. g = Steps!IssueRoot(Standing.closes[c], me, Steps!CurrentKey(me, c), Standing.closes[c].epoch, with, facet, {},
                            <<>>, Steps!ExpiresAt(Never))
        BY <1>4, <1>6, SameIssue, SameCurrentKey DEF RootShare
  <2>2. Standing.closes[c].steward = me /\ Steps!CurrentKey(me, c) # NoKey
        BY <1>6, SameCurrentKey DEF RootShare
  <2> QED BY <1>2, <1>3, <1>5, <2>1, <2>2 DEF Steps!ShareAsSteward, MostGrants
<1>7. CASE OnwardShare(b, me, c, with, facet, g)
  <2>1. PICK W : W = WideIn(b, me, c, facet)
        OBVIOUS
  <2>2. PICK mine : mine = b.grants[me][First(W)]
        OBVIOUS
  <2>3. /\ b.closes[c].steward # me /\ W # {}
        /\ MayAttenuate(mine, me, b.closes[c], facet, {}, Leaf(mine).prefix, Leaf(mine).expires)
        /\ g = Attenuate(mine, me, b.closes[c], with, facet, {}, Leaf(mine).prefix, Leaf(mine).expires)
        BY <1>7, <2>1, <2>2 DEF OnwardShare
  <2>4. Steps!Earlier(Steps!ExpiresAt(Never), Steps!Leaf(mine).expires) = Leaf(mine).expires
        BY <1>4, SameMakes DEF Steps!Earlier, Steps!NoLater
  <2>5. Steps!WideEnough(me, c, facet, {}) = W
        BY <2>1, SameWide
  <2>6. mine = Standing.grants[me][Steps!First(Steps!WideEnough(me, c, facet, {}))]
        BY <2>2, <2>5, SameMakes
  <2>7. /\ Steps!MayAttenuate(mine, me, Standing.closes[c], facet, {}, Steps!Leaf(mine).prefix,
                             Steps!Earlier(Steps!ExpiresAt(Never), Steps!Leaf(mine).expires))
        /\ g = Steps!Attenuate(mine, me, Standing.closes[c], with, facet, {}, Steps!Leaf(mine).prefix,
                               Steps!Earlier(Steps!ExpiresAt(Never), Steps!Leaf(mine).expires))
        BY <2>3, <2>4, SameAttenuate, SameMakes
  <2> QED BY <1>2, <1>3, <1>5, <2>3, <2>5, <2>6, <2>7 DEF Steps!ShareOnward, MostGrants
<1> QED BY <1>1, <1>6, <1>7

\* What a rotation of Drawer re-issues is what a keeper is re-issued.
LEMMA SameKeeper ==
    ASSUME NEW b, Clean(b), Standing = b, NEW c, NEW p \in People, HoldsIn(b, p, c) # {}
    PROVE  /\ Steps!BestFacet(p, c) = Best(HoldsIn(b, p, c))
           /\ Steps!KeptPowers(p, c) = UNION {Leaf(g).powers : g \in HoldsIn(b, p, c)}
           /\ Steps!KeptExpiry(p, c) = Never
<1>1. PICK S : S = HeldOn(b.grants[p], b.closes[c], 0)
      OBVIOUS
<1>2. Steps!Held(p, c) = S
      BY <1>1, SameHeld DEF Steps!Held
<1>3. PICK held : held = b.grants[p]
      OBVIOUS
<1>4. held \in Seq(Grant) /\ S \subseteq 1..Len(held) /\ \A i \in 1..Len(held) : Leaf(held[i]).expires = Never
      BY <1>1, <1>3 DEF Clean, HeldOn
<1>5. PICK H : H = HoldsIn(b, p, c)
      OBVIOUS
<1>6. H = {held[i] : i \in S} /\ H # {} /\ H \subseteq Grant
  <2>1. H = {held[i] : i \in S} /\ H # {}
        BY <1>1, <1>3, <1>5 DEF HoldsIn
  <2> QED BY <1>4, <2>1, ElementIn
<1>7. (\E g \in H : Best(H) = Leaf(g).facet) /\ (\A g \in H : Leaf(g).facet <= Best(H)) /\ Best(H) \in Facets
      BY <1>6, BestIsBest
<1>8. PICK f : f = Best(H)
      OBVIOUS
<1>9. f \in Facets /\ (\E i \in S : Leaf(held[i]).facet = f) /\ (\A i \in S : Leaf(held[i]).facet <= f)
      BY <1>6, <1>7, <1>8
<1>10. Steps!Facets = Facets /\ Facets \subseteq Int
      BY DEF Steps!Facets, Facets, Steps!Presence, Presence, Steps!Content, Content
<1>11. Steps!BestFacet(p, c) = f
  <2>1. Steps!BestFacet(p, c) = CHOOSE x \in Facets : (\E i \in S : Leaf(held[i]).facet = x)
                                                     /\ (\A i \in S : Leaf(held[i]).facet <= x)
        BY <1>2, <1>3, <1>10, SameMakes DEF Steps!BestFacet
  <2>2. PICK x : x = Steps!BestFacet(p, c)
        OBVIOUS
  <2>3. x \in Facets /\ (\E i \in S : Leaf(held[i]).facet = x) /\ (\A i \in S : Leaf(held[i]).facet <= x)
        BY <1>9, <2>1, <2>2
  <2>4. x <= f /\ f <= x
        BY <1>9, <2>3
  <2> QED BY <1>9, <1>10, <2>2, <2>3, <2>4
<1>12. Steps!KeptPowers(p, c) = UNION {Leaf(g).powers : g \in H}
  <2>1. Steps!KeptPowers(p, c) = UNION {Leaf(held[i]).powers : i \in S}
        BY <1>2, <1>3, SameMakes DEF Steps!KeptPowers
  <2>2. {Leaf(held[i]).powers : i \in S} = {Leaf(g).powers : g \in H}
        BY <1>6
  <2> QED BY <2>1, <2>2
<1>13. Steps!KeptExpiry(p, c) = Never
  <2>1. PICK T : T = {i \in S : Leaf(held[i]).facet = f}
        OBVIOUS
  <2>2. Steps!KeptExpiry(p, c) = Leaf(held[Last(T)]).expires
        BY <1>2, <1>3, <1>11, <2>1, SameMakes DEF Steps!KeptExpiry
  <2>3. T \subseteq 1..Len(held) /\ T # {} /\ Len(held) \in Nat
    <3>1. PICK i \in S : Leaf(held[i]).facet = f
          BY <1>9
    <3>2. i \in T
          BY <2>1, <3>1
    <3>3. T \subseteq S
          BY <2>1
    <3>4. Len(held) \in Nat
          BY <1>4
    <3> QED BY <1>4, <3>2, <3>3, <3>4
  <2>4. Last(T) \in 1..Len(held)
        BY <2>3, LastIn
  <2> QED BY <1>4, <2>2, <2>4
<1> QED BY <1>5, <1>8, <1>11, <1>12, <1>13

\* A rotation is one of Drawer.
LEMMA RelocksIsRotate ==
    ASSUME NEW b, NEW a, Clean(b), Standing = b, Standing' = a, NEW me \in People, NEW c, NEW except,
           Relocks(b, a, me, c, except)
    PROVE  c \in Steps!Founded /\ Steps!Rotate(me, c, except)
<1>1. PICK key : key = KeyIn(b, me, c)
      OBVIOUS
<1>2. Steps!CurrentKey(me, c) = key
      BY <1>1, SameCurrentKey
<1>3. PICK root \in ContentKeys :
          /\ Unused(b, root)
          /\ a.closes = [b.closes EXCEPT ![c] = RotateRecord(b.closes[c], key, MintKey(root, c))]
          /\ a.minted = [b.minted EXCEPT ![c] = Append(b.minted[c], root)]
          /\ a.grants = [p \in People |-> IF p \notin except /\ HoldsIn(b, p, c) # {}
                                          THEN Append(b.grants[p], Reissued(b, me, c, root, p))
                                          ELSE b.grants[p]]
      BY <1>1 DEF Relocks
<1>4. PICK new : new = RotateRecord(b.closes[c], key, MintKey(root, c))
      OBVIOUS
<1>5. Steps!Fresh(root)
      BY <1>3 DEF Unused, Steps!Fresh, Steps!Founded
<1> DEFINE made == Steps!RotateRecord(Standing.closes[c], Steps!CurrentKey(me, c), Steps!MintKey(root, c))
           again(p) == Steps!IssueRoot(made, me, Steps!MintKey(root, c), made.epoch, p, Steps!BestFacet(p, c),
                                       Steps!KeptPowers(p, c), <<>>, Steps!KeptExpiry(p, c))
<1>6. new = made
      BY <1>2, <1>4, SameMakes
<1>7. ASSUME NEW p \in People
      PROVE  (IF p \notin except /\ HoldsIn(b, p, c) # {} THEN Append(b.grants[p], Reissued(b, me, c, root, p)) ELSE b.grants[p])
             = IF p \in Steps!Keepers(c, except) THEN Append(Standing.grants[p], again(p)) ELSE Standing.grants[p]
  <2>1. p \in Steps!Keepers(c, except) <=> p \notin except /\ HoldsIn(b, p, c) # {}
        BY SameHeld DEF Steps!Keepers, Steps!Held, HoldsIn
  <2>2. ASSUME HoldsIn(b, p, c) # {}
        PROVE  Reissued(b, me, c, root, p) = again(p)
    <3> HIDE DEF made
    <3> QED BY <1>1, <1>4, <1>6, <2>2, SameKeeper, SameIssue, SameMakes DEF Reissued
  <2> HIDE DEF again
  <2> QED BY <2>1, <2>2
<1>8. Standing'.grants = [p \in People |-> IF p \in Steps!Keepers(c, except) THEN Append(Standing.grants[p], again(p))
                                           ELSE Standing.grants[p]]
  <2> HIDE DEF again
  <2> QED BY <1>3, <1>7
<1>9. Standing'.closes = [Standing.closes EXCEPT ![c] = made] /\ Standing'.minted = [Standing.minted EXCEPT ![c] = Append(@, root)]
  <2> HIDE DEF made
  <2> QED BY <1>3, <1>4, <1>6
<1>10. /\ Standing.closes[c].steward = me /\ Steps!CurrentKey(me, c) # NoKey
       /\ Standing.closes[c].epoch < Most("rotate") /\ c \in DOMAIN Standing.closes
      BY <1>1, <1>2 DEF Relocks
<1> QED BY <1>5, <1>8, <1>9, <1>10 DEF Steps!Rotate, Steps!Founded

\* What a command makes of the files is a step of Drawer, or none.
LEMMA MadeIsAStep ==
    ASSUME NEW b, NEW a, Clean(b), Standing = b, Standing' = a, NEW do, Made(do, b, a)
    PROVE  Steps!Next \/ UNCHANGED Steps!vars
<1>1. ASSUME NEW me \in People, NEW c \in Closes, Founds(b, a, me, c)
      PROVE  Steps!Next
      BY <1>1, FoundsIsProtect DEF Steps!Next
<1>2. ASSUME NEW me \in People, NEW c \in Closes, NEW with \in Receivers, NEW facet \in ShareFacets,
             Shares(b, a, me, c, with, facet)
      PROVE  Steps!Next
  <2>1. c \in Steps!Founded
        BY <1>2 DEF Shares, Steps!Founded
  <2>2. \/ Steps!ShareAsSteward(me, c, with, facet, {}, Never)
        \/ Steps!ShareOnward(me, c, with, facet, {}, Never)
        BY <1>2, SharesIsShare
  <2>3. {} \in {{}} /\ Never \in {Never}
        OBVIOUS
  <2> QED BY <2>1, <2>2, <2>3 DEF Steps!Next
<1>3. ASSUME NEW me \in People, NEW c \in Closes, NEW except \in SUBSET Excludable, Relocks(b, a, me, c, except)
      PROVE  Steps!Next
      BY <1>3, RelocksIsRotate DEF Steps!Next
<1>4. ASSUME a = b
      PROVE  UNCHANGED Steps!vars
      BY <1>4 DEF Steps!vars
<1> QED BY <1>1, <1>2, <1>3, <1>4 DEF Made

-----------------------------------------------------------------------------
(***************************************************************************)
(* The last layer: one command at a time, none killed.  A command that     *)
(* writes has decided on a step of Drawer, and the files are as they were  *)
(* before it but for those it has got to.                                  *)
(***************************************************************************)

\* The files that Standing shows while k runs.
Base(k, cs, gs, ms) == IF InWriting(k) THEN k.before ELSE Files(cs, gs, ms)

\* What a command makes of the files it found, by those it writes.
ForWhom(all, p) == {i \in 1..Len(all) : all[i].is = "grant" /\ all[i].who = p}

OutcomeCloses(k) ==
    IF k.all[1].is = "record" THEN With(k.before.closes, k.close, k.all[1].rec) ELSE k.before.closes
OutcomeMinted(k) ==
    IF k.all[1].is # "record" THEN k.before.minted
    ELSE With(k.before.minted, k.close, IF k.do = "protect" THEN <<k.all[1].root>>
                                        ELSE Append(k.before.minted[k.close], k.all[1].root))
OutcomeGrants(k) ==
    [p \in People |-> IF ForWhom(k.all, p) = {} THEN k.before.grants[p]
                      ELSE Append(k.before.grants[p], k.all[CHOOSE i \in ForWhom(k.all, p) : TRUE].grant)]
Outcome(k) == Files(OutcomeCloses(k), OutcomeGrants(k), OutcomeMinted(k))

\* How far it has got: d files are written, and the next is torn at "fill".
GrantsSoFar(k, d, at, gs) ==
    \A p \in People :
        /\ ForWhom(k.all, p) = {} => gs[p] = k.before.grants[p]
        /\ \A i \in ForWhom(k.all, p) :
              gs[p] = IF i <= d THEN Append(k.before.grants[p], k.all[i].grant)
                      ELSE IF i = d + 1 /\ at = "fill" THEN Append(k.before.grants[p], Torn)
                      ELSE k.before.grants[p]
RecordSoFar(k, d, at, cs, ms) ==
    IF d = 0 \/ k.all[1].is # "record"
    THEN /\ ms = k.before.minted
         /\ cs = IF at = "fill" /\ k.all[1].is = "record" THEN With(k.before.closes, k.close, Torn) ELSE k.before.closes
    ELSE cs = OutcomeCloses(k) /\ ms = OutcomeMinted(k)

OncePerPerson(all) ==
    \A i, j \in 1..Len(all) : all[i].is = "grant" /\ all[j].is = "grant" /\ all[i].who = all[j].who => i = j
Lasting(all) == \A i \in 1..Len(all) : all[i].is = "grant" => Leaf(all[i].grant).expires = Never

Carrying(k, cs, gs, ms) ==
    /\ OncePerPerson(k.all) /\ Lasting(k.all)
    /\ Made(k.do, k.before, Outcome(k))
    /\ GrantsSoFar(k, Len(k.all) - Len(k.todo), k.at, gs)
    /\ RecordSoFar(k, Len(k.all) - Len(k.todo), k.at, cs, ms)
    /\ k.at \in {"open", "fill"} /\ Head(k.todo).is = "grant" =>
          k.n = Len(k.before.grants[Head(k.todo).who]) + 1

\* What it has read is still so.
Reading(k, cs) ==
    /\ k.close \in DOMAIN cs /\ k.rec = cs[k.close]
    /\ k.do = "share" => k.with \in Receivers /\ k.facet \in ShareFacets
    /\ k.do = "rotate" => k.except \in SUBSET Excludable

\* Whoever holds something and is not left out is a keeper, or is yet to be asked.
Asked(b, c, except, left, keepers) ==
    /\ \A i \in 1..Len(keepers) :
          LET p == keepers[i].who
          IN  /\ p \in People \ except /\ HoldsIn(b, p, c) # {}
              /\ keepers[i] = Keeper(p, HoldsIn(b, p, c))
              /\ \A j \in 1..Len(left) : left[j] # p
    /\ \A i, j \in 1..Len(keepers) : keepers[i].who = keepers[j].who => i = j
    /\ \A i, j \in 1..Len(left) : left[i] = left[j] => i = j
    /\ \A i \in 1..Len(left) : left[i] \notin except
    /\ \A p \in People \ except : HoldsIn(b, p, c) # {} =>
          \/ \E i \in 1..Len(keepers) : keepers[i].who = p
          \/ \E i \in 1..Len(left) : left[i] = p
Gathered(k, b) ==
    k.key = KeyIn(b, k.me, k.close) /\ Asked(b, k.close, k.except, k.left, k.keepers)

\* There is room for all that can still be started.
Pending(k, kinds) == IF k # Idle /\ k.do \in kinds THEN 1 ELSE 0
Room(b, k, bud) ==
    /\ MostGrants \in Nat /\ Most("rotate") \in Nat
    /\ \A p \in People :
          Len(b.grants[p]) + Pending(k, {"protect", "share", "rotate"}) + bud.share + bud.rotate + bud.protect
             <= MostGrants
    /\ \A c \in DOMAIN b.closes : b.closes[c].epoch + Pending(k, {"rotate"}) + bud.rotate <= Most("rotate")
    /\ bud.rotate <= Most("rotate")

OneOK(k, cs, gs, ms, bud) ==
    /\ Clean(Base(k, cs, gs, ms)) /\ Room(Base(k, cs, gs, ms), k, bud)
    /\ k.at \in {"loaded", "gather"} => Reading(k, cs)
    /\ k.at = "gather" => Gathered(k, Files(cs, gs, ms))
    /\ InWriting(k) => Carrying(k, cs, gs, ms)

BudgetSet == [atOnce : Nat, protect : Nat, share : Nat, rotate : Nat, raise : Nat, kill : Nat]
Orderly == budget.atOnce = 1 /\ ~ trouble.killed
TheOne(cmd) == IF 1 \in Terminals THEN cmd[1] ELSE Idle

OneInv ==
    /\ budget \in BudgetSet
    /\ Orderly => /\ \A t \in Terminals : t # 1 => command[t] = Idle
                  /\ OneOK(TheOne(command), closes, grants, minted, budget)

\* The files are functions.
MapsOK ==
    /\ closes = [c \in DOMAIN closes |-> closes[c]]
    /\ grants = [p \in DOMAIN grants |-> grants[p]]
    /\ minted = [c \in DOMAIN minted |-> minted[c]]

-----------------------------------------------------------------------------
\* Bounds are not exceeded, and nobody is brought back from the dead.

\* A function from a finite set to the naturals has a bound.
LEMMA Bounded ==
    ASSUME NEW D, IsFiniteSet(D), NEW v \in [D -> Nat]
    PROVE  \E m \in Nat : \A x \in D : v[x] <= m
<1>1. PICK n \in Nat : ExistsBijection(1..n, D)
      BY FS_NatBijection
<1>2. PICK f \in Bijection(1..n, D) : TRUE
      BY <1>1 DEF ExistsBijection
<1>3. f \in [1..n -> D] /\ \A x \in D : \E i \in 1..n : f[i] = x
      BY DEF Bijection, Injection, Surjection
<1> DEFINE T == {i \in 0..n : \E m \in Nat : \A h \in 1..i : v[f[h]] <= m}
<1>4. ASSUME NEW i \in 0..n, \A h \in 0..(i - 1) : h \in T
      PROVE  i \in T
  <2>1. CASE i = 0
    <3>1. 1..0 = {}
          OBVIOUS
    <3> QED BY <2>1, <3>1
  <2>2. CASE i # 0
    <3>1. i - 1 \in 0..(i - 1) /\ i \in 1..n
          BY <2>2
    <3>2. PICK m \in Nat : \A h \in 1..(i - 1) : v[f[h]] <= m
          BY <1>4, <3>1
    <3>3. v[f[i]] \in Nat
          BY <1>3, <3>1
    <3>4. PICK l \in Nat : l >= m /\ l >= v[f[i]]
      <4>1. CASE m >= v[f[i]]
            BY <4>1
      <4>2. CASE m < v[f[i]]
            BY <3>3, <4>2
      <4> QED BY <3>3, <4>1, <4>2
    <3>5. ASSUME NEW h \in 1..i PROVE v[f[h]] <= l
      <4>1. h \in 1..n
            OBVIOUS
      <4>2. v[f[h]] \in Nat
            BY <1>3, <4>1
      <4>3. h = i \/ h \in 1..(i - 1)
            OBVIOUS
      <4> QED BY <3>2, <3>4, <4>2, <4>3
    <3> QED BY <3>5
  <2> QED BY <2>1, <2>2
<1>5. \A i \in 0..n : i \in T
  <2> HIDE DEF T
  <2> QED BY <1>4, UpTo
<1>6. n \in 0..n
      OBVIOUS
<1>7. PICK m \in Nat : \A h \in 1..n : v[f[h]] <= m
      BY <1>5, <1>6
<1> QED BY <1>3, <1>7

\* Most of a field is the greatest that a budget allows.
LEMMA MostIs ==
    ASSUME NEW b \in Budgets, NEW field \in {"protect", "share", "rotate"}
    PROVE  Most(field) \in Nat /\ b[field] <= Most(field)
<1> DEFINE S == {d[field] : d \in Budgets}
           v == [d \in Budgets |-> d[field]]
<1>1. \A d \in Budgets : d[field] \in Nat
  <2>1. \A d \in Budgets : d \in [atOnce : Nat, protect : Nat, share : Nat, rotate : Nat, raise : Nat, kill : Nat]
        BY FolderAssumption
  <2> QED BY <2>1
<1>2. PICK m \in Nat : \A d \in Budgets : v[d] <= m
  <2>1. IsFiniteSet(Budgets) /\ v \in [Budgets -> Nat]
        BY <1>1, FolderAssumption
  <2> HIDE DEF v
  <2> QED BY <2>1, Bounded
<1>3. b[field] \in S /\ S \subseteq 0..m
      BY <1>1, <1>2
<1>4. \E x \in S : \A y \in S : y <= x
  <2> HIDE DEF S
  <2> QED BY <1>3, GreatestElement
<1>5. \E x \in S : \A d \in Budgets : d[field] <= x
      BY <1>4
<1>6. Most(field) \in S /\ \A d \in Budgets : d[field] <= Most(field)
  <2> HIDE DEF S
  <2>1. Most(field) = CHOOSE x \in S : \A d \in Budgets : d[field] <= x
        BY DEF Most, S
  <2> QED BY <1>5, <2>1
<1> QED BY <1>1, <1>6

\* A command is started within its budget, in the first terminal that is free.
LEMMA StartsIs ==
    ASSUME NEW t, NEW do \in {"protect", "share", "rotate", "raise"}, budget \in BudgetSet, Starts(t, do)
    PROVE  /\ command[t] = Idle /\ budget[do] > 0 /\ budget' = [budget EXCEPT ![do] = @ - 1]
           /\ budget' \in BudgetSet /\ budget'.atOnce = budget.atOnce
           /\ budget.atOnce = 1 => t = 1
<1>1. command[t] = Idle /\ budget[do] > 0 /\ budget' = [budget EXCEPT ![do] = @ - 1] /\ t \in 1..budget.atOnce
      BY DEF Starts
<1>2. budget' \in BudgetSet /\ budget'.atOnce = budget.atOnce
  <2>1. budget[do] - 1 \in Nat
        BY <1>1 DEF BudgetSet
  <2> QED BY <1>1, <2>1 DEF BudgetSet
<1>3. 1..1 = {1}
      OBVIOUS
<1> QED BY <1>1, <1>2, <1>3

\* What a behaviour may still start only gets less; what was killed stays so.
LEMMA BudgetStep ==
    ASSUME HistoryOK, budget \in BudgetSet, [Next]_vars
    PROVE  budget' \in BudgetSet /\ budget'.atOnce = budget.atOnce /\ (~ trouble'.killed => ~ trouble.killed)
<1> DEFINE BudgetKept == /\ budget' \in BudgetSet /\ budget'.atOnce = budget.atOnce
                         /\ ~ trouble'.killed => ~ trouble.killed
<1>1. ASSUME NEW t, NEW do \in {"protect", "share", "rotate", "raise"}, Starts(t, do), trouble'.killed = trouble.killed
      PROVE  BudgetKept
      BY <1>1, StartsIs
<1>2. ASSUME budget' = budget, trouble'.killed = trouble.killed
      PROVE  BudgetKept
      BY <1>2
<1>3. ASSUME NEW t \in Terminals, Kill(t)
      PROVE  BudgetKept
  <2>1. budget.kill > 0 /\ budget' = [budget EXCEPT !.kill = @ - 1] /\ trouble'.killed = TRUE
        BY <1>3 DEF Kill, HistoryOK
  <2>2. budget' \in BudgetSet /\ budget'.atOnce = budget.atOnce
        BY <2>1 DEF BudgetSet
  <2> QED BY <2>1, <2>2
<1>4. ASSUME NEW t \in Terminals, NEW me \in People, NEW path \in Signposts, Raise(t, me, path)
      PROVE  Starts(t, "raise") /\ trouble'.killed = trouble.killed
      BY <1>4 DEF Raise, HistoryOK
<1>5. ASSUME NEW t \in Terminals, NEW me \in People, NEW c \in Closes, NEW except \in SUBSET Excludable,
             Rotate(t, me, c, except)
      PROVE  Starts(t, "rotate") /\ trouble'.killed = trouble.killed
      BY <1>5 DEF Rotate, HistoryOK
<1>6. ASSUME NEW t \in Terminals, Count(t) \/ ReadList(t)
      PROVE  budget' = budget /\ trouble'.killed = trouble.killed
      BY <1>6 DEF Count, ReadList, HistoryOK
<1>7. ASSUME NEW t \in Terminals,
             Settle(t) \/ FindKey(t) \/ Refuse(t) \/ Gather(t) \/ ChangeLock(t) \/ Open(t) \/ Fill(t)
      PROVE  budget' = budget /\ trouble'.killed = trouble.killed
      BY <1>7 DEF Settle, FindKey, Refuse, Gather, ChangeLock, Open, Fill
<1>8. ASSUME NEW t \in Terminals, NEW me \in People, NEW c \in Closes, Protect(t, me, c)
      PROVE  Starts(t, "protect") /\ trouble'.killed = trouble.killed
      BY <1>8 DEF Protect
<1>9. ASSUME NEW t \in Terminals, NEW me \in People, NEW c \in Closes, NEW with \in Receivers,
             NEW facet \in ShareFacets, Share(t, me, c, with, facet)
      PROVE  Starts(t, "share") /\ trouble'.killed = trouble.killed
      BY <1>9 DEF Share
<1>10. ASSUME UNCHANGED vars
       PROVE  budget' = budget /\ trouble'.killed = trouble.killed
      BY <1>10 DEF vars
<1> HIDE DEF BudgetKept
<1>11. BudgetKept
      BY <1>1, <1>2, <1>3, <1>4, <1>5, <1>6, <1>7, <1>8, <1>9, <1>10 DEF Next
<1> QED BY <1>11 DEF BudgetKept

\* The files stay functions.
LEMMA MapsStep ==
    ASSUME TypesInv, MapsOK, [Next]_vars
    PROVE  MapsOK'
<1>1. ASSUME UNCHANGED <<files, minted>> PROVE MapsOK'
      BY <1>1 DEF files, MapsOK
<1>2. ASSUME NEW t \in Terminals, Open(t) PROVE MapsOK'
  <2>1. \A f, x, v : With(f, x, v) = [y \in DOMAIN With(f, x, v) |-> With(f, x, v)[y]]
        BY DEF With
  <2>2. \A f, x, v : LET g == [f EXCEPT ![x] = v] IN g = [y \in DOMAIN g |-> g[y]]
        OBVIOUS
  <2>3. minted' = minted
        BY <1>2 DEF Open
  <2>4. CASE closes' = With(closes, command[t].close, Torn) /\ UNCHANGED <<lists, grants>>
        BY <2>1, <2>3, <2>4 DEF MapsOK
  <2>5. ASSUME NEW p, NEW v, grants' = [grants EXCEPT ![p] = v], UNCHANGED <<closes, lists>>
        PROVE  MapsOK'
        BY <2>2, <2>3, <2>5 DEF MapsOK
  <2>6. CASE UNCHANGED <<closes, grants>>
        BY <2>3, <2>6 DEF MapsOK
  <2> QED BY <1>2, <2>4, <2>5, <2>6 DEF Open
<1>3. ASSUME NEW t \in Terminals, Fill(t) PROVE MapsOK'
  <2>1. \A f, x, v : With(f, x, v) = [y \in DOMAIN With(f, x, v) |-> With(f, x, v)[y]]
        BY DEF With
  <2>2. \A f, x, v : LET g == [f EXCEPT ![x] = v] IN g = [y \in DOMAIN g |-> g[y]]
        OBVIOUS
  <2>3. ASSUME NEW c, NEW rec, NEW roots, closes' = [closes EXCEPT ![c] = rec], minted' = With(minted, c, roots),
               UNCHANGED <<lists, grants>>
        PROVE  MapsOK'
    <3>1. PICK cs, ms : cs = [closes EXCEPT ![c] = rec] /\ ms = With(minted, c, roots)
          OBVIOUS
    <3>2. ms = [y \in DOMAIN ms |-> ms[y]]
          BY <2>1, <3>1
    <3>4. cs = [y \in DOMAIN cs |-> cs[y]]
          BY <3>1
    <3>5. closes' = cs /\ minted' = ms /\ grants' = grants
          BY <2>3, <3>1
    <3> QED BY <3>2, <3>4, <3>5 DEF MapsOK
  <2>4. ASSUME NEW p, NEW n, NEW g, grants' = [grants EXCEPT ![p][n] = g], UNCHANGED <<closes, lists, minted>>
        PROVE  MapsOK'
    <3>1. grants' = [grants EXCEPT ![p] = [grants[p] EXCEPT ![n] = g]]
          BY <2>4
    <3> QED BY <2>2, <2>4, <3>1 DEF MapsOK
  <2>5. CASE UNCHANGED <<closes, grants, minted>>
        BY <2>5 DEF MapsOK
  <2>6. PICK j, f : j = command[t] /\ f = File(t)
        OBVIOUS
  <2>7. \/ \E rec, roots : /\ closes' = [closes EXCEPT ![j.close] = rec] /\ minted' = With(minted, j.close, roots)
                          /\ UNCHANGED <<lists, grants>>
        \/ grants' = [grants EXCEPT ![f.who][j.n] = f.grant] /\ UNCHANGED <<closes, lists, minted>>
        \/ UNCHANGED <<closes, grants, minted>>
        BY <1>3, <2>6 DEF Fill
  <2> QED BY <2>3, <2>4, <2>5, <2>7
<1>4. ASSUME NEW t \in Terminals,
             Settle(t) \/ FindKey(t) \/ Refuse(t) \/ Gather(t) \/ ChangeLock(t) \/ Count(t) \/ ReadList(t) \/ Kill(t)
      PROVE  UNCHANGED <<files, minted>>
      BY <1>4 DEF Settle, FindKey, Refuse, Gather, ChangeLock, Count, ReadList, Kill
<1>5. ASSUME NEW t \in Terminals, NEW me \in People, NEW c \in Closes, Protect(t, me, c)
      PROVE  UNCHANGED <<files, minted>>
      BY <1>5 DEF Protect
<1>6. ASSUME NEW t \in Terminals, NEW me \in People, NEW c \in Closes, NEW with \in Receivers,
             NEW facet \in ShareFacets, Share(t, me, c, with, facet)
      PROVE  UNCHANGED <<files, minted>>
      BY <1>6 DEF Share
<1>7. ASSUME NEW t \in Terminals, NEW me \in People, NEW path \in Signposts, Raise(t, me, path)
      PROVE  UNCHANGED <<files, minted>>
      BY <1>7 DEF Raise
<1>8. ASSUME NEW t \in Terminals, NEW me \in People, NEW c \in Closes, NEW except \in SUBSET Excludable,
             Rotate(t, me, c, except)
      PROVE  UNCHANGED <<files, minted>>
      BY <1>8 DEF Rotate
<1>9. ASSUME UNCHANGED vars PROVE UNCHANGED <<files, minted>>
      BY <1>9 DEF vars, files
<1> QED BY <1>1, <1>2, <1>3, <1>4, <1>5, <1>6, <1>7, <1>8, <1>9 DEF Next

-----------------------------------------------------------------------------
\* More about leaving things out of a sequence.

\* The sequences that Without goes through.
LEMMA WithoutRuns ==
    ASSUME NEW A, NEW s \in Seq(A), NEW out
    PROVE  \E f : /\ Without(s, out) = f[Len(s)] /\ f[0] = <<>>
                  /\ \A i \in 1..Len(s) : f[i] = IF s[i] \in out THEN f[i - 1] ELSE Append(f[i - 1], s[i])
<1>0. Len(s) \in Nat
      OBVIOUS
<1> DEFINE f == CHOOSE h : KeptUpTo(s, out, Len(s), h)
           then(so, i) == IF s[i] \in out THEN so ELSE Append(so, s[i])
           rhs(i) == IF i = 0 THEN <<>> ELSE then(f[i - 1], i)
<1>1. KeptUpTo(s, out, Len(s), f)
      BY <1>0, KeptExists
<1>2. Without(s, out) = f[Len(s)]
      BY DEF Without, KeptUpTo
<1> HIDE DEF f
<1>3. f = [i \in 0..Len(s) |-> rhs(i)]
      BY <1>1 DEF KeptUpTo
<1> HIDE DEF rhs
<1>4. \A i \in 0..Len(s) : f[i] = rhs(i)
      BY <1>3
<1>5. f[0] = <<>>
  <2>1. f[0] = rhs(0)
        BY <1>0, <1>4
  <2> QED BY <2>1 DEF rhs
<1>6. \A i \in 1..Len(s) : f[i] = then(f[i - 1], i)
  <2>1. \A i \in 1..Len(s) : f[i] = rhs(i) /\ i # 0
        BY <1>0, <1>4
  <2> HIDE DEF then
  <2> QED BY <2>1 DEF rhs
<1> QED BY <1>2, <1>5, <1>6

\* Leaving out what is not there leaves everything.
LEMMA WithoutNothing ==
    ASSUME NEW A, NEW s \in Seq(A), NEW out, \A i \in 1..Len(s) : s[i] \notin out
    PROVE  Without(s, out) = s
<1>1. PICK f : /\ Without(s, out) = f[Len(s)] /\ f[0] = <<>>
               /\ \A i \in 1..Len(s) : f[i] = IF s[i] \in out THEN f[i - 1] ELSE Append(f[i - 1], s[i])
      BY WithoutRuns
<1>2. PICK l \in Nat : l = Len(s)
      OBVIOUS
<1> DEFINE T == {n \in 0..l : f[n] \in Seq(A) /\ Len(f[n]) = n /\ \A i \in 1..n : f[n][i] = s[i]}
<1>3. ASSUME NEW n \in 0..l, \A h \in 0..(n - 1) : h \in T
      PROVE  n \in T
  <2>1. CASE n = 0
    <3>1. <<>> \in Seq(A) /\ Len(<<>>) = 0
          OBVIOUS
    <3>2. 1..0 = {}
          OBVIOUS
    <3>3. f[n] \in Seq(A) /\ Len(f[n]) = 0
          BY <1>1, <2>1, <3>1
    <3> QED BY <2>1, <3>2, <3>3
  <2>2. CASE n # 0
    <3>1. n - 1 \in 0..(n - 1) /\ n \in 1..l
          BY <2>2
    <3>2. PICK w : w = f[n - 1]
          OBVIOUS
    <3>3. w \in Seq(A) /\ Len(w) = n - 1 /\ \A i \in 1..(n - 1) : w[i] = s[i]
          BY <1>3, <3>1, <3>2
    <3>4. s[n] \in A /\ f[n] = Append(w, s[n])
          BY <1>1, <1>2, <3>1, <3>2, ElementIn
    <3>5. PICK x : x = s[n]
          OBVIOUS
    <3>6. PICK more : more = Append(w, x)
          OBVIOUS
    <3>7. more \in Seq(A) /\ Len(more) = n /\ more[n] = x /\ \A i \in 1..(n - 1) : more[i] = w[i]
          BY <3>3, <3>4, <3>5, <3>6
    <3>8. \A i \in 1..n : i = n \/ i \in 1..(n - 1)
          OBVIOUS
    <3> QED BY <3>3, <3>4, <3>5, <3>6, <3>7, <3>8
  <2> QED BY <2>1, <2>2
<1>4. \A n \in 0..l : n \in T
  <2> HIDE DEF T
  <2> QED BY <1>3, UpTo
<1>5. l \in 0..l
      OBVIOUS
<1>6. PICK w : w = f[l]
      OBVIOUS
<1>7. w \in Seq(A) /\ Len(w) = Len(s) /\ \A i \in 1..Len(s) : w[i] = s[i]
      BY <1>2, <1>4, <1>5, <1>6
<1>8. w = [i \in 1..Len(w) |-> w[i]] /\ s = [i \in 1..Len(s) |-> s[i]]
      BY <1>7
<1>9. w = s
      BY <1>7, <1>8
<1> QED BY <1>1, <1>2, <1>6, <1>9

\* Each element at most once.
Once(s) == \A i, j \in 1..Len(s) : s[i] = s[j] => i = j

\* What is left of a sequence without repetitions has none.
LEMMA WithoutOnce ==
    ASSUME NEW A, NEW s \in Seq(A), NEW out, Once(s)
    PROVE  Once(Without(s, out))
<1>1. PICK f : /\ Without(s, out) = f[Len(s)] /\ f[0] = <<>>
               /\ \A i \in 1..Len(s) : f[i] = IF s[i] \in out THEN f[i - 1] ELSE Append(f[i - 1], s[i])
      BY WithoutRuns
<1>2. PICK l \in Nat : l = Len(s)
      OBVIOUS
<1> DEFINE T == {n \in 0..l : /\ f[n] \in Seq(A) /\ Once(f[n])
                              /\ \A i \in 1..Len(f[n]) : \E j \in 1..n : f[n][i] = s[j]}
<1>3. ASSUME NEW n \in 0..l, \A h \in 0..(n - 1) : h \in T
      PROVE  n \in T
  <2>1. CASE n = 0
    <3>1. <<>> \in Seq(A) /\ Len(<<>>) = 0
          OBVIOUS
    <3>2. 1..0 = {}
          OBVIOUS
    <3>3. f[n] \in Seq(A) /\ Len(f[n]) = 0
          BY <1>1, <2>1, <3>1
    <3> QED BY <2>1, <3>2, <3>3 DEF Once
  <2>2. CASE n # 0
    <3>1. n - 1 \in 0..(n - 1) /\ n \in 1..l
          BY <2>2
    <3>2. PICK w : w = f[n - 1]
          OBVIOUS
    <3>3. w \in Seq(A) /\ Once(w) /\ \A i \in 1..Len(w) : \E j \in 1..(n - 1) : w[i] = s[j]
          BY <1>3, <3>1, <3>2
    <3>4. \A j \in 1..(n - 1) : j \in 1..n
          OBVIOUS
    <3>5. CASE s[n] \in out
      <4>1. f[n] = w
            BY <1>1, <1>2, <3>1, <3>2, <3>5
      <4> QED BY <3>3, <3>4, <4>1
    <3>6. CASE s[n] \notin out
      <4>1. PICK x : x = s[n]
            OBVIOUS
      <4>2. x \in A
            BY <1>2, <3>1, <4>1, ElementIn
      <4>3. PICK more : more = Append(w, x)
            OBVIOUS
      <4>4. PICK m \in Nat : m = Len(w)
            BY <3>3
      <4>5. more \in Seq(A) /\ Len(more) = m + 1 /\ more[m + 1] = x /\ \A i \in 1..m : more[i] = w[i]
            BY <3>3, <4>2, <4>3, <4>4
      <4>6. f[n] = more
            BY <1>1, <1>2, <3>1, <3>2, <3>6, <4>1, <4>3
      <4>7. \A i \in 1..m : more[i] # x
        <5> SUFFICES ASSUME NEW i \in 1..m, more[i] = x PROVE FALSE
            OBVIOUS
        <5>1. PICK j \in 1..(n - 1) : w[i] = s[j]
              BY <3>3, <4>4
        <5>2. s[j] = s[n] /\ j \in 1..l /\ n \in 1..l
              BY <3>1, <4>1, <4>5, <5>1
        <5>3. j = n
              BY <1>2, <5>2 DEF Once
        <5> QED BY <5>1, <5>3
      <4>8. \A i \in 1..(m + 1) : i = m + 1 \/ i \in 1..m
            OBVIOUS
      <4>9. Once(more)
        <5> SUFFICES ASSUME NEW i \in 1..(m + 1), NEW j \in 1..(m + 1), more[i] = more[j] PROVE i = j
            BY <4>5 DEF Once
        <5>1. CASE i = m + 1
              BY <4>5, <4>7, <4>8, <5>1
        <5>2. CASE j = m + 1
              BY <4>5, <4>7, <4>8, <5>2
        <5>3. CASE i \in 1..m /\ j \in 1..m
              BY <3>3, <4>4, <4>5, <5>3 DEF Once
        <5> QED BY <4>8, <5>1, <5>2, <5>3
      <4>10. \A i \in 1..(m + 1) : \E j \in 1..n : more[i] = s[j]
        <5> SUFFICES ASSUME NEW i \in 1..(m + 1) PROVE \E j \in 1..n : more[i] = s[j]
            OBVIOUS
        <5>1. CASE i = m + 1
          <6>1. n \in 1..n
                BY <3>1
          <6> QED BY <4>1, <4>5, <5>1, <6>1
        <5>2. CASE i \in 1..m
              BY <3>3, <3>4, <4>4, <4>5, <5>2
        <5> QED BY <4>8, <5>1, <5>2
      <4> QED BY <4>5, <4>6, <4>9, <4>10
    <3> QED BY <3>5, <3>6
  <2> QED BY <2>1, <2>2
<1>4. \A n \in 0..l : n \in T
  <2> HIDE DEF T
  <2> QED BY <1>3, UpTo
<1>5. l \in 0..l
      OBVIOUS
<1> QED BY <1>1, <1>2, <1>4, <1>5

-----------------------------------------------------------------------------
\* The room there is.

\* The numbers of a clean set of files.
LEMMA CleanNumbers ==
    ASSUME NEW b, Clean(b)
    PROVE  /\ \A p \in People : Len(b.grants[p]) \in Nat
           /\ \A c \in DOMAIN b.closes : b.closes[c].epoch \in Nat
BY DEF Clean, Record

\* A command that is started uses up a part of it.
LEMMA RoomStart ==
    ASSUME NEW b, Clean(b), NEW bud \in BudgetSet, Room(b, Idle, bud), NEW k, NEW do,
           k.do = do, do \in {"protect", "share", "rotate", "raise"}, bud[do] > 0
    PROVE  Room(b, k, [bud EXCEPT ![do] = @ - 1])
<1>1. PICK next : next = [bud EXCEPT ![do] = @ - 1]
      OBVIOUS
<1>2. /\ bud.share \in Nat /\ bud.rotate \in Nat /\ bud.protect \in Nat
      /\ next.share = IF do = "share" THEN bud.share - 1 ELSE bud.share
      /\ next.rotate = IF do = "rotate" THEN bud.rotate - 1 ELSE bud.rotate
      /\ next.protect = IF do = "protect" THEN bud.protect - 1 ELSE bud.protect
      BY <1>1 DEF BudgetSet
<1>3. PICK one, two : one = Pending(k, {"protect", "share", "rotate"}) /\ two = Pending(k, {"rotate"})
      OBVIOUS
<1>4. /\ one \in {0, 1} /\ (one = 1 => do \in {"protect", "share", "rotate"})
      /\ two \in {0, 1} /\ (two = 1 => do = "rotate")
      BY <1>3 DEF Pending
<1>5. Pending(Idle, {"protect", "share", "rotate"}) = 0 /\ Pending(Idle, {"rotate"}) = 0
      BY DEF Pending
<1>6. one + next.share + next.rotate + next.protect <= bud.share + bud.rotate + bud.protect
      /\ one + next.share + next.rotate + next.protect \in Int
  <2>1. CASE do = "share"
        BY <1>2, <1>4, <2>1
  <2>2. CASE do = "rotate"
        BY <1>2, <1>4, <2>2
  <2>3. CASE do = "protect"
        BY <1>2, <1>4, <2>3
  <2>4. CASE do = "raise"
        BY <1>2, <1>4, <2>4
  <2> QED BY <2>1, <2>2, <2>3, <2>4
<1>7. two + next.rotate <= bud.rotate /\ next.rotate <= bud.rotate
      BY <1>1, <1>2, <1>4
<1>8. ASSUME NEW p \in People
      PROVE  Len(b.grants[p]) + one + next.share + next.rotate + next.protect <= MostGrants
  <2>1. PICK n \in Nat : n = Len(b.grants[p])
        BY CleanNumbers
  <2>2. n + 0 + bud.share + bud.rotate + bud.protect <= MostGrants /\ MostGrants \in Nat
        BY <1>5, <2>1 DEF Room
  <2>3. PICK m \in Nat : m = MostGrants
        BY <2>2
  <2>4. PICK x, y, z : x = next.share /\ y = next.rotate /\ z = next.protect
        OBVIOUS
  <2>5. x \in Int /\ y \in Int /\ z \in Int /\ one \in Int
        BY <1>2, <1>4, <2>4
  <2>6. PICK u \in Nat, v \in Nat, w \in Nat : u = bud.share /\ v = bud.rotate /\ w = bud.protect
        BY <1>2
  <2>7. one + x + y + z <= u + v + w /\ n + 0 + u + v + w <= m
        BY <1>6, <2>2, <2>3, <2>4, <2>6
  <2>8. n + one + x + y + z <= m
        BY <2>5, <2>7
  <2> QED BY <2>1, <2>3, <2>4, <2>8
<1>9. ASSUME NEW c \in DOMAIN b.closes
      PROVE  b.closes[c].epoch + two + next.rotate <= Most("rotate")
  <2>1. PICK n \in Nat : n = b.closes[c].epoch
        BY CleanNumbers
  <2>2. n + 0 + bud.rotate <= Most("rotate") /\ Most("rotate") \in Nat
        BY <1>5, <2>1 DEF Room
  <2> QED BY <1>2, <1>4, <1>7, <2>1, <2>2
<1>10. next.rotate <= Most("rotate")
      BY <1>2, <1>7 DEF Room
<1>11. Room(b, k, next)
      BY <1>3, <1>8, <1>9, <1>10 DEF Room
<1> QED BY <1>1, <1>11

\* It keeps its part while it runs, and gives it back if it ends without a trace.
LEMMA RoomOn ==
    ASSUME NEW b, Clean(b), NEW bud \in BudgetSet, NEW j, Room(b, j, bud), NEW k,
           k = Idle \/ (j # Idle /\ k.do = j.do)
    PROVE  Room(b, k, bud)
<1>1. ASSUME NEW kinds
      PROVE  /\ Pending(j, kinds) \in {0, 1} /\ Pending(k, kinds) \in {0, 1}
             /\ Pending(k, kinds) <= Pending(j, kinds)
      BY DEF Pending
<1>2. bud.share \in Nat /\ bud.rotate \in Nat /\ bud.protect \in Nat
      BY DEF BudgetSet
<1>3. ASSUME NEW p \in People
      PROVE  Len(b.grants[p]) + Pending(k, {"protect", "share", "rotate"}) + bud.share + bud.rotate + bud.protect <= MostGrants
  <2>1. PICK n \in Nat : n = Len(b.grants[p])
        BY CleanNumbers
  <2>2. n + Pending(j, {"protect", "share", "rotate"}) + bud.share + bud.rotate + bud.protect <= MostGrants
        /\ MostGrants \in Nat
        BY <2>1 DEF Room
  <2> QED BY <1>1, <1>2, <2>1, <2>2
<1>4. ASSUME NEW c \in DOMAIN b.closes
      PROVE  b.closes[c].epoch + Pending(k, {"rotate"}) + bud.rotate <= Most("rotate")
  <2>1. PICK n \in Nat : n = b.closes[c].epoch
        BY CleanNumbers
  <2>2. n + Pending(j, {"rotate"}) + bud.rotate <= Most("rotate") /\ Most("rotate") \in Nat
        BY <2>1 DEF Room
  <2> QED BY <1>1, <1>2, <2>1, <2>2
<1> QED BY <1>3, <1>4 DEF Room

\* What it makes of the files takes up no more than its part.
LEMMA MadeGrows ==
    ASSUME NEW b, Clean(b), NEW do, NEW a, Made(do, b, a)
    PROVE  /\ \A p \in People : Len(a.grants[p]) = Len(b.grants[p])
                                \/ (do \in {"protect", "share", "rotate"} /\ Len(a.grants[p]) = Len(b.grants[p]) + 1)
           /\ \A c \in DOMAIN a.closes :
                 \/ c \in DOMAIN b.closes /\ a.closes[c].epoch = b.closes[c].epoch
                 \/ c \in DOMAIN b.closes /\ do = "rotate" /\ a.closes[c].epoch = b.closes[c].epoch + 1
                 \/ a.closes[c].epoch = 0
<1>1. ASSUME NEW p \in People, NEW g
      PROVE  Len(Append(b.grants[p], g)) = Len(b.grants[p]) + 1
      BY DEF Clean
<1>2. DOMAIN b.grants = People
      BY DEF Clean
<1>3. ASSUME NEW me \in People, NEW c \in Closes, Founds(b, a, me, c), do = "protect"
      PROVE  /\ \A p \in People : Len(a.grants[p]) = Len(b.grants[p]) \/ Len(a.grants[p]) = Len(b.grants[p]) + 1
             /\ \A d \in DOMAIN a.closes : \/ d \in DOMAIN b.closes /\ a.closes[d].epoch = b.closes[d].epoch
                                          \/ a.closes[d].epoch = 0
  <2>1. PICK g : a.grants = [b.grants EXCEPT ![me] = Append(b.grants[me], g)]
        BY <1>3 DEF Founds
  <2>2. a.closes = With(b.closes, c, FoundRecord(c, me))
        BY <1>3 DEF Founds
  <2>3. FoundRecord(c, me).epoch = 0
        BY DEF FoundRecord
  <2>4. \A p \in People : a.grants[p] = IF p = me THEN Append(b.grants[me], g) ELSE b.grants[p]
        BY <1>2, <2>1
  <2>5. DOMAIN a.closes = DOMAIN b.closes \cup {c} /\ a.closes[c] = FoundRecord(c, me)
        /\ \A d \in DOMAIN b.closes \ {c} : a.closes[d] = b.closes[d]
    <3>1. PICK cs, rec : cs = b.closes /\ rec = FoundRecord(c, me)
          OBVIOUS
    <3>2. a.closes = [y \in DOMAIN cs \cup {c} |-> IF y = c THEN rec ELSE cs[y]]
          BY <2>2, <3>1 DEF With
    <3>3. DOMAIN a.closes = DOMAIN cs \cup {c} /\ a.closes[c] = rec
          /\ \A d \in DOMAIN cs \ {c} : a.closes[d] = cs[d]
          BY <3>2
    <3> QED BY <3>1, <3>3
  <2> QED BY <1>1, <2>3, <2>4, <2>5
<1>4. ASSUME NEW me \in People, NEW c \in Closes, NEW with \in Receivers, NEW facet \in ShareFacets,
             Shares(b, a, me, c, with, facet), do = "share"
      PROVE  /\ \A p \in People : Len(a.grants[p]) = Len(b.grants[p]) \/ Len(a.grants[p]) = Len(b.grants[p]) + 1
             /\ a.closes = b.closes
  <2>1. PICK g : a.grants = [b.grants EXCEPT ![with] = Append(b.grants[with], g)]
        BY <1>4 DEF Shares
  <2>2. \A p \in People : a.grants[p] = IF p = with THEN Append(b.grants[with], g) ELSE b.grants[p]
        BY <1>2, <2>1
  <2> QED BY <1>1, <1>4, <2>2 DEF Shares
<1>5. ASSUME NEW me \in People, NEW c \in Closes, NEW except \in SUBSET Excludable, Relocks(b, a, me, c, except)
      PROVE  /\ \A p \in People : Len(a.grants[p]) = Len(b.grants[p]) \/ Len(a.grants[p]) = Len(b.grants[p]) + 1
             /\ \A d \in DOMAIN a.closes : d \in DOMAIN b.closes
                   /\ (a.closes[d].epoch = b.closes[d].epoch \/ a.closes[d].epoch = b.closes[d].epoch + 1)
  <2>1. PICK root : /\ a.closes = [b.closes EXCEPT ![c] = RotateRecord(b.closes[c], KeyIn(b, me, c), MintKey(root, c))]
                    /\ a.grants = [p \in People |-> IF p \notin except /\ HoldsIn(b, p, c) # {}
                                          THEN Append(b.grants[p], Reissued(b, me, c, root, p))
                                          ELSE b.grants[p]]
        BY <1>5 DEF Relocks
  <2>2. \A p \in People : a.grants[p] = b.grants[p] \/ a.grants[p] = Append(b.grants[p], Reissued(b, me, c, root, p))
        BY <2>1
  <2>3. PICK rec : rec = RotateRecord(b.closes[c], KeyIn(b, me, c), MintKey(root, c))
        OBVIOUS
  <2>4. rec.epoch = b.closes[c].epoch + 1
        BY <2>3 DEF RotateRecord
  <2>5. \A d \in DOMAIN a.closes : d \in DOMAIN b.closes /\ (a.closes[d] = b.closes[d] \/ (d = c /\ a.closes[d] = rec))
        BY <2>1, <2>3
  <2>6. \A p \in People : Len(a.grants[p]) = Len(b.grants[p]) \/ Len(a.grants[p]) = Len(b.grants[p]) + 1
        BY <1>1, <2>2
  <2> QED BY <2>4, <2>5, <2>6
<1> QED BY <1>3, <1>4, <1>5 DEF Made

\* When it is done there is room for the rest.
LEMMA RoomDone ==
    ASSUME NEW b, Clean(b), NEW bud \in BudgetSet, NEW j, j # Idle, Room(b, j, bud), NEW a, Made(j.do, b, a)
    PROVE  Room(a, Idle, bud)
<1>1. bud.share \in Nat /\ bud.rotate \in Nat /\ bud.protect \in Nat
      BY DEF BudgetSet
<1>2. Pending(Idle, {"protect", "share", "rotate"}) = 0 /\ Pending(Idle, {"rotate"}) = 0
      BY DEF Pending
<1>3. /\ Pending(j, {"protect", "share", "rotate"}) = IF j.do \in {"protect", "share", "rotate"} THEN 1 ELSE 0
      /\ Pending(j, {"rotate"}) = IF j.do = "rotate" THEN 1 ELSE 0
      BY DEF Pending
<1>4. ASSUME NEW p \in People
      PROVE  Len(a.grants[p]) + 0 + bud.share + bud.rotate + bud.protect <= MostGrants
  <2>1. PICK n \in Nat : n = Len(b.grants[p])
        BY CleanNumbers
  <2>2. n + (IF j.do \in {"protect", "share", "rotate"} THEN 1 ELSE 0) + bud.share + bud.rotate + bud.protect <= MostGrants
        /\ MostGrants \in Nat
        BY <1>3, <2>1 DEF Room
  <2>3. Len(a.grants[p]) = n \/ (j.do \in {"protect", "share", "rotate"} /\ Len(a.grants[p]) = n + 1)
        BY <2>1, MadeGrows
  <2>4. PICK m \in Nat, u \in Nat, v \in Nat, w \in Nat :
          m = MostGrants /\ u = bud.share /\ v = bud.rotate /\ w = bud.protect
        BY <1>1, <2>2
  <2>5. PICK l : l = Len(a.grants[p])
        OBVIOUS
  <2>6. CASE j.do \in {"protect", "share", "rotate"}
    <3>1. n + 1 + u + v + w <= m
          BY <2>2, <2>4, <2>6
    <3>2. l = n \/ l = n + 1
          BY <2>3, <2>5
    <3>3. l + 0 + u + v + w <= m
          BY <3>1, <3>2
    <3> QED BY <2>4, <2>5, <3>3
  <2>7. CASE j.do \notin {"protect", "share", "rotate"}
    <3>1. n + 0 + u + v + w <= m
          BY <2>2, <2>4, <2>7
    <3>2. l = n
          BY <2>3, <2>5, <2>7
    <3>3. l + 0 + u + v + w <= m
          BY <3>1, <3>2
    <3> QED BY <2>4, <2>5, <3>3
  <2> QED BY <2>6, <2>7
<1>5. ASSUME NEW c \in DOMAIN a.closes
      PROVE  a.closes[c].epoch + 0 + bud.rotate <= Most("rotate")
  <2>1. \/ c \in DOMAIN b.closes /\ a.closes[c].epoch = b.closes[c].epoch
        \/ c \in DOMAIN b.closes /\ j.do = "rotate" /\ a.closes[c].epoch = b.closes[c].epoch + 1
        \/ a.closes[c].epoch = 0
        BY MadeGrows
  <2>2. CASE a.closes[c].epoch = 0
        BY <1>1, <2>2 DEF Room
  <2>3. CASE a.closes[c].epoch # 0
    <3>1. PICK n \in Nat : c \in DOMAIN b.closes /\ n = b.closes[c].epoch
          BY <2>1, <2>3, CleanNumbers
    <3>2. n + (IF j.do = "rotate" THEN 1 ELSE 0) + bud.rotate <= Most("rotate") /\ Most("rotate") \in Nat
          BY <1>3, <3>1 DEF Room
    <3>3. a.closes[c].epoch = n \/ (j.do = "rotate" /\ a.closes[c].epoch = n + 1)
          BY <2>1, <2>3, <3>1
    <3> QED BY <1>1, <3>2, <3>3
  <2> QED BY <2>2, <2>3
<1> QED BY <1>2, <1>4, <1>5 DEF Room

-----------------------------------------------------------------------------
\* What a command makes of the files.

\* Whoever is written a grant has it after all the others.
LEMMA OutcomeFor ==
    ASSUME NEW k, OncePerPerson(k.all), NEW p \in People
    PROVE  /\ DOMAIN OutcomeGrants(k) = People
           /\ ForWhom(k.all, p) = {} => OutcomeGrants(k)[p] = k.before.grants[p]
           /\ \A i \in ForWhom(k.all, p) : OutcomeGrants(k)[p] = Append(k.before.grants[p], k.all[i].grant)
<1>1. ASSUME NEW i \in ForWhom(k.all, p)
      PROVE  (CHOOSE j \in ForWhom(k.all, p) : TRUE) = i
  <2>1. PICK h : h = CHOOSE j \in ForWhom(k.all, p) : TRUE
        OBVIOUS
  <2>2. h \in ForWhom(k.all, p)
        BY <2>1
  <2>3. h = i
        BY <2>2 DEF ForWhom, OncePerPerson
  <2> QED BY <2>1, <2>3
<1> QED BY <1>1 DEF OutcomeGrants

\* Once all the grants and the record are written the files are what was decided.
LEMMA Reached ==
    ASSUME NEW k, Len(k.all) \in Nat, Len(k.all) >= 1, OncePerPerson(k.all), NEW d, NEW at, NEW cs, NEW gs, NEW ms,
           gs = [p \in People |-> gs[p]], GrantsSoFar(k, d, at, gs), RecordSoFar(k, d, at, cs, ms),
           d = Len(k.all) \/ (d = Len(k.all) - 1 /\ k.all[Len(k.all)].is = "list")
    PROVE  Files(cs, gs, ms) = Outcome(k)
<1>1. ASSUME NEW p \in People
      PROVE  gs[p] = OutcomeGrants(k)[p]
  <2>1. CASE ForWhom(k.all, p) = {}
        BY <2>1, OutcomeFor DEF GrantsSoFar
  <2>2. CASE ForWhom(k.all, p) # {}
    <3>1. PICK i : i \in ForWhom(k.all, p)
          BY <2>2
    <3>2. i \in 1..Len(k.all) /\ k.all[i].is = "grant"
          BY <3>1 DEF ForWhom
    <3>3. i <= d
          BY <3>2
    <3>4. gs[p] = Append(k.before.grants[p], k.all[i].grant)
          BY <3>1, <3>3 DEF GrantsSoFar
    <3> QED BY <3>1, <3>4, OutcomeFor
  <2> QED BY <2>1, <2>2
<1>2. gs = OutcomeGrants(k)
  <2>1. PICK made : made = OutcomeGrants(k)
        OBVIOUS
  <2>2. made = [p \in People |-> made[p]]
        BY <2>1 DEF OutcomeGrants
  <2>3. \A p \in People : gs[p] = made[p]
        BY <1>1, <2>1
  <2> QED BY <2>1, <2>2, <2>3
<1>3. CASE k.all[1].is # "record"
      BY <1>2, <1>3 DEF RecordSoFar, Outcome, OutcomeCloses, OutcomeMinted
<1>4. CASE k.all[1].is = "record"
  <2>1. d # 0
        BY <1>4
  <2>2. cs = OutcomeCloses(k) /\ ms = OutcomeMinted(k)
        BY <1>4, <2>1 DEF RecordSoFar
  <2> QED BY <1>2, <2>2 DEF Outcome
<1> QED BY <1>3, <1>4

\* A sequence with one more is a sequence.
LEMMA OneMore ==
    ASSUME NEW A, NEW s \in Seq(A), NEW x \in A
    PROVE  /\ Append(s, x) \in Seq(A) /\ Len(s) \in Nat /\ Len(Append(s, x)) = Len(s) + 1
           /\ Append(s, x)[Len(s) + 1] = x /\ \A i \in 1..Len(s) : Append(s, x)[i] = s[i]
OBVIOUS

\* It tears nothing, and the grants it hands out do not run out.
LEMMA OutcomeClean ==
    ASSUME NEW k, Clean(k.before), TodoOK(k.todo, k.all, k.close), OncePerPerson(k.all), Lasting(k.all)
    PROVE  Clean(Outcome(k))
<1>1. PICK all, b : all = k.all /\ b = k.before
      OBVIOUS
<1>2. all \in Seq(FilesFor(k.close))
      BY <1>1 DEF TodoOK
<1>3. Len(all) \in Nat /\ Len(all) >= 1
  <2>1. PICK todo : todo = k.todo
        OBVIOUS
  <2>2. todo \in Seq(FilesFor(k.close)) /\ todo # <<>> /\ Len(todo) <= Len(all)
        BY <1>1, <2>1 DEF TodoOK
  <2>3. Len(todo) \in Nat /\ Len(todo) >= 1
        BY <2>2
  <2> QED BY <1>2, <2>2, <2>3
<1>4. ASSUME NEW c \in DOMAIN OutcomeCloses(k)
      PROVE  OutcomeCloses(k)[c] \in Record(People)
  <2>1. CASE all[1].is # "record"
        BY <1>1, <2>1 DEF OutcomeCloses, Clean
  <2>2. CASE all[1].is = "record"
    <3>1. all[1] \in FilesFor(k.close)
          BY <1>2, <1>3, ElementIn
    <3>2. PICK rec : rec = all[1].rec
          OBVIOUS
    <3>3. rec \in Record(People)
          BY <2>2, <3>1, <3>2, FileFacts
    <3>4. PICK old, at : old = b.closes /\ at = k.close
          OBVIOUS
    <3>5. OutcomeCloses(k) = [y \in DOMAIN old \cup {at} |-> IF y = at THEN rec ELSE old[y]]
          BY <1>1, <2>2, <3>2, <3>4 DEF OutcomeCloses, With
    <3>6. \A y \in DOMAIN old : old[y] \in Record(People)
          BY <1>1, <3>4 DEF Clean
    <3> QED BY <3>3, <3>5, <3>6
  <2> QED BY <2>1, <2>2
<1>5. ASSUME NEW p \in People
      PROVE  /\ OutcomeGrants(k)[p] \in Seq(Grant)
             /\ \A i \in 1..Len(OutcomeGrants(k)[p]) : Leaf(OutcomeGrants(k)[p][i]).expires = Never
  <2>1. PICK s : s = b.grants[p]
        OBVIOUS
  <2>2. s \in Seq(Grant) /\ \A i \in 1..Len(s) : Leaf(s[i]).expires = Never
        BY <1>1, <2>1 DEF Clean
  <2>3. CASE ForWhom(all, p) = {}
        BY <1>1, <2>1, <2>2, <2>3, OutcomeFor
  <2>4. CASE ForWhom(all, p) # {}
    <3>1. PICK i : i \in ForWhom(all, p)
          BY <2>4
    <3>2. i \in 1..Len(all) /\ all[i].is = "grant"
          BY <3>1 DEF ForWhom
    <3>3. all[i] \in FilesFor(k.close)
          BY <1>2, <3>2, ElementIn
    <3>4. PICK g : g = all[i].grant
          OBVIOUS
    <3>5. g \in Grant
          BY <3>2, <3>3, <3>4, FileFacts
    <3>6. Leaf(g).expires = Never
          BY <1>1, <3>2, <3>4 DEF Lasting
    <3>7. PICK more : more = Append(s, g)
          OBVIOUS
    <3>8. OutcomeGrants(k)[p] = more
          BY <1>1, <2>1, <3>1, <3>4, <3>7, OutcomeFor
    <3>9. /\ more \in Seq(Grant) /\ Len(s) \in Nat /\ Len(more) = Len(s) + 1 /\ more[Len(s) + 1] = g
          /\ \A h \in 1..Len(s) : more[h] = s[h]
          BY <2>2, <3>5, <3>7, OneMore
    <3>10. \A h \in 1..Len(more) : h = Len(s) + 1 \/ h \in 1..Len(s)
          BY <3>9
    <3>11. \A h \in 1..Len(more) : Leaf(more[h]).expires = Never
          BY <2>2, <3>6, <3>9, <3>10
    <3> QED BY <3>8, <3>9, <3>11
  <2> QED BY <2>3, <2>4
<1>6. DOMAIN OutcomeGrants(k) = People
      BY DEF OutcomeGrants
<1> QED BY <1>4, <1>5, <1>6 DEF Clean, Outcome, Files

\* A command that starts has everything before it.
LEMMA StartedOne ==
    ASSUME NEW k, NEW do, NEW me, NEW c, NEW todo, Started(k, do, me, c, todo), Len(todo) \in Nat,
           OncePerPerson(todo), Lasting(todo), Made(do, Files(closes, grants, minted), Outcome(k)),
           Clean(Files(closes, grants, minted)), NEW bud, Room(Files(closes, grants, minted), k, bud)
    PROVE  OneOK(k, closes, grants, minted, bud)
           /\ Base(k, closes, grants, minted) = Files(closes, grants, minted)
<1>1. /\ k.do = do /\ k.all = todo /\ k.todo = todo /\ k.before = Files(closes, grants, minted)
      /\ k.at = IF Head(todo).is = "record" THEN "open" ELSE "prepare"
      BY DEF Started, Files
<1>2. InWriting(k) /\ k.at # "fill" /\ k.at # "loaded" /\ k.at # "gather"
      BY <1>1 DEF InWriting
<1>3. Len(k.all) - Len(k.todo) = 0
      BY <1>1
<1>4. GrantsSoFar(k, 0, k.at, grants)
  <2>1. k.before.grants = grants
        BY <1>1 DEF Files
  <2>2. \A p : \A i \in ForWhom(k.all, p) : ~ (i <= 0)
        BY <1>1 DEF ForWhom
  <2> QED BY <1>2, <2>1, <2>2 DEF GrantsSoFar
<1>5. RecordSoFar(k, 0, k.at, closes, minted)
      BY <1>1, <1>2 DEF RecordSoFar, Files
<1>6. k.at \in {"open", "fill"} => Head(k.todo).is # "grant"
      BY <1>1
<1>7. Carrying(k, closes, grants, minted)
      BY <1>1, <1>3, <1>4, <1>5, <1>6 DEF Carrying
<1>8. Base(k, closes, grants, minted) = Files(closes, grants, minted)
      BY <1>1, <1>2 DEF Base
<1> QED BY <1>2, <1>7, <1>8 DEF OneOK

\* A root that nobody has drawn is unused.
LEMMA FreshIsUnused ==
    ASSUME TypesInv, Clean(Files(closes, grants, minted)), NEW root, Fresh(root)
    PROVE  Unused(Files(closes, grants, minted), root)
<1>1. Torn \notin Record(People)
      BY FolderAssumption
<1>2. \A c \in DOMAIN closes : c \in DOMAIN minted
      BY <1>1 DEF Clean, Files, TypesInv, ClosesOK
<1> QED BY <1>2 DEF Unused, Files, Fresh

\* A grant made by a steward has no end.
LEMMA IssuedLasts ==
    ASSUME NEW rec, NEW me, NEW key, NEW e, NEW p, NEW facet, NEW powers, NEW prefix
    PROVE  Leaf(IssueRoot(rec, me, key, e, p, facet, powers, prefix, Never)).expires = Never
<1>1. PICK key2 : key2 = LowerFacetKey(key, Content, facet, rec.id)
      OBVIOUS
<1>2. PICK l : l = LinkTo(rec.id, me, p, facet, powers, prefix, Never, e, key2)
      OBVIOUS
<1>3. IssueRoot(rec, me, key, e, p, facet, powers, prefix, Never) = <<l>>
      BY <1>1, <1>2 DEF IssueRoot
<1>4. Leaf(<<l>>) = l
      BY DEF Leaf
<1>5. l.expires = Never
      BY <1>2 DEF LinkTo
<1> QED BY <1>3, <1>4, <1>5

\* What protect makes of the files.
LEMMA ProtectMakes ==
    ASSUME NEW b, DOMAIN b.grants = People, NEW me \in People, NEW c \in Closes, c \notin DOMAIN b.closes,
           NEW root \in ContentKeys, Unused(b, root),
           NEW k, k.do = "protect", k.close = c, k.before = b, k.all = ToFound(me, c, root)
    PROVE  OncePerPerson(k.all) /\ Lasting(k.all) /\ Made("protect", b, Outcome(k))
<1>1. PICK g, rec : g = FoundingGrant(me, c, root) /\ rec = FoundRecord(c, me)
      OBVIOUS
<1>2. PICK all : all = k.all
      OBVIOUS
<1>3. /\ Len(all) = 3 /\ all[1] = RecordFile(rec, root) /\ all[2] = GrantFile(me, g) /\ all[3] = ListFile("map", c)
      BY <1>1, <1>2, FoundingFiles
<1>4. /\ all[1].is = "record" /\ all[1].rec = rec /\ all[1].root = root
      /\ all[2].is = "grant" /\ all[2].who = me /\ all[2].grant = g /\ all[3].is = "list"
      BY <1>3 DEF RecordFile, GrantFile, ListFile
<1>5. 1..3 = {1, 2, 3}
      OBVIOUS
<1>6. \A i \in 1..Len(all) : all[i].is = "grant" => i = 2
      BY <1>3, <1>4, <1>5
<1>7. OncePerPerson(all)
      BY <1>6 DEF OncePerPerson
<1>8. Lasting(all)
  <2>1. Leaf(g).expires = Never
        BY <1>1, IssuedLasts DEF FoundingGrant
  <2> QED BY <1>4, <1>6, <2>1 DEF Lasting
<1>9. PICK gs : gs = OutcomeGrants(k)
      OBVIOUS
<1>10. ASSUME NEW p \in People
       PROVE  gs[p] = IF p = me THEN Append(b.grants[me], g) ELSE b.grants[p]
  <2>1. CASE p = me
    <3>1. 2 \in ForWhom(k.all, p)
          BY <1>2, <1>3, <1>4, <1>5, <2>1 DEF ForWhom
    <3>2. gs[p] = Append(k.before.grants[p], k.all[2].grant)
          BY <1>2, <1>7, <1>9, <3>1, OutcomeFor
    <3> QED BY <1>2, <1>4, <2>1, <3>2
  <2>2. CASE p # me
    <3>1. ForWhom(k.all, p) = {}
          BY <1>2, <1>4, <1>6, <2>2 DEF ForWhom
    <3> QED BY <1>2, <1>7, <1>9, <2>2, <3>1, OutcomeFor
  <2> QED BY <2>1, <2>2
<1>11. gs = [b.grants EXCEPT ![me] = Append(b.grants[me], g)]
  <2>1. gs = [p \in People |-> gs[p]]
        BY <1>9 DEF OutcomeGrants
  <2>2. PICK more, old : more = Append(b.grants[me], g) /\ old = b.grants
        OBVIOUS
  <2>3. \A p \in People : gs[p] = IF p = me THEN more ELSE old[p]
        BY <1>10, <2>2
  <2>4. [old EXCEPT ![me] = more] = [p \in People |-> IF p = me THEN more ELSE old[p]]
        BY <2>2
  <2> QED BY <2>1, <2>2, <2>3, <2>4
<1>12. OutcomeCloses(k) = With(b.closes, c, rec) /\ OutcomeMinted(k) = With(b.minted, c, <<root>>)
      BY <1>2, <1>4 DEF OutcomeCloses, OutcomeMinted
<1>13. PICK a : a = Outcome(k)
      OBVIOUS
<1>14. a.closes = OutcomeCloses(k) /\ a.grants = gs /\ a.minted = OutcomeMinted(k)
      BY <1>9, <1>13 DEF Outcome, Files
<1>15. Founds(b, a, me, c)
      BY <1>1, <1>11, <1>12, <1>14 DEF Founds
<1> QED BY <1>2, <1>7, <1>8, <1>13, <1>15 DEF Made

\* What share makes of the files.
LEMMA ShareMakes ==
    ASSUME NEW b, DOMAIN b.grants = People, NEW me \in People, NEW c \in Closes, NEW with \in Receivers,
           NEW facet \in ShareFacets, NEW g, Leaf(g).expires = Never, c \in DOMAIN b.closes,
           RootShare(b, me, c, with, facet, g) \/ OnwardShare(b, me, c, with, facet, g),
           Len(b.grants[with]) < MostGrants,
           NEW k, k.do = "share", k.close = c, k.before = b, k.all = << GrantFile(with, g) >>
    PROVE  OncePerPerson(k.all) /\ Lasting(k.all) /\ Made("share", b, Outcome(k))
<1>1. with \in People
      BY FolderAssumption
<1>2. PICK all : all = k.all
      OBVIOUS
<1>3. Len(all) = 1 /\ all[1] = GrantFile(with, g)
      BY <1>2
<1>4. all[1].is = "grant" /\ all[1].who = with /\ all[1].grant = g
      BY <1>3 DEF GrantFile
<1>5. 1..1 = {1}
      OBVIOUS
<1>7. OncePerPerson(all) /\ Lasting(all)
      BY <1>3, <1>4, <1>5 DEF OncePerPerson, Lasting
<1>9. PICK gs : gs = OutcomeGrants(k)
      OBVIOUS
<1>10. ASSUME NEW p \in People
       PROVE  gs[p] = IF p = with THEN Append(b.grants[with], g) ELSE b.grants[p]
  <2>1. CASE p = with
    <3>1. 1 \in ForWhom(k.all, p)
          BY <1>2, <1>3, <1>4, <1>5, <2>1 DEF ForWhom
    <3>2. gs[p] = Append(k.before.grants[p], k.all[1].grant)
          BY <1>2, <1>7, <1>9, <3>1, OutcomeFor
    <3> QED BY <1>2, <1>4, <2>1, <3>2
  <2>2. CASE p # with
    <3>1. ForWhom(k.all, p) = {}
          BY <1>2, <1>3, <1>4, <1>5, <2>2 DEF ForWhom
    <3> QED BY <1>2, <1>7, <1>9, <2>2, <3>1, OutcomeFor
  <2> QED BY <2>1, <2>2
<1>11. gs = [b.grants EXCEPT ![with] = Append(b.grants[with], g)]
  <2>1. gs = [p \in People |-> gs[p]]
        BY <1>9 DEF OutcomeGrants
  <2>2. PICK more, old : more = Append(b.grants[with], g) /\ old = b.grants
        OBVIOUS
  <2>3. \A p \in People : gs[p] = IF p = with THEN more ELSE old[p]
        BY <1>10, <2>2
  <2>4. [old EXCEPT ![with] = more] = [p \in People |-> IF p = with THEN more ELSE old[p]]
        BY <2>2
  <2> QED BY <2>1, <2>2, <2>3, <2>4
<1>12. OutcomeCloses(k) = b.closes /\ OutcomeMinted(k) = b.minted
      BY <1>2, <1>4 DEF OutcomeCloses, OutcomeMinted
<1>13. PICK a : a = Outcome(k)
      OBVIOUS
<1>14. a.closes = b.closes /\ a.grants = gs /\ a.minted = b.minted
      BY <1>9, <1>12, <1>13 DEF Outcome, Files
<1>15. Shares(b, a, me, c, with, facet)
      BY <1>11, <1>14 DEF Shares
<1> QED BY <1>2, <1>7, <1>13, <1>15 DEF Made

\* What cell new makes of the files that Drawer knows: nothing.
LEMMA RaiseMakes ==
    ASSUME NEW cs, NEW gs, NEW ms, gs = [p \in People |-> gs[p]], NEW path,
           NEW k, k.do = "raise", k.before = Files(cs, gs, ms), k.all = << ListFile("index", path) >>
    PROVE  OncePerPerson(k.all) /\ Lasting(k.all) /\ Made("raise", Files(cs, gs, ms), Outcome(k))
<1>1. PICK all : all = k.all
      OBVIOUS
<1>2. Len(all) = 1 /\ all[1] = ListFile("index", path)
      BY <1>1
<1>3. all[1].is = "list"
      BY <1>2 DEF ListFile
<1>4. 1..1 = {1}
      OBVIOUS
<1>5. OncePerPerson(all) /\ Lasting(all)
      BY <1>2, <1>3, <1>4 DEF OncePerPerson, Lasting
<1>6. \A p : ForWhom(all, p) = {}
      BY <1>2, <1>3, <1>4 DEF ForWhom
<1>7. OutcomeCloses(k) = cs /\ OutcomeMinted(k) = ms
      BY <1>1, <1>3 DEF OutcomeCloses, OutcomeMinted, Files
<1>8. OutcomeGrants(k) = gs
  <2>1. PICK made : made = OutcomeGrants(k)
        OBVIOUS
  <2>2. made = [p \in People |-> made[p]]
        BY <2>1 DEF OutcomeGrants
  <2>3. \A p \in People : made[p] = gs[p]
        BY <1>1, <1>5, <1>6, <2>1, OutcomeFor DEF Files
  <2> QED BY <2>1, <2>2, <2>3
<1> QED BY <1>1, <1>5, <1>7, <1>8 DEF Made, Outcome

\* What rotate makes of the files.
LEMMA RotateMakes ==
    ASSUME NEW b, Clean(b), NEW j, GatherOK(j, b.minted), j.close \in Closes, j.left = <<>>, Gathered(j, b),
           j.close \in DOMAIN b.closes, j.rec = b.closes[j.close], j.except \in SUBSET Excludable,
           b.closes[j.close].epoch < Most("rotate"), NEW root \in ContentKeys, Unused(b, root),
           NEW k, k.do = "rotate", k.close = j.close, k.before = b, k.all = ToRotate(j, root)
    PROVE  OncePerPerson(k.all) /\ Lasting(k.all) /\ Made("rotate", b, Outcome(k))
<1> DEFINE to(i) == j.keepers[i].who
<1>1. PICK c, me, except, rec, keepers :
         c = j.close /\ me = j.me /\ except = j.except /\ rec = j.rec /\ keepers = j.keepers
      OBVIOUS
<1>2. PICK new : new = RotateRecord(rec, j.key, MintKey(root, c))
      OBVIOUS
<1>3. PICK n \in Nat : n = Len(keepers)
      BY <1>1, RotationFiles
<1>4. PICK gs : gs = [i \in 1..n |-> IssueRoot(new, me, MintKey(root, c), new.epoch, keepers[i].who, keepers[i].facet,
                                               keepers[i].powers, <<>>, Never)]
      OBVIOUS
<1>5. PICK all : all = k.all
      OBVIOUS
<1>6. /\ Len(all) = n + 1 /\ all[1] = RecordFile(new, root)
      /\ \A i \in 1..n : all[i + 1] = GrantFile(keepers[i].who, gs[i])
  <2>1. all = ToRotate(j, root)
        BY <1>5
  <2>2. Len(all) = Len(keepers) + 1 /\ all[1] = RecordFile(new, root)
        BY <1>1, <1>2, <2>1, RotationFiles
  <2>3. \A i \in 1..Len(keepers) : all[i + 1] = GrantFile(keepers[i].who,
            IssueRoot(new, me, MintKey(root, c), new.epoch, keepers[i].who, keepers[i].facet, keepers[i].powers, <<>>, Never))
        BY <1>1, <1>2, <2>1, RotationFiles
  <2> QED BY <1>3, <1>4, <2>2, <2>3
<1>7. /\ all[1].is = "record" /\ all[1].rec = new /\ all[1].root = root
      /\ \A i \in 1..n : all[i + 1].is = "grant" /\ all[i + 1].who = keepers[i].who /\ all[i + 1].grant = gs[i]
  <2>1. ASSUME NEW f, NEW p, NEW g, f = GrantFile(p, g) PROVE f.is = "grant" /\ f.who = p /\ f.grant = g
        BY <2>1 DEF GrantFile
  <2>2. \A i \in 1..n : all[i + 1].is = "grant" /\ all[i + 1].who = keepers[i].who /\ all[i + 1].grant = gs[i]
        BY <1>6, <2>1
  <2> QED BY <1>6, <2>2 DEF RecordFile
<1>8. \A h \in 1..Len(all) : h = 1 \/ \E i \in 1..n : h = i + 1
  <2> SUFFICES ASSUME NEW h \in 1..(n + 1), h # 1 PROVE \E i \in 1..n : h = i + 1
      BY <1>6
  <2>1. h - 1 \in 1..n /\ h = (h - 1) + 1
        OBVIOUS
  <2> QED BY <2>1
<1>9. \A i \in 1..n : i + 1 \in 1..Len(all)
      BY <1>6
<1>10. /\ j.key = KeyIn(b, me, c)
       /\ \A i \in 1..n :
             LET p == keepers[i].who
             IN  p \in People \ except /\ HoldsIn(b, p, c) # {} /\ keepers[i] = Keeper(p, HoldsIn(b, p, c))
       /\ \A i, h \in 1..n : keepers[i].who = keepers[h].who => i = h
       /\ \A p \in People \ except : HoldsIn(b, p, c) # {} => \E i \in 1..n : keepers[i].who = p
  <2>1. j.key = KeyIn(b, me, c)
        BY <1>1 DEF Gathered, Asked
  <2>2. ASSUME NEW i \in 1..n
        PROVE LET p == keepers[i].who
              IN  p \in People \ except /\ HoldsIn(b, p, c) # {} /\ keepers[i] = Keeper(p, HoldsIn(b, p, c))
        BY <1>1, <1>3 DEF Gathered, Asked
  <2>3. \A i, h \in 1..n : keepers[i].who = keepers[h].who => i = h
        BY <1>1, <1>3 DEF Gathered, Asked
  <2>4. 1..Len(<<>>) = {}
        OBVIOUS
  <2>5. \A p \in People \ except : HoldsIn(b, p, c) # {} => \E i \in 1..n : keepers[i].who = p
        BY <1>1, <1>3, <2>4 DEF Gathered, Asked
  <2> QED BY <2>1, <2>2, <2>3, <2>5
<1>11. OncePerPerson(all)
  <2> SUFFICES ASSUME NEW g \in 1..Len(all), NEW h \in 1..Len(all), all[g].is = "grant", all[h].is = "grant",
                      all[g].who = all[h].who
               PROVE  g = h
      BY DEF OncePerPerson
  <2>1. all[1].is # "grant"
        BY <1>7
  <2>2. PICK x \in 1..n : g = x + 1
        BY <1>8, <2>1
  <2>3. PICK y \in 1..n : h = y + 1
        BY <1>8, <2>1
  <2>4. keepers[x].who = keepers[y].who
        BY <1>7, <2>2, <2>3
  <2>5. x = y
        BY <1>10, <2>4
  <2> QED BY <2>2, <2>3, <2>5
<1>12. Lasting(all)
  <2>1. \A i \in 1..n : Leaf(gs[i]).expires = Never
        BY <1>4, IssuedLasts
  <2>2. ASSUME NEW h \in 1..Len(all), all[h].is = "grant"
        PROVE  Leaf(all[h].grant).expires = Never
    <3>1. PICK i \in 1..n : h = i + 1
          BY <1>7, <1>8, <2>2
    <3> QED BY <1>7, <2>1, <3>1
  <2> QED BY <2>2 DEF Lasting
<1>13. ASSUME NEW p \in People, p \notin except, HoldsIn(b, p, c) # {}
       PROVE  OutcomeGrants(k)[p] = Append(b.grants[p], Reissued(b, me, c, root, p))
  <2>1. PICK i \in 1..n : keepers[i].who = p
        BY <1>10, <1>13
  <2>2. i + 1 \in ForWhom(k.all, p)
        BY <1>5, <1>7, <1>9, <2>1 DEF ForWhom
  <2>3. OutcomeGrants(k)[p] = Append(k.before.grants[p], k.all[i + 1].grant)
        BY <1>5, <1>11, <2>2, OutcomeFor
  <2>4. PICK H : H = HoldsIn(b, p, c)
        OBVIOUS
  <2>5. keepers[i] = Keeper(p, H)
        BY <1>10, <2>1, <2>4
  <2>6. keepers[i].facet = Best(H) /\ keepers[i].powers = UNION {Leaf(g).powers : g \in H}
        BY <2>5 DEF Keeper
  <2>7. gs[i] = IssueRoot(new, me, MintKey(root, c), new.epoch, p, Best(H), UNION {Leaf(g).powers : g \in H}, <<>>, Never)
        BY <1>4, <2>1, <2>6
  <2>8. new = RotateRecord(b.closes[c], KeyIn(b, me, c), MintKey(root, c))
        BY <1>1, <1>2, <1>10
  <2>9. Reissued(b, me, c, root, p) = gs[i]
        BY <2>4, <2>7, <2>8 DEF Reissued
  <2> QED BY <1>5, <1>7, <2>3, <2>9
<1>14. ASSUME NEW p \in People, p \in except \/ HoldsIn(b, p, c) = {}
       PROVE  OutcomeGrants(k)[p] = b.grants[p]
  <2>1. ASSUME NEW h \in ForWhom(all, p) PROVE FALSE
    <3>1. h \in 1..Len(all) /\ all[h].is = "grant" /\ all[h].who = p
          BY <2>1 DEF ForWhom
    <3>2. PICK i \in 1..n : h = i + 1
          BY <1>7, <1>8, <3>1
    <3>3. keepers[i].who = p
          BY <1>7, <3>1, <3>2
    <3> QED BY <1>10, <1>14, <3>3
  <2>2. ForWhom(k.all, p) = {}
        BY <1>5, <2>1
  <2> QED BY <1>5, <1>11, <2>2, OutcomeFor
<1>15. OutcomeGrants(k) = [p \in People |-> IF p \notin except /\ HoldsIn(b, p, c) # {}
                                            THEN Append(b.grants[p], Reissued(b, me, c, root, p))
                                            ELSE b.grants[p]]
  <2>1. PICK made : made = OutcomeGrants(k)
        OBVIOUS
  <2>2. made = [p \in People |-> made[p]]
        BY <2>1 DEF OutcomeGrants
  <2>3. \A p \in People : made[p] = IF p \notin except /\ HoldsIn(b, p, c) # {}
                                    THEN Append(b.grants[p], Reissued(b, me, c, root, p)) ELSE b.grants[p]
        BY <1>13, <1>14, <2>1
  <2> QED BY <2>1, <2>2, <2>3
<1>16. OutcomeCloses(k) = [b.closes EXCEPT ![c] = new]
  <2>1. PICK cs : cs = b.closes
        OBVIOUS
  <2>2. OutcomeCloses(k) = With(cs, c, new)
        BY <1>1, <1>5, <1>7, <2>1 DEF OutcomeCloses
  <2>3. DOMAIN cs \cup {c} = DOMAIN cs
        BY <1>1, <2>1
  <2>4. With(cs, c, new) = [cs EXCEPT ![c] = new]
        BY <2>3 DEF With
  <2> QED BY <2>1, <2>2, <2>4
<1>17. OutcomeMinted(k) = [b.minted EXCEPT ![c] = Append(b.minted[c], root)]
  <2>1. PICK cs : cs = b.minted
        OBVIOUS
  <2>2. PICK more : more = Append(cs[c], root)
        OBVIOUS
  <2>3. OutcomeMinted(k) = With(cs, c, more)
        BY <1>1, <1>5, <1>7, <2>1, <2>2 DEF OutcomeMinted
  <2>4. DOMAIN cs \cup {c} = DOMAIN cs
        BY <1>1, <2>1 DEF GatherOK, LoadedRec
  <2>5. With(cs, c, more) = [cs EXCEPT ![c] = more]
        BY <2>4 DEF With
  <2> QED BY <2>1, <2>2, <2>3, <2>5
<1>18. PICK a : a = Outcome(k)
       OBVIOUS
<1>19. a.closes = OutcomeCloses(k) /\ a.grants = OutcomeGrants(k) /\ a.minted = OutcomeMinted(k)
       BY <1>18 DEF Outcome, Files
<1>20. KeyIn(b, me, c) # NoKey /\ rec.steward = me /\ me \in People
       BY <1>1, <1>10, NoKeyIsNoKey DEF GatherOK, LoadedRec
<1>21. Relocks(b, a, me, c, except)
  <2>1. new = RotateRecord(b.closes[c], KeyIn(b, me, c), MintKey(root, c))
        BY <1>1, <1>2, <1>10
  <2>2. a.closes = [b.closes EXCEPT ![c] = RotateRecord(b.closes[c], KeyIn(b, me, c), MintKey(root, c))]
        BY <1>16, <1>19, <2>1
  <2>3. a.minted = [b.minted EXCEPT ![c] = Append(b.minted[c], root)]
        BY <1>17, <1>19
  <2>4. a.grants = [p \in People |-> IF p \notin except /\ HoldsIn(b, p, c) # {}
                                     THEN Append(b.grants[p], Reissued(b, me, c, root, p)) ELSE b.grants[p]]
        BY <1>15, <1>19
  <2>5. c \in DOMAIN b.closes /\ b.closes[c].steward = me /\ b.closes[c].epoch < Most("rotate")
        BY <1>1, <1>20
  <2> QED BY <1>20, <2>2, <2>3, <2>4, <2>5 DEF Relocks
<1>22. except \in SUBSET Excludable /\ c \in Closes
       BY <1>1
<1> QED BY <1>5, <1>11, <1>12, <1>18, <1>20, <1>21, <1>22 DEF Made

-----------------------------------------------------------------------------
\* The one command and what it goes on from.

\* From j the command goes on to k: the files it shows stay, or are made anew by a
\* step of Drawer.
OneGoes(j, k) ==
    /\ OneOK(k, closes', grants', minted', budget')
    /\ \/ Base(k, closes', grants', minted') = Base(j, closes, grants, minted)
       \/ \E do : Made(do, Base(j, closes, grants, minted), Base(k, closes', grants', minted'))

\* It runs in the first terminal.
LEMMA TheOneIs ==
    ASSUME OneInv, Orderly, NEW t \in Terminals, command[t] # Idle \/ t = 1
    PROVE  t = 1 /\ OneOK(command[t], closes, grants, minted, budget)
BY DEF OneInv, TheOne

\* It is not writing until it writes.
LEMMA BaseIs ==
    ASSUME NEW k, ~ InWriting(k), NEW cs, NEW gs, NEW ms
    PROVE  Base(k, cs, gs, ms) = Files(cs, gs, ms)
BY DEF Base

\* What is read of files that are clean.
LEMMA CleanReads ==
    ASSUME Clean(Files(closes, grants, minted)), NEW p \in People
    PROVE  /\ GrantsFor(p) = grants[p] /\ grants[p] \in Seq(Grant)
           /\ \A i \in 1..Len(grants[p]) : Leaf(grants[p][i]).expires = Never
           /\ \A c : /\ HeldBy(p, closes[c]) = HoldsIn(Files(closes, grants, minted), p, c)
                     /\ CurrentKey(p, closes[c]) = KeyIn(Files(closes, grants, minted), p, c)
<1>1. grants[p] \in Seq(Grant) /\ \A i \in 1..Len(grants[p]) : Leaf(grants[p][i]).expires = Never
      BY DEF Clean, Files
<1>2. PICK s : s = grants[p]
      OBVIOUS
<1>3. \A i \in 1..Len(s) : s[i] \notin {Torn}
      BY <1>1, <1>2, ElementIn, FolderAssumption
<1>4. Without(s, {Torn}) = s
      BY <1>1, <1>2, <1>3, WithoutNothing
<1>5. GrantsFor(p) = grants[p]
      BY <1>2, <1>4 DEF GrantsFor
<1>6. \A c : HeldBy(p, closes[c]) = HoldsIn(Files(closes, grants, minted), p, c)
      BY <1>5 DEF HeldBy, HoldsIn, Files
<1>7. \A c : CurrentKey(p, closes[c]) = KeyIn(Files(closes, grants, minted), p, c)
      BY <1>5 DEF CurrentKey, KeyFor, KeyIn, Files
<1> QED BY <1>1, <1>5, <1>6, <1>7

\* Where nothing is written, a command that reads shows the same files.
LEMMA OneReads ==
    ASSUME NEW j, NEW k, ~ InWriting(j), ~ InWriting(k), UNCHANGED <<closes, grants, minted>>,
           OneOK(j, closes, grants, minted, budget), Room(Files(closes, grants, minted), k, budget'),
           k.at \in {"loaded", "gather"} => Reading(k, closes),
           k.at = "gather" => Gathered(k, Files(closes, grants, minted))
    PROVE  OneGoes(j, k)
<1>1. /\ Base(j, closes, grants, minted) = Files(closes, grants, minted)
      /\ Base(k, closes, grants, minted) = Files(closes, grants, minted)
      BY BaseIs
<1>2. Clean(Files(closes, grants, minted))
      BY <1>1 DEF OneOK
<1>3. OneOK(k, closes, grants, minted, budget')
      BY <1>1, <1>2 DEF OneOK
<1> QED BY <1>1, <1>3 DEF OneGoes

\* Where it starts to write, it still shows the same files.
LEMMA OneStarts ==
    ASSUME NEW j, NEW k, ~ InWriting(j), UNCHANGED <<closes, grants, minted>>,
           OneOK(j, closes, grants, minted, budget), Room(Files(closes, grants, minted), k, budget'),
           NEW do, NEW me, NEW c, NEW todo, Started(k, do, me, c, todo), Len(todo) \in Nat,
           OncePerPerson(k.all), Lasting(k.all), Made(do, Files(closes, grants, minted), Outcome(k))
    PROVE  OneGoes(j, k)
<1>1. Base(j, closes, grants, minted) = Files(closes, grants, minted)
      BY BaseIs
<1>2. Clean(Files(closes, grants, minted))
      BY <1>1 DEF OneOK
<1>3. k.all = todo
      BY DEF Started
<1>4. OncePerPerson(todo) /\ Lasting(todo)
      BY <1>3
<1>5. OneOK(k, closes, grants, minted, budget') /\ Base(k, closes, grants, minted) = Files(closes, grants, minted)
      BY <1>2, <1>4, StartedOne
<1> QED BY <1>1, <1>5 DEF OneGoes

\* A terminal that is free.
LEMMA OneFree ==
    ASSUME OneInv, Orderly, NEW t \in Terminals, NEW do \in {"protect", "share", "rotate", "raise"}, Starts(t, do)
    PROVE  /\ t = 1 /\ command[t] = Idle /\ ~ InWriting(Idle)
           /\ OneOK(Idle, closes, grants, minted, budget) /\ Clean(Files(closes, grants, minted))
           /\ \A k : k.do = do => Room(Files(closes, grants, minted), k, budget')
<1>1. budget \in BudgetSet /\ budget.atOnce = 1
      BY DEF OneInv, Orderly
<1>2. t = 1 /\ command[t] = Idle /\ budget[do] > 0 /\ budget' = [budget EXCEPT ![do] = @ - 1]
      BY <1>1, StartsIs
<1>3. OneOK(Idle, closes, grants, minted, budget)
      BY <1>2, TheOneIs
<1>4. ~ InWriting(Idle)
      BY DEF Idle, InWriting
<1>5. Clean(Files(closes, grants, minted)) /\ Room(Files(closes, grants, minted), Idle, budget)
      BY <1>3, <1>4, BaseIs DEF OneOK
<1>6. ASSUME NEW k, k.do = do PROVE Room(Files(closes, grants, minted), k, budget')
  <2>1. PICK b : b = Files(closes, grants, minted)
        OBVIOUS
  <2>2. Room(b, k, [budget EXCEPT ![do] = @ - 1])
        BY <1>1, <1>2, <1>5, <1>6, <2>1, RoomStart
  <2> QED BY <1>2, <2>1, <2>2
<1> QED BY <1>2, <1>3, <1>4, <1>5, <1>6

\* The command goes on: protect.
LEMMA ProtectOne ==
    ASSUME TypesInv, OneInv, Orderly, NEW t \in Terminals, NEW me \in People, NEW c \in Closes, Protect(t, me, c)
    PROVE  \E k : t = 1 /\ Moves(t, k) /\ OneGoes(command[t], k)
<1>1. PICK root \in ContentKeys : \E k :
              /\ Fresh(root) /\ Moves(t, k) /\ Started(k, "protect", me, c, ToFound(me, c, root))
              /\ WritingOK(k, closes, grants, minted)
      BY ProtectMoves
<1>2. PICK k : Fresh(root) /\ Moves(t, k) /\ Started(k, "protect", me, c, ToFound(me, c, root))
      BY <1>1
<1>3. Starts(t, "protect") /\ c \notin DOMAIN closes /\ UNCHANGED <<closes, grants, minted>>
      BY DEF Protect, files
<1>4. PICK b : b = Files(closes, grants, minted)
      OBVIOUS
<1>5. /\ t = 1 /\ command[t] = Idle /\ ~ InWriting(Idle)
      /\ OneOK(Idle, closes, grants, minted, budget) /\ Clean(b)
      /\ \A l : l.do = "protect" => Room(b, l, budget')
      BY <1>3, <1>4, OneFree
<1>6. PICK todo : todo = ToFound(me, c, root)
      OBVIOUS
<1>7. k.do = "protect" /\ k.close = c /\ k.before = b /\ k.all = todo
      BY <1>2, <1>4, <1>6 DEF Started, Files
<1>8. Unused(b, root)
      BY <1>2, <1>4, <1>5, FreshIsUnused
<1>9. DOMAIN b.grants = People /\ c \notin DOMAIN b.closes
      BY <1>3, <1>4, <1>5 DEF Clean, Files
<1>10. OncePerPerson(k.all) /\ Lasting(k.all) /\ Made("protect", b, Outcome(k))
       BY <1>6, <1>7, <1>8, <1>9, ProtectMakes
<1>11. Len(todo) \in Nat
       BY <1>6, FoundingFiles
<1>12. OneGoes(Idle, k)
       BY <1>2, <1>3, <1>4, <1>5, <1>6, <1>7, <1>10, <1>11, OneStarts
<1> QED BY <1>2, <1>5, <1>12

\* The command goes on: cell new.
LEMMA RaiseOne ==
    ASSUME TypesInv, MapsOK, OneInv, Orderly, NEW t \in Terminals, NEW me \in People, NEW path \in Signposts,
           Raise(t, me, path)
    PROVE  \E k : t = 1 /\ Moves(t, k) /\ OneGoes(command[t], k)
<1>1. PICK todo : todo = << ListFile("index", path) >>
      OBVIOUS
<1>2. PICK k : Moves(t, k) /\ Started(k, "raise", me, Commons, todo)
      BY <1>1, RaiseMoves
<1>3. Starts(t, "raise") /\ UNCHANGED <<closes, grants, minted>>
      BY DEF Raise, files
<1>4. PICK b : b = Files(closes, grants, minted)
      OBVIOUS
<1>5. /\ t = 1 /\ command[t] = Idle /\ ~ InWriting(Idle)
      /\ OneOK(Idle, closes, grants, minted, budget) /\ Clean(b)
      /\ \A l : l.do = "raise" => Room(b, l, budget')
      BY <1>3, <1>4, OneFree
<1>6. k.do = "raise" /\ k.before = b /\ k.all = todo
      BY <1>2, <1>4 DEF Started, Files
<1>7. grants = [p \in People |-> grants[p]]
      BY <1>4, <1>5 DEF MapsOK, Clean, Files
<1>8. OncePerPerson(k.all) /\ Lasting(k.all) /\ Made("raise", b, Outcome(k))
      BY <1>1, <1>4, <1>6, <1>7, RaiseMakes
<1>9. Len(todo) \in Nat
      BY <1>1
<1>10. OneGoes(Idle, k)
       BY <1>2, <1>3, <1>4, <1>5, <1>6, <1>8, <1>9, OneStarts
<1> QED BY <1>2, <1>5, <1>10

\* The command goes on: share loads the record.
LEMMA ShareOne ==
    ASSUME TypesInv, OneInv, Orderly, NEW t \in Terminals, NEW me \in People, NEW c \in Closes, NEW with \in Receivers,
           NEW facet \in ShareFacets, Share(t, me, c, with, facet)
    PROVE  \E k : t = 1 /\ Moves(t, k) /\ OneGoes(command[t], k)
<1>1. PICK k : /\ Moves(t, k) /\ LoadedOK(k, minted)
               /\ k.do = "share" /\ k.close = c /\ k.with = with /\ k.facet = facet /\ k.rec = closes[c]
      BY ShareMoves
<1>2. Starts(t, "share") /\ c \in DOMAIN closes /\ UNCHANGED <<closes, grants, minted>>
      BY DEF Share, files, Loads
<1>3. /\ t = 1 /\ command[t] = Idle /\ ~ InWriting(Idle)
      /\ OneOK(Idle, closes, grants, minted, budget) /\ Room(Files(closes, grants, minted), k, budget')
      BY <1>1, <1>2, OneFree
<1>4. k.at = "loaded" /\ ~ InWriting(k)
      BY <1>1 DEF LoadedOK, InWriting
<1>5. Reading(k, closes)
      BY <1>1, <1>2 DEF Reading
<1>6. OneGoes(Idle, k)
      BY <1>2, <1>3, <1>4, <1>5, OneReads
<1> QED BY <1>1, <1>3, <1>6

\* The command goes on: rotate loads the record.
LEMMA RotateOne ==
    ASSUME TypesInv, OneInv, Orderly, NEW t \in Terminals, NEW me \in People, NEW c \in Closes,
           NEW except \in SUBSET Excludable, Rotate(t, me, c, except)
    PROVE  \E k : t = 1 /\ Moves(t, k) /\ OneGoes(command[t], k)
<1>1. PICK k : /\ Moves(t, k) /\ LoadedOK(k, minted)
               /\ k.do = "rotate" /\ k.close = c /\ k.except = except /\ k.rec = closes[c]
  <2>1. \E k : /\ Moves(t, k) /\ LoadedOK(k, minted)
               /\ k.do = "rotate" /\ k.me = me /\ k.close = c /\ k.except = except
               /\ k.held = [p \in People |-> Readings(p, closes[c])]
               /\ k.rec = closes[c] /\ closes[c] # Torn
        BY RotateMoves
  <2> QED BY <2>1
<1>2. Starts(t, "rotate") /\ c \in DOMAIN closes /\ UNCHANGED <<closes, grants, minted>>
      BY DEF Rotate, files, Loads
<1>3. /\ t = 1 /\ command[t] = Idle /\ ~ InWriting(Idle)
      /\ OneOK(Idle, closes, grants, minted, budget) /\ Room(Files(closes, grants, minted), k, budget')
      BY <1>1, <1>2, OneFree
<1>4. k.at = "loaded" /\ ~ InWriting(k)
      BY <1>1 DEF LoadedOK, InWriting
<1>5. Reading(k, closes)
      BY <1>1, <1>2 DEF Reading
<1>6. OneGoes(Idle, k)
      BY <1>2, <1>3, <1>4, <1>5, OneReads
<1> QED BY <1>1, <1>3, <1>6

\* A command that has read but not written.
LEMMA OneAt ==
    ASSUME OneInv, Orderly, NEW t \in Terminals, command[t].at \in {"loaded", "gather"}
    PROVE  /\ t = 1 /\ command[t] # Idle /\ ~ InWriting(command[t])
           /\ OneOK(command[t], closes, grants, minted, budget) /\ Clean(Files(closes, grants, minted))
           /\ Room(Files(closes, grants, minted), command[t], budget) /\ Reading(command[t], closes)
           /\ budget \in BudgetSet
<1>1. command[t] # Idle /\ ~ InWriting(command[t])
      BY DEF Idle, InWriting
<1>2. t = 1 /\ OneOK(command[t], closes, grants, minted, budget)
      BY <1>1, TheOneIs
<1> QED BY <1>1, <1>2, BaseIs DEF OneOK, OneInv

\* What a share will add, in terms of the files.
LEMMA ToShareIs ==
    ASSUME TypesInv, Clean(Files(closes, grants, minted)), NEW k, LoadedOK(k, minted), k.do = "share",
           Reading(k, closes), NEW g \in ToShare(k)
    PROVE  LET b == Files(closes, grants, minted)
           IN  /\ \/ RootShare(b, k.me, k.close, k.with, k.facet, g)
                  \/ OnwardShare(b, k.me, k.close, k.with, k.facet, g)
               /\ Leaf(g).expires = Never
<1>1. PICK me, c, with, facet, rec : me = k.me /\ c = k.close /\ with = k.with /\ facet = k.facet /\ rec = closes[c]
      OBVIOUS
<1>2. PICK held : held = grants[me]
      OBVIOUS
<1>3. PICK b : b = Files(closes, grants, minted)
      OBVIOUS
<1>4. b.closes = closes /\ b.grants = grants
      BY <1>3 DEF Files
<1>5. me \in People /\ k.rec = rec
      BY <1>1 DEF LoadedOK, LoadedRec, Reading
<1>6. /\ GrantsFor(me) = held /\ held \in Seq(Grant) /\ CurrentKey(me, rec) = KeyIn(b, me, c)
      /\ \A i \in 1..Len(held) : Leaf(held[i]).expires = Never
      BY <1>1, <1>2, <1>3, <1>5, CleanReads
<1>7. CASE rec.steward = me
  <2>1. KeyIn(b, me, c) # NoKey /\ g = IssueRoot(rec, me, KeyIn(b, me, c), rec.epoch, with, facet, {}, <<>>, Never)
    <3>1. g \in IF CurrentKey(me, rec) = NoKey THEN {}
                ELSE {IssueRoot(rec, me, CurrentKey(me, rec), rec.epoch, with, facet, {}, <<>>, Never)}
          BY <1>1, <1>5, <1>7 DEF ToShare
    <3> QED BY <1>6, <3>1
  <2>2. Leaf(g).expires = Never
        BY <2>1, IssuedLasts
  <2>3. RootShare(b, me, c, with, facet, g)
        BY <1>1, <1>4, <1>7, <2>1 DEF RootShare
  <2> QED BY <1>1, <1>3, <2>2, <2>3
<1>8. CASE rec.steward # me
  <2>1. PICK wide : wide = {i \in HeldOn(held, rec, 0) : Leaf(held[i]).facet >= facet}
        OBVIOUS
  <2>2. PICK mine : mine = held[First(wide)]
        OBVIOUS
  <2>3. g \in IF wide = {} \/ ~ MayAttenuate(mine, me, rec, facet, {}, Leaf(mine).prefix, Leaf(mine).expires) THEN {}
              ELSE {Attenuate(mine, me, rec, with, facet, {}, Leaf(mine).prefix, Leaf(mine).expires)}
        BY <1>1, <1>5, <1>6, <1>8, <2>1, <2>2 DEF ToShare
  <2>4. /\ wide # {} /\ MayAttenuate(mine, me, rec, facet, {}, Leaf(mine).prefix, Leaf(mine).expires)
        /\ g = Attenuate(mine, me, rec, with, facet, {}, Leaf(mine).prefix, Leaf(mine).expires)
        BY <2>3
  <2>5. WideIn(b, me, c, facet) = wide
        BY <1>1, <1>2, <1>4, <2>1 DEF WideIn
  <2>6. OnwardShare(b, me, c, with, facet, g)
        BY <1>1, <1>2, <1>4, <1>8, <2>2, <2>4, <2>5 DEF OnwardShare
  <2>7. wide \subseteq 1..Len(held)
        BY <2>1 DEF HeldOn
  <2>8. First(wide) \in 1..Len(held)
    <3>1. Len(held) \in Nat
          BY <1>6
    <3>2. wide \subseteq 1..Len(held) /\ wide # {}
          BY <2>4, <2>7
    <3> HIDE DEF HeldOn
    <3> QED BY <3>1, <3>2, FirstIn
  <2>9. Leaf(mine).expires = Never /\ mine \in Grant
        BY <1>6, <2>2, <2>8, ElementIn
  <2>10. Leaf(g).expires = Leaf(mine).expires
    <3>1. PICK key : key = PassedKey(mine, me, rec, facet)
          OBVIOUS
    <3>2. PICK l : l = LinkTo(Leaf(mine).close, me, with, facet, {}, Leaf(mine).prefix, Leaf(mine).expires,
                              Leaf(mine).epoch, key)
          OBVIOUS
    <3>3. g = Append(mine, l)
          BY <2>4, <3>1, <3>2 DEF Attenuate
    <3>4. PICK A : A = Link \cup {l}
          OBVIOUS
    <3>5. mine \in Seq(Link)
          BY <2>9 DEF Grant
    <3>6. mine \in Seq(A) /\ l \in A
          BY <3>4, <3>5, SeqMono
    <3>7. Len(mine) \in Nat /\ Len(g) = Len(mine) + 1 /\ g[Len(mine) + 1] = l
          BY <3>3, <3>6, OneMore
    <3>8. Leaf(g) = l
          BY <3>7 DEF Leaf
    <3>9. l.expires = Leaf(mine).expires
          BY <3>2 DEF LinkTo
    <3> QED BY <3>8, <3>9
  <2> QED BY <1>1, <1>3, <2>6, <2>9, <2>10
<1> QED BY <1>7, <1>8

\* The command goes on: share decides on the grant.
LEMMA SettleOne ==
    ASSUME TypesInv, OneInv, Orderly, NEW t \in Terminals, Settle(t)
    PROVE  \E k : t = 1 /\ Moves(t, k) /\ OneGoes(command[t], k)
<1>1. PICK j : j = command[t]
      OBVIOUS
<1>2. \E g \in ToShare(j) : \E k :
         /\ LoadedOK(j, minted) /\ j.do = "share"
         /\ g \in Grant /\ Leaf(g).holder = j.with /\ Leaf(g).close = j.close
         /\ Moves(t, k) /\ Started(k, "share", j.me, j.close, << GrantFile(Leaf(g).holder, g) >>)
         /\ WritingOK(k, closes, grants, minted)
      BY <1>1, SettleMoves
<1>3. PICK g \in ToShare(j) : \E k :
         /\ LoadedOK(j, minted) /\ j.do = "share"
         /\ g \in Grant /\ Leaf(g).holder = j.with /\ Leaf(g).close = j.close
         /\ Moves(t, k) /\ Started(k, "share", j.me, j.close, << GrantFile(Leaf(g).holder, g) >>)
         /\ WritingOK(k, closes, grants, minted)
      BY <1>2
<1>4. PICK k :
         /\ LoadedOK(j, minted) /\ j.do = "share"
         /\ g \in Grant /\ Leaf(g).holder = j.with /\ Leaf(g).close = j.close
         /\ Moves(t, k) /\ Started(k, "share", j.me, j.close, << GrantFile(Leaf(g).holder, g) >>)
         /\ WritingOK(k, closes, grants, minted)
      BY <1>3
<1>5. command[t].at = "loaded" /\ UNCHANGED <<closes, grants, minted, budget>>
      BY DEF Settle, files
<1>6. PICK b : b = Files(closes, grants, minted)
      OBVIOUS
<1>7. /\ t = 1 /\ j # Idle /\ ~ InWriting(j) /\ OneOK(j, closes, grants, minted, budget) /\ Clean(b)
      /\ Room(b, j, budget) /\ Reading(j, closes) /\ budget \in BudgetSet
      BY <1>1, <1>5, <1>6, OneAt
<1>8. PICK me, c, with, facet : me = j.me /\ c = j.close /\ with = j.with /\ facet = j.facet
      OBVIOUS
<1>9. PICK todo : todo = << GrantFile(with, g) >>
      OBVIOUS
<1>10. Started(k, "share", me, c, todo)
      BY <1>4, <1>8, <1>9
<1>11. k.do = "share" /\ k.close = c /\ k.before = b /\ k.all = todo
      BY <1>6, <1>10 DEF Started, Files
<1>12. /\ RootShare(b, me, c, with, facet, g) \/ OnwardShare(b, me, c, with, facet, g)
       /\ Leaf(g).expires = Never
      BY <1>4, <1>6, <1>7, <1>8, ToShareIs
<1>13. with \in Receivers /\ facet \in ShareFacets /\ c \in DOMAIN closes
      BY <1>4, <1>7, <1>8 DEF Reading
<1>14. me \in People /\ c \in Closes /\ DOMAIN b.grants = People /\ c \in DOMAIN b.closes
      BY <1>4, <1>6, <1>7, <1>8, <1>13 DEF LoadedOK, LoadedRec, Clean, Files, TypesInv, ClosesOK
<1>15. Len(b.grants[with]) < MostGrants
  <2>1. with \in People
        BY <1>13, FolderAssumption
  <2>2. PICK n \in Nat, m \in Nat : n = Len(b.grants[with]) /\ m = MostGrants
        BY <1>7, <2>1, CleanNumbers DEF Room
  <2>3. Pending(j, {"protect", "share", "rotate"}) = 1
        BY <1>4, <1>7 DEF Pending
  <2>4. PICK u \in Nat, v \in Nat, w \in Nat : u = budget.share /\ v = budget.rotate /\ w = budget.protect
        BY <1>7 DEF BudgetSet
  <2>5. n + 1 + u + v + w <= m
        BY <1>7, <2>1, <2>2, <2>3, <2>4 DEF Room
  <2>6. n < m
        BY <2>5
  <2> QED BY <2>2, <2>6
<1>16. OncePerPerson(k.all) /\ Lasting(k.all) /\ Made("share", b, Outcome(k))
      BY <1>9, <1>11, <1>12, <1>13, <1>14, <1>15, ShareMakes
<1>17. Room(b, k, budget')
      BY <1>4, <1>5, <1>7, <1>11, RoomOn
<1>18. Len(todo) \in Nat
      BY <1>9
<1>19. OneGoes(j, k)
      BY <1>5, <1>6, <1>7, <1>10, <1>16, <1>17, <1>18, OneStarts
<1> QED BY <1>1, <1>4, <1>7, <1>19

\* The command goes on: share or rotate is refused.
LEMMA RefuseOne ==
    ASSUME TypesInv, OneInv, Orderly, NEW t \in Terminals, Refuse(t)
    PROVE  \E k : t = 1 /\ Moves(t, k) /\ OneGoes(command[t], k)
<1>1. PICK j : j = command[t]
      OBVIOUS
<1>2. Moves(t, Idle) /\ j.at = "loaded" /\ UNCHANGED <<closes, grants, minted, budget>>
      BY <1>1, RefuseMoves DEF Refuse, files
<1>3. PICK b : b = Files(closes, grants, minted)
      OBVIOUS
<1>4. /\ t = 1 /\ j # Idle /\ ~ InWriting(j) /\ OneOK(j, closes, grants, minted, budget) /\ Clean(b)
      /\ Room(b, j, budget) /\ budget \in BudgetSet
      BY <1>1, <1>2, <1>3, OneAt
<1>5. Room(b, Idle, budget')
      BY <1>2, <1>4, RoomOn
<1>6. Idle.at = "idle" /\ ~ InWriting(Idle)
      BY DEF Idle, InWriting
<1>7. OneGoes(j, Idle)
      BY <1>2, <1>3, <1>4, <1>5, <1>6, OneReads
<1> QED BY <1>1, <1>2, <1>4, <1>7

\* Everybody but those left out is yet to be asked.
LEMMA AllToAsk ==
    ASSUME NEW except, NEW left, left = Without(Order, except)
    PROVE  /\ left \in Seq(People) /\ Once(left)
           /\ \A i \in 1..Len(left) : left[i] \notin except
           /\ \A p \in People \ except : \E i \in 1..Len(left) : left[i] = p
<1>1. PICK s : s = Order
      OBVIOUS
<1>2. s \in Seq(People) /\ Once(s) /\ \A p \in People : \E i \in 1..Len(s) : s[i] = p
      BY <1>1, FolderAssumption DEF Once
<1>3. left \in Seq(People \ except) /\ Leaves(s, except, left)
      BY <1>1, <1>2, WithoutFacts
<1>4. Once(left)
      BY <1>1, <1>2, WithoutOnce
<1>5. \A i \in 1..Len(left) : left[i] \in People \ except
      BY <1>3, ElementIn
<1>6. left \in Seq(People)
  <2>1. People \ except \subseteq People
        OBVIOUS
  <2> QED BY <1>3, <2>1, SeqMono
<1>7. \A p \in People \ except : \E i \in 1..Len(left) : left[i] = p
  <2> SUFFICES ASSUME NEW p \in People \ except PROVE \E i \in 1..Len(left) : left[i] = p
      OBVIOUS
  <2>1. PICK i \in 1..Len(s) : s[i] = p
        BY <1>2
  <2> QED BY <1>3, <2>1 DEF Leaves
<1> QED BY <1>4, <1>5, <1>6, <1>7

\* The command goes on: rotate finds the current key.
LEMMA FindKeyOne ==
    ASSUME TypesInv, OneInv, Orderly, NEW t \in Terminals, FindKey(t)
    PROVE  \E k : t = 1 /\ Moves(t, k) /\ OneGoes(command[t], k)
<1>1. PICK j : j = command[t]
      OBVIOUS
<1>2. PICK k : /\ LoadedOK(j, minted) /\ j.do = "rotate" /\ Moves(t, k) /\ GatherOK(k, minted)
               /\ k.me = j.me /\ k.close = j.close /\ k.rec = j.rec /\ k.except = j.except
               /\ k.key = CurrentKey(k.me, k.rec) /\ k.keepers = <<>> /\ k.left = Without(Order, k.except)
      BY <1>1, FindKeyMoves
<1>3. command[t].at = "loaded" /\ UNCHANGED <<closes, grants, minted, budget>>
      BY DEF FindKey, files
<1>4. PICK b : b = Files(closes, grants, minted)
      OBVIOUS
<1>5. /\ t = 1 /\ j # Idle /\ ~ InWriting(j) /\ OneOK(j, closes, grants, minted, budget) /\ Clean(b)
      /\ Room(b, j, budget) /\ Reading(j, closes) /\ budget \in BudgetSet
      BY <1>1, <1>3, <1>4, OneAt
<1>6. k.at = "gather" /\ k.do = "rotate" /\ ~ InWriting(k) /\ k.me \in People
      BY <1>2 DEF GatherOK, InWriting, LoadedRec
<1>7. Reading(k, closes)
      BY <1>2, <1>5, <1>6 DEF Reading
<1>8. Room(b, k, budget')
      BY <1>2, <1>3, <1>5, <1>6, RoomOn
<1>9. Gathered(k, b)
  <2>1. k.rec = closes[k.close]
        BY <1>7 DEF Reading
  <2>2. k.key = KeyIn(b, k.me, k.close)
        BY <1>2, <1>4, <1>5, <1>6, <2>1, CleanReads
  <2>3. PICK left, except : left = k.left /\ except = k.except
        OBVIOUS
  <2>4. /\ Once(left) /\ \A i \in 1..Len(left) : left[i] \notin except
        /\ \A p \in People \ except : \E i \in 1..Len(left) : left[i] = p
        BY <1>2, <2>3, AllToAsk
  <2>5. 1..Len(k.keepers) = {}
        BY <1>2
  <2>6. \A i, h \in 1..Len(k.left) : k.left[i] = k.left[h] => i = h
        BY <2>3, <2>4 DEF Once
  <2>7. \A p \in People \ k.except : \E i \in 1..Len(k.left) : k.left[i] = p
        BY <2>3, <2>4
  <2>8. \A i \in 1..Len(k.left) : k.left[i] \notin k.except
        BY <2>3, <2>4
  <2> QED BY <2>2, <2>5, <2>6, <2>7, <2>8 DEF Gathered, Asked
<1>10. OneGoes(j, k)
      BY <1>3, <1>4, <1>5, <1>6, <1>7, <1>8, <1>9, OneReads
<1> QED BY <1>1, <1>2, <1>5, <1>10

\* A sequence, but for its first.
LEMMA TailIs ==
    ASSUME NEW A, NEW s \in Seq(A), s # <<>>
    PROVE  /\ Len(s) \in Nat /\ Len(s) >= 1 /\ Head(s) = s[1] /\ s[1] \in A
           /\ Tail(s) \in Seq(A) /\ Len(Tail(s)) = Len(s) - 1
           /\ \A i \in 1..(Len(s) - 1) : Tail(s)[i] = s[i + 1] /\ i + 1 \in 1..Len(s)
           /\ \A i \in 1..Len(s) : i = 1 \/ (i - 1 \in 1..(Len(s) - 1) /\ Tail(s)[i - 1] = s[i])
<1>1. Len(s) \in Nat /\ Len(s) >= 1 /\ Head(s) = s[1]
      OBVIOUS
<1>2. s[1] \in A
      BY <1>1, ElementIn
<1>3. Tail(s) \in Seq(A) /\ Len(Tail(s)) = Len(s) - 1
      OBVIOUS
<1>4. \A i \in 1..(Len(s) - 1) : Tail(s)[i] = s[i + 1] /\ i + 1 \in 1..Len(s)
      BY <1>1
<1>5. ASSUME NEW i \in 1..Len(s), i # 1
      PROVE  i - 1 \in 1..(Len(s) - 1) /\ Tail(s)[i - 1] = s[i]
  <2>1. i - 1 \in 1..(Len(s) - 1) /\ (i - 1) + 1 = i
        BY <1>1, <1>5
  <2>2. Tail(s)[i - 1] = s[(i - 1) + 1]
        BY <1>4, <2>1
  <2> QED BY <2>1, <2>2
<1> QED BY <1>1, <1>2, <1>3, <1>4, <1>5

\* One person was asked.
LEMMA GatheredOn ==
    ASSUME NEW b, NEW j, Gathered(j, b), j.left \in Seq(People), j.left # <<>>, j.keepers \in Seq(KeeperSet),
           NEW p, p = Head(j.left), NEW held, held = HoldsIn(b, p, j.close), held # {} => held \subseteq Grant,
           NEW k, k.me = j.me, k.close = j.close, k.except = j.except, k.key = j.key, k.left = Tail(j.left),
           k.keepers = IF held = {} THEN j.keepers ELSE Append(j.keepers, Keeper(p, held))
    PROVE  Gathered(k, b)
<1>1. PICK left, rest, keepers, except, c :
         left = j.left /\ rest = Tail(left) /\ keepers = j.keepers /\ except = j.except /\ c = j.close
      OBVIOUS
<1>2. PICK m \in Nat, n \in Nat : m = Len(left) /\ n = Len(keepers)
      BY <1>1
<1>3. /\ m >= 1 /\ p = left[1] /\ p \in People /\ Len(rest) = m - 1
      /\ \A i \in 1..(m - 1) : rest[i] = left[i + 1] /\ i + 1 \in 1..m
      /\ \A i \in 1..m : i = 1 \/ (i - 1 \in 1..(m - 1) /\ rest[i - 1] = left[i])
      BY <1>1, <1>2, TailIs
<1>4. /\ \A i \in 1..n : LET q == keepers[i].who
                         IN  /\ q \in People \ except /\ HoldsIn(b, q, c) # {}
                             /\ keepers[i] = Keeper(q, HoldsIn(b, q, c))
                             /\ \A h \in 1..m : left[h] # q
      /\ \A i, h \in 1..n : keepers[i].who = keepers[h].who => i = h
      /\ \A i, h \in 1..m : left[i] = left[h] => i = h
      /\ \A i \in 1..m : left[i] \notin except
      /\ \A q \in People \ except : HoldsIn(b, q, c) # {} =>
            \/ \E i \in 1..n : keepers[i].who = q
            \/ \E i \in 1..m : left[i] = q
  <2>1. /\ \A i \in 1..n : LET q == keepers[i].who
                           IN  /\ q \in People \ except /\ HoldsIn(b, q, c) # {}
                               /\ keepers[i] = Keeper(q, HoldsIn(b, q, c))
                               /\ \A h \in 1..m : left[h] # q
        BY <1>1, <1>2 DEF Gathered, Asked
  <2>2. \A i, h \in 1..n : keepers[i].who = keepers[h].who => i = h
        BY <1>1, <1>2 DEF Gathered, Asked
  <2>3. \A i, h \in 1..m : left[i] = left[h] => i = h
        BY <1>1, <1>2 DEF Gathered, Asked
  <2>4. \A i \in 1..m : left[i] \notin except
        BY <1>1, <1>2 DEF Gathered, Asked
  <2>5. \A q \in People \ except : HoldsIn(b, q, c) # {} =>
            \/ \E i \in 1..n : keepers[i].who = q
            \/ \E i \in 1..m : left[i] = q
        BY <1>1, <1>2 DEF Gathered, Asked
  <2> QED BY <2>1, <2>2, <2>3, <2>4, <2>5
<1>5. 1 \in 1..m
      BY <1>3
<1>6. \A i \in 1..(m - 1) : rest[i] # p
  <2> SUFFICES ASSUME NEW i \in 1..(m - 1), rest[i] = p PROVE FALSE
      OBVIOUS
  <2>1. left[i + 1] = left[1] /\ i + 1 \in 1..m
        BY <1>3
  <2>2. i + 1 = 1
        BY <1>4, <1>5, <2>1
  <2> QED BY <2>2
<1>7. \A i, h \in 1..(m - 1) : rest[i] = rest[h] => i = h
  <2> SUFFICES ASSUME NEW i \in 1..(m - 1), NEW h \in 1..(m - 1), rest[i] = rest[h] PROVE i = h
      OBVIOUS
  <2>1. /\ rest[i] = left[i + 1] /\ i + 1 \in 1..m
        /\ rest[h] = left[h + 1] /\ h + 1 \in 1..m
        BY <1>3
  <2>2. PICK x \in 1..m : x = i + 1
        BY <2>1
  <2>3. PICK y \in 1..m : y = h + 1
        BY <2>1
  <2>4. left[x] = left[y]
        BY <2>1, <2>2, <2>3
  <2>5. x = y
        BY <1>4, <2>4
  <2> QED BY <2>2, <2>3, <2>5
<1>8. \A i \in 1..(m - 1) : rest[i] \notin except
  <2> SUFFICES ASSUME NEW i \in 1..(m - 1) PROVE rest[i] \notin except
      OBVIOUS
  <2>1. rest[i] = left[i + 1] /\ i + 1 \in 1..m
        BY <1>3
  <2>2. PICK x \in 1..m : x = i + 1
        BY <2>1
  <2>3. rest[i] = left[x] /\ left[x] \notin except
        BY <1>4, <2>1, <2>2
  <2> QED BY <2>3
<1>9. PICK more : more = k.keepers
      OBVIOUS
<1>10. /\ k.left = rest /\ k.keepers = more /\ k.except = except /\ k.close = c
       /\ Len(rest) = m - 1 /\ k.key = KeyIn(b, k.me, k.close)
  <2>1. j.key = KeyIn(b, j.me, j.close)
        BY DEF Gathered
  <2> QED BY <1>1, <1>3, <1>9, <2>1
<1>13. \A i \in 1..n : \A h \in 1..(m - 1) : rest[h] # keepers[i].who
  <2> SUFFICES ASSUME NEW i \in 1..n, NEW h \in 1..(m - 1) PROVE rest[h] # keepers[i].who
      OBVIOUS
  <2>1. rest[h] = left[h + 1] /\ h + 1 \in 1..m
        BY <1>3
  <2> QED BY <1>4, <2>1
<1>14. \A i \in 1..n : /\ keepers[i].who \in People \ except /\ HoldsIn(b, keepers[i].who, c) # {}
                       /\ keepers[i] = Keeper(keepers[i].who, HoldsIn(b, keepers[i].who, c))
      BY <1>4
<1>11. CASE held = {}
  <2>1. more = keepers /\ Len(more) = n
        BY <1>1, <1>2, <1>9, <1>11
  <2>3. \A q \in People \ except : HoldsIn(b, q, c) # {} =>
           \/ \E i \in 1..n : keepers[i].who = q
           \/ \E i \in 1..(m - 1) : rest[i] = q
    <3> SUFFICES ASSUME NEW q \in People \ except, HoldsIn(b, q, c) # {}, ~ \E i \in 1..n : keepers[i].who = q
                 PROVE  \E i \in 1..(m - 1) : rest[i] = q
        OBVIOUS
    <3>1. PICK i \in 1..m : left[i] = q
          BY <1>4
    <3>2. i # 1
          BY <1>1, <1>3, <1>11, <3>1
    <3> QED BY <1>3, <3>1, <3>2
  <2>4. Asked(b, c, except, rest, more)
        BY <1>4, <1>7, <1>8, <1>10, <1>13, <2>1, <2>3 DEF Asked
  <2> QED BY <1>10, <2>4 DEF Gathered
<1>12. CASE held # {}
  <2>1. PICK new : new = Keeper(p, held)
        OBVIOUS
  <2>2. new \in KeeperSet
        BY <1>3, <1>12, <2>1, KeeperTyped
  <2>3. more = Append(keepers, new) /\ keepers \in Seq(KeeperSet)
        BY <1>1, <1>9, <1>12, <2>1
  <2>4. Len(more) = n + 1 /\ more[n + 1] = new /\ \A i \in 1..n : more[i] = keepers[i]
        BY <1>2, <2>2, <2>3, OneMore
  <2>5. new.who = p
        BY <2>1 DEF Keeper
  <2>6. \A i \in 1..(n + 1) : i = n + 1 \/ i \in 1..n
        OBVIOUS
  <2>7. \A i \in 1..n : keepers[i].who # p
        BY <1>3, <1>4, <1>5
  <2>8. ASSUME NEW i \in 1..(n + 1)
        PROVE  LET q == more[i].who
               IN  /\ q \in People \ except /\ HoldsIn(b, q, c) # {}
                   /\ more[i] = Keeper(q, HoldsIn(b, q, c))
                   /\ \A h \in 1..(m - 1) : rest[h] # q
    <3>1. CASE i = n + 1
      <4>1. more[i] = new /\ more[i].who = p
            BY <2>4, <2>5, <3>1
      <4>2. p \in People \ except
            BY <1>3, <1>4, <1>5
      <4>3. HoldsIn(b, p, c) = held
            BY <1>1
      <4> QED BY <1>6, <1>12, <2>1, <4>1, <4>2, <4>3
    <3>2. CASE i \in 1..n
      <4>1. more[i] = keepers[i]
            BY <2>4, <3>2
      <4> QED BY <1>13, <1>14, <3>2, <4>1
    <3> QED BY <2>6, <3>1, <3>2
  <2>9. \A i, h \in 1..(n + 1) : more[i].who = more[h].who => i = h
        BY <1>4, <2>4, <2>5, <2>6, <2>7
  <2>10. \A q \in People \ except : HoldsIn(b, q, c) # {} =>
           \/ \E i \in 1..(n + 1) : more[i].who = q
           \/ \E i \in 1..(m - 1) : rest[i] = q
    <3> SUFFICES ASSUME NEW q \in People \ except, HoldsIn(b, q, c) # {}
                 PROVE  \/ \E i \in 1..(n + 1) : more[i].who = q
                        \/ \E i \in 1..(m - 1) : rest[i] = q
        OBVIOUS
    <3>1. CASE \E i \in 1..n : keepers[i].who = q
      <4>1. PICK i \in 1..n : keepers[i].who = q
            BY <3>1
      <4>2. i \in 1..(n + 1) /\ more[i].who = q
            BY <2>4, <4>1
      <4> QED BY <4>2
    <3>2. CASE \E i \in 1..m : left[i] = q
      <4>1. PICK i \in 1..m : left[i] = q
            BY <3>2
      <4>2. CASE i = 1
        <5>1. n + 1 \in 1..(n + 1) /\ more[n + 1].who = q
              BY <1>3, <2>4, <2>5, <4>1, <4>2
        <5> QED BY <5>1
      <4>3. CASE i # 1
            BY <1>3, <4>1, <4>3
      <4> QED BY <4>2, <4>3
    <3> QED BY <1>4, <3>1, <3>2
  <2>11. Asked(b, c, except, rest, more)
    <3>1. /\ \A i \in 1..Len(more) :
                LET q == more[i].who
                IN  /\ q \in People \ except /\ HoldsIn(b, q, c) # {}
                    /\ more[i] = Keeper(q, HoldsIn(b, q, c))
                    /\ \A h \in 1..Len(rest) : rest[h] # q
          BY <1>10, <2>4, <2>8
    <3>2. \A i, h \in 1..Len(more) : more[i].who = more[h].who => i = h
          BY <2>4, <2>9
    <3>3. /\ \A i, h \in 1..Len(rest) : rest[i] = rest[h] => i = h
          /\ \A i \in 1..Len(rest) : rest[i] \notin except
          BY <1>7, <1>8, <1>10
    <3>4. \A q \in People \ except : HoldsIn(b, q, c) # {} =>
             \/ \E i \in 1..Len(more) : more[i].who = q
             \/ \E i \in 1..Len(rest) : rest[i] = q
          BY <1>10, <2>4, <2>10
    <3> QED BY <3>1, <3>2, <3>3, <3>4 DEF Asked
  <2> QED BY <1>10, <2>11 DEF Gathered
<1> QED BY <1>11, <1>12

\* The command goes on: rotate reads the grants of one person.
LEMMA GatherOne ==
    ASSUME TypesInv, OneInv, Orderly, NEW t \in Terminals, Gather(t)
    PROVE  \E k : t = 1 /\ Moves(t, k) /\ OneGoes(command[t], k)
<1>1. PICK j : j = command[t]
      OBVIOUS
<1>2. PICK p \in People : \E held : \E k :
         /\ GatherOK(command[t], minted) /\ Moves(t, k) /\ GatherOK(k, minted)
         /\ command[t].left # <<>> /\ p = Head(command[t].left) /\ held = HeldBy(p, k.rec)
         /\ k.me = command[t].me /\ k.close = command[t].close /\ k.rec = command[t].rec
         /\ k.except = command[t].except /\ k.held = command[t].held /\ k.key = command[t].key
         /\ k.left = Tail(command[t].left)
         /\ k.keepers = IF held = {} THEN command[t].keepers
                        ELSE Append(command[t].keepers, Keeper(p, held))
      BY GatherMoves
<1>3. PICK held, k :
         /\ GatherOK(command[t], minted) /\ Moves(t, k) /\ GatherOK(k, minted)
         /\ command[t].left # <<>> /\ p = Head(command[t].left) /\ held = HeldBy(p, k.rec)
         /\ k.me = command[t].me /\ k.close = command[t].close /\ k.rec = command[t].rec
         /\ k.except = command[t].except /\ k.key = command[t].key
         /\ k.left = Tail(command[t].left)
         /\ k.keepers = IF held = {} THEN command[t].keepers
                        ELSE Append(command[t].keepers, Keeper(p, held))
      BY <1>2
<1>4. /\ GatherOK(j, minted) /\ Moves(t, k) /\ GatherOK(k, minted)
      /\ j.left # <<>> /\ p = Head(j.left) /\ held = HeldBy(p, k.rec)
      /\ k.me = j.me /\ k.close = j.close /\ k.rec = j.rec
      /\ k.except = j.except /\ k.key = j.key
      /\ k.left = Tail(j.left)
      /\ k.keepers = IF held = {} THEN j.keepers ELSE Append(j.keepers, Keeper(p, held))
      BY <1>1, <1>3
<1>5. command[t].at = "gather" /\ UNCHANGED <<closes, grants, minted, budget>>
      BY DEF Gather, files
<1>6. PICK b : b = Files(closes, grants, minted)
      OBVIOUS
<1>7. /\ t = 1 /\ j # Idle /\ ~ InWriting(j) /\ OneOK(j, closes, grants, minted, budget) /\ Clean(b)
      /\ Room(b, j, budget) /\ Reading(j, closes) /\ budget \in BudgetSet
      BY <1>1, <1>5, <1>6, OneAt
<1>8. /\ k.at = "gather" /\ k.do = "rotate" /\ j.do = "rotate" /\ ~ InWriting(k)
      /\ j.left \in Seq(People) /\ j.keepers \in Seq(KeeperSet)
      BY <1>4 DEF GatherOK, InWriting, LoadedRec
<1>9. Reading(k, closes)
      BY <1>4, <1>7, <1>8 DEF Reading
<1>10. Room(b, k, budget')
      BY <1>4, <1>5, <1>7, <1>8, RoomOn
<1>11. Gathered(j, b)
      BY <1>1, <1>5, <1>6, <1>7 DEF OneOK
<1>12. held = HoldsIn(b, p, j.close)
  <2>1. k.rec = closes[j.close]
        BY <1>4, <1>7 DEF Reading
  <2> QED BY <1>4, <1>6, <1>7, <2>1, CleanReads
<1>13. held \subseteq Grant
  <2>1. PICK rec : rec = k.rec
        OBVIOUS
  <2> QED BY <1>4, <2>1, HeldByFacts DEF TypesInv
<1>14. Gathered(k, b)
      BY <1>4, <1>8, <1>11, <1>12, <1>13, GatheredOn
<1>15. OneGoes(j, k)
      BY <1>5, <1>6, <1>7, <1>8, <1>9, <1>10, <1>14, OneReads
<1> QED BY <1>1, <1>4, <1>7, <1>15

\* The command goes on: rotate decides on the new lock.
LEMMA ChangeLockOne ==
    ASSUME TypesInv, OneInv, Orderly, NEW t \in Terminals, ChangeLock(t)
    PROVE  \E k : t = 1 /\ Moves(t, k) /\ OneGoes(command[t], k)
<1>1. PICK j : j = command[t]
      OBVIOUS
<1>2. \E root \in ContentKeys : \E k :
         /\ GatherOK(j, minted) /\ j.close \in Closes /\ j.left = <<>>
         /\ Fresh(root) /\ Moves(t, k) /\ Started(k, "rotate", j.me, j.close, ToRotate(j, root))
         /\ k.except = j.except /\ k.held = j.held /\ k.at = "open"
         /\ WritingOK(k, closes, grants, minted)
      BY <1>1, ChangeLockMoves
<1>3. PICK root \in ContentKeys : \E k :
         /\ GatherOK(j, minted) /\ j.close \in Closes /\ j.left = <<>>
         /\ Fresh(root) /\ Moves(t, k) /\ Started(k, "rotate", j.me, j.close, ToRotate(j, root))
      BY <1>2
<1>4. PICK k :
         /\ GatherOK(j, minted) /\ j.close \in Closes /\ j.left = <<>>
         /\ Fresh(root) /\ Moves(t, k) /\ Started(k, "rotate", j.me, j.close, ToRotate(j, root))
      BY <1>3
<1>5. command[t].at = "gather" /\ UNCHANGED <<closes, grants, minted, budget>>
      BY DEF ChangeLock, files
<1>6. PICK b : b = Files(closes, grants, minted)
      OBVIOUS
<1>7. /\ t = 1 /\ j # Idle /\ ~ InWriting(j) /\ OneOK(j, closes, grants, minted, budget) /\ Clean(b)
      /\ Room(b, j, budget) /\ Reading(j, closes) /\ budget \in BudgetSet
      BY <1>1, <1>5, <1>6, OneAt
<1>8. PICK todo : todo = ToRotate(j, root)
      OBVIOUS
<1>9. k.do = "rotate" /\ k.close = j.close /\ k.before = b /\ k.all = todo /\ j.do = "rotate"
      BY <1>4, <1>6, <1>8 DEF Started, Files, GatherOK
<1>10. Gathered(j, b)
      BY <1>1, <1>5, <1>6, <1>7 DEF OneOK
<1>11. b.closes = closes /\ b.minted = minted
      BY <1>6 DEF Files
<1>12. j.close \in DOMAIN b.closes /\ j.rec = b.closes[j.close] /\ j.except \in SUBSET Excludable
      BY <1>7, <1>9, <1>11 DEF Reading
<1>13. b.closes[j.close].epoch < Most("rotate")
  <2>1. PICK n \in Nat, m \in Nat, r \in Nat :
           n = b.closes[j.close].epoch /\ m = Most("rotate") /\ r = budget.rotate
        BY <1>7, <1>12, CleanNumbers DEF Room, BudgetSet
  <2>2. Pending(j, {"rotate"}) = 1
        BY <1>7, <1>9 DEF Pending
  <2>3. n + 1 + r <= m
        BY <1>7, <1>12, <2>1, <2>2 DEF Room
  <2>4. n < m
        BY <2>3
  <2> QED BY <2>1, <2>4
<1>14. Unused(b, root)
      BY <1>4, <1>6, <1>7, FreshIsUnused
<1>15. OncePerPerson(k.all) /\ Lasting(k.all) /\ Made("rotate", b, Outcome(k))
      BY <1>4, <1>7, <1>8, <1>9, <1>10, <1>11, <1>12, <1>13, <1>14, RotateMakes
<1>16. Room(b, k, budget')
      BY <1>5, <1>7, <1>9, RoomOn
<1>17. Len(todo) \in Nat
  <2>1. Len(j.keepers) \in Nat /\ Len(todo) = Len(j.keepers) + 1
        BY <1>4, <1>8, RotationFiles
  <2> QED BY <2>1
<1>18. Started(k, "rotate", j.me, j.close, todo)
      BY <1>4, <1>8
<1>19. OneGoes(j, k)
      BY <1>5, <1>6, <1>7, <1>15, <1>16, <1>17, <1>18, OneStarts
<1> QED BY <1>1, <1>4, <1>7, <1>19

-----------------------------------------------------------------------------
\* A command that is writing.
LEMMA OneWrites ==
    ASSUME TypesInv, OneInv, Orderly, NEW t \in Terminals, command[t].at \in {"prepare", "open", "fill"}
    PROVE  LET j == command[t]
           IN  /\ t = 1 /\ j # Idle /\ InWriting(j) /\ WritingOK(j, closes, grants, minted)
               /\ File(t) = Head(j.todo)
               /\ Clean(j.before) /\ Room(j.before, j, budget) /\ Carrying(j, closes, grants, minted)
               /\ budget \in BudgetSet
<1>1. PICK j : j = command[t]
      OBVIOUS
<1>2. j # Idle /\ InWriting(j)
      BY <1>1 DEF Idle, InWriting
<1>3. t = 1 /\ OneOK(j, closes, grants, minted, budget) /\ budget \in BudgetSet
      BY <1>1, <1>2, TheOneIs DEF OneInv
<1>4. Clean(j.before) /\ Room(j.before, j, budget) /\ Carrying(j, closes, grants, minted)
      BY <1>2, <1>3 DEF OneOK, Base
<1>5. WritingOK(j, closes, grants, minted) /\ File(t) = Head(j.todo)
      BY <1>1, AtWriting
<1> QED BY <1>1, <1>2, <1>3, <1>4, <1>5

\* Where it goes on writing, it shows the files it found.
LEMMA OneWritesOn ==
    ASSUME NEW j, InWriting(j), Clean(j.before), Room(j.before, j, budget), budget \in BudgetSet, budget' = budget,
           j # Idle, NEW k, InWriting(k), SameCommand(j, k), Carrying(k, closes', grants', minted')
    PROVE  OneGoes(j, k)
<1>1. k.before = j.before /\ k.do = j.do
      BY DEF SameCommand
<1>2. Base(j, closes, grants, minted) = j.before /\ Base(k, closes', grants', minted') = j.before
      BY <1>1 DEF Base
<1>3. Room(j.before, k, budget)
      BY <1>1, RoomOn
<1>4. k.at \notin {"loaded", "gather"}
      BY DEF InWriting
<1>5. OneOK(k, closes', grants', minted', budget')
      BY <1>2, <1>3, <1>4 DEF OneOK
<1> QED BY <1>2, <1>5 DEF OneGoes

\* The file it is at is the next of them all.
LEMMA NextFile ==
    ASSUME NEW todo, NEW all, NEW c, TodoOK(todo, all, c)
    PROVE  /\ Len(all) \in Nat /\ Len(all) >= 1 /\ Len(todo) \in 1..Len(all)
           /\ (Len(all) - Len(todo)) + 1 \in 1..Len(all)
           /\ Head(todo) = all[(Len(all) - Len(todo)) + 1]
           /\ Head(todo) \in FilesFor(c)
           /\ \A i \in 1..Len(all) : /\ all[i] \in FilesFor(c)
                                     /\ all[i].is = "record" => i = 1
                                     /\ all[i].is = "list" => i = Len(all)
<1>1. todo \in Seq(FilesFor(c)) /\ todo # <<>> /\ all \in Seq(FilesFor(c)) /\ Len(todo) <= Len(all)
      BY DEF TodoOK
<1>2. Len(todo) \in Nat /\ Len(todo) >= 1 /\ Head(todo) = todo[1] /\ Len(all) \in Nat
      BY <1>1
<1>3. todo[1] = all[1 + (Len(all) - Len(todo))]
      BY <1>2 DEF TodoOK
<1>4. 1 + (Len(all) - Len(todo)) = (Len(all) - Len(todo)) + 1
      BY <1>2
<1>5. \A i \in 1..Len(all) : all[i] \in FilesFor(c)
      BY <1>1, ElementIn
<1>6. (Len(all) - Len(todo)) + 1 \in 1..Len(all) /\ Len(todo) \in 1..Len(all)
      BY <1>1, <1>2
<1>7. \A i \in 1..Len(all) : (all[i].is = "record" => i = 1) /\ (all[i].is = "list" => i = Len(all))
      BY DEF TodoOK
<1> QED BY <1>1, <1>2, <1>3, <1>4, <1>5, <1>6, <1>7

\* The same command makes the same of the files, and has got as far.
LEMMA SameOutcome ==
    ASSUME NEW j, NEW k, SameCommand(j, k)
    PROVE  /\ Outcome(k) = Outcome(j) /\ k.all = j.all /\ k.before = j.before /\ k.do = j.do
           /\ \A d, at, gs : GrantsSoFar(k, d, at, gs) <=> GrantsSoFar(j, d, at, gs)
           /\ \A d, at, cs, ms : RecordSoFar(k, d, at, cs, ms) <=> RecordSoFar(j, d, at, cs, ms)
<1>1. /\ k.all = j.all /\ k.before = j.before /\ k.do = j.do /\ k.close = j.close
      BY DEF SameCommand
<1>2. OutcomeCloses(k) = OutcomeCloses(j) /\ OutcomeMinted(k) = OutcomeMinted(j) /\ OutcomeGrants(k) = OutcomeGrants(j)
      BY <1>1 DEF OutcomeCloses, OutcomeMinted, OutcomeGrants
<1>3. Outcome(k) = Outcome(j)
      BY <1>2 DEF Outcome
<1>4. ASSUME NEW d, NEW at, NEW gs
      PROVE  GrantsSoFar(k, d, at, gs) <=> GrantsSoFar(j, d, at, gs)
      BY <1>1 DEF GrantsSoFar
<1>5. ASSUME NEW d, NEW at, NEW cs, NEW ms
      PROVE  RecordSoFar(k, d, at, cs, ms) <=> RecordSoFar(j, d, at, cs, ms)
      BY <1>1, <1>2 DEF RecordSoFar
<1> QED BY <1>1, <1>3, <1>4, <1>5

\* How far it has got: the file it is at, and those before it.
LEMMA GotTo ==
    ASSUME NEW j, NEW cs, NEW gs, NEW ms, WritingOK(j, cs, gs, ms)
    PROVE  \E d \in Nat : /\ d = Len(j.all) - Len(j.todo) /\ Len(j.all) \in Nat /\ Len(j.all) >= 1 /\ Len(j.todo) \in Nat
                         /\ d + 1 \in 1..Len(j.all) /\ Head(j.todo) = j.all[d + 1] /\ Head(j.todo) \in FilesFor(j.close)
                         /\ \A i \in 1..Len(j.all) : /\ j.all[i] \in FilesFor(j.close)
                                                     /\ j.all[i].is = "record" => i = 1
                                                     /\ j.all[i].is = "list" => i = Len(j.all)
<1>1. PICK todo, all, c : todo = j.todo /\ all = j.all /\ c = j.close
      OBVIOUS
<1>2. TodoOK(todo, all, c)
      BY <1>1 DEF WritingOK
<1>3. PICK m \in Nat, n \in Nat : m = Len(all) /\ n = Len(todo)
      BY <1>2, NextFile
<1>4. /\ m >= 1 /\ n \in 1..m /\ (m - n) + 1 \in 1..m /\ Head(todo) = all[(m - n) + 1]
      /\ Head(todo) \in FilesFor(c)
      /\ \A i \in 1..m : /\ all[i] \in FilesFor(c)
                         /\ all[i].is = "record" => i = 1
                         /\ all[i].is = "list" => i = m
      BY <1>2, <1>3, NextFile
<1>5. PICK d \in Nat : d = m - n
      BY <1>4
<1>6. d + 1 \in 1..m /\ Head(todo) = all[d + 1]
      BY <1>4, <1>5
<1> QED BY <1>1, <1>3, <1>4, <1>5, <1>6

\* Only an opened file makes a difference.
LEMMA SoFarSame ==
    ASSUME NEW k, NEW d, NEW at, at # "fill", NEW to, to # "fill", NEW cs, NEW gs, NEW ms,
           GrantsSoFar(k, d, at, gs), RecordSoFar(k, d, at, cs, ms)
    PROVE  GrantsSoFar(k, d, to, gs) /\ RecordSoFar(k, d, to, cs, ms)
<1>1. GrantsSoFar(k, d, to, gs)
      BY DEF GrantsSoFar
<1>2. RecordSoFar(k, d, to, cs, ms)
      BY DEF RecordSoFar
<1> QED BY <1>1, <1>2

\* The command goes on: the files of a person are counted.
LEMMA CountOne ==
    ASSUME TypesInv, OneInv, Orderly, NEW t \in Terminals, Count(t)
    PROVE  \E k : t = 1 /\ Moves(t, k) /\ OneGoes(command[t], k)
<1>1. PICK j, f : j = command[t] /\ f = File(t)
      OBVIOUS
<1>2. PICK k : /\ Moves(t, k) /\ SameCommand(j, k) /\ k.todo = j.todo
               /\ j.at = "prepare" /\ k.at = "open"
               /\ f.is = "grant" /\ f.who \in People /\ Head(k.todo) = f
               /\ k.n = Len(grants[f.who]) + 1
      BY <1>1, CountMoves
<1>3. UNCHANGED <<closes, grants, minted, budget>>
      BY DEF Count, files
<1>4. /\ t = 1 /\ j # Idle /\ InWriting(j) /\ WritingOK(j, closes, grants, minted) /\ f = Head(j.todo)
      /\ Clean(j.before) /\ Room(j.before, j, budget) /\ Carrying(j, closes, grants, minted) /\ budget \in BudgetSet
      BY <1>1, <1>2, OneWrites
<1>5. PICK d \in Nat : d = Len(j.all) - Len(j.todo) /\ d + 1 \in 1..Len(j.all) /\ Head(j.todo) = j.all[d + 1]
      BY <1>4, GotTo
<1>6. f = j.all[d + 1]
      BY <1>4, <1>5
<1>7. GrantsSoFar(j, d, "prepare", grants) /\ RecordSoFar(j, d, "prepare", closes, minted)
      BY <1>2, <1>4, <1>5 DEF Carrying
<1>8. grants[f.who] = j.before.grants[f.who]
  <2>1. d + 1 \in ForWhom(j.all, f.who)
        BY <1>2, <1>5, <1>6 DEF ForWhom
  <2>2. ~ (d + 1 <= d)
        OBVIOUS
  <2> QED BY <1>2, <1>5, <1>7, <2>1, <2>2 DEF GrantsSoFar
<1>9. GrantsSoFar(j, d, "open", grants) /\ RecordSoFar(j, d, "open", closes, minted)
      BY <1>7, SoFarSame
<1>10. /\ Outcome(k) = Outcome(j) /\ k.all = j.all /\ k.before = j.before /\ k.do = j.do
       /\ GrantsSoFar(k, d, "open", grants) /\ RecordSoFar(k, d, "open", closes, minted)
      BY <1>2, <1>9, SameOutcome
<1>11. /\ OncePerPerson(j.all) /\ Lasting(j.all) /\ Made(j.do, j.before, Outcome(j))
      BY <1>4 DEF Carrying
<1>12. Len(k.all) - Len(k.todo) = d
      BY <1>2, <1>5, <1>10
<1>13. Carrying(k, closes, grants, minted)
      BY <1>2, <1>8, <1>10, <1>11, <1>12 DEF Carrying
<1>14. InWriting(k)
      BY <1>2 DEF InWriting
<1>15. OneGoes(j, k)
      BY <1>2, <1>3, <1>4, <1>13, <1>14, OneWritesOn
<1> QED BY <1>1, <1>2, <1>4, <1>15

\* A command that has nothing more to tell is done.
LEMMA OneEnds ==
    ASSUME NEW j, j # Idle, InWriting(j), Clean(j.before), Room(j.before, j, budget), budget \in BudgetSet,
           budget' = budget, OncePerPerson(j.all), Lasting(j.all), Made(j.do, j.before, Outcome(j)),
           TodoOK(j.todo, j.all, j.close), Files(closes', grants', minted') = Outcome(j)
    PROVE  OneGoes(j, Idle)
<1>1. PICK a, b : a = Outcome(j) /\ b = j.before
      OBVIOUS
<1>2. Idle.at = "idle" /\ ~ InWriting(Idle)
      BY DEF Idle, InWriting
<1>3. Base(j, closes, grants, minted) = b /\ Base(Idle, closes', grants', minted') = a
      BY <1>1, <1>2, BaseIs DEF Base
<1>4. Clean(a)
      BY <1>1, OutcomeClean
<1>5. Room(a, Idle, budget)
      BY <1>1, RoomDone
<1>6. OneOK(Idle, closes', grants', minted', budget')
      BY <1>2, <1>3, <1>4, <1>5 DEF OneOK
<1> QED BY <1>1, <1>3, <1>6 DEF OneGoes

\* The command goes on: a list is read, or does not parse.
LEMMA ReadListOne ==
    ASSUME TypesInv, MapsOK, OneInv, Orderly, NEW t \in Terminals, ReadList(t)
    PROVE  \E k : t = 1 /\ Moves(t, k) /\ OneGoes(command[t], k)
<1>1. PICK j, f : j = command[t] /\ f = File(t)
      OBVIOUS
<1>2. /\ j.at = "prepare" /\ f.is = "list"
      /\ \/ Moves(t, Idle)
         \/ \E k : /\ Moves(t, k) /\ SameCommand(j, k) /\ k.todo = j.todo /\ k.at = "open" /\ Head(k.todo) = f
      BY <1>1, ReadListMoves
<1>3. UNCHANGED <<closes, grants, minted, budget>>
      BY DEF ReadList, files
<1>4. /\ t = 1 /\ j # Idle /\ InWriting(j) /\ WritingOK(j, closes, grants, minted) /\ f = Head(j.todo)
      /\ Clean(j.before) /\ Room(j.before, j, budget) /\ Carrying(j, closes, grants, minted) /\ budget \in BudgetSet
      BY <1>1, <1>2, OneWrites
<1>5. PICK d \in Nat : /\ d = Len(j.all) - Len(j.todo) /\ d + 1 \in 1..Len(j.all) /\ Head(j.todo) = j.all[d + 1]
                      /\ Len(j.all) \in Nat /\ Len(j.all) >= 1
                      /\ \A i \in 1..Len(j.all) : j.all[i].is = "list" => i = Len(j.all)
      BY <1>4, GotTo
<1>6. GrantsSoFar(j, d, "prepare", grants) /\ RecordSoFar(j, d, "prepare", closes, minted)
      BY <1>2, <1>4, <1>5 DEF Carrying
<1>7. OncePerPerson(j.all) /\ Lasting(j.all) /\ Made(j.do, j.before, Outcome(j))
      BY <1>4 DEF Carrying
<1>8. CASE Moves(t, Idle)
  <2>2. TodoOK(j.todo, j.all, j.close)
        BY <1>4 DEF WritingOK
  <2>4. d = Len(j.all) - 1 /\ j.all[Len(j.all)].is = "list"
    <3>1. d + 1 = Len(j.all)
          BY <1>2, <1>4, <1>5
    <3>2. PICK m \in Nat : m = Len(j.all)
          BY <1>5
    <3>3. d = m - 1
          BY <3>1, <3>2
    <3> QED BY <1>2, <1>4, <1>5, <3>1, <3>2, <3>3
  <2>5. grants = [p \in People |-> grants[p]]
        BY DEF MapsOK, TypesInv, GrantsOK
  <2>6. Files(closes, grants, minted) = Outcome(j)
    <3>1. PICK cs, gs, ms : cs = closes /\ gs = grants /\ ms = minted
          OBVIOUS
    <3>2. gs = [p \in People |-> gs[p]]
          BY <2>5, <3>1
    <3>3. GrantsSoFar(j, d, "prepare", gs) /\ RecordSoFar(j, d, "prepare", cs, ms)
          BY <1>6, <3>1
    <3>4. Len(j.all) \in Nat /\ Len(j.all) >= 1 /\ OncePerPerson(j.all)
          BY <1>5, <1>7
    <3>5. Files(cs, gs, ms) = Outcome(j)
          BY <2>4, <3>2, <3>3, <3>4, Reached
    <3> QED BY <3>1, <3>5
  <2>7. OneGoes(j, Idle)
        BY <1>3, <1>4, <1>7, <2>2, <2>6, OneEnds
  <2> QED BY <1>1, <1>4, <1>8, <2>7
<1>9. ASSUME NEW k, Moves(t, k), SameCommand(j, k), k.todo = j.todo, k.at = "open", Head(k.todo) = f
      PROVE  \E l : t = 1 /\ Moves(t, l) /\ OneGoes(command[t], l)
  <2>1. GrantsSoFar(j, d, "open", grants) /\ RecordSoFar(j, d, "open", closes, minted)
        BY <1>6, SoFarSame
  <2>2. /\ Outcome(k) = Outcome(j) /\ k.all = j.all /\ k.before = j.before /\ k.do = j.do
        /\ GrantsSoFar(k, d, "open", grants) /\ RecordSoFar(k, d, "open", closes, minted)
        BY <1>9, <2>1, SameOutcome
  <2>3. Len(k.all) - Len(k.todo) = d
        BY <1>5, <1>9, <2>2
  <2>4. Carrying(k, closes, grants, minted)
        BY <1>2, <1>7, <1>9, <2>2, <2>3 DEF Carrying
  <2>5. InWriting(k)
        BY <1>9 DEF InWriting
  <2>6. OneGoes(j, k)
        BY <1>3, <1>4, <1>9, <2>4, <2>5, OneWritesOn
  <2> QED BY <1>1, <1>4, <1>9, <2>6
<1> QED BY <1>2, <1>8, <1>9

\* Sequences of the same length with the same elements are the same.
LEMMA SameSeq ==
    ASSUME NEW A, NEW s \in Seq(A), NEW B, NEW u \in Seq(B), Len(s) = Len(u), \A i \in 1..Len(s) : s[i] = u[i]
    PROVE  s = u
<1>1. s = [i \in 1..Len(s) |-> s[i]] /\ u = [i \in 1..Len(u) |-> u[i]]
      OBVIOUS
<1> QED BY <1>1

\* A file opened under the next number is there after all the others, and holds
\* what is written.
LEMMA FileAfter ==
    ASSUME NEW s \in Seq(Grant), NEW g \in Grant
    PROVE  /\ With(s, Len(s) + 1, Torn) = Append(s, Torn)
           /\ [Append(s, Torn) EXCEPT ![Len(s) + 1] = g] = Append(s, g)
<1> DEFINE A == Grant \cup {Torn}
<1>1. s \in Seq(A) /\ Torn \in A /\ g \in A
  <2>1. Grant \subseteq A
        OBVIOUS
  <2> QED BY <2>1, SeqMono
<1> HIDE DEF A
<1>2. PICK n \in Nat : n = Len(s)
      OBVIOUS
<1>3. n + 1 \in 1..(Len(s) + 1)
      BY <1>2
<1>4. PICK w, torn, more : w = With(s, n + 1, Torn) /\ torn = Append(s, Torn) /\ more = Append(s, g)
      OBVIOUS
<1>5. w \in Seq(A) /\ Len(w) = n + 1 /\ w[n + 1] = Torn /\ \A i \in 1..n : i # n + 1 => w[i] = s[i]
  <2>1. PICK m : m = n + 1
        OBVIOUS
  <2>2. w = With(s, m, Torn) /\ m \in 1..(Len(s) + 1) /\ m = Len(s) + 1
        BY <1>2, <1>3, <1>4, <2>1
  <2>3. PICK v : v = Torn
        OBVIOUS
  <2>4. s \in Seq(A) /\ v \in A /\ m \in 1..(Len(s) + 1)
        BY <1>1, <2>2, <2>3
  <2>5. /\ With(s, m, v) \in Seq(A) /\ Len(With(s, m, v)) = IF m = Len(s) + 1 THEN m ELSE Len(s)
        /\ With(s, m, v)[m] = v /\ \A i \in 1..Len(s) : i # m => With(s, m, v)[i] = s[i]
        BY <2>4, WithSeq
  <2> QED BY <1>2, <2>1, <2>2, <2>3, <2>5
<1>6. torn \in Seq(A) /\ Len(torn) = n + 1 /\ torn[n + 1] = Torn /\ \A i \in 1..n : torn[i] = s[i]
      BY <1>1, <1>2, <1>4, OneMore
<1>7. more \in Seq(A) /\ Len(more) = n + 1 /\ more[n + 1] = g /\ \A i \in 1..n : more[i] = s[i]
      BY <1>1, <1>2, <1>4, OneMore
<1>8. \A i \in 1..(n + 1) : i = n + 1 \/ (i \in 1..n /\ i # n + 1)
      OBVIOUS
<1>9. w = torn
  <2>1. \A i \in 1..(n + 1) : w[i] = torn[i]
        BY <1>5, <1>6, <1>8
  <2> QED BY <1>5, <1>6, <2>1, SameSeq
<1>10. PICK x : x = [torn EXCEPT ![n + 1] = g]
      OBVIOUS
<1>11. x \in Seq(A) /\ Len(x) = n + 1 /\ x[n + 1] = g /\ \A i \in 1..(n + 1) : i # n + 1 => x[i] = torn[i]
  <2>1. n + 1 \in 1..Len(torn)
        BY <1>6
  <2> QED BY <1>1, <1>6, <1>10, <2>1, ExceptSeq
<1>12. x = more
  <2>1. \A i \in 1..(n + 1) : x[i] = more[i]
        BY <1>6, <1>7, <1>8, <1>11
  <2> QED BY <1>7, <1>11, <2>1, SameSeq
<1> QED BY <1>2, <1>4, <1>9, <1>10, <1>12

\* What a grant's file is, among them all.
LEMMA TheGrant ==
    ASSUME NEW all, OncePerPerson(all), NEW d \in Nat, d + 1 \in 1..Len(all), all[d + 1].is = "grant"
    PROVE  \A p : \A i \in ForWhom(all, p) : (i = d + 1) <=> (p = all[d + 1].who)
<1> SUFFICES ASSUME NEW p, NEW i \in ForWhom(all, p) PROVE (i = d + 1) <=> (p = all[d + 1].who)
    OBVIOUS
<1>1. i \in 1..Len(all) /\ all[i].is = "grant" /\ all[i].who = p
      BY DEF ForWhom
<1> QED BY <1>1 DEF OncePerPerson

\* Opening the next file.
LEMMA OpenSoFar ==
    ASSUME NEW j, NEW d \in Nat, Clean(j.before), WritingOK(j, closes, grants, minted),
           OncePerPerson(j.all), d + 1 \in 1..Len(j.all), NEW f, f = j.all[d + 1], f \in FilesFor(j.close),
           f.is = "record" => d = 0, f.is = "list" => d + 1 = Len(j.all),
           f.is = "grant" => j.n = Len(j.before.grants[f.who]) + 1,
           \A i \in 1..Len(j.all) : j.all[i].is = "record" => i = 1,
           GrantsSoFar(j, d, "open", grants), RecordSoFar(j, d, "open", closes, minted),
           Opened(j.close, f, j.n), minted' = minted
    PROVE  GrantsSoFar(j, d, "fill", grants') /\ RecordSoFar(j, d, "fill", closes', minted')
<1>1. PICK all, b : all = j.all /\ b = j.before
      OBVIOUS
<1>2. \A p \in People :
         /\ ForWhom(all, p) = {} => grants[p] = b.grants[p]
         /\ \A i \in ForWhom(all, p) : grants[p] = IF i <= d THEN Append(b.grants[p], all[i].grant) ELSE b.grants[p]
      BY <1>1 DEF GrantsSoFar
<1>3. CASE f.is = "grant"
  <2>1. /\ f.who \in People /\ grants'[f.who] = With(grants[f.who], j.n, Torn)
        /\ \A p \in People \ {f.who} : grants'[p] = grants[p]
        /\ closes' = closes
        BY <1>3 DEF Opened
  <2>2. \A p : \A i \in ForWhom(all, p) : (i = d + 1) <=> (p = f.who)
        BY <1>1, <1>3, TheGrant
  <2>3. d + 1 \in ForWhom(all, f.who)
        BY <1>1, <1>3 DEF ForWhom
  <2>4. grants[f.who] = b.grants[f.who]
    <3>1. ~ (d + 1 <= d)
          OBVIOUS
    <3> QED BY <1>2, <2>1, <2>3, <3>1
  <2>5. grants'[f.who] = Append(b.grants[f.who], Torn)
    <3>1. PICK s : s = b.grants[f.who]
          OBVIOUS
    <3>2. s \in Seq(Grant) /\ f.grant \in Grant
          BY <1>1, <1>3, <2>1, <3>1, FileFacts DEF Clean
    <3>3. With(s, Len(s) + 1, Torn) = Append(s, Torn)
          BY <3>2, FileAfter
    <3> QED BY <1>1, <1>3, <2>1, <2>4, <3>1, <3>3
  <2>6. ASSUME NEW p \in People, NEW i \in ForWhom(all, p)
        PROVE  grants'[p] = IF i <= d THEN Append(b.grants[p], all[i].grant)
                            ELSE IF i = d + 1 THEN Append(b.grants[p], Torn) ELSE b.grants[p]
    <3>1. (i = d + 1) <=> (p = f.who)
          BY <2>2
    <3>2. CASE p = f.who
      <4>1. i = d + 1
            BY <3>1, <3>2
      <4>2. ~ (i <= d)
            BY <4>1
      <4>3. grants'[p] = Append(b.grants[p], Torn)
            BY <2>5, <3>2
      <4> QED BY <4>1, <4>2, <4>3
    <3>3. CASE p # f.who
      <4>1. i # d + 1
            BY <3>1, <3>3
      <4>2. grants'[p] = grants[p]
            BY <2>1, <3>3
      <4>3. grants[p] = IF i <= d THEN Append(b.grants[p], all[i].grant) ELSE b.grants[p]
            BY <1>2
      <4> QED BY <4>1, <4>2, <4>3
    <3> QED BY <3>2, <3>3
  <2>7. ASSUME NEW p \in People, ForWhom(all, p) = {}
        PROVE  grants'[p] = b.grants[p]
        BY <1>2, <2>1, <2>3, <2>7
  <2>8. GrantsSoFar(j, d, "fill", grants')
        BY <1>1, <2>6, <2>7 DEF GrantsSoFar
  <2>9. RecordSoFar(j, d, "fill", closes', minted')
    <3>1. d = 0 => all[1].is # "record"
          BY <1>1, <1>3
    <3> QED BY <1>1, <2>1, <3>1 DEF RecordSoFar
  <2> QED BY <2>8, <2>9
<1>4. CASE f.is # "grant"
  <2>1. grants' = grants
        BY <1>4 DEF Opened
  <2>2. \A p : \A i \in ForWhom(all, p) : i # d + 1
        BY <1>1, <1>4 DEF ForWhom
  <2>3. GrantsSoFar(j, d, "fill", grants')
        BY <1>1, <1>2, <2>1, <2>2 DEF GrantsSoFar
  <2>4. CASE f.is = "record"
    <3>1. closes' = With(closes, j.close, Torn) /\ d = 0 /\ j.all[1].is = "record"
          BY <2>4 DEF Opened
    <3>2. closes = j.before.closes /\ minted = j.before.minted
          BY <3>1 DEF RecordSoFar
    <3> QED BY <2>3, <3>1, <3>2 DEF RecordSoFar
  <2>5. CASE f.is # "record"
    <3>1. closes' = closes
          BY <1>4, <2>5 DEF Opened
    <3>2. d = 0 => j.all[1].is # "record"
          BY <2>5
    <3> QED BY <2>3, <3>1, <3>2 DEF RecordSoFar
  <2> QED BY <2>4, <2>5
<1> QED BY <1>3, <1>4

\* The command goes on: a file is opened.
LEMMA OpenOne ==
    ASSUME TypesInv, OneInv, Orderly, NEW t \in Terminals, Open(t)
    PROVE  \E k : t = 1 /\ Moves(t, k) /\ OneGoes(command[t], k)
<1>1. PICK j, f : j = command[t] /\ f = File(t)
      OBVIOUS
<1>2. PICK k : /\ j.at = "open" /\ Moves(t, k) /\ SameCommand(j, k) /\ k.at = "fill"
               /\ k.todo = j.todo /\ k.n = j.n
               /\ Opened(j.close, f, j.n) /\ UNCHANGED <<budget, minted>>
      BY <1>1, OpenMoves
<1>3. /\ t = 1 /\ j # Idle /\ InWriting(j) /\ WritingOK(j, closes, grants, minted) /\ f = Head(j.todo)
      /\ Clean(j.before) /\ Room(j.before, j, budget) /\ Carrying(j, closes, grants, minted) /\ budget \in BudgetSet
      BY <1>1, <1>2, OneWrites
<1>4. PICK d \in Nat : /\ d = Len(j.all) - Len(j.todo) /\ d + 1 \in 1..Len(j.all) /\ Head(j.todo) = j.all[d + 1]
                      /\ Head(j.todo) \in FilesFor(j.close)
                      /\ \A i \in 1..Len(j.all) : /\ j.all[i].is = "record" => i = 1
                                                  /\ j.all[i].is = "list" => i = Len(j.all)
      BY <1>3, GotTo
<1>5. f = j.all[d + 1] /\ f \in FilesFor(j.close)
      BY <1>3, <1>4
<1>6. /\ OncePerPerson(j.all) /\ Lasting(j.all) /\ Made(j.do, j.before, Outcome(j))
      /\ GrantsSoFar(j, d, "open", grants) /\ RecordSoFar(j, d, "open", closes, minted)
      /\ f.is = "grant" => j.n = Len(j.before.grants[f.who]) + 1
      BY <1>2, <1>3, <1>4 DEF Carrying
<1>7. (f.is = "record" => d = 0) /\ (f.is = "list" => d + 1 = Len(j.all))
  <2>1. PICK i \in 1..Len(j.all) : i = d + 1
        BY <1>4
  <2>2. f = j.all[i]
        BY <1>5, <2>1
  <2>3. (f.is = "record" => i = 1) /\ (f.is = "list" => i = Len(j.all))
        BY <1>4, <2>2
  <2> QED BY <2>1, <2>3
<1>8. GrantsSoFar(j, d, "fill", grants') /\ RecordSoFar(j, d, "fill", closes', minted')
      BY <1>2, <1>3, <1>4, <1>5, <1>6, <1>7, OpenSoFar
<1>9. /\ Outcome(k) = Outcome(j) /\ k.all = j.all /\ k.before = j.before /\ k.do = j.do
      /\ GrantsSoFar(k, d, "fill", grants') /\ RecordSoFar(k, d, "fill", closes', minted')
      BY <1>2, <1>8, SameOutcome
<1>10. Len(k.all) - Len(k.todo) = d
      BY <1>2, <1>4, <1>9
<1>11. Head(k.todo) = f /\ k.n = j.n
      BY <1>2, <1>3
<1>12. Carrying(k, closes', grants', minted')
      BY <1>2, <1>6, <1>9, <1>10, <1>11 DEF Carrying
<1>13. InWriting(k)
      BY <1>2 DEF InWriting
<1>14. OneGoes(j, k)
      BY <1>2, <1>3, <1>12, <1>13, OneWritesOn
<1> QED BY <1>1, <1>2, <1>3, <1>14

\* The record is written.
LEMMA FillRecordSoFar ==
    ASSUME NEW j, j.all[1].is = "record", MapsOK, MapsOK', NEW f, f = j.all[1],
           GrantsSoFar(j, 0, "fill", grants), RecordSoFar(j, 0, "fill", closes, minted),
           FilledRecord(j, f), \A i \in 1..Len(j.all) : j.all[i].is = "record" => i = 1
    PROVE  GrantsSoFar(j, 1, "prepare", grants') /\ RecordSoFar(j, 1, "prepare", closes', minted')
<1>1. PICK b, c, all : b = j.before /\ c = j.close /\ all = j.all
      OBVIOUS
<1>2. closes = With(b.closes, c, Torn) /\ minted = b.minted /\ closes[c] = Torn
      BY <1>1 DEF RecordSoFar, With
<1>3. PICK roots : roots = IF j.do = "protect" THEN <<f.root>> ELSE Append(minted[c], f.root)
      OBVIOUS
<1>4. /\ DOMAIN closes' = DOMAIN closes /\ closes'[c] = f.rec
      /\ \A y \in DOMAIN closes \ {c} : closes'[y] = closes[y]
      /\ DOMAIN minted' = DOMAIN minted \cup {c}
      /\ minted'[c] = roots
      /\ \A y \in DOMAIN minted \ {c} : minted'[y] = minted[y]
      /\ grants' = grants
      BY <1>1, <1>2, <1>3 DEF FilledRecord
<1>5. closes' = With(b.closes, c, f.rec)
  <2>1. closes' = [y \in DOMAIN closes' |-> closes'[y]]
        BY DEF MapsOK
  <2>2. DOMAIN closes = DOMAIN b.closes \cup {c} /\ \A y \in DOMAIN b.closes \ {c} : closes[y] = b.closes[y]
        BY <1>2 DEF With
  <2>3. \A y \in DOMAIN b.closes \cup {c} : closes'[y] = IF y = c THEN f.rec ELSE b.closes[y]
        BY <1>4, <2>2
  <2>4. PICK cs : cs = closes'
        OBVIOUS
  <2>5. cs = [y \in DOMAIN b.closes \cup {c} |-> cs[y]]
        BY <1>4, <2>1, <2>2, <2>4
  <2>6. \A y \in DOMAIN b.closes \cup {c} : cs[y] = IF y = c THEN f.rec ELSE b.closes[y]
        BY <2>3, <2>4
  <2>7. cs = [y \in DOMAIN b.closes \cup {c} |-> IF y = c THEN f.rec ELSE b.closes[y]]
        BY <2>5, <2>6
  <2> QED BY <2>4, <2>7 DEF With
<1>6. minted' = With(b.minted, c, roots)
  <2>1. minted' = [y \in DOMAIN minted' |-> minted'[y]]
        BY DEF MapsOK
  <2>3. \A y \in DOMAIN b.minted \cup {c} : minted'[y] = IF y = c THEN roots ELSE b.minted[y]
        BY <1>2, <1>4
  <2>4. PICK ms : ms = minted'
        OBVIOUS
  <2>5. ms = [y \in DOMAIN b.minted \cup {c} |-> ms[y]]
        BY <1>2, <1>4, <2>1, <2>4
  <2>6. \A y \in DOMAIN b.minted \cup {c} : ms[y] = IF y = c THEN roots ELSE b.minted[y]
        BY <2>3, <2>4
  <2>7. ms = [y \in DOMAIN b.minted \cup {c} |-> IF y = c THEN roots ELSE b.minted[y]]
        BY <2>5, <2>6
  <2> QED BY <2>4, <2>7 DEF With
<1>7. closes' = OutcomeCloses(j)
      BY <1>1, <1>5 DEF OutcomeCloses
<1>8. minted' = OutcomeMinted(j)
      BY <1>1, <1>2, <1>3, <1>6 DEF OutcomeMinted
<1>9. RecordSoFar(j, 1, "prepare", closes', minted')
      BY <1>7, <1>8 DEF RecordSoFar
<1>10. GrantsSoFar(j, 1, "prepare", grants')
  <2>1. \A p : \A i \in ForWhom(all, p) : i \in Nat /\ i >= 1 /\ i # 1
    <3> SUFFICES ASSUME NEW p, NEW i \in ForWhom(all, p) PROVE i \in Nat /\ i >= 1 /\ i # 1
        OBVIOUS
    <3>1. i \in 1..Len(all) /\ all[i].is = "grant"
          BY DEF ForWhom
    <3>2. i # 1
          BY <1>1, <3>1
    <3> QED BY <3>1, <3>2
  <2>2. \A p \in People :
           /\ ForWhom(all, p) = {} => grants[p] = b.grants[p]
           /\ \A i \in ForWhom(all, p) :
                 grants[p] = IF i <= 0 THEN Append(b.grants[p], all[i].grant)
                             ELSE IF i = 1 THEN Append(b.grants[p], Torn) ELSE b.grants[p]
        BY <1>1 DEF GrantsSoFar
  <2>3. \A p \in People : \A i \in ForWhom(all, p) : grants[p] = b.grants[p] /\ ~ (i <= 1)
        BY <2>1, <2>2
  <2>4. \A p \in People :
           /\ ForWhom(all, p) = {} => grants'[p] = b.grants[p]
           /\ \A i \in ForWhom(all, p) : grants'[p] = b.grants[p] /\ ~ (i <= 1)
        BY <1>4, <2>2, <2>3
  <2> QED BY <1>1, <2>4 DEF GrantsSoFar
<1> QED BY <1>9, <1>10

\* A grant is written.
LEMMA FillGrantSoFar ==
    ASSUME NEW j, NEW d \in Nat, Clean(j.before), OncePerPerson(j.all), d + 1 \in 1..Len(j.all), NEW f, f = j.all[d + 1],
           f \in FilesFor(j.close), f.is = "grant", j.n = Len(j.before.grants[f.who]) + 1,
           GrantsSoFar(j, d, "fill", grants), RecordSoFar(j, d, "fill", closes, minted),
           FilledGrant(j, f), \A i \in 1..Len(j.all) : j.all[i].is = "record" => i = 1
    PROVE  GrantsSoFar(j, d + 1, "prepare", grants') /\ RecordSoFar(j, d + 1, "prepare", closes', minted')
<1>1. PICK b, all : b = j.before /\ all = j.all
      OBVIOUS
<1>2. \A p \in People :
         /\ ForWhom(all, p) = {} => grants[p] = b.grants[p]
         /\ \A i \in ForWhom(all, p) :
               grants[p] = IF i <= d THEN Append(b.grants[p], all[i].grant)
                           ELSE IF i = d + 1 THEN Append(b.grants[p], Torn) ELSE b.grants[p]
      BY <1>1 DEF GrantsSoFar
<1>3. /\ f.who \in People /\ grants'[f.who] = [grants[f.who] EXCEPT ![j.n] = f.grant]
      /\ \A p \in People \ {f.who} : grants'[p] = grants[p]
      /\ closes' = closes /\ minted' = minted
      BY DEF FilledGrant
<1>4. \A p : \A i \in ForWhom(all, p) : (i = d + 1) <=> (p = f.who)
      BY <1>1, TheGrant
<1>5. d + 1 \in ForWhom(all, f.who)
      BY <1>1 DEF ForWhom
<1>6. grants'[f.who] = Append(b.grants[f.who], f.grant)
  <2>1. PICK s, g, n : s = b.grants[f.who] /\ g = f.grant /\ n = Len(s) + 1
        OBVIOUS
  <2>2. s \in Seq(Grant) /\ g \in Grant
    <3>1. s \in Seq(Grant)
          BY <1>1, <1>3, <2>1 DEF Clean
    <3>2. f.grant \in Grant
          BY FileFacts
    <3> QED BY <2>1, <3>1, <3>2
  <2>3. [Append(s, Torn) EXCEPT ![Len(s) + 1] = g] = Append(s, g)
        BY <2>2, FileAfter
  <2>4. ~ (d + 1 <= d)
        OBVIOUS
  <2>5. PICK i : i = d + 1
        OBVIOUS
  <2>6. i \in ForWhom(all, f.who) /\ ~ (i <= d)
        BY <1>5, <2>4, <2>5
  <2>7. grants[f.who] = Append(s, Torn)
        BY <1>2, <1>3, <2>1, <2>5, <2>6
  <2>8. j.n = n
        BY <1>1, <2>1
  <2>9. PICK torn, more : torn = Append(s, Torn) /\ more = Append(s, g)
        OBVIOUS
  <2>10. [torn EXCEPT ![n] = g] = more
        BY <2>1, <2>3, <2>9
  <2>11. grants'[f.who] = [torn EXCEPT ![n] = g]
        BY <1>3, <2>1, <2>7, <2>8, <2>9
  <2>12. grants'[f.who] = more
        BY <2>10, <2>11
  <2> QED BY <2>1, <2>9, <2>12
<1>7. ASSUME NEW p \in People, NEW i \in ForWhom(all, p)
      PROVE  grants'[p] = IF i <= d + 1 THEN Append(b.grants[p], all[i].grant) ELSE b.grants[p]
  <2>1. (i = d + 1) <=> (p = f.who)
        BY <1>4
  <2>2. i \in Nat
        BY DEF ForWhom
  <2>3. CASE p = f.who
    <3>1. i = d + 1
          BY <2>1, <2>3
    <3>2. i <= d + 1 /\ all[i] = f
          BY <1>1, <3>1
    <3> QED BY <1>6, <2>3, <3>2
  <2>4. CASE p # f.who
    <3>1. i # d + 1
          BY <2>1, <2>4
    <3>2. grants'[p] = grants[p]
          BY <1>3, <2>4
    <3>3. (i <= d) <=> (i <= d + 1)
          BY <2>2, <3>1
    <3>4. grants[p] = IF i <= d THEN Append(b.grants[p], all[i].grant) ELSE b.grants[p]
          BY <1>2, <3>1
    <3> QED BY <3>2, <3>3, <3>4
  <2> QED BY <2>3, <2>4
<1>8. ASSUME NEW p \in People, ForWhom(all, p) = {}
      PROVE  grants'[p] = b.grants[p]
      BY <1>2, <1>3, <1>5, <1>8
<1>9. GrantsSoFar(j, d + 1, "prepare", grants')
      BY <1>1, <1>7, <1>8 DEF GrantsSoFar
<1>10. RecordSoFar(j, d + 1, "prepare", closes', minted')
  <2>1. d + 1 # 0
        OBVIOUS
  <2>2. CASE all[1].is = "record"
    <3>1. d # 0
          BY <1>1, <2>2
    <3> QED BY <1>1, <1>3, <2>1, <2>2, <3>1 DEF RecordSoFar
  <2>3. CASE all[1].is # "record"
        BY <1>1, <1>3, <2>3 DEF RecordSoFar
  <2> QED BY <2>2, <2>3
<1> QED BY <1>9, <1>10

\* A file is written.
LEMMA FillSoFar ==
    ASSUME NEW j, NEW d \in Nat, Clean(j.before), OncePerPerson(j.all), d + 1 \in 1..Len(j.all), MapsOK, MapsOK',
           NEW f, f = j.all[d + 1], f \in FilesFor(j.close), f.is = "record" => d = 0,
           f.is = "grant" => j.n = Len(j.before.grants[f.who]) + 1,
           GrantsSoFar(j, d, "fill", grants), RecordSoFar(j, d, "fill", closes, minted),
           Filled(j, f), \A i \in 1..Len(j.all) : j.all[i].is = "record" => i = 1,
           f.is = "list" => d + 1 = Len(j.all)
    PROVE  \/ GrantsSoFar(j, d + 1, "prepare", grants') /\ RecordSoFar(j, d + 1, "prepare", closes', minted')
           \/ /\ f.is = "list" /\ closes' = closes /\ grants' = grants /\ minted' = minted
<1>1. CASE f.is = "record"
  <2>1. FilledRecord(j, f)
        BY <1>1 DEF Filled
  <2>2. d = 0 /\ f = j.all[1] /\ j.all[1].is = "record"
    <3>1. d = 0
          BY <1>1
    <3>2. d + 1 = 1
          BY <3>1
    <3>3. f = j.all[1]
          BY <3>2
    <3> QED BY <1>1, <3>1, <3>3
  <2>3. GrantsSoFar(j, 0, "fill", grants) /\ RecordSoFar(j, 0, "fill", closes, minted)
        BY <2>2
  <2>4. GrantsSoFar(j, 1, "prepare", grants') /\ RecordSoFar(j, 1, "prepare", closes', minted')
        BY <2>1, <2>2, <2>3, FillRecordSoFar
  <2>5. d + 1 = 1
        BY <2>2
  <2> QED BY <2>4, <2>5
<1>2. CASE f.is = "grant"
  <2>1. FilledGrant(j, f) /\ j.n = Len(j.before.grants[f.who]) + 1
        BY <1>2 DEF Filled
  <2>2. GrantsSoFar(j, d + 1, "prepare", grants') /\ RecordSoFar(j, d + 1, "prepare", closes', minted')
        BY <1>2, <2>1, FillGrantSoFar
  <2> QED BY <2>2
<1>3. CASE f.is = "list"
  <2>1. FilledList(j, f)
        BY <1>3 DEF Filled
  <2> QED BY <1>3, <2>1 DEF FilledList
<1> QED BY <1>1, <1>2, <1>3 DEF Filled

\* A list is written after everything else.
LEMMA ListLast ==
    ASSUME NEW j, NEW d \in Nat, d + 1 = Len(j.all), GrantsSoFar(j, d, "fill", grants),
           RecordSoFar(j, d, "fill", closes, minted), NEW f, f = j.all[d + 1], f.is = "list"
    PROVE  GrantsSoFar(j, d, "prepare", grants) /\ RecordSoFar(j, d, "prepare", closes, minted)
<1>1. PICK all, b : all = j.all /\ b = j.before
      OBVIOUS
<1>2. \A p : \A i \in ForWhom(all, p) : i # d + 1
      BY <1>1 DEF ForWhom
<1>3. \A p \in People :
         /\ ForWhom(all, p) = {} => grants[p] = b.grants[p]
         /\ \A i \in ForWhom(all, p) :
               grants[p] = IF i <= d THEN Append(b.grants[p], all[i].grant)
                           ELSE IF i = d + 1 THEN Append(b.grants[p], Torn) ELSE b.grants[p]
      BY <1>1 DEF GrantsSoFar
<1>4. \A p \in People :
         /\ ForWhom(all, p) = {} => grants[p] = b.grants[p]
         /\ \A i \in ForWhom(all, p) :
               grants[p] = IF i <= d THEN Append(b.grants[p], all[i].grant) ELSE b.grants[p]
      BY <1>2, <1>3
<1>5. GrantsSoFar(j, d, "prepare", grants)
      BY <1>1, <1>4 DEF GrantsSoFar
<1>6. RecordSoFar(j, d, "prepare", closes, minted)
  <2>1. d = 0 => all[1].is # "record"
        BY <1>1
  <2> QED BY <1>1, <2>1 DEF RecordSoFar
<1> QED BY <1>5, <1>6

\* The command goes on, or is done: a file is written.
LEMMA FillOne ==
    ASSUME TypesInv, TypesInv', MapsOK, MapsOK', OneInv, Orderly, NEW t \in Terminals, Fill(t)
    PROVE  \E k : t = 1 /\ Moves(t, k) /\ OneGoes(command[t], k)
<1>1. PICK j, f : j = command[t] /\ f = File(t)
      OBVIOUS
<1>2. PICK k : /\ j.at = "fill" /\ Moves(t, k) /\ GoesOn(j, k) /\ Filled(j, f) /\ budget' = budget
      BY <1>1, FillMoves
<1>3. /\ t = 1 /\ j # Idle /\ InWriting(j) /\ WritingOK(j, closes, grants, minted) /\ f = Head(j.todo)
      /\ Clean(j.before) /\ Room(j.before, j, budget) /\ Carrying(j, closes, grants, minted) /\ budget \in BudgetSet
      BY <1>1, <1>2, OneWrites
<1>4. PICK d \in Nat : /\ d = Len(j.all) - Len(j.todo) /\ d + 1 \in 1..Len(j.all) /\ Head(j.todo) = j.all[d + 1]
                      /\ Len(j.all) \in Nat /\ Len(j.all) >= 1 /\ Len(j.todo) \in Nat
                      /\ Head(j.todo) \in FilesFor(j.close)
                      /\ \A i \in 1..Len(j.all) : /\ j.all[i].is = "record" => i = 1
                                                  /\ j.all[i].is = "list" => i = Len(j.all)
      BY <1>3, GotTo
<1>5. f = j.all[d + 1] /\ f \in FilesFor(j.close)
      BY <1>3, <1>4
<1>6. /\ OncePerPerson(j.all) /\ Lasting(j.all) /\ Made(j.do, j.before, Outcome(j))
      /\ GrantsSoFar(j, d, "fill", grants) /\ RecordSoFar(j, d, "fill", closes, minted)
      /\ f.is = "grant" => j.n = Len(j.before.grants[f.who]) + 1
      BY <1>2, <1>3, <1>4 DEF Carrying
<1>7. (f.is = "record" => d = 0) /\ (f.is = "list" => d + 1 = Len(j.all))
  <2>1. PICK i \in 1..Len(j.all) : i = d + 1
        BY <1>4
  <2>2. f = j.all[i]
        BY <1>5, <2>1
  <2>3. (f.is = "record" => i = 1) /\ (f.is = "list" => i = Len(j.all))
        BY <1>4, <2>2
  <2> QED BY <2>1, <2>3
<1>8. \/ GrantsSoFar(j, d + 1, "prepare", grants') /\ RecordSoFar(j, d + 1, "prepare", closes', minted')
      \/ f.is = "list" /\ closes' = closes /\ grants' = grants /\ minted' = minted
      BY <1>2, <1>3, <1>4, <1>5, <1>6, <1>7, FillSoFar
<1>9. TodoOK(j.todo, j.all, j.close)
      BY <1>3 DEF WritingOK
<1>10. CASE Tail(j.todo) = <<>>
  <2>1. k = Idle
        BY <1>2, <1>10 DEF GoesOn
  <2>2. Len(j.todo) = 1
    <3>1. PICK F : F = FilesFor(j.close)
          OBVIOUS
    <3>2. j.todo \in Seq(F) /\ j.todo # <<>>
          BY <1>9, <3>1 DEF TodoOK
    <3>3. Len(Tail(j.todo)) = Len(j.todo) - 1
          BY <3>2, TailIs
    <3>4. Len(<<>>) = 0
          OBVIOUS
    <3>5. PICK n \in Nat : n = Len(j.todo)
          BY <1>4
    <3>6. n - 1 = 0
          BY <1>10, <3>3, <3>4, <3>5
    <3>7. n = 1
          BY <3>6
    <3> QED BY <3>5, <3>7
  <2>3. d + 1 = Len(j.all)
        BY <1>4, <2>2
  <2>4. PICK cs, gs, ms : cs = closes' /\ gs = grants' /\ ms = minted'
        OBVIOUS
  <2>5. gs = [p \in People |-> gs[p]]
        BY <2>4 DEF MapsOK, TypesInv, GrantsOK
  <2>6. Len(j.all) \in Nat /\ Len(j.all) >= 1 /\ OncePerPerson(j.all)
        BY <1>4, <1>6
  <2>7. Files(cs, gs, ms) = Outcome(j)
    <3>1. CASE GrantsSoFar(j, d + 1, "prepare", grants') /\ RecordSoFar(j, d + 1, "prepare", closes', minted')
      <4>1. PICK e : e = d + 1
            OBVIOUS
      <4>2. GrantsSoFar(j, e, "prepare", gs) /\ RecordSoFar(j, e, "prepare", cs, ms) /\ e = Len(j.all)
            BY <2>3, <2>4, <3>1, <4>1
      <4> QED BY <2>5, <2>6, <4>2, Reached
    <3>2. CASE f.is = "list" /\ closes' = closes /\ grants' = grants /\ minted' = minted
      <4>1. GrantsSoFar(j, d, "prepare", grants) /\ RecordSoFar(j, d, "prepare", closes, minted)
            BY <1>5, <1>6, <2>3, <3>2, ListLast
      <4>2. GrantsSoFar(j, d, "prepare", gs) /\ RecordSoFar(j, d, "prepare", cs, ms)
            BY <2>4, <3>2, <4>1
      <4>3. d = Len(j.all) - 1 /\ j.all[Len(j.all)].is = "list"
        <5>1. PICK m \in Nat : m = Len(j.all)
              BY <1>4
        <5>2. d = m - 1
              BY <2>3, <5>1
        <5> QED BY <1>5, <2>3, <3>2, <5>1, <5>2
      <4> QED BY <2>5, <2>6, <4>2, <4>3, Reached
    <3> QED BY <1>8, <3>1, <3>2
  <2>8. Files(closes', grants', minted') = Outcome(j)
        BY <2>4, <2>7
  <2>9. OneGoes(j, Idle)
        BY <1>2, <1>3, <1>6, <1>9, <2>8, OneEnds
  <2> QED BY <1>1, <1>2, <1>3, <2>1, <2>9
<1>11. CASE Tail(j.todo) # <<>>
  <2>1. SameCommand(j, k) /\ k.at = "prepare" /\ k.todo = Tail(j.todo)
        BY <1>2, <1>11 DEF GoesOn
  <2>2. /\ Len(k.todo) = Len(j.todo) - 1
        /\ TodoOK(Tail(j.todo), j.all, j.close)
        BY <1>9, <1>11, <2>1, TailTodo
  <2>3. Len(k.todo) \in Nat /\ Len(k.todo) >= 1
    <3>2. PICK rest, all, c : rest = Tail(j.todo) /\ all = j.all /\ c = j.close
          OBVIOUS
    <3>3. TodoOK(rest, all, c)
          BY <2>2, <3>2
    <3>4. Len(all) \in Nat /\ Len(rest) \in 1..Len(all)
          BY <3>3, NextFile
    <3>5. Len(rest) \in Nat /\ Len(rest) >= 1
          BY <3>4
    <3> QED BY <2>1, <3>2, <3>5
  <2>4. f.is # "list"
    <3>1. d + 1 # Len(j.all)
      <4>1. PICK m, n, l \in Nat : m = Len(j.all) /\ n = Len(j.todo) /\ l = Len(k.todo)
            BY <1>4, <2>3
      <4>2. d = m - n /\ l = n - 1 /\ l >= 1
            BY <1>4, <2>2, <2>3, <4>1
      <4>3. d + 1 # m
            BY <4>2
      <4> QED BY <4>1, <4>3
    <3> QED BY <1>7, <3>1
  <2>5. GrantsSoFar(j, d + 1, "prepare", grants') /\ RecordSoFar(j, d + 1, "prepare", closes', minted')
        BY <1>8, <2>4
  <2>6. PICK e \in Nat : e = d + 1
        OBVIOUS
  <2>7. /\ Outcome(k) = Outcome(j) /\ k.all = j.all /\ k.before = j.before /\ k.do = j.do
        /\ GrantsSoFar(k, e, "prepare", grants') /\ RecordSoFar(k, e, "prepare", closes', minted')
        BY <2>1, <2>5, <2>6, SameOutcome
  <2>8. Len(k.all) - Len(k.todo) = e
    <3>1. PICK m, n, l \in Nat : m = Len(j.all) /\ n = Len(j.todo) /\ l = Len(k.todo)
          BY <1>4, <2>3
    <3>2. Len(k.all) = m
          BY <2>7, <3>1
    <3> QED BY <1>4, <2>2, <2>6, <3>1, <3>2
  <2>9. Carrying(k, closes', grants', minted')
        BY <1>6, <2>1, <2>7, <2>8 DEF Carrying
  <2>10. InWriting(k)
        BY <2>1 DEF InWriting
  <2>11. OneGoes(j, k)
        BY <1>2, <1>3, <2>1, <2>9, <2>10, OneWritesOn
  <2> QED BY <1>1, <1>2, <1>3, <2>11
<1> QED BY <1>10, <1>11

-----------------------------------------------------------------------------
\* What is there in the beginning: one grant, and room for the rest.
LEMMA InitOne == Init => OneInv /\ MapsOK
<1> SUFFICES ASSUME Init PROVE OneInv /\ MapsOK
    OBVIOUS
<1>1. PICK root \in ContentKeys :
        /\ closes = [c \in {Commons} |-> FoundRecord(c, Founder)]
        /\ grants = [p \in People |-> IF p = Founder THEN <<FoundingGrant(p, Commons, root)>> ELSE <<>>]
        /\ command = [t \in Terminals |-> Idle]
        /\ minted = [c \in {Commons} |-> <<root>>]
        /\ budget \in Budgets
      BY DEF Init
<1>2. Founder \in People /\ Commons \in Closes /\ budget \in BudgetSet
      BY <1>1, FolderAssumption DEF BudgetSet
<1>3. PICK g : g = FoundingGrant(Founder, Commons, root)
      OBVIOUS
<1>4. g \in Grant
      BY <1>1, <1>2, <1>3, FoundingFiles
<1>5. Leaf(g).expires = Never
      BY <1>3, IssuedLasts DEF FoundingGrant
<1>6. DOMAIN grants = People /\ grants[Founder] = <<g>> /\ \A p \in People \ {Founder} : grants[p] = <<>>
      BY <1>1, <1>2, <1>3
<1>7. PICK b : b = Files(closes, grants, minted)
      OBVIOUS
<1>8. b.closes = closes /\ b.grants = grants /\ b.minted = minted
      BY <1>7 DEF Files
<1>9. ASSUME NEW p \in People
      PROVE  /\ grants[p] \in Seq(Grant) /\ Len(grants[p]) \in Nat /\ Len(grants[p]) <= 1
             /\ \A i \in 1..Len(grants[p]) : Leaf(grants[p][i]).expires = Never
  <2>1. CASE p = Founder
    <3>1. <<g>> \in Seq(Grant) /\ Len(<<g>>) = 1 /\ <<g>>[1] = g
          BY <1>4
    <3>2. grants[p] = <<g>>
          BY <1>6, <2>1
    <3>3. PICK s : s = grants[p]
          OBVIOUS
    <3>4. s \in Seq(Grant) /\ Len(s) = 1 /\ s[1] = g
          BY <3>1, <3>2, <3>3
    <3>5. \A i \in 1..Len(s) : i = 1
          BY <3>4
    <3> QED BY <1>5, <3>3, <3>4, <3>5
  <2>2. CASE p # Founder
    <3>1. <<>> \in Seq(Grant) /\ Len(<<>>) = 0
          OBVIOUS
    <3>2. PICK s : s = grants[p]
          OBVIOUS
    <3>3. s \in Seq(Grant) /\ Len(s) = 0
          BY <1>6, <2>2, <3>1, <3>2
    <3>4. 1..Len(s) = {}
          BY <3>3
    <3> QED BY <3>2, <3>3, <3>4
  <2> QED BY <2>1, <2>2
<1>10. FoundRecord(Commons, Founder) \in Record(People) /\ FoundRecord(Commons, Founder).epoch = 0
      BY <1>2 DEF FoundRecord, Record
<1>11. \A c \in DOMAIN closes : closes[c] \in Record(People) /\ closes[c].epoch = 0
      BY <1>1, <1>10
<1>12. Clean(b)
      BY <1>6, <1>8, <1>9, <1>11 DEF Clean
<1>13. PICK mp, mh, mr, s, r, q \in Nat :
          /\ mp = Most("protect") /\ mh = Most("share") /\ mr = Most("rotate")
          /\ q = budget.protect /\ s = budget.share /\ r = budget.rotate
          /\ q <= mp /\ s <= mh /\ r <= mr
  <2>1. Most("protect") \in Nat /\ budget["protect"] <= Most("protect")
        BY <1>1, MostIs
  <2>2. Most("share") \in Nat /\ budget["share"] <= Most("share")
        BY <1>1, MostIs
  <2>3. Most("rotate") \in Nat /\ budget["rotate"] <= Most("rotate")
        BY <1>1, MostIs
  <2>4. budget.protect \in Nat /\ budget.share \in Nat /\ budget.rotate \in Nat
        BY <1>2 DEF BudgetSet
  <2> QED BY <2>1, <2>2, <2>3, <2>4
<1>14. MostGrants = 1 + mh + mr + mp
      BY <1>13 DEF MostGrants
<1>15. Room(b, Idle, budget)
  <2>1. \A kinds : Pending(Idle, kinds) = 0
        BY DEF Pending
  <2>2. MostGrants \in Nat /\ Most("rotate") \in Nat /\ budget.rotate <= Most("rotate")
        BY <1>13, <1>14
  <2>3. ASSUME NEW p \in People
        PROVE  Len(b.grants[p]) + Pending(Idle, {"protect", "share", "rotate"}) + budget.share + budget.rotate
                  + budget.protect <= MostGrants
    <3>1. PICK n \in Nat : n = Len(b.grants[p]) /\ n <= 1
          BY <1>8, <1>9
    <3>2. n + 0 + s + r + q <= 1 + mh + mr + mp
      <4>1. n <= 1 /\ q <= mp /\ s <= mh /\ r <= mr
            BY <1>13, <3>1
      <4> QED BY <4>1
    <3> QED BY <1>13, <1>14, <2>1, <3>1, <3>2
  <2>4. ASSUME NEW c \in DOMAIN b.closes
        PROVE  b.closes[c].epoch + Pending(Idle, {"rotate"}) + budget.rotate <= Most("rotate")
    <3>1. b.closes[c].epoch = 0
          BY <1>8, <1>11
    <3>2. 0 + 0 + r <= mr
          BY <1>13
    <3> QED BY <1>13, <2>1, <3>1, <3>2
  <2> QED BY <2>2, <2>3, <2>4 DEF Room
<1>16. OneOK(Idle, closes, grants, minted, budget)
  <2>1. ~ InWriting(Idle) /\ Idle.at \notin {"loaded", "gather"}
        BY DEF InWriting, Idle
  <2>2. Base(Idle, closes, grants, minted) = b
        BY <1>7, <2>1, BaseIs
  <2> QED BY <1>12, <1>15, <2>1, <2>2 DEF OneOK
<1>17. TheOne(command) = Idle /\ \A t \in Terminals : command[t] = Idle
      BY <1>1 DEF TheOne
<1>18. OneInv
      BY <1>2, <1>16, <1>17 DEF OneInv
<1>19. MapsOK
  <2>1. PICK cs, gs, ms : cs = closes /\ gs = grants /\ ms = minted
        OBVIOUS
  <2>2. cs = [c \in DOMAIN cs |-> cs[c]] /\ gs = [p \in DOMAIN gs |-> gs[p]] /\ ms = [c \in DOMAIN ms |-> ms[c]]
        BY <1>1, <2>1
  <2> QED BY <2>1, <2>2 DEF MapsOK
<1> QED BY <1>18, <1>19

\* Whatever it does next, the command goes on in order.
LEMMA OneMoves ==
    ASSUME TypesInv, TypesInv', MapsOK, MapsOK', OneInv, Orderly, ~ trouble'.killed, Next
    PROVE  1 \in Terminals /\ \E k : Moves(1, k) /\ OneGoes(command[1], k)
<1> DEFINE Goes(t) == \E k : t = 1 /\ Moves(t, k) /\ OneGoes(command[t], k)
<1>1. ASSUME NEW t \in Terminals, NEW me \in People, NEW c \in Closes, Protect(t, me, c) PROVE Goes(t)
      BY <1>1, ProtectOne
<1>2. ASSUME NEW t \in Terminals, NEW me \in People, NEW c \in Closes, NEW with \in Receivers,
             NEW facet \in ShareFacets, Share(t, me, c, with, facet)
      PROVE  Goes(t)
      BY <1>2, ShareOne
<1>3. ASSUME NEW t \in Terminals, NEW me \in People, NEW path \in Signposts, Raise(t, me, path) PROVE Goes(t)
      BY <1>3, RaiseOne
<1>4. ASSUME NEW t \in Terminals, NEW me \in People, NEW c \in Closes, NEW except \in SUBSET Excludable,
             Rotate(t, me, c, except)
      PROVE  Goes(t)
      BY <1>4, RotateOne
<1>5. ASSUME NEW t \in Terminals, Settle(t) PROVE Goes(t)
      BY <1>5, SettleOne
<1>6. ASSUME NEW t \in Terminals, FindKey(t) PROVE Goes(t)
      BY <1>6, FindKeyOne
<1>7. ASSUME NEW t \in Terminals, Refuse(t) PROVE Goes(t)
      BY <1>7, RefuseOne
<1>8. ASSUME NEW t \in Terminals, Gather(t) PROVE Goes(t)
      BY <1>8, GatherOne
<1>9. ASSUME NEW t \in Terminals, ChangeLock(t) PROVE Goes(t)
      BY <1>9, ChangeLockOne
<1>10. ASSUME NEW t \in Terminals, Count(t) PROVE Goes(t)
      BY <1>10, CountOne
<1>11. ASSUME NEW t \in Terminals, ReadList(t) PROVE Goes(t)
      BY <1>11, ReadListOne
<1>12. ASSUME NEW t \in Terminals, Open(t) PROVE Goes(t)
      BY <1>12, OpenOne
<1>13. ASSUME NEW t \in Terminals, Fill(t) PROVE Goes(t)
      BY <1>13, FillOne
<1>14. ASSUME NEW t \in Terminals, Kill(t) PROVE FALSE
  <2>1. trouble'.killed = TRUE
        BY <1>14 DEF Kill, TypesInv, HistoryOK
  <2> QED BY <2>1
<1> HIDE DEF Goes
<1>15. PICK t \in Terminals : Goes(t)
      BY <1>1, <1>2, <1>3, <1>4, <1>5, <1>6, <1>7, <1>8, <1>9, <1>10, <1>11, <1>12, <1>13, <1>14 DEF Next
<1>16. PICK k : t = 1 /\ Moves(t, k) /\ OneGoes(command[t], k)
      BY <1>15 DEF Goes
<1> QED BY <1>16

\* The command stays in order.
LEMMA NextOne ==
    ASSUME TypesInv, TypesInv', MapsOK, MapsOK', OneInv, [Next]_vars
    PROVE  OneInv'
<1>1. /\ budget \in BudgetSet /\ budget' \in BudgetSet /\ budget'.atOnce = budget.atOnce
      /\ ~ trouble'.killed => ~ trouble.killed
      BY BudgetStep DEF OneInv, TypesInv
<1>2. SUFFICES ASSUME Orderly'
               PROVE  /\ \A t \in Terminals : t # 1 => command'[t] = Idle
                      /\ OneOK(TheOne(command'), closes', grants', minted', budget')
      BY <1>1 DEF OneInv
<1>3. Orderly /\ ~ trouble'.killed
      BY <1>1, <1>2 DEF Orderly
<1>4. /\ \A t \in Terminals : t # 1 => command[t] = Idle
      /\ OneOK(TheOne(command), closes, grants, minted, budget)
      BY <1>3 DEF OneInv
<1>5. CASE UNCHANGED vars
  <2>1. closes' = closes /\ grants' = grants /\ minted' = minted /\ budget' = budget /\ command' = command
        BY <1>5 DEF vars, files
  <2> QED BY <1>4, <2>1
<1>6. CASE Next
  <2>1. PICK k : 1 \in Terminals /\ Moves(1, k) /\ OneGoes(command[1], k)
        BY <1>3, <1>6, OneMoves
  <2>2. OneOK(k, closes', grants', minted', budget')
        BY <2>1 DEF OneGoes
  <2>3. TheOne(command') = k /\ \A t \in Terminals : t # 1 => command'[t] = command[t]
        BY <2>1 DEF Moves, TheOne
  <2> QED BY <1>4, <2>2, <2>3
<1> QED BY <1>5, <1>6

-----------------------------------------------------------------------------
\* The files that are standing are those the one command shows.
LEMMA StandsAs ==
    ASSUME 1 \in Terminals, NEW cmd, NEW busy, busy = {t \in Terminals : cmd[t] # Idle},
           \A t \in Terminals : t # 1 => cmd[t] = Idle, NEW cs, NEW gs, NEW ms
    PROVE  (IF \E t \in busy : InWriting(cmd[t]) THEN cmd[CHOOSE t \in busy : InWriting(cmd[t])].before
            ELSE Files(cs, gs, ms)) = Base(cmd[1], cs, gs, ms)
<1>1. ~ InWriting(Idle)
      BY DEF InWriting, Idle
<1>2. \A t \in busy : t = 1
      OBVIOUS
<1>3. CASE InWriting(cmd[1])
  <2>1. 1 \in busy
        BY <1>1, <1>3
  <2>2. \E t \in busy : InWriting(cmd[t])
        BY <1>3, <2>1
  <2>3. (CHOOSE t \in busy : InWriting(cmd[t])) = 1
        BY <1>2, <2>2
  <2> QED BY <1>3, <2>2, <2>3 DEF Base
<1>4. CASE ~ InWriting(cmd[1])
      BY <1>2, <1>4 DEF Base
<1> QED BY <1>3, <1>4

\* The same of the files before a step.
LEMMA StandingIs ==
    ASSUME 1 \in Terminals, \A t \in Terminals : t # 1 => command[t] = Idle
    PROVE  Standing = Base(command[1], closes, grants, minted)
<1>1. \A t : Writing(t) <=> InWriting(command[t])
      BY DEF Writing, InWriting
<1>2. PICK cmd, cs, gs, ms : cmd = command /\ cs = closes /\ gs = grants /\ ms = minted
      OBVIOUS
<1>3. PICK busy : busy = {t \in Terminals : cmd[t] # Idle}
      OBVIOUS
<1>4. Busy = busy
      BY <1>2, <1>3 DEF Busy
<1>5. (IF \E t \in busy : InWriting(cmd[t]) THEN cmd[CHOOSE t \in busy : InWriting(cmd[t])].before
       ELSE Files(cs, gs, ms)) = Base(cmd[1], cs, gs, ms)
      BY <1>2, <1>3, StandsAs
<1>6. Standing = IF \E t \in busy : InWriting(cmd[t]) THEN cmd[CHOOSE t \in busy : InWriting(cmd[t])].before
                 ELSE Files(cs, gs, ms)
      BY <1>2, <1>4 DEF Standing, Writing, InWriting, Files
<1> QED BY <1>2, <1>5, <1>6

\* The same of the files after it.
LEMMA StandingNext ==
    ASSUME 1 \in Terminals, \A t \in Terminals : t # 1 => command'[t] = Idle
    PROVE  Standing' = Base(command'[1], closes', grants', minted')
<1>2. PICK cmd, cs, gs, ms : cmd = command' /\ cs = closes' /\ gs = grants' /\ ms = minted'
      OBVIOUS
<1>3. PICK busy : busy = {t \in Terminals : cmd[t] # Idle}
      OBVIOUS
<1>4. Busy' = busy
      BY <1>2, <1>3 DEF Busy
<1>5. (IF \E t \in busy : InWriting(cmd[t]) THEN cmd[CHOOSE t \in busy : InWriting(cmd[t])].before
       ELSE Files(cs, gs, ms)) = Base(cmd[1], cs, gs, ms)
      BY <1>2, <1>3, StandsAs
<1>6. Standing' = IF \E t \in busy : InWriting(cmd[t]) THEN cmd[CHOOSE t \in busy : InWriting(cmd[t])].before
                  ELSE Files(cs, gs, ms)
      BY <1>2, <1>4 DEF Standing, Writing, InWriting, Files
<1> QED BY <1>2, <1>5, <1>6

\* A step in order is a step of Drawer, or none.
LEMMA OneSteps ==
    ASSUME TypesInv, TypesInv', MapsOK, MapsOK', OneInv, [Next]_vars, budget.atOnce = 1, ~ trouble'.killed
    PROVE  Steps!Next \/ UNCHANGED Steps!vars
<1>1. ~ trouble.killed
      BY BudgetStep DEF OneInv, TypesInv
<1>2. Orderly
      BY <1>1 DEF Orderly
<1>3. /\ \A t \in Terminals : t # 1 => command[t] = Idle
      /\ OneOK(TheOne(command), closes, grants, minted, budget)
      BY <1>2 DEF OneInv
<1>4. CASE UNCHANGED vars
  <2>1. UNCHANGED <<closes, grants, minted, command>>
        BY <1>4 DEF vars, files
  <2>2. Standing' = Standing
        BY <2>1 DEF Standing, Busy, Writing
  <2> QED BY <2>2 DEF Steps!vars
<1>5. CASE Next
  <2>1. PICK k : 1 \in Terminals /\ Moves(1, k) /\ OneGoes(command[1], k)
        BY <1>2, <1>5, OneMoves
  <2>2. command'[1] = k /\ \A t \in Terminals : t # 1 => command'[t] = Idle
        BY <1>3, <2>1 DEF Moves
  <2>3. PICK b, a : b = Base(command[1], closes, grants, minted) /\ a = Base(k, closes', grants', minted')
        OBVIOUS
  <2>4. Standing = b
        BY <1>3, <2>1, <2>3, StandingIs
  <2>5. Standing' = a
        BY <2>1, <2>2, <2>3, StandingNext
  <2>6. Clean(b)
        BY <1>3, <2>1, <2>3 DEF OneOK, TheOne
  <2>7. a = b \/ \E do : Made(do, b, a)
        BY <2>1, <2>3 DEF OneGoes
  <2>8. CASE a = b
    <3>1. Standing' = Standing
          BY <2>4, <2>5, <2>8
    <3> QED BY <3>1 DEF Steps!vars
  <2>9. ASSUME NEW do, Made(do, b, a)
        PROVE  Steps!Next \/ UNCHANGED Steps!vars
        BY <2>4, <2>5, <2>6, <2>9, MadeIsAStep
  <2> QED BY <2>7, <2>8, <2>9
<1> QED BY <1>4, <1>5

\* One command at a time, none killed, is a step of Drawer from its first write
\* to its last, and nothing otherwise: whatever order the files are written in,
\* and however many, what anybody finds standing is what Drawer says
\* (ImplementsDrawer; cmd_protect, cmd_share, cmd_rotate, cmd_cell_new).
THEOREM OneAtATimeImplements == Spec => ImplementsDrawer
<1>1. Init => OneInv /\ MapsOK
      BY InitOne
<1>2. TypesInv /\ MapsOK /\ [Next]_vars => MapsOK'
      BY MapsStep
<1>3. TypesInv /\ TypesInv' /\ MapsOK /\ MapsOK' /\ OneInv /\ [Next]_vars => OneInv'
      BY NextOne
<1>4. TypesInv /\ TypesInv' /\ MapsOK /\ MapsOK' /\ OneInv /\ [Next]_vars
         => [budget.atOnce = 1 /\ ~ trouble'.killed => Steps!Next \/ UNCHANGED Steps!vars]_vars
      BY OneSteps
<1>5. Spec => []TypesInv
      BY FolderTypes
<1>6. Spec => [](MapsOK /\ OneInv)
      BY <1>1, <1>2, <1>3, <1>5, PTL DEF Spec
<1> QED BY <1>4, <1>5, <1>6, PTL DEF Spec, ImplementsDrawer
=============================================================================
