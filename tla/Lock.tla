-------------------------------- MODULE Lock --------------------------------
(***************************************************************************)
(* The lock of a close (crates/cc-core/src/close.rs): facets, the keys of  *)
(* an epoch, the public record, and the chain of old keys wrapped under    *)
(* newer ones.                                                             *)
(*                                                                         *)
(* Cryptography is symbolic.  A key is known by what it was derived from;  *)
(* a sealed box opens only under the key and the associated data it was    *)
(* made with (aead.rs), and gives back exactly what was put in.            *)
(***************************************************************************)
EXTENDS Integers, Sequences

CONSTANTS
    Closes,       \* close ids
    ContentKeys,  \* the random roots that founding and rotation draw
    NoKey         \* what an operation that yields no key returns

\* Facet, an ordered enum: what a key discloses.
Presence == 0
Shape == 1
Content == 2
Facets == Presence..Content

\* The facets that have a key, hence a lane of their own in the chain.
Lanes == {Shape, Content}

\* A key: the root it derives from, the facet it opens, and the close id that
\* salted the derivation.
Key == [root : ContentKeys, facet : Lanes, salt : Closes]

KeyOrNone == Key \cup {NoKey}

ASSUME NoKeyIsNoKey == NoKey \notin Key

\* The content key drawn from a fresh root for close c.
MintKey(root, c) == [root |-> root, facet |-> Content, salt |-> c]

\* facet_key: derivation runs downward only, and presence has no key.
FacetKey(contentKey, c, facet) ==
    IF facet = Content THEN contentKey
    ELSE IF facet = Shape THEN [root |-> contentKey.root, facet |-> Shape, salt |-> c]
    ELSE NoKey

\* lower_facet_key: from a key known to be for facet `have`, if there is one.
LowerFacetKey(key, have, want, c) ==
    IF key = NoKey \/ want > have THEN NoKey
    ELSE IF have = Content THEN FacetKey(key, c, want)
    ELSE IF have = Shape /\ want = Shape THEN key
    ELSE NoKey

\* aead::wrap_key and aead::unwrap_key.
Wrap(under, aad, key) == [under |-> under, aad |-> aad, holds |-> key]
Unwrap(key, aad, box) ==
    IF box.under = key /\ box.aad = aad THEN box.holds ELSE NoKey

ChainAad(c, epoch, lane) == <<c, epoch, lane>>
Box == [under : Key, aad : Closes \X Nat \X Lanes, holds : Key]

\* CloseRecord: what travels in the clear.  chain[i] wraps the keys of epoch
\* i - 1 under those of epoch i, one box a lane.
Record(People) ==
    [id : Closes, steward : People, epoch : Nat, chain : Seq([Lanes -> Box])]

\* CloseRecord::found; the key of epoch 0 is MintKey of the root drawn.
FoundRecord(c, steward) ==
    [id |-> c, steward |-> steward, epoch |-> 0, chain |-> <<>>]

\* Faulty links: labelled with the new epoch; the shape lane holding the
\* content key; wrapped under the old key itself.
LinkMislabelled(rec, current, new) ==
    [lane \in Lanes |-> Wrap(FacetKey(new, rec.id, lane), ChainAad(rec.id, rec.epoch + 1, lane),
                             FacetKey(current, rec.id, lane))]
LinkLaneMixed(rec, current, new) ==
    [lane \in Lanes |-> Wrap(FacetKey(new, rec.id, lane), ChainAad(rec.id, rec.epoch, lane), current)]
LinkSelfWrapped(rec, current, new) ==
    [lane \in Lanes |-> Wrap(FacetKey(current, rec.id, lane), ChainAad(rec.id, rec.epoch, lane),
                             FacetKey(current, rec.id, lane))]

\* EpochLink: the keys of this epoch, each under that of the next.
EpochLink(rec, current, new) ==
    [lane \in Lanes |-> Wrap(FacetKey(new, rec.id, lane), ChainAad(rec.id, rec.epoch, lane),
                             FacetKey(current, rec.id, lane))]

RotateForgetful(rec, current, new) ==  \* faulty: the older links are lost
    [id |-> rec.id, steward |-> rec.steward, epoch |-> rec.epoch + 1,
     chain |-> <<EpochLink(rec, current, new)>>]

\* CloseRecord::rotate.
RotateRecord(rec, current, new) ==
    [id |-> rec.id, steward |-> rec.steward, epoch |-> rec.epoch + 1,
     chain |-> Append(rec.chain, EpochLink(rec, current, new))]

\* One link back: from the key of epoch n + 1 to that of epoch n.
StepBack(rec, key, n, lane) ==
    IF n + 1 > Len(rec.chain) THEN NoKey
    ELSE Unwrap(key, ChainAad(rec.id, n, lane), rec.chain[n + 1][lane])

WalkClamped(rec, key, have, want, lane) ==  \* faulty: no refusal to walk ahead
    LET at[n \in want..have] == IF n = have THEN key ELSE StepBack(rec, at[n + 1], n, lane)
    IN  IF want > have THEN key ELSE at[want]

\* CloseRecord::walk_chain: from the key of epoch `have`, one link at a time,
\* to the key of epoch `want`.  No walk runs towards the future.
WalkChain(rec, key, have, want, lane) ==
    LET at[n \in want..have] == IF n = have THEN key ELSE StepBack(rec, at[n + 1], n, lane)
    IN  IF want > have THEN NoKey ELSE at[want]

-----------------------------------------------------------------------------
\* The key of a lane at an epoch, given the root drawn for each epoch.
KeyAt(roots, c, lane, epoch) == FacetKey(MintKey(roots[epoch + 1], c), c, lane)

\* A record tells the truth about the roots drawn: one link for every epoch
\* gone by, its boxes holding the keys of that epoch under those of the next.
TruthfulTo(rec, roots) ==
    /\ Len(roots) = rec.epoch + 1
    /\ Len(rec.chain) = rec.epoch
    /\ \A i \in 1..rec.epoch, lane \in Lanes :
          rec.chain[i][lane] = Wrap(KeyAt(roots, rec.id, lane, i),
                                    ChainAad(rec.id, i - 1, lane),
                                    KeyAt(roots, rec.id, lane, i - 1))
=============================================================================
