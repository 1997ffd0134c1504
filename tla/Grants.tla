------------------------------- MODULE Grants -------------------------------
(***************************************************************************)
(* Grants (crates/cc-core/src/grant.rs) and how a holder's keys are found  *)
(* from them (facet_key_for and best_facet of crates/close/src/repo.rs).   *)
(*                                                                         *)
(* A grant embeds its whole chain of parents, so a grant is the sequence   *)
(* of its links: the steward's root first, the grant itself last.  A link  *)
(* is signed by its issuer; signatures are unforgeable and are represented *)
(* by the issuer's name.                                                   *)
(***************************************************************************)
EXTENDS Lock

CONSTANTS
    People,    \* identities: signing key, key-agreement key and name in one
    Names      \* path segments

\* Powers, a bit set.
AllPowers == {"invoke", "set"}

\* expires_at = None.  Time is counted in whole days.
Never == -1
Expiry == Nat \cup {Never}

Alive(expires, now) == expires = Never \/ now <= expires

\* Expiry a is no later than b.
NoLater(a, b) == b = Never \/ (a # Never /\ a <= b)

\* prefix_under: child lies at or below parent.
PrefixUnder(child, parent) ==
    /\ Len(child) >= Len(parent)
    /\ \A i \in 1..Len(parent) : child[i] = parent[i]

\* A facet key sealed to one holder's key-agreement key.
WrapAad(c, holder, facet, epoch) == <<c, holder, facet, epoch>>
WrapTo(holder, aad, key) == [to |-> holder, aad |-> aad, holds |-> key]
WrappedKey == [to : People, aad : Closes \X People \X Lanes \X Nat, holds : Key]

ASSUME NoKeyIsNoBox == NoKey \notin WrappedKey

\* GrantBody, less the embedded parent.
Link == [close : Closes, holder : People, facet : Facets,
         powers : SUBSET AllPowers, prefix : Seq(Names), expires : Expiry,
         epoch : Nat, wrapped : WrappedKey \cup {NoKey}, issuer : People]

Grant == Seq(Link) \ {<<>>}

Leaf(g) == g[Len(g)]

\* One link, signed by its issuer, with the facet key (if any) sealed to its
\* holder under a label of close, holder, facet and epoch.
LinkTo(c, issuer, holder, facet, powers, prefix, expires, epoch, key) ==
    [close |-> c, holder |-> holder, facet |-> facet, powers |-> powers,
     prefix |-> prefix, expires |-> expires, epoch |-> epoch, issuer |-> issuer,
     wrapped |-> IF key = NoKey THEN NoKey
                 ELSE WrapTo(holder, WrapAad(c, holder, facet, epoch), key)]

\* Grant::issue_root.
IssueRoot(rec, steward, contentKey, epoch, holder, facet, powers, prefix, expires) ==
    << LinkTo(rec.id, steward, holder, facet, powers, prefix, expires, epoch,
              LowerFacetKey(contentKey, Content, facet, rec.id)) >>

\* Grant::unwrap_key.
UnwrapKey(g, who) ==
    LET b == Leaf(g)
    IN  IF /\ b.wrapped # NoKey
           /\ b.wrapped.to = who
           /\ b.wrapped.aad = WrapAad(b.close, b.holder, b.facet, b.epoch)
        THEN b.wrapped.holds
        ELSE NoKey

\* What every link of a chain must satisfy towards its parent.
Narrows(child, parent) ==
    /\ child.close = parent.close
    /\ child.issuer = parent.holder
    /\ child.facet <= parent.facet
    /\ child.powers \subseteq parent.powers
    /\ PrefixUnder(child.prefix, parent.prefix)
    /\ NoLater(child.expires, parent.expires)

\* A faulty verify whose last day is already too late.
VerifyEarly(g, rec, now) ==
    /\ \A i \in 1..Len(g) : g[i].expires = Never \/ now < g[i].expires
    /\ g[1].issuer = rec.steward
    /\ \A i \in 2..Len(g) : Narrows(g[i], g[i - 1])

\* Grant::verify: alive at every link, rooted in the steward, narrowing.
Verify(g, rec, now) ==
    /\ \A i \in 1..Len(g) : Alive(g[i].expires, now)
    /\ g[1].issuer = rec.steward
    /\ \A i \in 2..Len(g) : Narrows(g[i], g[i - 1])

\* The key a grant hands on when it is attenuated to `facet`.
PassedKey(parent, me, rec, facet) ==
    LowerFacetKey(UnwrapKey(parent, me), Leaf(parent).facet, facet, rec.id)

\* The refusals of Grant::attenuate, as the condition under which none applies.
MayAttenuate(parent, me, rec, facet, powers, prefix, expires) ==
    LET b == Leaf(parent)
    IN  /\ facet <= b.facet
        /\ powers \subseteq b.powers
        /\ PrefixUnder(prefix, b.prefix)
        /\ NoLater(expires, b.expires)
        /\ b.holder = me
        /\ facet # Presence => PassedKey(parent, me, rec, facet) # NoKey

AttenuateRelabelled(parent, me, rec, holder, facet, powers, prefix, expires) ==
    Append(parent, LinkTo(Leaf(parent).close, me, holder, facet, powers, prefix, expires,
                          rec.epoch,  \* faulty: the key is of the parent's epoch
                          PassedKey(parent, me, rec, facet)))

\* Grant::attenuate: the child inherits the parent's close and epoch.
Attenuate(parent, me, rec, holder, facet, powers, prefix, expires) ==
    Append(parent, LinkTo(Leaf(parent).close, me, holder, facet, powers, prefix, expires,
                          Leaf(parent).epoch,
                          PassedKey(parent, me, rec, facet)))

-----------------------------------------------------------------------------
\* Reading a holder's drawer of grants, in the order of their file names.

\* A faulty reading that takes the grants of every close.
HeldAnywhere(held, rec, now) == {i \in 1..Len(held) : Verify(held[i], rec, now)}

\* The grants on a close that verify now, by position.
HeldOn(held, rec, now) ==
    {i \in 1..Len(held) : Leaf(held[i]).close = rec.id /\ Verify(held[i], rec, now)}

\* The key one grant yields for `facet` at `epoch`, NoKey if it yields none.
KeyFrom(g, who, rec, facet, epoch) ==
    LET b == Leaf(g)
    IN  IF b.facet < facet THEN NoKey
        ELSE LowerFacetKey(WalkChain(rec, UnwrapKey(g, who), b.epoch, epoch, b.facet),
                           b.facet, facet, rec.id)

\* Whether some grant yields a key.
Opens(held, who, rec, facet, epoch, now) ==
    \E i \in HeldOn(held, rec, now) : KeyFrom(held[i], who, rec, facet, epoch) # NoKey

\* The first of a set of positions, and the last.
First(S) == CHOOSE i \in S : \A j \in S : i <= j
Last(S) == CHOOSE i \in S : \A j \in S : j <= i

\* Repo::facet_key_for: the first grant that yields a key.
FacetKeyFor(held, who, rec, facet, epoch, now) ==
    LET yielding == {i \in HeldOn(held, rec, now) :
                        KeyFrom(held[i], who, rec, facet, epoch) # NoKey}
    IN  IF facet = Presence \/ yielding = {} THEN NoKey
        ELSE KeyFrom(held[First(yielding)], who, rec, facet, epoch)

-----------------------------------------------------------------------------
\* A link carries the key its label claims: that of its facet at its epoch,
\* sealed to its holder; and its epoch has begun.
LabelTrueTo(b, rec, roots) ==
    /\ b.close = rec.id
    /\ b.epoch <= rec.epoch
    /\ b.wrapped = IF b.facet = Presence THEN NoKey
                   ELSE WrapTo(b.holder, WrapAad(b.close, b.holder, b.facet, b.epoch),
                               KeyAt(roots, b.close, b.facet, b.epoch))

\* A chain of links that verifies on every day up to its leaf's last.
SoundTo(g, rec) ==
    /\ g[1].issuer = rec.steward
    /\ \A j \in 2..Len(g) : Narrows(g[j], g[j - 1])
=============================================================================
