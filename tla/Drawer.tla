------------------------------- MODULE Drawer -------------------------------
(***************************************************************************)
(* The locked drawers of one commons and the people who hold keys to them: *)
(* `close init`, `id new`, `protect`, `share` and `rotate`                 *)
(* (crates/close/src/main.rs and repo.rs), over the passage of days.       *)
(*                                                                         *)
(* Each command is a whole process run to its end, so each is one action.  *)
(* `me`, the identity a command runs as, is Config.me: a public field of a *)
(* file the owner of the folder edits, hence an input of every command.    *)
(***************************************************************************)
EXTENDS Grants

CONSTANTS
    Founder,      \* who ran `close init`
    Commons,      \* the close that init founds at the root
    Receivers,    \* whom a share may be addressed to
    Excludable,   \* whom a rotation may leave out
    ShareFacets,  \* the facets shares are asked for
    SharePowers,  \* the sets of powers shares are asked for
    ShareDays,    \* the --days of a share, Never when it is not given
    MaxEpoch,     \* bound: the last epoch a lock is rotated to
    MaxGrants,    \* bound: a share goes to nobody who holds this many grants
    MaxNow        \* bound: the last day

ASSUME DrawerAssumption ==
    /\ Founder \in People
    /\ Commons \in Closes
    /\ Receivers \subseteq People
    /\ Excludable \subseteq People
    /\ ShareFacets \subseteq Facets
    /\ SharePowers \subseteq SUBSET AllPowers
    /\ ShareDays \subseteq Expiry
    /\ MaxEpoch \in Nat
    /\ MaxGrants \in Nat
    /\ MaxNow \in Nat

VARIABLES
    ids,      \* .cc/ids: the people who live here
    closes,   \* .cc/closes: the record of every close founded so far
    grants,   \* .cc/grants: for every person, the grants in file-name order
    now,      \* the clock, in days
    minted    \* history: for every close, the root drawn for each epoch

vars == <<ids, closes, grants, now, minted>>

-----------------------------------------------------------------------------
\* Reading the state.

Founded == DOMAIN closes

\* The positions of who's grants that hold on c today.
Held(who, c) == HeldOn(grants[who], closes[c], now)

\* Repo::facet_key_for on the record as it stands.
KeyOf(who, c, facet, epoch) ==
    IF who \in ids THEN FacetKeyFor(grants[who], who, closes[c], facet, epoch, now)
    ELSE NoKey

\* Repo::current_content_key.
CurrentKey(who, c) == KeyOf(who, c, Content, closes[c].epoch)

\* A faulty best_facet: the weakest held.
LeastFacet(who, c) ==
    CHOOSE f \in Facets : /\ \E i \in Held(who, c) : Leaf(grants[who][i]).facet = f
                          /\ \A i \in Held(who, c) : f <= Leaf(grants[who][i]).facet

\* Repo::best_facet, as the greatest facet held; undefined for who holds nothing.
BestFacet(who, c) ==
    CHOOSE f \in Facets : /\ \E i \in Held(who, c) : Leaf(grants[who][i]).facet = f
                          /\ \A i \in Held(who, c) : Leaf(grants[who][i]).facet <= f

\* A root nobody has drawn before (32 random bytes).
Fresh(root) == \A c \in Founded : \A e \in 1..Len(minted[c]) : minted[c][e] # root

\* share: the day a grant asked for `days` days ends on.
ExpiresAt(days) == IF days = Never THEN Never ELSE now + days

\* The earlier of two expiries.
Earlier(a, b) == IF NoLater(a, b) THEN a ELSE b

\* f with the value at x set, x in its domain or not.
With(f, x, v) == [y \in DOMAIN f \cup {x} |-> IF y = x THEN v ELSE f[y]]

-----------------------------------------------------------------------------
\* Repo::found_close: the record, and the founding grant to its steward.
FoundingGrant(me, c, root) ==
    IssueRoot(FoundRecord(c, me), me, MintKey(root, c), 0, me, Content,
              AllPowers, <<>>, Never)

\* Repo::init: the first identity, and the commons itself as a close.
Init ==
    \E root \in ContentKeys :
        /\ ids = {Founder}
        /\ closes = [c \in {Commons} |-> FoundRecord(c, Founder)]
        /\ grants = [p \in People |-> IF p = Founder
                                      THEN <<FoundingGrant(Founder, Commons, root)>>
                                      ELSE <<>>]
        /\ now = 0
        /\ minted = [c \in {Commons} |-> <<root>>]

\* `close id new`: refuses a name that already lives here.
NewIdentity(name) ==
    /\ name \notin ids
    /\ ids' = ids \cup {name}
    /\ UNCHANGED <<closes, grants, now, minted>>

\* `close protect`: found a close for a path inside the commons.
Protect(me, c) ==
    /\ me \in ids
    /\ c \notin Founded
    /\ \E root \in {r \in ContentKeys : Fresh(r)} :
          /\ closes' = With(closes, c, FoundRecord(c, me))
          /\ grants' = [grants EXCEPT ![me] = Append(@, FoundingGrant(me, c, root))]
          /\ minted' = With(minted, c, <<root>>)
    /\ UNCHANGED <<ids, now>>

\* `close share` by the steward: a root grant at the current epoch.
ShareAsSteward(me, c, with, facet, powers, days) ==
    /\ {me, with} \subseteq ids
    /\ closes[c].steward = me
    /\ CurrentKey(me, c) # NoKey
    /\ Len(grants[with]) < MaxGrants
    /\ grants' = [grants EXCEPT ![with] = Append(@,
          IssueRoot(closes[c], me, CurrentKey(me, c), closes[c].epoch,
                    with, facet, powers, <<>>, ExpiresAt(days)))]
    /\ UNCHANGED <<ids, closes, now, minted>>

\* What `share` may pass on: the verified grants wide enough for what is asked.
WideEnough(me, c, facet, powers) ==
    {i \in Held(me, c) : /\ Leaf(grants[me][i]).facet >= facet
                         /\ powers \subseteq Leaf(grants[me][i]).powers}

\* `close share` by anyone else: a narrower copy of the first one wide enough.
ShareOnward(me, c, with, facet, powers, days) ==
    /\ {me, with} \subseteq ids
    /\ closes[c].steward # me
    /\ WideEnough(me, c, facet, powers) # {}
    /\ Len(grants[with]) < MaxGrants
    /\ LET mine == grants[me][First(WideEnough(me, c, facet, powers))]
           tightened == Earlier(ExpiresAt(days), Leaf(mine).expires)
           prefix == Leaf(mine).prefix
       IN  /\ MayAttenuate(mine, me, closes[c], facet, powers, prefix, tightened)
           /\ grants' = [grants EXCEPT ![with] = Append(@,
                 Attenuate(mine, me, closes[c], with, facet, powers, prefix, tightened))]
    /\ UNCHANGED <<ids, closes, now, minted>>

\* Faulty keepers that take the steward's key for granted.
KeepersButSteward(c, except) ==
    {p \in ids \ except : p # closes[c].steward /\ Held(p, c) # {}}

\* rotate's keepers: everyone who verifiably holds something, minus `except`.
Keepers(c, except) == {p \in ids \ except : Held(p, c) # {}}

\* What a keeper is re-issued: the best facet held, the union of the powers
\* held, and the expiry of the last grant among those of the best facet.
KeptPowers(p, c) == UNION {Leaf(grants[p][i]).powers : i \in Held(p, c)}
KeptExpiryShifted(p, c) ==  \* faulty: ends a day sooner, Never included
    LET best == {i \in Held(p, c) : Leaf(grants[p][i]).facet = BestFacet(p, c)}
    IN  Leaf(grants[p][Last(best)]).expires - 1
KeptExpiry(p, c) ==
    LET best == {i \in Held(p, c) : Leaf(grants[p][i]).facet = BestFacet(p, c)}
    IN  Leaf(grants[p][Last(best)]).expires

\* `close rotate`: change the lock and re-issue grants to whoever keeps up.
Rotate(me, c, except) ==
    /\ me \in ids
    /\ closes[c].steward = me
    /\ CurrentKey(me, c) # NoKey
    /\ closes[c].epoch < MaxEpoch
    /\ \E root \in {r \in ContentKeys : Fresh(r)} :
          LET new == RotateRecord(closes[c], CurrentKey(me, c), MintKey(root, c))
          IN  /\ closes' = [closes EXCEPT ![c] = new]
              /\ minted' = [minted EXCEPT ![c] = Append(@, root)]
              /\ grants' = [p \in People |->
                    IF p \in Keepers(c, except)
                    THEN Append(grants[p],
                           IssueRoot(new, me, MintKey(root, c), new.epoch, p,
                                     BestFacet(p, c), KeptPowers(p, c), <<>>,
                                     KeptExpiry(p, c)))
                    ELSE grants[p]]
    /\ UNCHANGED <<ids, now>>

\* A day passes.
Tick ==
    /\ now < MaxNow
    /\ now' = now + 1
    /\ UNCHANGED <<ids, closes, grants, minted>>

Next ==
    \/ \E name \in People : NewIdentity(name)
    \/ \E me \in People, c \in Closes : Protect(me, c)
    \/ \E me \in ids, c \in Founded, with \in Receivers, facet \in ShareFacets,
          powers \in SharePowers, days \in ShareDays :
          ShareAsSteward(me, c, with, facet, powers, days)
    \/ \E me \in ids, c \in Founded, with \in Receivers, facet \in ShareFacets,
          powers \in SharePowers, days \in ShareDays :
          ShareOnward(me, c, with, facet, powers, days)
    \/ \E me \in ids, c \in Founded, except \in SUBSET Excludable : Rotate(me, c, except)
    \/ Tick

Spec == Init /\ [][Next]_vars

-----------------------------------------------------------------------------
\* What the state should satisfy.

TypeOK ==
    /\ ids \subseteq People
    /\ Founded \subseteq Closes
    /\ \A c \in Founded : closes[c] \in Record(People)
    /\ grants \in [People -> Seq(Grant)]
    /\ now \in Nat
    /\ DOMAIN minted = Founded
    /\ \A c \in Founded : minted[c] \in Seq(ContentKeys)

\* The key of a facet at an epoch of c, by what founding and rotations drew.
EpochKey(c, facet, epoch) == KeyAt(minted[c], c, facet, epoch)

\* The public chain tells the truth: its i-th link holds the keys of epoch
\* i - 1 under those of epoch i, and only those (CloseRecord::rotate).
ChainTruthful ==
    \A c \in Founded : closes[c].id = c /\ TruthfulTo(closes[c], minted[c])

\* Every link of every stored grant.
StoredLinks == UNION {UNION {{grants[p][i][j] : j \in 1..Len(grants[p][i])} :
                                i \in 1..Len(grants[p])} : p \in People}

\* However a key travelled - founded, shared, passed on, re-issued - it is the
\* key of the epoch and facet that the grant around it names (wrap_aad binds
\* the label; issue_root and attenuate must put the right key under it).
LabelsTruthful ==
    \A b \in StoredLinks :
        b.close \in Founded /\ LabelTrueTo(b, closes[b.close], minted[b.close])

\* Every grant the commands ever wrote is filed with its holder and verifies
\* until the day it says it dissolves, whatever was rotated since: the checks
\* of `share` and `attenuate` never let through what verify refuses.
StoredGrantsVerify ==
    \A p \in People : \A i \in 1..Len(grants[p]) :
        LET g == grants[p][i]
        IN  /\ Leaf(g).holder = p
            /\ Leaf(g).close \in Founded
            /\ Alive(Leaf(g).expires, now) => Verify(g, closes[Leaf(g).close], now)

\* Who is entitled to a facet at an epoch: a live grant of that facet or a
\* higher one, at that epoch or a later one.
Entitled(p, c, facet, epoch) ==
    \E i \in 1..Len(grants[p]) :
        LET b == Leaf(grants[p][i])
        IN  b.close = c /\ b.facet >= facet /\ b.epoch >= epoch /\ Alive(b.expires, now)

\* facet_key_for finds the true key for whoever is entitled and none for
\* anyone else: no order of grants, no grant of another epoch, facet or close
\* in front of the right one makes it miss or return a wrong key.
KeysExactlyByGrant ==
    \A p \in ids, c \in Founded, facet \in Lanes :
        \A epoch \in 0..closes[c].epoch :
            KeyOf(p, c, facet, epoch) =
                IF Entitled(p, c, facet, epoch) THEN EpochKey(c, facet, epoch) ELSE NoKey

\* The keys p was ever granted, by label, expired or not.
GrantedEver(p, c, facet, epoch) ==
    \E i \in 1..Len(grants[p]) :
        LET b == Leaf(grants[p][i])
        IN  b.close = c /\ b.facet >= facet /\ b.epoch >= epoch

GrantedKeys(p) ==
    {k \in Key : \E c \in Founded, facet \in Lanes : \E epoch \in 0..closes[c].epoch :
                    k = EpochKey(c, facet, epoch) /\ GrantedEver(p, c, facet, epoch)}

\* A set of keys nothing public leads out of: neither deriving the shape key
\* of a content key nor opening any box of any chain.
NothingLeadsOut(keys) ==
    /\ \A k \in keys : FacetKey(k, k.salt, Shape) \in keys
    /\ \A c \in Founded : \A i \in 1..Len(closes[c].chain), lane \in Lanes :
          LET box == closes[c].chain[i][lane]
          IN  box.under \in keys => box.holds \in keys

\* The keys in boxes sealed to p, in any grant of anyone: grants are files
\* everybody may copy.
SealedTo(p) == {b.wrapped.holds : b \in {l \in StoredLinks : l.wrapped # NoKey /\ l.wrapped.to = p}}

\* A person who keeps every key they were ever given, ignores every expiry and
\* computes at will still holds only what they were granted: an old key opens
\* nothing sealed after the rotation, and a label never leaks the reading.
OnlyGrantedKeys ==
    \A p \in People : SealedTo(p) \subseteq GrantedKeys(p) /\ NothingLeadsOut(GrantedKeys(p))

\* Whoever can be neither left out of a rotation nor handed a narrower or
\* shorter grant keeps the current key of what they steward, so that the lock
\* can be changed again.
StewardKeepsKey ==
    \A c \in Founded :
        closes[c].steward \notin Excludable \cup Receivers => CurrentKey(closes[c].steward, c) # NoKey

-----------------------------------------------------------------------------
\* What a step should satisfy.

LockChanged(c) == closes'[c].epoch > closes[c].epoch

\* KeyOf in the state after the step.
KeyAfter(who, c, facet, epoch) ==
    FacetKeyFor(grants'[who], who, closes'[c], facet, epoch, now')

\* "Locks are not time machines": short of a grant running out, no command
\* takes away a key that someone could reach, at any epoch.
PastStaysReadable ==
    [][now' = now =>
        \A p \in ids, c \in Founded, facet \in Lanes :
            \A epoch \in 0..closes[c].epoch :
                KeyOf(p, c, facet, epoch) # NoKey =>
                    KeyAfter(p, c, facet, epoch) = KeyOf(p, c, facet, epoch)]_vars

\* Whoever a rotation re-issues nothing to holds no key of the new epoch when
\* it is done ("whoever is left out keeps only the past").
LeftOutGetNoNewKey ==
    [][\A p \in ids, c \in Founded, facet \in Lanes :
        LockChanged(c) /\ grants'[p] = grants[p] =>
            KeyAfter(p, c, facet, closes'[c].epoch) = NoKey]_vars

\* Whoever a rotation re-issues a grant to reads at the new epoch every facet
\* they read at some epoch before it, and keeps every power.
KeptKeepUp ==
    [][\A p \in ids, c \in Founded :
        LockChanged(c) /\ grants'[p] # grants[p] =>
            /\ \A facet \in Lanes :
                  (\E epoch \in 0..closes[c].epoch : KeyOf(p, c, facet, epoch) # NoKey) =>
                      KeyAfter(p, c, facet, closes'[c].epoch) # NoKey
            /\ KeptPowers(p, c) \subseteq Leaf(grants'[p][Len(grants'[p])]).powers]_vars

\* The commands implement Readership: with the keys forgotten and only what
\* each person can open kept, every command hands on readings its giver has,
\* adds an epoch for those who keep up, or lets readings run out.
ReadBy(c, p) ==
    {t \in Lanes \X (0..closes[c].epoch) : Opens(grants[p], p, closes[c], t[1], t[2], now)}

Promise == INSTANCE Readership WITH
    epoch <- [c \in Founded |-> closes[c].epoch],
    reads <- [c \in Founded |-> [p \in People |-> ReadBy(c, p)]]

ImplementsReadership == Promise!Spec

-----------------------------------------------------------------------------
\* What the documents say of a step and the code does not do.

\* "Whoever is left out keeps only the past" (close.rs:95): a rotation gives
\* the new key to nobody who could not read under the lock it replaces.
RotateRestoresNobody ==
    [][\A p \in ids, c \in Founded :
        LockChanged(c) /\ CurrentKey(p, c) = NoKey =>
            KeyAfter(p, c, Content, closes'[c].epoch) = NoKey]_vars

\* The last day on which p may exercise a power on c.
MayUntil(g, c, power) ==
    {Leaf(g[i]).expires : i \in {j \in 1..Len(g) : Leaf(g[j]).close = c /\ power \in Leaf(g[j]).powers}}

\* A power handed for some days is "expirable" (SIGNPOSTS.md:100): changing
\* the lock makes it last no longer than the grants that carried it.
RotateExtendsNoPower ==
    [][\A p \in ids, c \in Founded, power \in AllPowers :
        LockChanged(c) =>
            \A after \in MayUntil(grants'[p], c, power) :
                \E before \in MayUntil(grants[p], c, power) : NoLater(after, before)]_vars

\* "<with> can now read everything" (main.rs:497), printed after every share
\* that asked for it: the new grant opens what is sealed under today's lock.
ShareDeliversReading ==
    [][\A p \in ids :
        (closes' = closes /\ grants'[p] # grants[p]) =>
            LET b == Leaf(grants'[p][Len(grants'[p])])
            IN  b.facet = Content => KeyAfter(p, b.close, Content, closes[b.close].epoch) # NoKey]_vars
=============================================================================
