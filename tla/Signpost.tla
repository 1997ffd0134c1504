------------------------------ MODULE Signpost ------------------------------
(***************************************************************************)
(* A signpost: a journaled pointer into the kept history, raised by        *)
(* `close cell new` and moved by `close point` (crates/cc-cell/src/lib.rs, *)
(* crates/close/src/repo.rs), among the other commands of Drawer.          *)
(*                                                                         *)
(* `point` is a process of its own: it reads the lock and the grants, then *)
(* the head of the journal, stores the move, and rewrites the head, a file *)
(* that it first truncates.  Nothing locks the folder, so points may       *)
(* overlap, and any of them may be killed in between.                      *)
(***************************************************************************)
EXTENDS Drawer, FiniteSets

CONSTANTS
    Terminals,    \* where `close point` may be running
    NoDecl,       \* what the cell index says of a path where nothing stands
    CellPath,     \* the path of the signpost
    CellHome,     \* the close whose drawer lies above that path, once founded
    Slots,        \* the fingers of the signpost
    GuardSets,    \* the slots `cell new` may be asked to guard
    Commits,      \* what a slot may be pointed at: any 64 hex digits will do
    Parents,      \* the parents of each kept commit; none for one never kept
    Pins,         \* the slot=ref arguments `point` may be given
    MaxMoves,     \* bound: the number of moves stored or about to be
    MaxCrashes    \* bound: the number of `point`s killed half way

ASSUME SignpostAssumption ==
    /\ CellPath \in Seq(Names)
    /\ CellHome \in Closes
    /\ GuardSets \subseteq SUBSET Slots
    /\ IsFiniteSet(Commits)
    /\ Parents \in [Commits -> SUBSET Commits]
    /\ Pins \subseteq UNION {[S -> Commits] : S \in SUBSET Slots}
    /\ MaxMoves \in Nat
    /\ MaxCrashes \in Nat

VARIABLES
    decl,       \* .cc/cells.json: the declaration of the signpost
    store,      \* objects: the moves stored, by address (write once)
    head,       \* refs/cells/<id>: the address of the latest move, 0 if unreadable
    point,      \* what each terminal's `close point` is at
    crashes,    \* how many were killed
    announced   \* history: the moves that `point` reported as done

drawer == vars
signpost == <<decl, store, head, point, crashes, announced>>
allVars == <<ids, closes, grants, now, minted, decl, store, head, point, crashes, announced>>

-----------------------------------------------------------------------------
\* The kept history, sealed in the commons before anything was rotated.

\* Every commit met walking back from c through the parents `next` finds.
Behind(c, next) ==
    LET met[n \in 0..Cardinality(Commits)] ==
            IF n = 0 THEN {c} ELSE met[n - 1] \cup UNION {next[d] : d \in met[n - 1]}
    IN  met[Cardinality(Commits)]

ReadsHistory(who) == KeyOf(who, Commons, Content, 0) # NoKey

IsDescendantUnread(who, old, new) ==  \* faulty: trusts what it cannot check
    ReadsHistory(who) => old \in Behind(new, Parents)

\* Repo::is_descendant: whoever cannot read the history finds no parents.
IsDescendant(who, old, new) ==
    old \in IF ReadsHistory(who) THEN Behind(new, Parents) ELSE {new}

-----------------------------------------------------------------------------
\* Moves (TransitionBody, and the object it is sealed in).

Decl == [close : Closes, guarded : SUBSET Slots]

ASSUME NoDeclIsNoDecl == NoDecl \notin Decl

Idle == [doing |-> "nothing"]

\* Repo::governing of the signpost's path: the innermost close founded.
Governing == IF CellHome \in Founded THEN CellHome ELSE Commons

\* The grants under which who may point: any that carries the power, covers
\* the path and verifies, whatever its facet and epoch.
MayPoint(who) ==
    {i \in Held(who, decl.close) :
        /\ "set" \in Leaf(grants[who][i]).powers
        /\ PrefixUnder(CellPath, Leaf(grants[who][i]).prefix)}

LinkStuck(base) ==  \* faulty: the number of the head itself
    [prev |-> base, seq |-> IF base = 0 THEN 0 ELSE store[base].seq]

\* Transition::make: the link to the head, and the move's number.
LinkAfter(base) ==
    [prev |-> base, seq |-> IF base = 0 THEN 0 ELSE store[base].seq + 1]

\* Transition::check_link.
CheckLink(move, base) ==
    /\ move.prev = base
    /\ move.seq = IF base = 0 THEN 0 ELSE store[base].seq + 1

\* Transition::verify: by the grant's holder, under a grant that carries the
\* power over this path and verified at the time of the move.
VerifyMove(move, rec) ==
    LET b == Leaf(move.grant)
    IN  /\ b.close = decl.close
        /\ b.holder = move.by
        /\ "set" \in b.powers
        /\ PrefixUnder(CellPath, b.prefix)
        /\ Verify(move.grant, rec, move.when)

ValueForgetful(base, pins) == pins  \* faulty: starts from nothing
\* The value after a move: the head's, with the given slots set.
ValueAfter(base, pins) ==
    LET old == IF base = 0 THEN <<>> ELSE store[base].value
    IN  [s \in DOMAIN old \cup DOMAIN pins |-> IF s \in DOMAIN pins THEN pins[s] ELSE old[s]]

\* check_forward: a guarded slot that points somewhere only moves to a
\* descendant, as far as who can tell.
CheckForwardSwapped(who, base, value) ==  \* faulty: only ever backwards
    base # 0 =>
        \A s \in decl.guarded \cap DOMAIN store[base].value \cap DOMAIN value :
            \/ store[base].value[s] = value[s]
            \/ IsDescendant(who, value[s], store[base].value[s])
CheckForward(who, base, value) ==
    base # 0 =>
        \A s \in decl.guarded \cap DOMAIN store[base].value \cap DOMAIN value :
            \/ store[base].value[s] = value[s]
            \/ IsDescendant(who, store[base].value[s], value[s])

\* Repo::cell_head: whether who can open the move the head names.
HeadOpens(who) ==
    head # 0 => KeyOf(who, decl.close, Content, store[head].epoch) = store[head].key

-----------------------------------------------------------------------------
\* `close cell new`: refuses a path where one stands already.
CellNew(guarded) ==
    /\ decl = NoDecl
    /\ decl' = [close |-> Governing, guarded |-> guarded]
    /\ UNCHANGED <<drawer, store, head, point, crashes, announced>>

\* `close point`, up to the current key: the declaration, the record, the first
\* grant that carries the power, and the key to seal the move with.
Look(t, who, pins) ==
    /\ point[t] = Idle
    /\ decl # NoDecl
    /\ who \in ids
    /\ MayPoint(who) # {}
    /\ CurrentKey(who, decl.close) # NoKey
    /\ Len(store) + Cardinality({u \in Terminals : point[u].doing = "looked"}) < MaxMoves
    /\ point' = [point EXCEPT ![t] =
          [doing |-> "looked", who |-> who, pins |-> pins, when |-> now,
           grant |-> grants[who][First(MayPoint(who))],
           epoch |-> closes[decl.close].epoch, key |-> CurrentKey(who, decl.close)]]
    /\ UNCHANGED <<drawer, decl, store, head, crashes, announced>>

MoveRelabelled(p) ==  \* faulty: the key of one lock, the number of another
    [prev |-> LinkAfter(head).prev, seq |-> LinkAfter(head).seq,
     value |-> ValueAfter(head, p.pins), by |-> p.who, when |-> p.when,
     grant |-> p.grant, epoch |-> closes[decl.close].epoch, key |-> p.key]

\* The move, sealed under the lock that the record read at first had.
MoveFrom(p) ==
    [prev |-> LinkAfter(head).prev, seq |-> LinkAfter(head).seq,
     value |-> ValueAfter(head, p.pins), by |-> p.who, when |-> p.when,
     grant |-> p.grant, epoch |-> p.epoch, key |-> p.key]

\* Read the head, check the guards, sign, seal under the key found before, and
\* store the move: nobody sees it yet.
Make(t) ==
    /\ point[t].doing = "looked"
    /\ HeadOpens(point[t].who)
    /\ CheckForward(point[t].who, head, ValueAfter(head, point[t].pins))
    /\ VerifyMove(MoveFrom(point[t]), closes[decl.close])
    /\ store' = Append(store, MoveFrom(point[t]))
    /\ point' = [point EXCEPT ![t] = [doing |-> "made", move |-> Len(store) + 1, base |-> head]]
    /\ UNCHANGED <<drawer, decl, head, crashes, announced>>

\* The head is sealed to the mover, a guard refuses, or the move does not
\* verify.
GiveUp(t) ==
    /\ point[t].doing = "looked"
    /\ ~ /\ HeadOpens(point[t].who)
         /\ CheckForward(point[t].who, head, ValueAfter(head, point[t].pins))
         /\ VerifyMove(MoveFrom(point[t]), closes[decl.close])
    /\ point' = [point EXCEPT ![t] = Idle]
    /\ UNCHANGED <<drawer, decl, store, head, crashes, announced>>

\* Store::set_ref opens the file for writing, which empties it...
Truncate(t) ==
    /\ point[t].doing = "made"
    /\ head' = 0
    /\ point' = [point EXCEPT ![t].doing = "writing"]
    /\ UNCHANGED <<drawer, decl, store, crashes, announced>>

\* ...and writes the address; then the move is reported as done.
Write(t) ==
    /\ point[t].doing = "writing"
    /\ head' = point[t].move
    /\ announced' = announced \cup {point[t].move}
    /\ point' = [point EXCEPT ![t] = Idle]
    /\ UNCHANGED <<drawer, decl, store, crashes>>

\* A `point` is killed.
Crash(t) ==
    /\ point[t] # Idle
    /\ crashes < MaxCrashes
    /\ crashes' = crashes + 1
    /\ point' = [point EXCEPT ![t] = Idle]
    /\ UNCHANGED <<drawer, decl, store, head, announced>>

SignpostInit ==
    /\ Init
    /\ decl = NoDecl
    /\ store = <<>>
    /\ head = 0
    /\ point = [t \in Terminals |-> Idle]
    /\ crashes = 0
    /\ announced = {}

SignpostNext ==
    \/ Next /\ UNCHANGED signpost
    \/ \E guarded \in GuardSets : CellNew(guarded)
    \/ \E t \in Terminals, who \in ids, pins \in Pins : Look(t, who, pins)
    \/ \E t \in Terminals : Make(t)
    \/ \E t \in Terminals : GiveUp(t)
    \/ \E t \in Terminals : Truncate(t)
    \/ \E t \in Terminals : Write(t)
    \/ \E t \in Terminals : Crash(t)

SignpostSpec == SignpostInit /\ [][SignpostNext]_allVars

-----------------------------------------------------------------------------
\* What the state should satisfy.

\* The journal that ends in each move: the addresses from the first to it.
Trails ==
    LET trail[n \in 0..Len(store)] ==
            IF n = 0 THEN <<>> ELSE Append(trail[store[n].prev], n)
    IN  trail

SignpostTypeOK ==
    /\ decl \in Decl \cup {NoDecl}
    /\ head \in 0..Len(store)
    /\ announced \subseteq 1..Len(store)
    /\ \A n \in 1..Len(store) :
          /\ store[n].prev \in 0..(n - 1)
          /\ store[n].seq = Len(Trails[n]) - 1
          /\ store[n].grant \in Grant /\ store[n].key \in Key

\* Any replica recomputes the signpost from the objects alone: cc_cell::fold
\* accepts the journal that ends in any move ever stored, on today's record,
\* whatever was rotated, ran out, was killed or overlapped since.
JournalFolds ==
    \A n \in 1..Len(store) : \A i \in 1..Len(Trails[n]) :
        LET m == Trails[n][i]
        IN  /\ VerifyMove(store[m], closes[decl.close])
            /\ CheckLink(store[m], IF i = 1 THEN 0 ELSE Trails[n][i - 1])

\* Along a journal a guarded slot never goes back, not even over several moves
\* by people who can read different parts of the history (check_forward).
NeverBackAlongJournal ==
    \A n \in 1..Len(store) : \A i \in 1..Len(Trails[n]) :
        LET older == store[Trails[n][i]].value
            value == store[n].value
        IN  \A s \in decl.guarded \cap DOMAIN older :
                s \in DOMAIN value /\ older[s] \in Behind(value[s], Parents)

\* Whoever reads what is sealed today reads the whole trail: a move sealed
\* under any lock the close has had, even by a `point` that a rotation overtook.
TrailReadable ==
    \A p \in ids : head # 0 /\ CurrentKey(p, decl.close) # NoKey =>
        \A i \in 1..Len(Trails[head]) :
            LET m == store[Trails[head][i]]
            IN  KeyOf(p, decl.close, Content, m.epoch) = m.key

\* With one terminal and none killed, `point` implements the journal: readers
\* see either the head or, while it is being rewritten, what it was.
Standing ==
    IF \E t \in Terminals : point[t].doing = "writing"
    THEN point[CHOOSE t \in Terminals : point[t].doing = "writing"].base
    ELSE head

Log ==
    [i \in 1..Len(Trails[Standing]) |->
        [by |-> store[Trails[Standing][i]].by, value |-> store[Trails[Standing][i]].value]]

Promised == INSTANCE Journal WITH
    stands <- decl # NoDecl,
    guarded <- IF decl = NoDecl THEN {} ELSE decl.guarded,
    log <- Log,
    Ancestry <- {w \in Commits \X Commits : w[1] \in Behind(w[2], Parents)}

ImplementsJournal == Promised!Spec

-----------------------------------------------------------------------------
\* What the documents say and the code does not do.

\* "Every move is journaled" (main.rs:389): a move reported as done is on the
\* trail of the head whenever the head is not being rewritten.
AnnouncedMovesStay ==
    (\A t \in Terminals : point[t].doing # "writing") =>
        \A m \in announced : \E i \in 1..Len(Trails[head]) : Trails[head][i] = m

\* "Revoking it is a lock change" (SIGNPOSTS.md:103): nobody moves a signpost
\* under a lock at which they were not given the power to.
RevokedByLockChange ==
    \A n \in 1..Len(store) : \E i \in 1..Len(grants[store[n].by]) :
        LET b == Leaf(grants[store[n].by][i])
        IN  b.close = decl.close /\ "set" \in b.powers /\ b.epoch >= store[n].epoch
=============================================================================
