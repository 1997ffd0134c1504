------------------------------- MODULE Folder -------------------------------
(***************************************************************************)
(* The files under .cc that `protect`, `share`, `rotate` and `cell new`    *)
(* read and write (crates/close/src/main.rs and repo.rs), one at a time: a *)
(* record for every close, the grants of every person, and two lists, each *)
(* in one file: the close map and the index of signposts.                  *)
(*                                                                         *)
(* Nothing locks the folder.  Commands run in several terminals at once,   *)
(* and any of them may be killed.  A file is rewritten in place: fs::write *)
(* empties it first, and what is read from it then does not parse.         *)
(*                                                                         *)
(* Drawer takes each command for one step.  ImplementsDrawer says when     *)
(* that is right; the other properties say what holds when it is not.      *)
(***************************************************************************)
EXTENDS Grants, FiniteSets

CONSTANTS
    Founder,      \* who ran `close init`
    Commons,      \* the close that init founded at the root
    PathOf,       \* the path each close is for, if it is founded
    Order,        \* the people who live here, as Repo::identities sorts them
    Receivers,    \* whom a share may be addressed to
    Excludable,   \* whom a rotation may leave out
    ShareFacets,  \* the facets shares are asked for
    Signposts,    \* the paths `cell new` is given
    Torn,         \* a file that was emptied, or does not parse
    Budgets       \* bounds, one of which each behaviour keeps to: how many commands
                  \* may run at once, how many of each kind may be started, and
                  \* how many killed

Most(field) == CHOOSE n \in {b[field] : b \in Budgets} : \A b \in Budgets : b[field] <= n
Terminals == 1..Most("atOnce")

ASSUME FolderAssumption ==
    /\ Founder \in People /\ Commons \in Closes
    /\ \A c \in Closes \ {Commons} : PathOf[c] # PathOf[Commons]
    /\ Receivers \subseteq People /\ Excludable \subseteq People
    /\ ShareFacets \subseteq Facets
    /\ Torn \notin Record(People) /\ Torn \notin Grant /\ Torn \notin Seq(Closes \cup Signposts)
    /\ Order \in Seq(People)
    /\ {Order[i] : i \in 1..Len(Order)} = People
    /\ \A i, j \in 1..Len(Order) : Order[i] = Order[j] => i = j
    /\ IsFiniteSet(Budgets)
    /\ Budgets \subseteq [atOnce : Nat, protect : Nat, share : Nat, rotate : Nat,
                    raise : Nat, kill : Nat]

VARIABLES
    closes,     \* .cc/closes: the record of every close founded so far, or Torn
    lists,      \* .cc/closemap.json: the closes registered, each for its path,
                \* and .cc/cells.json: the signposts raised (none if it is not
                \* there); or Torn
    grants,     \* .cc/grants: for every person, the files in name order
    command,    \* what each terminal is running
    budget,     \* bound: what may still be started
    minted,     \* history: for every close, the root drawn for each epoch
    done,       \* history: the grants and list entries of the commands that
                \* were carried out
    trouble     \* history: what went on at once, or was killed (see below)

files == <<closes, lists, grants>>
vars == <<closes, lists, grants, command, budget, minted, done, trouble>>

\* trouble.crowded: people to whom two commands were adding a grant at once;
\* trouble.raced: closes of which two rotations ran at once;
\* trouble.stranded: closes with a rotation killed after its record was opened
\*   for writing and before the steward's new grant was there;
\* trouble.lists: lists that two commands were rewriting at once, or that one
\*   was killed at while it was empty;
\* trouble.twins: paths at which two `cell new` were raising a signpost at once;
\* trouble.killed: any command was killed.
NoTrouble ==
    [crowded |-> {}, raced |-> {}, stranded |-> {}, lists |-> {}, twins |-> {}, killed |-> FALSE]

-----------------------------------------------------------------------------
\* Reading.

\* A sequence without what is in a set.
Without(s, out) ==
    LET kept[i \in 0..Len(s)] ==
            IF i = 0 THEN <<>> ELSE IF s[i] \in out THEN kept[i - 1] ELSE Append(kept[i - 1], s[i])
    IN  kept[Len(s)]

\* Repo::grants_for: the files that decode.
GrantsFor(p) == Without(grants[p], {Torn})

\* Whether a list parses and has an entry.
Lists(list, entry) ==
    lists[list] # Torn /\ \E i \in 1..Len(lists[list]) : lists[list][i] = entry

\* Repo::governing leads to a close from some path: it is the last that was
\* registered for its own.
Governs(c) ==
    /\ Lists("map", c)
    /\ \E i \in 1..Len(lists["map"]) :
          /\ lists["map"][i] = c
          /\ \A j \in (i + 1)..Len(lists["map"]) : PathOf[lists["map"][j]] # PathOf[c]

\* Repo::load_close of the close that governs a path, if both files parse.
Loads(c) ==
    /\ Governs(c)
    /\ c \in DOMAIN closes /\ closes[c] # Torn

\* Repo::facet_key_for and Repo::current_content_key, on a record read before.
KeyFor(p, rec, facet, e) == FacetKeyFor(GrantsFor(p), p, rec, facet, e, 0)
CurrentKey(p, rec) == KeyFor(p, rec, Content, rec.epoch)

\* Those of p's grants that hold on a close.
HeldBy(p, rec) ==
    LET held == GrantsFor(p) IN {held[i] : i \in HeldOn(held, rec, 0)}
Best(held) == CHOOSE f \in {Leaf(g).facet : g \in held} : \A g \in held : Leaf(g).facet <= f

-----------------------------------------------------------------------------
\* A command that writes is at the first of the files it has yet to write:
\*   "prepare"  about to count the grants there, or to read the list,
\*   "open"     about to open it, which empties it,
\*   "fill"     about to write its contents.
Idle == [at |-> "idle"]
Busy == {t \in Terminals : command[t] # Idle}
Writing(t) == command[t].at \in {"prepare", "open", "fill"}
File(t) == Head(command[t].todo)

RecordFile(rec, root) == [is |-> "record", rec |-> rec, root |-> root]
GrantFile(who, grant) == [is |-> "grant", who |-> who, grant |-> grant]
ListFile(list, entry) == [is |-> "list", list |-> list, entry |-> entry]

\* The command with these files left to write, Idle when there are none.
WriteNext(k, todo) ==
    IF todo = <<>> THEN Idle
    ELSE [do |-> k.do, me |-> k.me, close |-> k.close, except |-> k.except, held |-> k.held,
          before |-> k.before, all |-> k.all, todo |-> todo, n |-> 0, read |-> <<>>,
          at |-> IF Head(todo).is = "record" THEN "open" ELSE "prepare"]

\* A command starts to write, all of it decided.  History: the files it found.
Write(k, todo) ==
    WriteNext([do |-> k.do, me |-> k.me, close |-> k.close, except |-> k.except,
               held |-> k.held, all |-> todo,
               before |-> [closes |-> closes, grants |-> grants, minted |-> minted]], todo)

Starts(t, do) ==
    /\ t \in 1..budget.atOnce
    /\ command[t] = Idle /\ \A u \in 1..(t - 1) : command[u] # Idle
    /\ budget[do] > 0
    /\ budget' = [budget EXCEPT ![do] = @ - 1]

\* A root nobody has drawn before.
Fresh(root) ==
    /\ \A c \in DOMAIN minted : \A e \in 1..Len(minted[c]) : minted[c][e] # root
    /\ \A t \in Busy : Writing(t) =>
          \A i \in 1..Len(command[t].todo) :
              command[t].todo[i].is = "record" => command[t].todo[i].root # root

With(f, x, v) == [y \in DOMAIN f \cup {x} |-> IF y = x THEN v ELSE f[y]]

-----------------------------------------------------------------------------
\* What the commands read and decide.

FoundingGrant(me, c, root) ==
    IssueRoot(FoundRecord(c, me), me, MintKey(root, c), 0, me, Content, AllPowers, <<>>, Never)

ToFoundMapFirst(me, c, root) ==  \* faulty: registered before there is a key
    << RecordFile(FoundRecord(c, me), root), ListFile("map", c), GrantFile(me, FoundingGrant(me, c, root)) >>
\* `close protect`: the record, the founding grant, and the map.  It does not
\* look whether there is a drawer at the path already.
ToFound(me, c, root) ==
    << RecordFile(FoundRecord(c, me), root), GrantFile(me, FoundingGrant(me, c, root)), ListFile("map", c) >>

Protect(t, me, c) ==
    /\ Starts(t, "protect")
    /\ c \notin DOMAIN closes
    /\ \A u \in Busy : command[u].do = "protect" => command[u].close # c
    /\ \E root \in {r \in ContentKeys : Fresh(r)} :
          command' = [command EXCEPT ![t] =
              Write([do |-> "protect", me |-> me, close |-> c, except |-> {}, held |-> <<>>],
                    ToFound(me, c, root))]
    /\ UNCHANGED <<files, minted, done, trouble>>

\* `close cell new`: refuses a path at which a signpost stands, and reads the
\* map for the close that governs it; the index is then read once more.
Raise(t, me, path) ==
    /\ Starts(t, "raise")
    /\ lists["index"] # Torn /\ ~ Lists("index", path)
    /\ lists["map"] # Torn
    /\ command' = [command EXCEPT ![t] =
          Write([do |-> "raise", me |-> me, close |-> Commons, except |-> {}, held |-> <<>>],
                << ListFile("index", path) >>)]
    /\ trouble' = [trouble EXCEPT !.twins =
          IF \E u \in Busy : command[u].do = "raise" /\ File(u).entry = path
          THEN @ \cup {path} ELSE @]
    /\ UNCHANGED <<files, minted, done>>

\* `close share`, up to the record.
Share(t, me, c, with, facet) ==
    /\ Starts(t, "share")
    /\ Loads(c)
    /\ command' = [command EXCEPT ![t] =
          [at |-> "loaded", do |-> "share", me |-> me, close |-> c, except |-> {}, held |-> <<>>,
           with |-> with, facet |-> facet, rec |-> closes[c]]]
    /\ UNCHANGED <<files, minted, done, trouble>>

\* What a share will add, as a set of one or, when it is refused, of none: by
\* the steward a root grant, by anyone else a narrower copy of the first of
\* theirs wide enough.
ToShare(k) ==
    LET held == GrantsFor(k.me)
        wide == {i \in HeldOn(held, k.rec, 0) : Leaf(held[i]).facet >= k.facet}
        mine == held[First(wide)]
        may == MayAttenuate(mine, k.me, k.rec, k.facet, {}, Leaf(mine).prefix, Leaf(mine).expires)
    IN  IF k.rec.steward = k.me
        THEN IF CurrentKey(k.me, k.rec) = NoKey THEN {}
             ELSE {IssueRoot(k.rec, k.me, CurrentKey(k.me, k.rec), k.rec.epoch,
                             k.with, k.facet, {}, <<>>, Never)}
        ELSE IF wide = {} \/ ~ may THEN {}
        ELSE {Attenuate(mine, k.me, k.rec, k.with, k.facet, {}, Leaf(mine).prefix, Leaf(mine).expires)}

\* It reads the grants of whoever shares, and makes the new one.
Settle(t) ==
    /\ command[t].at = "loaded" /\ command[t].do = "share"
    /\ \E g \in ToShare(command[t]) :
          command' = [command EXCEPT ![t] = Write(@, << GrantFile(@.with, g) >>)]
    /\ UNCHANGED <<files, budget, minted, done, trouble>>

\* History: what p reads of a close, at any epoch.
Readings(p, rec) == {facet \in Lanes : \E e \in 0..rec.epoch : KeyFor(p, rec, facet, e) # NoKey}

\* `close rotate`, up to the record, which only its steward goes on from.
Rotate(t, me, c, except) ==
    /\ Starts(t, "rotate")
    /\ Loads(c)
    /\ closes[c].steward = me
    /\ command' = [command EXCEPT ![t] =
          [at |-> "loaded", do |-> "rotate", me |-> me, close |-> c, except |-> except,
           held |-> [p \in People |-> Readings(p, closes[c])], rec |-> closes[c]]]
    /\ trouble' = [trouble EXCEPT !.raced =
          IF \E u \in Busy : command[u].do = "rotate" /\ command[u].close = c
          THEN @ \cup {c} ELSE @]
    /\ UNCHANGED <<files, minted, done>>

\* It finds the current key...
FindKey(t) ==
    /\ command[t].at = "loaded" /\ command[t].do = "rotate"
    /\ CurrentKey(command[t].me, command[t].rec) # NoKey
    /\ command' = [command EXCEPT ![t] =
          [at |-> "gather", do |-> "rotate", me |-> @.me, close |-> @.close, except |-> @.except,
           held |-> @.held, rec |-> @.rec, key |-> CurrentKey(@.me, @.rec),
           left |-> Without(Order, @.except), keepers |-> <<>>]]
    /\ UNCHANGED <<files, budget, minted, done, trouble>>

\* ...or a share or a rotation is refused for want of one.
Refuse(t) ==
    /\ command[t].at = "loaded"
    /\ IF command[t].do = "share" THEN ToShare(command[t]) = {}
       ELSE CurrentKey(command[t].me, command[t].rec) = NoKey
    /\ command' = [command EXCEPT ![t] = Idle]
    /\ UNCHANGED <<files, budget, minted, done, trouble>>

KeeperWeakest(p, held) ==  \* faulty: the least that is held
    [who |-> p, facet |-> CHOOSE f \in {Leaf(g).facet : g \in held} : \A g \in held : f <= Leaf(g).facet,
     powers |-> UNION {Leaf(g).powers : g \in held}]
\* A keeper: whom to re-issue what.
Keeper(p, held) ==
    [who |-> p, facet |-> Best(held), powers |-> UNION {Leaf(g).powers : g \in held}]

\* It reads the grants of one person after the other.
Gather(t) ==
    /\ command[t].at = "gather" /\ command[t].left # <<>>
    /\ LET p == Head(command[t].left)
           held == HeldBy(p, command[t].rec)
       IN  command' = [command EXCEPT ![t].left = Tail(@),
                       ![t].keepers = IF held = {} THEN @ ELSE Append(@, Keeper(p, held))]
    /\ UNCHANGED <<files, budget, minted, done, trouble>>

ReissueTo(rec, me, key, keepers) ==
    [i \in 1..Len(keepers) |->
        GrantFile(keepers[i].who, IssueRoot(rec, me, key, rec.epoch, keepers[i].who, keepers[i].facet,
                                            keepers[i].powers, <<>>, Never))]

ToRotateKeyless(k, root) ==  \* faulty: grants of the lock that was
    LET rec == RotateRecord(k.rec, k.key, MintKey(root, k.close))
    IN  << RecordFile(rec, root) >> \o ReissueTo(rec, k.me, k.key, k.keepers)
ToRotateShort(k, root) ==  \* faulty: the last keeper is forgotten
    LET rec == RotateRecord(k.rec, k.key, MintKey(root, k.close))
    IN  << RecordFile(rec, root) >>
        \o ReissueTo(rec, k.me, MintKey(root, k.close), SubSeq(k.keepers, 1, Len(k.keepers) - 1))
\* The new record, and a grant for every keeper.
ToRotate(k, root) ==
    LET rec == RotateRecord(k.rec, k.key, MintKey(root, k.close))
    IN  << RecordFile(rec, root) >> \o ReissueTo(rec, k.me, MintKey(root, k.close), k.keepers)

\* The lock is changed, on paper.
ChangeLock(t) ==
    /\ command[t].at = "gather" /\ command[t].left = <<>>
    /\ \E root \in {r \in ContentKeys : Fresh(r)} :
          command' = [command EXCEPT ![t] = Write(@, ToRotate(@, root))]
    /\ UNCHANGED <<files, budget, minted, done, trouble>>

-----------------------------------------------------------------------------
\* Writing the files.

CountFromOne(t) ==  \* faulty: the first file is the second
    /\ command[t].at = "prepare" /\ File(t).is = "grant"
    /\ command' = [command EXCEPT ![t].at = "open", ![t].n = Len(grants[File(t).who]) + 2]
    /\ UNCHANGED <<files, budget, minted, done, trouble>>
CountReadable(t) ==  \* faulty: a file that does not decode is not counted
    /\ command[t].at = "prepare" /\ File(t).is = "grant"
    /\ command' = [command EXCEPT ![t].at = "open", ![t].n = Len(GrantsFor(File(t).who)) + 1]
    /\ UNCHANGED <<files, budget, minted, done, trouble>>
\* Repo::add_grant names the file by counting those that are there.
Count(t) ==
    /\ command[t].at = "prepare" /\ File(t).is = "grant"
    /\ command' = [command EXCEPT ![t].at = "open", ![t].n = Len(grants[File(t).who]) + 1]
    /\ trouble' = [trouble EXCEPT !.crowded =
          IF \E u \in Busy \ {t} : /\ command[u].at = "open" /\ File(u).is = "grant"
                                   /\ File(u).who = File(t).who
          THEN @ \cup {File(t).who} ELSE @]
    /\ UNCHANGED <<files, budget, minted, done>>

ReadListAfresh(t) ==  \* faulty: what is listed already is not read
    /\ command[t].at = "prepare" /\ File(t).is = "list"
    /\ command' = [command EXCEPT ![t].at = "open", ![t].read = <<File(t).entry>>]
    /\ UNCHANGED <<files, budget, minted, done, trouble>>
\* Repo::closemap, Repo::cell_index; a list that does not parse fails the
\* command.
ReadList(t) ==
    /\ command[t].at = "prepare" /\ File(t).is = "list"
    /\ LET list == File(t).list
       IN  /\ command' = [command EXCEPT ![t] =
                 IF lists[list] = Torn THEN Idle
                 ELSE [command[t] EXCEPT !.at = "open", !.read = Append(lists[list], File(t).entry)]]
           /\ trouble' = [trouble EXCEPT !.lists =
                 IF \E u \in Busy \ {t} : /\ command[u].at \in {"open", "fill"} /\ File(u).is = "list"
                                          /\ File(u).list = list
                 THEN @ \cup {list} ELSE @]
    /\ UNCHANGED <<files, budget, minted, done>>

\* fs::write opens the file, which creates or empties it...
Open(t) ==
    /\ command[t].at = "open"
    /\ command' = [command EXCEPT ![t].at = "fill"]
    /\ \/ /\ File(t).is = "record"
          /\ closes' = With(closes, command[t].close, Torn)
          /\ UNCHANGED <<lists, grants>>
       \/ /\ File(t).is = "grant"
          /\ grants' = [grants EXCEPT ![File(t).who] = With(@, command[t].n, Torn)]
          /\ UNCHANGED <<closes, lists>>
       \/ /\ File(t).is = "list"
          /\ lists' = [lists EXCEPT ![File(t).list] = Torn]
          /\ UNCHANGED <<closes, grants>>
    /\ UNCHANGED <<budget, minted, done, trouble>>

\* What a command wrote, once it is done.
Wrote(t, is) ==
    LET all == command[t].all IN {all[i] : i \in {j \in 1..Len(all) : all[j].is = is}}

\* ...and writes it.  Of two that had a record or a list open at once the second
\* may have the shorter text: then the end of the first one's is left behind
\* it, and what is there does not parse.
Fill(t) ==
    /\ command[t].at = "fill"
    /\ command' = [command EXCEPT ![t] = WriteNext(@, Tail(@.todo))]
    /\ done' = IF Tail(command[t].todo) # <<>> THEN done
               ELSE [grants |-> done.grants \cup {w.grant : w \in Wrote(t, "grant")},
                     listed |-> done.listed \cup {<<w.list, w.entry>> : w \in Wrote(t, "list")}]
    /\ \/ /\ File(t).is = "record"
          /\ \E rec \in {File(t).rec} \cup IF closes[command[t].close] = Torn THEN {} ELSE {Torn} :
                closes' = [closes EXCEPT ![command[t].close] = rec]
          /\ minted' = With(minted, command[t].close,
                            IF command[t].do = "protect" THEN <<File(t).root>>
                            ELSE Append(minted[command[t].close], File(t).root))
          /\ UNCHANGED <<lists, grants>>
       \/ /\ File(t).is = "grant"
          /\ grants' = [grants EXCEPT ![File(t).who][command[t].n] = File(t).grant]
          /\ UNCHANGED <<closes, lists, minted>>
       \/ /\ File(t).is = "list"
          /\ \E text \in {command[t].read} \cup IF lists[File(t).list] = Torn THEN {} ELSE {Torn} :
                lists' = [lists EXCEPT ![File(t).list] = text]
          /\ UNCHANGED <<closes, grants, minted>>
    /\ UNCHANGED <<budget, trouble>>

\* Whether the record of t's rotation is being written or has been, while the
\* steward's grant under the new lock is not there yet.
HalfRotated(t) ==
    /\ Writing(t) /\ command[t].do = "rotate"
    /\ IF File(t).is = "record" THEN command[t].at = "fill"
       ELSE \E i \in 1..Len(command[t].todo) : command[t].todo[i].who = command[t].me

\* A command is killed.
Kill(t) ==
    /\ t \in Busy
    /\ budget.kill > 0
    /\ budget' = [budget EXCEPT !.kill = @ - 1]
    /\ command' = [command EXCEPT ![t] = Idle]
    /\ trouble' = [trouble EXCEPT
          !.killed = TRUE,
          !.stranded = IF HalfRotated(t) THEN @ \cup {command[t].close} ELSE @,
          !.lists = IF command[t].at = "fill" /\ File(t).is = "list" THEN @ \cup {File(t).list} ELSE @]
    /\ UNCHANGED <<files, minted, done>>

-----------------------------------------------------------------------------
\* `close init` was run, and `close id new` for everybody else.
Init ==
    \E root \in ContentKeys :
        /\ closes = [c \in {Commons} |-> FoundRecord(c, Founder)]
        /\ lists = [map |-> <<Commons>>, index |-> <<>>]
        /\ grants = [p \in People |-> IF p = Founder THEN <<FoundingGrant(p, Commons, root)>> ELSE <<>>]
        /\ command = [t \in Terminals |-> Idle]
        /\ budget \in Budgets
        /\ minted = [c \in {Commons} |-> <<root>>]
        /\ done = [grants |-> {FoundingGrant(Founder, Commons, root)}, listed |-> {<<"map", Commons>>}]
        /\ trouble = NoTrouble

Next ==
    \/ \E t \in Terminals, me \in People, c \in Closes : Protect(t, me, c)
    \/ \E t \in Terminals, me \in People, c \in Closes, with \in Receivers, facet \in ShareFacets :
          Share(t, me, c, with, facet)
    \/ \E t \in Terminals, me \in People, path \in Signposts : Raise(t, me, path)
    \/ \E t \in Terminals : Settle(t)
    \/ \E t \in Terminals, me \in People, c \in Closes, except \in SUBSET Excludable :
          Rotate(t, me, c, except)
    \/ \E t \in Terminals : FindKey(t)
    \/ \E t \in Terminals : Refuse(t)
    \/ \E t \in Terminals : Gather(t)
    \/ \E t \in Terminals : ChangeLock(t)
    \/ \E t \in Terminals : Count(t)
    \/ \E t \in Terminals : ReadList(t)
    \/ \E t \in Terminals : Open(t)
    \/ \E t \in Terminals : Fill(t)
    \/ \E t \in Terminals : Kill(t)

Spec == Init /\ [][Next]_vars

-----------------------------------------------------------------------------
\* What the state should satisfy.

Readable(c) == c \in DOMAIN closes /\ closes[c] # Torn

\* Grants are numbered without a gap, whatever overlapped or was killed: the
\* next one is found by counting.
FolderTypeOK ==
    /\ DOMAIN minted \subseteq DOMAIN closes /\ DOMAIN closes \subseteq Closes
    /\ \A c \in DOMAIN closes : Readable(c) => closes[c] \in Record(People) /\ closes[c].id = c
    /\ \A c \in Closes : Lists("map", c) => c \in DOMAIN closes
    /\ \A p \in People : \E n \in 0..Cardinality(DOMAIN grants[p]) :
          /\ DOMAIN grants[p] = 1..n
          /\ \A i \in 1..n : grants[p][i] # Torn => Leaf(grants[p][i]).holder = p
    /\ done.grants \subseteq Grant

\* Whatever overlaps and whatever is killed, records and grants agree: the
\* chain of every record and the labels of every grant tell the truth about
\* the keys inside, although the record, the key and the grants were read at
\* different moments.  The one exception is a close of which two rotations ran
\* at once.
FilesAgree ==
    \A c \in DOMAIN closes \ trouble.raced : Readable(c) =>
        /\ TruthfulTo(closes[c], minted[c])
        /\ \A p \in People : \A i \in 1..Len(GrantsFor(p)) :
              LET g == GrantsFor(p)[i]
              IN  Leaf(g).close = c =>
                    /\ SoundTo(g, closes[c])
                    /\ \A j \in 1..Len(g) : LabelTrueTo(g[j], closes[c], minted[c])

\* The close map never leads to a drawer that nobody can open, or whose lock
\* can no longer be changed: its record parses and its steward finds the key
\* that was drawn last; unless a rotation is between the two (main.rs:550) or
\* was killed there, the steward's new grant was overwritten or the steward
\* left out, or two rotations ran at once (repo.rs:225).
StewardKeepsTheLock ==
    \A c \in Closes \ trouble.raced : Lists("map", c) =>
        \/ /\ Readable(c)
           /\ CurrentKey(closes[c].steward, closes[c]) = MintKey(minted[c][Len(minted[c])], c)
        \/ \E t \in Busy : command[t].close = c /\ HalfRotated(t)
        \/ c \in trouble.stranded
        \/ Readable(c) /\ closes[c].steward \in trouble.crowded \cup Excludable

\* What a command reported as handed out is on disk for good, unless two
\* commands were adding a grant to the same person at once (repo.rs:281).
GivenIsKept ==
    \A g \in done.grants :
        \/ \E i \in 1..Len(grants[Leaf(g).holder]) : grants[Leaf(g).holder][i] = g
        \/ Leaf(g).holder \in trouble.crowded

\* What protect reported as a locked drawer stays on the close map, and what
\* cell new reported as a signpost on the index; and the lists parse whenever
\* nobody is writing them.  But for two commands that were rewriting a list at
\* once, or one killed at it (main.rs:300, repo.rs:648).  A signpost is listed
\* once, unless two `cell new` both found its path free (repo.rs:629).
ListedStays ==
    \A list \in DOMAIN lists \ trouble.lists :
        \/ lists[list] = Torn /\ \E t \in Busy : /\ command[t].at = "fill" /\ File(t).is = "list"
                                                /\ File(t).list = list
        \/ /\ \A entry \in {w[2] : w \in {d \in done.listed : d[1] = list}} : Lists(list, entry)
           /\ lists[list] # Torn
           /\ list = "index" =>
                 \A i, j \in 1..Len(lists[list]) :
                     i # j /\ lists[list][i] = lists[list][j] => lists[list][i] \in trouble.twins

-----------------------------------------------------------------------------
\* What a step should satisfy.

RotationDone(t) ==
    /\ command[t].at = "fill" /\ command[t].do = "rotate" /\ Len(command[t].todo) = 1
    /\ command'[t] = Idle
    /\ done' # done

\* Whoever read a drawer when a rotation of it began, and was not left out,
\* reads it under the new lock when it is done, whatever ran meanwhile.
KeepersKeepUp ==
    [][\A t \in Busy :
        LET c == command[t].close
        IN  RotationDone(t) /\ c \notin trouble.raced =>
                \A p \in People \ (command[t].except \cup trouble.crowded) :
                    \A facet \in command[t].held[p] :
                        FacetKeyFor(Without(grants'[p], {Torn}), p, closes'[c],
                                    facet, closes'[c].epoch, 0) # NoKey]_vars

\* One command at a time, none killed: the files between its first write and
\* its last are for nobody to see, and it is one step of Drawer.
Standing ==
    IF \E t \in Busy : Writing(t)
    THEN command[CHOOSE t \in Busy : Writing(t)].before
    ELSE [closes |-> closes, grants |-> grants, minted |-> minted]

Steps == INSTANCE Drawer WITH
    ids <- People, now <- 0,
    closes <- Standing.closes, grants <- Standing.grants, minted <- Standing.minted,
    SharePowers <- {{}}, ShareDays <- {Never}, MaxNow <- 0,
    MaxEpoch <- Most("rotate"), MaxGrants <- 1 + Most("share") + Most("rotate") + Most("protect")

ImplementsDrawer ==
    [][budget.atOnce = 1 /\ ~ trouble'.killed => Steps!Next \/ UNCHANGED Steps!vars]_vars
=============================================================================
