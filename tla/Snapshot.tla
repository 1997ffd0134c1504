------------------------------ MODULE Snapshot ------------------------------
(***************************************************************************)
(* `close keep`: sealing the working tree, object by object, into a commit *)
(* that the ref main then names (Repo::keep, snap_dir and snap_file of     *)
(* crates/close/src/repo.rs), and how a reader gets back to it.            *)
(*                                                                         *)
(* Nothing locks the folder.  While a keep runs, files are edited, drawers *)
(* are protected, locks are changed, and other keeps run; any of them may  *)
(* be killed between any two of its steps.  The close map and the records  *)
(* are rewritten in place: emptied first, and until they are written again *)
(* whoever wants to read them fails.  Here one protect and one rotation    *)
(* run at a time; Folder has more of them at once.                         *)
(*                                                                         *)
(* Keys are known here by their epoch only.  What a person's grants open   *)
(* is one number for each close and lane, the latest epoch they reach:     *)
(* Drawer shows it to be so (KeysExactlyByGrant).                          *)
(***************************************************************************)
EXTENDS Store, Integers, Sequences, FiniteSets

CONSTANTS
    People,
    Founder,      \* who ran `close init`, the steward of the commons
    Commons,      \* the close of the root
    Drawers,      \* the closes that may be founded besides
    DrawerPath,   \* the path each of them is for
    Walk,         \* the order in which snap_dir goes through the working tree
    ShareFacets,  \* the facets shares are asked for
    Insiders,     \* who was handed everything in the commons to begin with
    Budgets       \* bounds, one of which each behaviour keeps to: how many keeps
                  \* may run at once, how many may be started, how many edits,
                  \* protects, shares and rotations there may be, and how many
                  \* commands may be killed half way

Shape == 1
Content == 2
Lanes == {Shape, Content}
Closes == {Commons} \cup Drawers
Map == "map"      \* the close map, among the files that may be empty

Root == <<>>
Most(field) == CHOOSE n \in {b[field] : b \in Budgets} : \A b \in Budgets : b[field] <= n
Terminals == 1..Most("atOnce")

Folders == {Walk[i].path : i \in {j \in 1..Len(Walk) : Walk[j].do = "enter"}}
Paths == {Walk[i].path : i \in {j \in 1..Len(Walk) : Walk[j].do = "snap"}}
Files == Paths \ Folders
IsPrefix(above, path) == Len(above) <= Len(path) /\ above = SubSeq(path, 1, Len(above))
Children(dir) == {p \in Paths : Len(p) = Len(dir) + 1 /\ IsPrefix(dir, p)}

Names == UNION {{Walk[i].path[j] : j \in 1..Len(Walk[i].path)} : i \in 1..Len(Walk)}

\* Everything is gone through once; a folder is entered before what it holds,
\* and sealed after it.
ASSUME SnapshotAssumption ==
    /\ Founder \in Insiders /\ Insiders \subseteq People
    /\ Commons \notin Drawers /\ None \notin Drawers /\ Map \notin Closes
    /\ DrawerPath \in [Drawers -> Paths \ {Root}]
    /\ ShareFacets \subseteq Lanes
    /\ Walk \in Seq([do : {"enter", "snap"}, path : Seq(Names)]) /\ Len(Walk) > 0
    /\ Walk[Len(Walk)] = [do |-> "snap", path |-> Root]
    /\ \A i, j \in 1..Len(Walk) : Walk[i] = Walk[j] => i = j
    /\ \A i \in 1..Len(Walk) : Walk[i].do = "snap" =>
          /\ \A p \in Children(Walk[i].path) : \E j \in 1..(i - 1) : Walk[j] = [do |-> "snap", path |-> p]
          /\ Walk[i].path \in Folders =>
                \E j \in 1..(i - 1) : Walk[j] = [do |-> "enter", path |-> Walk[i].path]
    /\ \A p \in Paths : \A i \in 0..(Len(p) - 1) : SubSeq(p, 1, i) \in Folders
    /\ Root \in Folders /\ Folders \subseteq Paths
    /\ Budgets \subseteq [atOnce : Nat, keeps : Nat, changes : Nat, kills : Nat]
    /\ \A field \in {"atOnce", "keeps", "changes", "kills"} :
          \E most \in Budgets : \A b \in Budgets : b[field] <= most[field]

VARIABLES
    work,       \* the working tree: which version of its text each file holds
    closemap,   \* .cc/closemap.json: the paths registered, with their closes
    epoch,      \* the epoch of the record of every close founded
    torn,       \* the closes whose record is empty, and Map if the close map is
    reach,      \* reach[c][p][lane]: the latest epoch of c whose key p has, or -1
    founding,   \* the close of the `close protect` under way, None when there is none
    rotation,   \* the `close rotate` under way, None when there is none
    keep,       \* what each terminal's `close keep` is at
    budget,     \* bound: what may still happen
    named,      \* history: the commit that a keep last wrote into main
    killed,     \* history: some keep, protect or rotation was killed
    cut,        \* history: a keep was killed while main was empty, since then
    contested   \* history: objects that two keeps were writing at once

files == <<objects, drafts, main>>
locks == <<closemap, epoch, torn, reach, founding, rotation>>
history == <<named, killed, cut, contested>>
vars == <<objects, drafts, main, work, closemap, epoch, torn, reach, founding, rotation, keep,
          budget, named, killed, cut, contested>>

-----------------------------------------------------------------------------
\* Repo::governing, on the first n registrations: the longest prefix, and the
\* last registered of equals.
GoverningAt(n, path) ==
    LET above == {i \in 1..n : IsPrefix(closemap[i].path, path)}
        best == CHOOSE i \in above : \A j \in above :
                    \/ Len(closemap[j].path) < Len(closemap[i].path)
                    \/ Len(closemap[j].path) = Len(closemap[i].path) /\ j <= i
    IN  closemap[best].close
Governing(path) == GoverningAt(Len(closemap), path)

\* Repo::load_close of the close that governs some path.
Loads(c) ==
    /\ Map \notin torn /\ \E path \in Paths : Governing(path) = c
    /\ c \notin torn

HasKeyUnwalked(p, c, lane, e) ==  \* faulty: the chain is never walked back
    c \in DOMAIN epoch \ torn /\ e = reach[c][p][lane]
\* Repo::load_close and Repo::facet_key_for: a key reaches its own epoch and,
\* down the chain, all those before; but the chain is in the record.
HasKey(p, c, lane, e) == c \in DOMAIN epoch \ torn /\ e <= reach[c][p][lane]

\* ObjectKind::payload_facet: listings open at the label, the rest does not.
PayloadLane(kind) == IF kind = "tree" THEN Shape ELSE Content

\* SealedObject::seal: deterministic in all of its inputs, so that a
\* content-addressed store knows it again.
Sealed(kind, c, e, body) == [kind |-> kind, close |-> c, epoch |-> e, body |-> body]

\* The bodies: of a blob its text, of a tree the addresses of its entries, of
\* a commit that of its tree, those of its parents and who made it.
BlobBody(text) == [text |-> text, entries |-> <<>>, parents |-> <<>>, author |-> None]
TreeBody(entries) == [text |-> 0, entries |-> entries, parents |-> <<>>, author |-> None]
CommitBody(tree, parents, author) ==
    [text |-> 0, entries |-> [p \in {Root} |-> tree], parents |-> parents, author |-> author]

-----------------------------------------------------------------------------
\* Reading back (load_sealed, open_tree, open_blob, commit_at, resolve_path).

Opens(p, a) == Gets(a) /\ HasKey(p, a.close, PayloadLane(a.kind), a.epoch)

\* The commits met from main on, as far as each can be opened by p.
HistoryOf(p) ==
    LET met[n \in 0..Most("keeps")] ==
            IF n = 0 THEN IF main = None THEN <<>> ELSE <<main>>
            ELSE LET so == met[n - 1]
                 IN  IF so = <<>> \/ ~ Opens(p, so[Len(so)]) THEN so
                     ELSE so \o so[Len(so)].body.parents
    IN  met[Most("keeps")]

\* The address of what a commit has at a path.
ObjectAt(commit, path) ==
    LET at[i \in 0..Len(path)] ==
            IF i = 0 THEN commit.body.entries[Root]
            ELSE at[i - 1].body.entries[SubSeq(path, 1, i)]
    IN  at[Len(path)]

\* Repo::resolve_path, and opening what it leads to.
Shows(p, commit, path) ==
    /\ \A i \in 0..Len(path) : Opens(p, ObjectAt(commit, SubSeq(path, 1, i)))
    /\ Opens(p, commit)

-----------------------------------------------------------------------------
\* `close keep`.

Idle == [phase |-> "idle"]
Busy == {t \in Terminals : keep[t] # Idle}

Spend(field) == budget[field] > 0 /\ budget' = [budget EXCEPT ![field] = @ - 1]

\* A keep starts, at the first idle terminal.  History: what everything was then, and whether it is alone.
Keep(t, who) ==
    /\ t \in 1..budget.atOnce
    /\ keep[t] = Idle /\ \A u \in 1..(t - 1) : keep[u] # Idle
    /\ Spend("keeps")
    /\ keep' = [u \in Terminals |->
          IF u = t
          THEN [phase |-> "walk", who |-> who, at |-> 1, under |-> <<>>, made |-> <<>>,
                close |-> None, epoch |-> 0, object |-> None, moved |-> FALSE,
                alone |-> Busy = {},
                began |-> [work |-> work, map |-> Len(closemap), epoch |-> epoch]]
          ELSE IF u \in Busy THEN [keep[u] EXCEPT !.alone = FALSE] ELSE Idle]
    /\ UNCHANGED <<files, work, locks, history>>

\* What comes next: something of the working tree or, after it, the commit.
Item(k) == IF k.at <= Len(Walk) THEN Walk[k.at] ELSE [do |-> "commit", path |-> Root]

HomeOutside(k) ==  \* faulty: the close of the folder that it is in
    IF Item(k).do = "commit" \/ Item(k).path = Root THEN Commons
    ELSE Governing(SubSeq(Item(k).path, 1, Len(Item(k).path) - 1))
\* The close it will be sealed into.  That of a folder was read on entering.
HomeOf(k) ==
    IF Item(k).do = "commit" THEN Commons
    ELSE IF Item(k).path \in Folders THEN k.under[Item(k).path]
    ELSE Governing(Item(k).path)

EnterEmptying(t) ==  \* faulty: the ref is opened for writing before it is due
    /\ keep[t].phase = "walk"
    /\ Item(keep[t]).do = "enter"
    /\ Map \notin torn
    /\ keep' = [keep EXCEPT ![t].under = Set(@, Item(keep[t]).path, Governing(Item(keep[t]).path)),
                            ![t].at = @ + 1]
    /\ EmptyRef
    /\ UNCHANGED <<objects, drafts, work, locks, budget, history>>

\* snap_dir, entering a folder.
Enter(t) ==
    /\ keep[t].phase = "walk"
    /\ Item(keep[t]).do = "enter"
    /\ Map \notin torn
    /\ LET dir == Item(keep[t]).path
       IN  keep' = [keep EXCEPT ![t].under = Set(@, dir, Governing(dir)), ![t].at = @ + 1]
    /\ UNCHANGED <<files, work, locks, budget, history>>

\* Whether the close map parses, where it is asked for the close: by folders
\* when they are entered, by files, and not by the commit.
Located(k) == Item(k).path \in Files \/ Item(k).do = "enter" => Map \notin torn

\* Whether the record parses, and current_content_key finds the key that
\* sealing takes.
MayWrite(k) == Located(k) /\ HasKey(k.who, HomeOf(k), Content, epoch[HomeOf(k)])

\* load_close and current_content_key.
Look(t) ==
    /\ keep[t].phase = "walk"
    /\ Item(keep[t]).do # "enter"
    /\ MayWrite(keep[t])
    /\ keep' = [keep EXCEPT ![t].phase = "looked", ![t].close = HomeOf(keep[t]),
                            ![t].epoch = epoch[HomeOf(keep[t])]]
    /\ UNCHANGED <<files, work, locks, budget, history>>

\* "You cannot write", or a file does not parse: the keep fails, and leaves
\* what it stored so far.
Refuse(t) ==
    /\ keep[t].phase = "walk"
    /\ IF Item(keep[t]).do = "enter" THEN ~ Located(keep[t]) ELSE ~ MayWrite(keep[t])
    /\ keep' = [keep EXCEPT ![t] = Idle]
    /\ UNCHANGED <<files, work, locks, budget, history>>

ToSealOrphan(k) ==  \* faulty: a commit without parents
    LET path == Item(k).path
    IN  IF Item(k).do = "commit"
        THEN Sealed("commit", k.close, k.epoch, CommitBody(k.made[Root], <<>>, k.who))
        ELSE IF path \in Folders
        THEN Sealed("tree", k.close, k.epoch, TreeBody([p \in Children(path) |-> k.made[p]]))
        ELSE Sealed("blob", k.close, k.epoch, BlobBody(work[path]))

\* What is to be sealed: the text of the file and the head of main are read
\* only now, after the record and the key.
ToSeal(k) ==
    LET path == Item(k).path
    IN  IF Item(k).do = "commit"
        THEN Sealed("commit", k.close, k.epoch,
                    CommitBody(k.made[Root], IF main = None THEN <<>> ELSE <<main>>, k.who))
        ELSE IF path \in Folders
        THEN Sealed("tree", k.close, k.epoch, TreeBody([p \in Children(path) |-> k.made[p]]))
        ELSE Sealed("blob", k.close, k.epoch, BlobBody(work[path]))

StoredTree(k, a) ==  \* faulty: main gets the address of the tree
    IF Item(k).do = "commit" THEN [k EXCEPT !.phase = "stored", !.object = k.made[Root]]
    ELSE [k EXCEPT !.phase = "walk", !.at = @ + 1, !.made = Set(@, Item(k).path, a),
                   !.close = None, !.epoch = 0, !.object = None, !.moved = FALSE]

\* The keep with object a stored: on to the next item, or to naming the commit.
Stored(k, a) ==
    IF Item(k).do = "commit" THEN [k EXCEPT !.phase = "stored", !.object = a]
    ELSE [k EXCEPT !.phase = "walk", !.at = @ + 1, !.made = Set(@, Item(k).path, a),
                   !.close = None, !.epoch = 0, !.object = None, !.moved = FALSE]

\* Seal, and put: nothing to do where something stands at the address.
Seal(t) ==
    /\ keep[t].phase = "looked"
    /\ LET a == ToSeal(keep[t])
       IN  keep' = [keep EXCEPT ![t] =
              IF Exists(a) THEN Stored(@, a) ELSE [@ EXCEPT !.phase = "missing", !.object = a]]
    /\ UNCHANGED <<files, work, locks, budget, history>>

\* The keeps that have the temporary file of a open, or have just filled it.
Writing(a) == {t \in Busy : keep[t].phase \in {"opened", "filled"} /\ keep[t].object = a}

Open(t) ==
    /\ keep[t].phase = "missing"
    /\ OpenDraft(keep[t].object)
    /\ keep' = [keep EXCEPT ![t].phase = "opened", ![t].moved = FALSE]
    /\ contested' = IF Writing(keep[t].object) = {} THEN contested
                    ELSE contested \cup {keep[t].object}
    /\ UNCHANGED <<main, work, locks, budget, named, killed, cut>>

Fill(t) ==
    /\ keep[t].phase = "opened"
    /\ FillDraft(keep[t].object, keep[t].moved)
    /\ keep' = [keep EXCEPT ![t].phase = "filled"]
    /\ UNCHANGED <<main, work, locks, budget, history>>

\* Whoever else has the temporary file open goes on writing to what is now
\* the object itself.
MoveIn(t) ==
    /\ keep[t].phase = "filled"
    /\ CanRename(keep[t].object)
    /\ Rename(keep[t].object)
    /\ keep' = [u \in Terminals |->
          IF u = t THEN Stored(keep[t], keep[t].object)
          ELSE IF u \in Writing(keep[t].object) THEN [keep[u] EXCEPT !.moved = TRUE]
          ELSE keep[u]]
    /\ UNCHANGED <<main, work, locks, budget, history>>

\* The temporary file is gone: put fails, and the keep with it.
Fail(t) ==
    /\ keep[t].phase = "filled"
    /\ ~ CanRename(keep[t].object)
    /\ keep' = [keep EXCEPT ![t] = Idle]
    /\ UNCHANGED <<files, work, locks, budget, history>>

\* set_ref("main"), in its two steps.
Empty(t) ==
    /\ keep[t].phase = "stored"
    /\ EmptyRef
    /\ keep' = [keep EXCEPT ![t].phase = "naming"]
    /\ UNCHANGED <<objects, drafts, work, locks, budget, history>>

Name(t) ==
    /\ keep[t].phase = "naming"
    /\ WriteRef(keep[t].object)
    /\ keep' = [keep EXCEPT ![t] = Idle]
    /\ named' = keep[t].object
    /\ cut' = FALSE
    /\ UNCHANGED <<objects, drafts, work, locks, budget, killed, contested>>

\* A keep is killed.
Kill(t) ==
    /\ t \in Busy
    /\ Spend("kills")
    /\ killed' = TRUE
    /\ keep' = [keep EXCEPT ![t] = Idle]
    /\ cut' = (cut \/ keep[t].phase = "naming")
    /\ UNCHANGED <<files, work, locks, named, contested>>

-----------------------------------------------------------------------------
\* What goes on meanwhile.

Edit(path) ==
    /\ Spend("changes")
    /\ work' = [work EXCEPT ![path] = @ + 1]
    /\ UNCHANGED <<files, locks, keep, history>>

\* `close protect`, also of a path that has been protected before: the record
\* and the founding grant, and the map is opened for writing...
Protect(me, c) ==
    /\ Spend("changes")
    /\ founding = None /\ Map \notin torn
    /\ c \notin DOMAIN epoch
    /\ epoch' = Set(epoch, c, 0)
    /\ reach' = Set(reach, c, [p \in People |-> [lane \in Lanes |-> IF p = me THEN 0 ELSE -1]])
    /\ founding' = c
    /\ torn' = torn \cup {Map}
    /\ UNCHANGED <<files, work, closemap, rotation, keep, history>>

\* ...and written.
Register ==
    /\ founding # None
    /\ closemap' = Append(closemap, [path |-> DrawerPath[founding], close |-> founding])
    /\ torn' = torn \ {Map}
    /\ founding' = None
    /\ UNCHANGED <<files, work, epoch, reach, rotation, keep, budget, history>>

\* `close share`: some of the readings the giver has.
Share(me, c, with, facet, e) ==
    /\ Spend("changes")
    /\ Loads(c)
    /\ e \in 0..reach[c][me][facet]
    /\ e > reach[c][with][facet]
    /\ reach' = [reach EXCEPT ![c][with] =
          [lane \in Lanes |-> IF lane <= facet /\ @[lane] < e THEN e ELSE @[lane]]]
    /\ UNCHANGED <<files, work, closemap, epoch, torn, founding, rotation, keep, history>>

\* `close rotate`: who keeps up is settled, and the record is opened for
\* writing...
ChangeLock(c, except) ==
    /\ Spend("changes")
    /\ rotation = None
    /\ Loads(c)
    /\ \E steward \in People : HasKey(steward, c, Content, epoch[c])
    /\ rotation' = [saved |-> FALSE, close |-> c,
                    keepers |-> {p \in People \ except : \E lane \in Lanes : reach[c][p][lane] >= 0}]
    /\ torn' = torn \cup {c}
    /\ UNCHANGED <<files, work, closemap, epoch, reach, founding, keep, history>>

\* ...and saved, with the chain and the epoch of the new lock...
SaveClose ==
    /\ rotation # None /\ ~ rotation.saved
    /\ epoch' = [epoch EXCEPT ![rotation.close] = @ + 1]
    /\ torn' = torn \ {rotation.close}
    /\ rotation' = [rotation EXCEPT !.saved = TRUE]
    /\ UNCHANGED <<files, work, closemap, reach, founding, keep, budget, history>>

\* ...and grants re-issued to those who keep up, in every lane they read.
Reissue ==
    /\ rotation # None /\ rotation.saved
    /\ reach' = [reach EXCEPT ![rotation.close] =
          [p \in People |-> [lane \in Lanes |->
              IF p \in rotation.keepers /\ @[p][lane] >= 0 THEN epoch[rotation.close] ELSE @[p][lane]]]]
    /\ rotation' = None
    /\ UNCHANGED <<files, work, closemap, epoch, torn, founding, keep, budget, history>>

\* A protect is killed: the map stays empty.
KillProtect ==
    /\ founding # None
    /\ Spend("kills")
    /\ killed' = TRUE
    /\ founding' = None
    /\ UNCHANGED <<files, work, closemap, epoch, torn, reach, rotation, keep, named, cut, contested>>

\* A rotation is killed: the record stays empty, or nobody has the key of the
\* new lock.
KillRotation ==
    /\ rotation # None
    /\ Spend("kills")
    /\ killed' = TRUE
    /\ rotation' = None
    /\ UNCHANGED <<files, work, closemap, epoch, torn, reach, founding, keep, named, cut, contested>>

-----------------------------------------------------------------------------
Init ==
    /\ objects = <<>> /\ drafts = <<>> /\ main = None
    /\ work = [f \in Files |-> 0]
    /\ closemap = << [path |-> Root, close |-> Commons] >>
    /\ epoch = [c \in {Commons} |-> 0]
    /\ torn = {}
    /\ reach = [c \in {Commons} |-> [p \in People |-> [lane \in Lanes |-> IF p \in Insiders THEN 0 ELSE -1]]]
    /\ founding = None /\ rotation = None
    /\ keep = [t \in Terminals |-> Idle]
    /\ budget \in Budgets
    /\ named = None /\ killed = FALSE /\ cut = FALSE /\ contested = {}

\* A keep that has started is run to its end by the system, unless it is killed.
Step(t) ==
    \/ Enter(t) \/ Look(t) \/ Refuse(t) \/ Seal(t) \/ Open(t) \/ Fill(t)
    \/ MoveIn(t) \/ Fail(t) \/ Empty(t) \/ Name(t)

Next ==
    \/ \E t \in Terminals, who \in People : Keep(t, who)
    \/ \E t \in Terminals : Enter(t)
    \/ \E t \in Terminals : Look(t)
    \/ \E t \in Terminals : Refuse(t)
    \/ \E t \in Terminals : Seal(t)
    \/ \E t \in Terminals : Open(t)
    \/ \E t \in Terminals : Fill(t)
    \/ \E t \in Terminals : MoveIn(t)
    \/ \E t \in Terminals : Fail(t)
    \/ \E t \in Terminals : Empty(t)
    \/ \E t \in Terminals : Name(t)
    \/ \E t \in Terminals : Kill(t)
    \/ \E f \in Files : Edit(f)
    \/ \E me \in People, c \in Drawers : Protect(me, c)
    \/ Register
    \/ \E me, with \in People, c \in Closes, facet \in ShareFacets, e \in 0..Most("changes") :
          Share(me, c, with, facet, e)
    \/ \E c \in Closes, except \in SUBSET (People \ {Founder}) : ChangeLock(c, except)
    \/ SaveClose
    \/ Reissue
    \/ KillProtect
    \/ KillRotation

Spec == Init /\ [][Next]_vars /\ \A t \in Terminals : WF_vars(Step(t))

-----------------------------------------------------------------------------
\* What the state should satisfy.

SnapshotTypeOK ==
    /\ \A a \in DOMAIN objects : objects[a] \in {"torn", "whole"} /\ a.close \in DOMAIN epoch
    /\ \A a \in DOMAIN drafts : drafts[a] \in {"torn", "whole"}
    /\ main = None \/ main.kind = "commit"
    /\ work \in [Files -> Nat]
    /\ DOMAIN epoch \subseteq Closes /\ DOMAIN reach = DOMAIN epoch
    /\ torn \subseteq DOMAIN epoch \cup {Map}
    /\ \A c \in DOMAIN epoch : \A p \in People, lane \in Lanes :
          epoch[c] \in Nat /\ reach[c][p][lane] \in -1..epoch[c]

\* The commits behind and including a, through their first parents.
Trail(a) ==
    LET met[n \in 0..Most("keeps")] ==
            IF n = 0 THEN IF a = None THEN <<>> ELSE <<a>>
            ELSE IF met[n - 1] = <<>> THEN <<>>
            ELSE met[n - 1] \o met[n - 1][Len(met[n - 1])].body.parents
    IN  met[Most("keeps")]

\* All that it takes to show what main names, and all that was before it.
Needed ==
    LET trail == Trail(main)
    IN  UNION {{trail[i]} \cup {ObjectAt(trail[i], p) : p \in Paths} : i \in 1..Len(trail)}

\* Whatever main names is in the store, with its whole tree and all that came
\* before, although keeps are killed, refused, or overlap.  The only object
\* that may be damaged is one that two keeps wrote at once, while one of them
\* is still at it or once any command was killed.
KeptIsWhole ==
    \A a \in Needed :
        \/ Gets(a)
        \/ a \in contested /\ (Writing(a) # {} \/ killed)

\* Nobody has a later reading of c than p.
ReadsMost(p, c) ==
    \A q \in People : reach[c][q][Content] <= reach[c][p][Content]

\* Whoever reads as much as anybody does of every drawer can walk the history
\* back to its beginning and open every path at every commit, as long as the
\* records of the closes in it parse: no rotation, finished, cut short after
\* its record was saved, or overlapping a keep, leaves an object sealed under a
\* key that is out of their reach.  While a record is being saved, and for good
\* if the rotation is killed there, nobody opens anything of its close
\* (repo.rs:225).
StoryReadable ==
    \A p \in People :
        /\ \A a \in Needed : Gets(a) /\ a.close \notin torn
        /\ \A c \in DOMAIN epoch : ReadsMost(p, c)
        => LET met == HistoryOf(p)
           IN  /\ met = Trail(main)
               /\ \A i \in 1..Len(met) : \A path \in Paths : Shows(p, met[i], path)

\* The epoch c had when keep k began.
EpochBefore(k, c) == IF c \in DOMAIN k.began.epoch THEN k.began.epoch[c] ELSE 0

\* A snapshot is of its time: each text is one that the file held while the
\* keep ran, each object is sealed into a close that governed its path then,
\* under a lock that close had then.  So whoever a rotation left out before
\* the keep began opens nothing of what it sealed in that close.
SnapshotOfItsTime ==
    [][\A t \in Terminals :
        (keep[t] # Idle /\ keep[t].phase = "naming" /\ main' = keep[t].object) =>
            \A path \in Paths :
                LET k == keep[t]
                    a == ObjectAt(main', path)
                IN  /\ \E n \in k.began.map..Len(closemap) : a.close = GoverningAt(n, path)
                    /\ a.epoch \in EpochBefore(k, a.close)..epoch[a.close]
                    /\ path \in Files => a.body.text \in k.began.work[path]..work[path]]_vars

\* History only grows: a keep that no other overlaps puts its commit on top of
\* the one main named last, whatever was killed or refused before; unless a
\* keep was killed in the one moment in which main is empty.
HistoryGrows ==
    [][\A t \in Busy :
        keep[t].phase = "naming" /\ main' = keep[t].object /\ keep[t].alone =>
            \/ main'.body.parents = IF named = None THEN <<>> ELSE <<named>>
            \/ cut]_vars

\* Main always comes back: emptied by a keep, it names a commit again, unless
\* a keep was killed.
MainComesBack == (named # None /\ main = None) ~> (main # None \/ killed)
=============================================================================
