-------------------------------- MODULE Merge -------------------------------
(***************************************************************************)
(* Three-way merge around sealed subtrees (crates/cc-dag/src/merge.rs), on *)
(* the snapshots of two sides that went on from one base.                  *)
(*                                                                         *)
(* The root holds one name, a folder that may be behind a lock of its own. *)
(* Each side edits, removes, replaces and keeps it; meanwhile the folder   *)
(* is protected and its lock changed.  Whoever merges may open the folder  *)
(* up to some epoch, or not at all, and may lack the base.                 *)
(***************************************************************************)
EXTENDS Integers, FiniteSets

CONSTANTS
    Commons,   \* the close of the root
    Drawer,    \* the close of the folder, once it is protected
    Folder,    \* its name
    Files,     \* the names of the files in it
    Texts,     \* what a file may say
    Works,     \* what may stand there: absent, a file, or a folder of files
    Absent,    \* nothing: no entry, no file, no tree
    MaxEpoch   \* bound: the last epoch the folder's lock is rotated to

VARIABLES
    lock,             \* the close that governs the folder and its epoch
    base,             \* the snapshot both sides went on from
    ours, theirs,     \* the latest snapshot of either side
    reach,            \* the latest epoch of Drawer the merger can open, or -1
    baseHere          \* whether the merger has the folder of the base

vars == <<lock, base, ours, theirs, reach, baseHere>>

Locks == {[close |-> Commons, epoch |-> 0]} \cup [close : {Drawer}, epoch : 0..MaxEpoch]

\* What stands in the working tree at the folder's name.
AFile(text) == [kind |-> "blob", text |-> text, files |-> <<>>]
AFolder(files) == [kind |-> "tree", text |-> 0, files |-> files]
SomeOf(S, T) == UNION {[N -> T] : N \in SUBSET S}
AnyWork == {AFile(text) : text \in Texts} \cup {AFolder(files) : files \in SomeOf(Files, Texts)}

-----------------------------------------------------------------------------
\* Sealed trees.

\* A TreeEntry.  The plain id is a keyed hash of what is sealed, under a key
\* that rotations leave alone; the cipher id is the hash of the envelope.
TreeEntry(kind, l, body) ==
    [kind |-> kind, close |-> l.close,
     plain |-> [close |-> l.close, body |-> body],
     cipher |-> [close |-> l.close, epoch |-> l.epoch, body |-> body]]

BlobEntry(text, l) == TreeEntry("blob", l, [text |-> text, entries |-> <<>>])

\* A tree is encoded with the whole entries of what is in it: with their
\* cipher ids, which a rotation changes.
FolderEntry(files, l) ==
    TreeEntry("tree", l, [text |-> 0, entries |-> [n \in DOMAIN files |-> BlobEntry(files[n], l)]])

\* The root tree of a snapshot.
RootTree(snap) ==
    [n \in IF snap.work = Absent THEN {} ELSE {Folder} |->
        IF snap.work.kind = "tree" THEN FolderEntry(snap.work.files, snap.lock)
        ELSE BlobEntry(snap.work.text, snap.lock)]

\* The entries there can be, with what is sealed in them.
EntriesWith(bodies) ==
    [kind : {"blob", "tree"}, close : {Commons, Drawer},
     plain : [close : {Commons, Drawer}, body : bodies],
     cipher : [close : {Commons, Drawer}, epoch : 0..MaxEpoch, body : bodies]]
FileEntries == EntriesWith([text : Texts, entries : {<<>>}])
FolderEntries == EntriesWith([text : {0}, entries : SomeOf(Files, FileEntries)])

ASSUME MergeAssumption ==
    /\ Commons # Drawer /\ MaxEpoch \in Nat
    /\ Works \subseteq AnyWork \cup {Absent}
    /\ Absent \notin Texts /\ Absent \notin AnyWork
    /\ Absent \notin FileEntries /\ Absent \notin FolderEntries
    /\ Absent \notin SomeOf(Files, FileEntries)
    /\ Absent \notin [{Folder} -> FileEntries] /\ Absent \notin [{Folder} -> FolderEntries]

-----------------------------------------------------------------------------
\* TreeSource::load, by a merger whose keys reach epoch r, and who lacks the
\* addresses in `missing`: sealed and locally absent are the same.
LoadEmpty(cipher, r, missing) ==  \* faulty: what is sealed looks empty
    IF (cipher.close = Commons \/ cipher.epoch <= r) /\ cipher \notin missing
    THEN cipher.body.entries ELSE <<>>
Load(cipher, r, missing) ==
    IF (cipher.close = Commons \/ cipher.epoch <= r) /\ cipher \notin missing
    THEN cipher.body.entries ELSE Absent

Names(tree) == IF tree = Absent THEN {} ELSE DOMAIN tree
EntryAt(tree, n) == IF n \in Names(tree) THEN tree[n] ELSE Absent

\* same, same_opt.
Same(a, b) ==
    \/ a = Absent /\ b = Absent
    \/ a # Absent /\ b # Absent /\ a.plain = b.plain /\ a.close = b.close

\* MergedEntry.
Take(entry) == [is |-> "take", entry |-> entry]
Subtree(tree) == [is |-> "subtree", tree |-> tree]
Conflict(sealed) == [is |-> "conflict", sealed |-> sealed]

\* What three_way keeps of the outcomes: an agreed absence leaves no name.
Present(outcomes) ==
    [n \in {m \in DOMAIN outcomes : outcomes[m] # Take(Absent)} |-> outcomes[n]]

OutcomeUndone(b, o, t, diverged) ==  \* faulty: the side that did not move
    IF Same(o, t) THEN Take(o)
    ELSE IF Same(o, b) THEN Take(o)
    ELSE IF Same(t, b) THEN Take(t)
    ELSE diverged

OutcomeOneWay(b, o, t, diverged) ==  \* faulty: the third case is missing
    IF Same(o, t) THEN Take(o)
    ELSE IF Same(o, b) THEN Take(t)
    ELSE diverged

OutcomeOursFirst(b, o, t, diverged) ==  \* faulty: what we have beats a removal
    IF Same(o, t) THEN Take(o)
    ELSE IF Same(o, b) THEN Take(t)
    ELSE IF Same(t, b) \/ t = Absent THEN Take(o)
    ELSE diverged

\* One name of three_way: agreement, one side that moved, or divergence.
Outcome(b, o, t, diverged) ==
    IF Same(o, t) THEN Take(o)
    ELSE IF Same(o, b) THEN Take(t)
    ELSE IF Same(t, b) THEN Take(o)
    ELSE diverged

\* three_way in a folder.  Its entries are files, of which diverged makes a
\* conflict that no key resolves.
MergeFiles(b, o, t) ==
    Present([n \in Names(b) \cup Names(o) \cup Names(t) |->
                Outcome(EntryAt(b, n), EntryAt(o, n), EntryAt(t, n), Conflict(FALSE))])

DivergedBaseless(b, o, t, r, missing) ==  \* faulty: the base is not passed on
    IF Absent \in {o, t} THEN Conflict(FALSE)
    ELSE IF ~ (o.kind = "tree" /\ t.kind = "tree" /\ o.close = t.close) THEN Conflict(FALSE)
    ELSE IF Absent \in {Load(o.cipher, r, missing), Load(t.cipher, r, missing)} THEN Conflict(TRUE)
    ELSE Subtree(MergeFiles(Absent, Load(o.cipher, r, missing), Load(t.cipher, r, missing)))

\* diverged: into two trees of one close, if both open; else a conflict, which
\* is sealed if a key could resolve it.
Diverged(b, o, t, r, missing) ==
    IF Absent \in {o, t} THEN Conflict(FALSE)
    ELSE IF ~ (o.kind = "tree" /\ t.kind = "tree" /\ o.close = t.close) THEN Conflict(FALSE)
    ELSE IF Absent \in {Load(o.cipher, r, missing), Load(t.cipher, r, missing)} THEN Conflict(TRUE)
    ELSE Subtree(MergeFiles(IF b = Absent THEN Absent ELSE Load(b.cipher, r, missing),
                            Load(o.cipher, r, missing), Load(t.cipher, r, missing)))

\* three_way at the root: every name of any of the three.
ThreeWay(b, o, t, r, missing) ==
    Present([n \in Names(b) \cup Names(o) \cup Names(t) |->
                Outcome(EntryAt(b, n), EntryAt(o, n), EntryAt(t, n),
                        Diverged(EntryAt(b, n), EntryAt(o, n), EntryAt(t, n), r, missing))])

-----------------------------------------------------------------------------
\* The two sides.

\* A keep seals whatever stands in the working tree under the lock of today.
KeepOurs(w) ==
    /\ ours' = [work |-> w, lock |-> lock]
    /\ UNCHANGED <<lock, base, theirs, reach, baseHere>>
KeepTheirs(w) ==
    /\ theirs' = [work |-> w, lock |-> lock]
    /\ UNCHANGED <<lock, base, ours, reach, baseHere>>

\* The folder is protected, or its lock changed.
Protect ==
    /\ lock.close = Commons
    /\ lock' = [close |-> Drawer, epoch |-> 0]
    /\ UNCHANGED <<base, ours, theirs, reach, baseHere>>
Rotate ==
    /\ lock.close = Drawer /\ lock.epoch < MaxEpoch
    /\ lock' = [lock EXCEPT !.epoch = @ + 1]
    /\ UNCHANGED <<base, ours, theirs, reach, baseHere>>

\* The merger is handed the reading of labels up to an epoch.
Learn(e) ==
    /\ lock.close = Drawer
    /\ reach < e /\ e <= lock.epoch
    /\ reach' = e
    /\ UNCHANGED <<lock, base, ours, theirs, baseHere>>

Init ==
    /\ lock \in Locks
    /\ base \in [work : Works, lock : {lock}]
    /\ ours = base /\ theirs = base
    /\ reach = -1
    /\ baseHere \in BOOLEAN

Next ==
    \/ \E w \in Works : KeepOurs(w)
    \/ \E w \in Works : KeepTheirs(w)
    \/ Protect
    \/ Rotate
    \/ \E e \in 0..MaxEpoch : Learn(e)

Spec == Init /\ [][Next]_vars

-----------------------------------------------------------------------------
\* What a merge should satisfy.

\* Merging with keys up to epoch r.  What the merger may lack is the folder of
\* the base, where neither side still has that very object.
Missing ==
    LET root == RootTree(base)
    IN  IF baseHere THEN {}
        ELSE {root[n].cipher : n \in DOMAIN root}
             \ UNION {{RootTree(s)[n].cipher : n \in DOMAIN RootTree(s)} : s \in {ours, theirs}}
MergeOf(o, t, r) == ThreeWay(RootTree(base), RootTree(o), RootTree(t), r, Missing)

\* The text of file n of the folder, before and after.
TextIn(work, n) ==
    IF work = Absent THEN Absent
    ELSE IF n \in DOMAIN work.files THEN work.files[n] ELSE Absent
FileNames == UNION {DOMAIN w.files : w \in Works \ {Absent}}

At(merged, n) == IF n \in DOMAIN merged THEN merged[n] ELSE Take(Absent)
Inside(merged, n) ==
    LET folder == At(merged, Folder)
    IN  IF folder.is = "subtree" THEN At(folder.tree, n)
        ELSE IF folder.is = "conflict" THEN folder
        ELSE IF folder.entry = Absent THEN folder
        ELSE Take(EntryAt(folder.entry.cipher.body.entries, n))
Settled(merged, n) == Inside(merged, n).is # "conflict"
MergedText(merged, n) ==
    LET entry == Inside(merged, n).entry
    IN  IF entry = Absent THEN Absent ELSE entry.cipher.body.text

\* The reference: three texts, no folders, locks or keys.
Clash(n) ==
    LET b == TextIn(base.work, n) o == TextIn(ours.work, n) t == TextIn(theirs.work, n)
    IN  o # t /\ o # b /\ t # b
TextMerge(n) ==
    IF TextIn(ours.work, n) = TextIn(base.work, n) THEN TextIn(theirs.work, n)
    ELSE TextIn(ours.work, n)

\* Whatever the merger can open, and whichever side was resealed meanwhile
\* under another lock or close: a file that the merge settles has the text of
\* the plain merge of three texts, which had no clash there.
SettledAsTexts ==
    baseHere =>
        LET merged == MergeOf(ours, theirs, reach)
        IN  \A n \in FileNames :
                Settled(merged, n) => ~ Clash(n) /\ MergedText(merged, n) = TextMerge(n)

\* Even where the base is missing and the merge goes on with an empty one, a
\* text that one side wrote is in the merge, or in a conflict.
NothingWrittenIsLost ==
    LET merged == MergeOf(ours, theirs, reach)
    IN  \A n \in FileNames, side \in {ours, theirs} :
            LET text == TextIn(side.work, n)
            IN  text # Absent /\ text # TextIn(base.work, n) /\ Settled(merged, n) =>
                    MergedText(merged, n) = text

\* With every key, under one lock all along, the conflicts are the real ones:
\* texts that clash in a folder both sides have, or two different ends of the
\* folder itself.
ConflictsAreReal ==
    baseHere /\ base.lock = ours.lock /\ base.lock = theirs.lock =>
        LET merged == MergeOf(ours, theirs, MaxEpoch)
            both == /\ Absent \notin {ours.work, theirs.work}
                    /\ ours.work.kind = "tree" /\ theirs.work.kind = "tree"
        IN  /\ At(merged, Folder).is = "conflict" =>
                  ~ both /\ ours.work # theirs.work /\ base.work \notin {ours.work, theirs.work}
            /\ both => \A n \in FileNames : ~ Settled(merged, n) => Clash(n)

\* More keys never undo what a merge without them settled, and with all of
\* them no conflict waits for a key.
KeysOnlyHelp ==
    LET few == MergeOf(ours, theirs, reach)
        all == MergeOf(ours, theirs, MaxEpoch)
    IN  \A n \in FileNames :
            /\ Settled(few, n) => Settled(all, n) /\ MergedText(all, n) = MergedText(few, n)
            /\ ~ Settled(all, n) => ~ Inside(all, n).sealed

\* It does not matter which side merges.
SidesAlike ==
    LET left == MergeOf(ours, theirs, reach)
        right == MergeOf(theirs, ours, reach)
    IN  \A n \in FileNames :
            /\ Settled(left, n) <=> Settled(right, n)
            /\ Settled(left, n) => MergedText(left, n) = MergedText(right, n)
=============================================================================
