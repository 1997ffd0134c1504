# CloseCommon in TLA+

CloseCommon is a shared folder with locked drawers. A *close* is a drawer with
a lock of its own; a *grant* hands somebody a facet of it (outline, label,
everything), perhaps with powers, perhaps for some days, perhaps to pass on;
*rotating* changes the lock; a *signpost* is a journaled pointer into the kept
history, which whoever holds the power may move. This directory holds TLA+
modules that model the program under `src/crates`, TLC configurations that
check them on small instances, and TLAPS proofs of what matters most about
locks, grants, signposts and snapshots for every instance.

    cd tla
    tlc -config drawer_days.cfg MCDrawer     # any run of PROJECT.json
    tlapm DrawerProofs.tla                   # any module with proofs

## 1. Inventory

All state is files below `.cc/`. Every command is a process of its own;
nothing locks the folder, so two commands may overlap, and any of them may be
killed.

| Component | State | Operations | Hard behaviour | What makes it correct |
|---|---|---|---|---|
| Closes (`cc-core/close.rs`, `facet.rs`) | the public record: steward, epoch, chain of old keys wrapped under newer ones, in two lanes | `found`, `rotate`, `content_key_at`, `shape_key_at`, `facet_key` | off-by-one between links, labels and epochs; the two lanes kept apart | the chain holds exactly the old keys, opens backwards only, and no lane leaks into the other |
| Grants (`cc-core/grant.rs`) | a signed link embedding its parents, with a facet key sealed to the holder | `issue_root`, `attenuate`, `verify`, `unwrap_key` | two lists of conditions that must agree; expiry at several links; an epoch inherited from the parent | what the program issues verifies until it dissolves, and carries the key its label claims |
| Repository (`close/repo.rs`) | `ids/`, `closes/`, `grants/<who>/NNNN.grant`, `closemap.json`, `config.json` | `init`, `new_identity`, `found_close`, `add_grant`, `facet_key_for`, `best_facet`, `governing` | first match over a pile of grants of all epochs; files named by counting; several files written in sequence, each emptied first | everybody finds exactly the keys their grants entitle them to; records, grants and lists agree; what was reported stays |
| Commands (`close/main.rs`) | none of their own | `init`, `id new`, `protect`, `share`, `rotate`, … | long histories: let in, left out, let in again | readings are handed on by those who have them, and a lock change leaves people out |
| Signposts (`cc-cell`, `repo.rs`) | `cells.json`, `refs/cells/<id>`, the moves among the objects | `cell new`, `point`, `whereis`, `trail`, `fold` | `point` reads, thinks, writes; the ref is truncated, then written; rotations in between | any journal folds; guarded slots never go back; no announced move is lost |
| Store (`cc-store`) | write-once objects by address, refs | `exists`, `put`, `get`, `set_ref`, `get_ref` | refs rewritten in place, two writers share the name of a temporary file, an existing object is never looked at again | what `main` names is whole, with all it needs |
| Snapshots (`repo.rs`) | trees, commits, `refs/main` | `keep`, `look`, `open`, `history` | an edit, a `protect`, a rotation or another `keep` in the middle of one; a kill anywhere | a snapshot is of its time, the history only grows, and whoever reads everything reads all of it |
| Merge (`cc-dag/merge.rs`) | none | `three_way`, `conflicts` | sealed subtrees, a base that cannot be opened, entries that change with the lock | whatever it settles is what the plain texts would have given; conflicts are real; keys only help |
| Sealing, ids, wording | none | `seal`, hashes, texts, dates | none | hashes and boxes are taken as ideal |

How they interact: a command loads the record of the close that governs a
path, finds its key among the grants of `config.me`, and writes records,
grants, objects or refs. The records and grants are the shared state through
which `share`, `rotate`, `keep` and `point` meet. The hazards of
`PROJECT.json` list what can go wrong there, line by line. `three_way` is
called by no command; it stands beside the others as a library.

## 2. Modules

| Module | Models | Lines of |
|---|---|---|
| `Lock` | keys, boxes, the record, rotation, walking the chain: operators only | `close.rs`, `facet.rs`, `aead.rs` |
| `Grants` | grants as sequences of links, issue, attenuate, verify, and the search for a key among a pile of them: operators only | `grant.rs`, `repo.rs` |
| `Drawer` | the state machine of `init`, `id new`, `protect`, `share`, `rotate` and days going by | `repo.rs`, `main.rs` |
| `Readership` | what `Drawer` promises, with no keys in it: who reads which lane at which epoch | abstract |
| `Folder` | the same commands and `cell new`, one file operation at a time, in several terminals, any of them killed; it implements `Drawer` | `repo.rs`, `main.rs` |
| `Signpost` | `cell new` and `point`, the latter in steps, next to the commands of `Drawer` (which it extends) | `cc-cell`, `repo.rs`, `cc-store` |
| `Journal` | what `Signpost` promises: an append-only log of moves, guarded slots only forward | abstract |
| `Store` | objects, temporary files and a ref, one system call at a time: variables and the actions on them, for `Snapshot` | `cc-store` |
| `Snapshot` | `keep` object by object, in several terminals, next to edits, `protect`, `share` and `rotate`; what `look`, `open` and `history` reach | `repo.rs`, `seal.rs`, `cc-dag/tree.rs`, `commit.rs` |
| `Merge` | `three_way` around sealed subtrees, on every pair of histories of two sides | `cc-dag/merge.rs`, `seal.rs` |
| `MCDrawer`, `MCFolder`, `MCSignpost`, `MCSnapshot`, `MCMerge` | constants for TLC | |
| `Basics` | lemmas about numbers and sequences | |
| `GrantsProofs` | what `Lock` and `Grants` compute | |
| `DrawerProofs` | the invariant of `Drawer` and what follows from it; it implements `Readership` | |
| `SignpostProofs` | the invariant of `Signpost`; it implements `Journal` | |
| `SnapshotProofs` | the invariant of `Snapshot` and what follows from it | |
| `FolderProofs` | the invariant of `Folder` and what follows from it | |
| `FolderStepProofs` | it implements `Drawer`, one command at a time | |
| `MergeProofs` | the invariant of `Merge`, what `three_way` makes of a file, and what follows | |

**Cryptography is symbolic.** A key is a record of the random root it derives
from, the facet it opens and the close that salted it; `Wrap` and `Unwrap`,
and boxes sealed to a person, open only under the same key and the same label.
A signature is the issuer's name. What the model says about leaks is therefore
about what the program puts into which box under which label, never about the
ciphers.

**State of `Drawer`.** `ids` is `.cc/ids`, `closes` the records, `grants[p]`
the files of `.cc/grants/p` in name order, `now` the clock in days. `minted`
is history: for each close, the roots drawn for its epochs; no action reads it
except to draw a root that is new. The identity a command runs as,
`Config.me`, is a field of a file that the owner of the folder edits, so every
command takes it as an input; `grants` are files that anybody who has the
folder can copy. Each command is one action with all it writes:
`ShareAsSteward` and `ShareOnward` are the two branches of `share`, `Rotate`
includes the re-issue of grants to the keepers. `share` and `rotate` reach a
close through a path; only the close matters to them, because the grants they
issue have an empty prefix.

**State of `Folder`.** `closes` and `grants` are the files of `Drawer`'s
variables, `lists` the close map and the index of signposts; a file that was
emptied and not yet written is `Torn`. `command[t]` is what terminal `t` runs:
`Share` to `Settle`, `Rotate` to `FindKey`, `Gather` and `ChangeLock`, are the
reads, in the order in which the code makes them, and decide all that is to be
written; from then on the command goes through its files, each of which is
prepared (`Count` the grants there, `ReadList`), opened, which empties it, and
filled. `Kill` may come between any two. Powers, days and expiry are left to
`Drawer`. Two that have one file open at once end with the text of the last;
where it is the shorter one, the end of the other may be left behind it: a
list or a record then no longer parses (`Fill`), for both are JSON of varying
length, while a grant does, because postcard ignores what follows. Every close
is for a path (`PathOf`), and `protect` does not look whether there is one for
it already: of two, the one registered last governs (`Governs`), and commands
reach the other no more. `trouble` is history: it records which people, closes and lists
were touched by two commands at once, or by a kill at the wrong moment, and
the properties name there exactly what they do not promise. Every one of these
exceptions is reached, and taking it away makes the property fail.

`Folder` implements `Drawer` when commands do not overlap and none is killed:
until a command has written its last file, the refinement mapping `Standing`
shows the files as they were before its first, so a command is one step of
`Drawer` and its reads are stutters (`ImplementsDrawer`). That holds up to a
kill, not for it: a command killed half way leaves files that are no state of
`Drawer`. The other properties of `Folder` are what is left of `Drawer`'s when
commands do overlap.

**State of `Snapshot`.** `objects` says whether what stands at an address is
whole or torn, `drafts` the same for the temporary files, `main` is the ref,
`work` the versions of the texts. `keep[t]` is how far terminal `t`'s `close
keep` has got along `Walk`, the order in which `snap_dir` and `snap_file` go
through the tree: `Enter` a folder (its close is read now, and used when it is
sealed), `Look` (record and key), `Seal` (the text, or for the commit the head
of `main`, is read only now), `Open`, `Fill` and `MoveIn` (`put`), `Empty` and
`Name` (`set_ref`). Of two that write one object, one may take the temporary
file away from the other (`Fail`), whose writes then go to the object itself.
Keys are epochs: `reach` is what a person's grants open in each lane, which
`KeysExactlyByGrant` of `Drawer` justifies. A rotation decides whom to keep
and empties the record (`ChangeLock`), writes it (`SaveClose`) and files the
grants (`Reissue`); a protect files the founding grant and empties the close
map (`Protect`), and writes it (`Register`). Either may be killed between its
steps. `torn` says which records are empty, and whether the close map is:
whoever needs one of them meanwhile fails, a keep (`Refuse`) like a reader
(`HasKey`), though reading a path does not need the map. One protect and one
rotation run at a time; `Folder` has two of them at once. A commit has no message and no time here, so two
overlapping keeps of the same tree by one author are one object, and by two
authors two.

**State of `Merge`.** Two sides go on from one base, editing, removing and
replacing a folder (`Works`), while it is protected and its lock changes; the
merger may open it up to some epoch (`reach`), and may lack the base. The
properties compare `ThreeWay` over sealed trees with `TextMerge`, a three-way
merge by path of the plain texts. `three_way` calls itself through `diverged`
at every level of folders; here there are two, `ThreeWay` at the root and
`MergeFiles` in the folder, whose entries are files, so that `diverged` ends
there. Deeper trees, and with them a drawer in a drawer, are not modelled.

**State of `Signpost`.** `decl` is the entry of `cells.json`, `store` the
moves among the objects (an address is a position), `head` the ref, with 0 for
one that is missing or was emptied and not yet written (`get_ref` answers
`None` to both), `point[t]` is what terminal `t`'s `close point` has read so
far. `point` is `Look` (declaration, record, grant, key), `Make` (head,
guards, signature, object), `Truncate` and `Write` (`set_ref`), with `GiveUp`
for its refusals after the head was read and `Crash` for a process that is
killed. A refusal before that changes nothing and is no step. `crashes` and
`announced` are a bound and a history. Commits and their ancestry are
constants, sealed in the commons at its first epoch; the 10,000 steps after
which `is_descendant` gives up are left out.

## 3. What the runs check

`drawer_days`: one close, two people, grants with and without an end, two
days, powers, two rotations. Stored grants verify until their day
(`StoredGrantsVerify`); `facet_key_for` finds exactly what people are entitled
to (`KeysExactlyByGrant`); a steward nobody may exclude or hand less keeps the
key (`StewardKeepsKey`); whoever keeps up keeps every facet and power
(`KeptKeepUp`); the commands implement `Readership`.

`drawer_onward`: three people, two closes that any of them may found, three
epochs, onward shares. Chains and labels stay true (`ChainTruthful`,
`LabelsTruthful`), and grants of one close never serve for the other
(`KeysExactlyByGrant`); a person who hoards every key and computes at will
still holds only what was granted (`OnlyGrantedKeys`); a rotation gives
nothing to who is left out (`LeftOutGetNoNewKey`) and takes no past away
(`PastStaysReadable`); and the commands implement `Readership`.

`folder`: two people, three closes, two signposts; commands of every kind, one
after the other or two at once, and one killed anywhere. Chains and labels
stay true though the record, the key and the grants were read at different
moments (`FilesAgree`); the close map leads to no drawer whose steward does
not find the key that was drawn for it last (`StewardKeepsTheLock`); what was handed out, locked or raised
stays so (`GivenIsKept`, `ListedStays`); a rotation leaves nobody behind,
whatever ran meanwhile (`KeepersKeepUp`); and commands that do not overlap are
steps of `Drawer` (`ImplementsDrawer`). What the exceptions in these
properties stand for:

- Two rotations of one close at once: the record saved last loses the other's
  link, and labels no longer tell which lock they are for (`main.rs:512`); the
  people kept may then hold different keys of one epoch; and if
  the shorter record is written over the longer, it never parses again
  (`repo.rs:225`).
- Two commands that add a grant to one person at once: one is lost
  (`repo.rs:281`), possibly the steward's under the new lock.
- A rotation killed between its record and the steward's grant: nobody has the
  key of the new lock, and nobody can change it again (`main.rs:550`); killed
  with the record empty, the chain is gone too.
- Two commands that rewrite a list at once, or one killed at it: an entry is
  lost, or the list does not parse and every command that reads it fails
  (`main.rs:300`, `repo.rs:648`).
- Two `cell new` that both find a path free are both listed; the first counts
  (`repo.rs:629`).

`snapshot`: two people, a file in a folder that may become a drawer, twice; up to
three keeps, two at once, edits, protects, shares and rotations in the middle
of them, and one kill. Whatever `main` names is in the store with all it needs
(`KeptIsWhole`); whoever reads the latest of every drawer walks the history to
its beginning and opens every path, as long as the records of the closes in it
parse (`StoryReadable`); a snapshot is of its
time, text by text and lock by lock (`SnapshotOfItsTime`); history only grows
(`HistoryGrows`); and `main`, emptied by a keep, comes back (`MainComesBack`).
What these properties do not promise, and why:

- Of two keeps that overlap one drops out of the history (`repo.rs:413`); the
  second of two `put`s of one object may fail, though `lib.rs:38` calls it
  "idempotent by construction".
- While a rotation rewrites the record of a close nobody opens what is sealed
  in it, and nobody ever will if the rotation is killed there
  (`repo.rs:225`), against "nothing kept is ever lost" (`GLOSSARY.md:20`).
- Killed while it writes to an object that another has already renamed into
  place, a keep leaves an object torn that `put` will never write again.
- Killed in the moment in which `main` is empty, a keep leaves a commons whose
  next commit has no parents, against "one shared, permanent story"
  (`main.rs:176`).
- A keep that a rotation overtakes seals under the lock from before it, though
  the rotation reported that nothing kept from now on opens with the old keys:
  the lock is one of those the close had while the keep ran, and no other.

`merge`: a folder with three versions of one file and two of another, or a
file in its place, or nothing; two sides; the folder protected or not and its
lock changed once; a merger with any of the keys. What the merge settles is
what the plain texts would have given (`SettledAsTexts`); a text that one side
wrote is in the merge or in a conflict (`NothingWrittenIsLost`); with all keys
and one lock, conflicts are real (`ConflictsAreReal`); a key never undoes what
was settled without it (`KeysOnlyHelp`); and both sides get the same
(`SidesAlike`). The properties leave out two things that the code does: with a
base that cannot be opened, what one side removed comes back (`merge.rs:136`);
and after a rotation a folder that nobody edited counts as changed, because
its plain id hashes the cipher ids of what is in it, so that conflicts may be
spurious although `merge.rs:3` says identity is untouched by rotation.

`signpost_race`: two `point`s over a forked history, interleaved at every
step, one of which may be killed. Every journal that ends in any stored move
folds (`JournalFolds`), and along it no guarded slot goes back
(`NeverBackAlongJournal`).

`signpost_vault`: a signpost that may stand in a drawer of its own, rotations
and days, movers who may not be able to open the history. The same, and
`TrailReadable` (who reads today reads the whole trail, also a move that a
rotation overtook), and `ImplementsJournal`: one terminal, none killed. With a
second terminal or a kill `point` does not implement `Journal`; see
`signpost_lost`.

Five runs end in a violation of something that the documents or messages say;
`PROJECT.json` quotes it under "findings":

- `drawer_leftout`: who was left out of one rotation gets the new key at the
  next, because old grants still verify and rotation counts their holders in.
- `drawer_extends`: a power lent for days lasts for ever after a rotation,
  because it is merged into a grant that has no end.
- `drawer_delivers`: an onward share copies the epoch of the oldest suitable
  grant, so who is handed everything cannot read what is sealed now.
- `signpost_lost`: of two `point`s that overlap, both announced, one is lost
  from the trail.
- `signpost_revoked`: the power of a grant from before a lock change still
  moves the signpost, once its holder is given reading again.

### Bounds

`MaxEpoch` 1 or 2 (two links are needed for a walk that composes and for a
person left out and let in again; three epochs do that), `MaxGrants` 2 to 3
grants per person before nobody shares with them any more (a second grant is
needed for the first-match search to have a choice; rotations may add to
that), `MaxNow` 0 or 1 (a grant's last day and the day after), two people
(giver and receiver) or three (a steward, somebody who passes on, and whom
they pass it to: one may be left out while the other stays), three roots (one
for each epoch or close, symmetric), `MaxMoves` 3 moves (two that race and one
built on the outcome) or 2, `MaxCrashes` 1. `MaxEpoch` of `Merge` is 1: one
lock change is enough to make every cipher id differ.

`Folder` and `Snapshot` are bounded by `Budgets`, a set of records of which
each behaviour keeps to one: how many commands of each kind, how many at once,
how many killed. A single bound for all of them would be too large, or too
small for the combinations that matter. In `folder` they are: three or four
commands one after the other (for `ImplementsDrawer`; two rotations make a
chain of two links), with a kill and without; two rotations and a share, or two shares and a rotation,
two at once with a kill; two protects of one path, at once and one after the
other, with a share and a rotation; a protect and three `cell new`; one of
each. In `snapshot`: two keeps at once and a third after them with a kill (an
object torn by two is met by a later keep); two at once with a change between
their steps; three in a row with a change and a kill; two in a row with two
changes (a share or protect, and a rotation; two protects of one path). Two terminals are enough for
every race of two; that three commands in one file behave like two is not
checked.

The proofs have none of these bounds: they hold for all values of the
constants that satisfy the assumptions.

### Fairness

`Snapshot` alone has fairness: `WF_vars(Step(t))` for each terminal. A keep
that somebody has started is a process, and the system runs it to its end
unless it is killed; nothing makes anybody start one, edit, share, rotate or
kill, so none of these is fair, and neither are the later steps of a protect or a rotation.
No stronger fairness is needed: `Step(t)` is enabled from a keep's start to
its end, because nobody waits for anybody. It carries `MainComesBack`.
Everything else is safety: commands run when somebody types them, and the code
has no daemon, retry or timer. `CHECK_DEADLOCK FALSE` stands in every
configuration because a commons in which nobody types anything is as it should
be, and because the bounds end every run.

## 4. What is proved

| Theorem | Property | Module |
|---|---|---|
| `WalkTruthful`, `RotateTruthful`, `SoundVerifies` | (operators) | `GrantsProofs` |
| `TypeCorrect` | `TypeOK` | `DrawerProofs` |
| `ChainsTellTheTruth` | `ChainTruthful` | `DrawerProofs` |
| `LabelsTellTheTruth` | `LabelsTruthful` | `DrawerProofs` |
| `GrantsVerify` | `StoredGrantsVerify` | `DrawerProofs` |
| `KeysAreExact` | `KeysExactlyByGrant` | `DrawerProofs` |
| `PastKeysStay` | `PastStaysReadable` | `DrawerProofs` |
| `LeftOutReadNothingNew` | `LeftOutGetNoNewKey` | `DrawerProofs` |
| `NoKeyBeyondGrants` | `OnlyGrantedKeys` | `DrawerProofs` |
| `KeepersCatchUp` | `KeptKeepUp` | `DrawerProofs` |
| `StewardsKeepTheKey` | `StewardKeepsKey` | `DrawerProofs` |
| `CommandsKeepTheReadership` | `ImplementsReadership` | `DrawerProofs` |
| `SignpostTypeCorrect` | `SignpostTypeOK` | `SignpostProofs` |
| `JournalsAlwaysFold` | `JournalFolds` | `SignpostProofs` |
| `GuardsHoldAlongJournals` | `NeverBackAlongJournal` | `SignpostProofs` |
| `TrailsStayReadable` | `TrailReadable` | `SignpostProofs` |
| `PointKeepsTheJournal` | `ImplementsJournal` | `SignpostProofs` |
| `SnapshotTypeCorrect` | `SnapshotTypeOK` | `SnapshotProofs` |
| `KeptStaysWhole` | `KeptIsWhole` | `SnapshotProofs` |
| `StoryStaysReadable` | `StoryReadable` | `SnapshotProofs` |
| `SnapshotsAreOfTheirTime` | `SnapshotOfItsTime` | `SnapshotProofs` |
| `HistoryOnlyGrows` | `HistoryGrows` | `SnapshotProofs` |
| `FolderTypeCorrect` | `FolderTypeOK` | `FolderProofs` |
| `GivenStays` | `GivenIsKept` | `FolderProofs` |
| `ListingStays` | `ListedStays` | `FolderProofs` |
| `TruthStays` | `FilesAgree` | `FolderProofs` |
| `LockIsKept` | `StewardKeepsTheLock` | `FolderProofs` |
| `KeepersStay` | `KeepersKeepUp` | `FolderProofs` |
| `OneAtATimeImplements` | `ImplementsDrawer` | `FolderStepProofs` |
| `MergeSettlesAsTexts` | `SettledAsTexts` | `MergeProofs` |
| `WrittenIsNotLost` | `NothingWrittenIsLost` | `MergeProofs` |
| `OnlyRealConflicts` | `ConflictsAreReal` | `MergeProofs` |
| `MoreKeysOnlyHelp` | `KeysOnlyHelp` | `MergeProofs` |
| `EitherSideMerges` | `SidesAlike` | `MergeProofs` |

They hold for all values of the constants that satisfy the named assumptions
of the modules (`DrawerAssumption`, `SignpostAssumption`,
`SnapshotAssumption`, `FolderAssumption`, `MergeAssumption`, and that the
values which stand for "no key", "no declaration" and a torn file are not
among the others).
`PointKeepsTheJournal` says in its statement what else it needs: one terminal
and no crash, without which the code does not have the property
(`signpost_lost`).

**Locks and grants.** Walking the chain of a truthful record yields exactly
the key of the epoch walked to, and rotating a truthful record leaves one. The
walk is a recursive function over an interval of epochs; that such a function
exists (`WalkExists`) is proved through a least element argument over the
naturals (`UpTo` of `Basics`), since induction schemes cannot be instantiated
here. The functions of `Signpost` that follow a journal or an ancestry are
treated in the same way. What `issue_root` and `attenuate` make is correctly
labelled and sound, and a sound chain verifies until its leaf's last day: the
leaf dissolves first.

**Drawer.** The inductive invariant is `IInv`: types, true chains, and every
stored grant filed with its holder, correctly labelled at every link and
sound. None of the properties is inductive alone: that a rotation keeps the
chain true needs that `current_content_key` returned the true key, which needs
true labels on the grants, which need that the chain they were walked through
was true. `OnlyGrantedKeys` needs more, `HInv`: no root is drawn twice, and
whoever holds a key through the middle of somebody else's chain of grants has
a grant of their own for it. Action properties follow from `IInv`, the fact
that nothing is ever removed (`NextGrows`), and the exact characterisation of
the keys that people find before and after the step.

**Readership.** `StewardKeepsKey` needs that the steward's grants include, for
good, one of the content and one of the present epoch (`StewardHolds`); each
command preserves both halves, a rotation because it re-issues to its keepers
the best facet they hold at the new epoch. The refinement maps `Drawer`'s
state to the function "latest epoch of each lane that each person opens"
(`Readings`); `KeysAreExact` turns keys into that function, `SameReading` says
when a step leaves it alone, and then there is one lemma for each command:
`FoundStep`, `HandStep`, `ChangeLockStep` and `FadeStep`.

**Signpost.** Its invariant `SInv` puts on top of `IInv`: who has been raised
(`Raised`), what each terminal has read so far (`PointTrue`), and of every
stored move that it is well formed, comes after its predecessor, was signed
and sealed by somebody who could, under the true key of its epoch, and is
forward of its predecessor (`StoreTrue`). Since the record only grows, a grant
that was good when a move was made stays good to whoever folds it. Along a
trail the steps compose because being behind is transitive (`Behind`), by
`UpTo` again. `PointKeepsTheJournal` adds `Single`: while the only terminal is
between its reading of the head and its writing, the head is the one it read.

**Snapshot.** For any working tree, any number of terminals, keeps, edits and
kills, the invariant `SnapshotInv` has five parts. `WorldOK`: the close map
names founded closes, and nobody's key passes the epoch of its lock. `KeepsOK`
says of every keep what it has read and made so far: it has entered and sealed
exactly what the walk has gone through (`Walked`); each close it remembers
governed its path at some time since it began (`UnderOK`); each object it made
is in the store and fits its path (`Makes`); and what it is about to store
could be sealed by the key of somebody (`HomeOK`, `HandOK`). Each of these is
stable while the rest of the folder moves on (`KeepStays`), because nothing
in it ever goes back (`Grown`): the interleavings come down to that. `StoreOK`
is what the properties need of the store: every object is sealed under an
epoch that somebody's grants reach, and refers only to objects that are there.
So whoever reaches as far as anybody opens it, if its record parses
(`OpensWhole`); what is torn, `StoryStaysReadable` excepts.
`WritersOK` ties torn files to who is writing them; it is where two keeps that
share a temporary file are followed through every order of `Open`, `Fill` and
`MoveIn`. `MainOK` follows the ref: who is alone has on top of its commit what
`main` named. From there, `Needed` is in the store by two arguments along
recursive functions (`TrailIn`, `ObjectAtFits`), and a snapshot shows what
its keep made (`ShowsWhatWasMade`).

**Folder.** For any number of terminals, commands and kills, the invariant is
built in layers, each proved from the ones before. `TypesInv`: what each file
can hold, and, for each point at which a command can be, what it has in hand
(`LoadedOK`, `GatherOK`, `WritingOK`): the files left to write are the last of
those it decided on, a record can only be the first and a list the last. Every
action has a lemma that says what it does in these terms (`ProtectMoves` to
`KillMoves`); the layers above use these and do not open the actions again.
`GivenInv`, for `GivenIsKept`: to a person who is not in `trouble.crowded` at
most one command is at the point of adding a grant that is not there yet, and
the number it holds is that of the next file (`NumbersOK`). Then opening that
file empties nothing, and filling it replaces nothing but `Torn`.
`ListInv`, for `ListedStays`: the command that is rewriting a list has the
text that is there with its own entry added (`RewriteOK`), or has emptied it
and is alone at it; an entry that is still to be added is neither there nor in
what is being written (`Unlisted`), and no other command is to add the same
(`Alone`). In the last two `protect`, whose close has an id that nobody else
has drawn, differs from `cell new`, which is given its path (`trouble.twins`).
`TurnsInv` and `TrueInv`, for `FilesAgree`: one command founds a close, and
draws its first root by writing the record; two rotations of a close at once
put it into `trouble.raced`. For every other close there are, at each moment,
a steward and the roots drawn so far such that the record, if it can be read,
every grant file, and what every command on that close has read or is to write
are true of them (`CloseTrue`). A record that was read a while ago is true of
the first of these roots only (`OnceTrue`), and the grants a slow `share` or
`rotate` meets may be of later epochs than the record it holds. The proof
needs that these mislead nobody: a grant from a later epoch yields no key to a
record that does not reach so far (`NoWalkAhead`), so that the key found is
the true one for the epoch that was read (`FindTrue`), and what is wrapped
under it is labelled truly (`ShareTrue`). What a rotation writes is true of
the roots with its own appended (`WritesTrue`): from the moment its record is
written.
`LockInv`, for `StewardKeepsTheLock` and `KeepersKeepUp`: a rotation looks for
people's grants one after the other, while others write them, and what it
found decides who can open the close afterwards. So at each point of its way
it provides for every facet that somebody could read when it began
(`Provided`), and for its steward's content: there is a grant on file by the
record it read; or the person is among the keepers it put down; or a grant
under the new key is still to be written, or is on file by the record it wrote
(`HasKey`). Grants on file stay there (`StillKept`, from `GivenInv`), but for
people in `trouble.crowded`. The record stays the one it wrote unless two
rotations ran at once (`RecordsOK`). What is still missing for a steward is a
kill between the record and the steward's own grant (`Half`, then
`trouble.stranded`), and the founding: a close is on the map, or about to be
put there (`Listed`), only after its founder's grant was filed, and until then
no rotation can find it (`FoundingsOK`). That the key so found is the one drawn
last is what `TrueInv` adds, and with it the exception for two rotations at
once.
`KeepersKeepUp` is then read off the last file of a rotation, the only step at
which it can be done (`OnlyFillReports`, `LastFileProvides`).

**Folder implements Drawer.** The invariant `OneInv` says what is so while one
terminal alone runs commands and none was killed (`Orderly`). Then no file but
the one being filled is torn (`Clean`); what a command has read is still what
the files say (`Reading`, `Gathered`: whoever holds something and is not left
out is among the keepers or is yet to be asked); and a command that writes
carries a decision (`Carrying`): the files it found, with all it writes put
into them (`Outcome`), are what a command of `Drawer` makes of them (`Made`),
and the files now are those it found, with the first of its files written and
the next one torn (`GrantsSoFar`, `RecordSoFar`). `Made` is an operator on two
sets of files, without variables, so that the decision can be stated when the
command starts to write and used when it ends; `MadeIsAStep` turns it into a
step of `Drawer`, for which the operators of the instance are first shown to
be those of `Folder` (`SameHeld` to `SameKeeper`). There is one lemma for each
action (`ProtectOne` to `FillOne`): the files shown stay, or are made anew.
`Drawer` bounds epochs and grants per person; that a command never finds these
bounds reached (`Room`) is counted from what may still be started, which is
why the assumption asks that `Budgets` be finite. That a rotation asks
everybody once rests on `Order` having nobody twice, as a directory has no name
twice.

**Merge.** For any files, texts and number of epochs. The invariant
(`MergeInv`) is short: snapshots are well formed, and a lock that comes later
is never an earlier one (`Before`), so whoever opens a side's folder at some
epoch opens that of the base, which `SettledAsTexts` and `KeysOnlyHelp` need.
The weight is in the operators. `EntryIs` and `FileIs` say what stands at a
name of a sealed tree; `SameFile` and `SameFolder` what follows when two
entries have one plain id: of two files one text, of two folders the same
sealed files, though not the other way round (after a rotation a folder that
nobody edited has another plain id). `InsideIs` then says what `three_way`
makes of a file, whichever way it gets there (`FileOutcome`), and each
property is a case analysis on who moved. `SettledIs` is the one to read: a
settled file has the text that both agree on, or that of one side while the
other's is the base's, or is absent where the base could not be loaded.

Checked by TLC only: `MainComesBack`. It will stay so, because liveness under
fairness is beyond the provers used here.

## 5. Not modelled

- Encoding and wording, dates, the glossary, silhouettes, and the label card
  that is sealed beside every payload: they change no state, and the card
  opens with the key that a tree of the same close opens with.
- Caveats (always empty in the program) and path prefixes other than the empty
  one (`PrefixUnder` is there; commands never issue another).
- `init` and `id new` half way: a folder without a configuration, or an
  identity with one of its two files. Everything else starts from an `init`
  that was carried out.
- Damage to the disk, and an operating system that crashes: a kill loses no
  write that was made before it.
- `Snapshot` keeps to one folder with one file. `Signpost` takes the history
  as given, so that a `point` next to a `keep` is not composed: `point` only
  reads commits that were kept, and they are write-once.
