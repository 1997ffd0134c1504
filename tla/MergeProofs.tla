----------------------------- MODULE MergeProofs ------------------------------
(***************************************************************************)
(* What Merge promises, for any names, texts and number of epochs.         *)
(*                                                                         *)
(* A merge works on sealed entries, the properties are about texts.  The   *)
(* lemmas lead from the one to the other: what stands at a name of a       *)
(* snapshot, when two such entries are the same, and what three_way makes  *)
(* of a file (FileOutcome).  From there every property is a case analysis  *)
(* on who moved.  The invariant says how the locks of the three snapshots  *)
(* follow one another.                                                     *)
(***************************************************************************)
EXTENDS Merge, TLAPS

Snapshots == [work : Works, lock : Locks]

\* What stands in a snapshot's root, and as file n in the folder there.
EntryOf(snap) == EntryAt(RootTree(snap), Folder)
FileIn(snap, n) ==
    IF TextIn(snap.work, n) = Absent THEN Absent ELSE BlobEntry(TextIn(snap.work, n), snap.lock)

\* The merger can load what stands in a snapshot's root.
Opens(snap, r, missing) ==
    /\ EntryOf(snap) # Absent
    /\ EntryOf(snap).cipher.close = Commons \/ EntryOf(snap).cipher.epoch <= r
    /\ EntryOf(snap).cipher \notin missing

\* Two folders of one close, into which diverged goes if it can load both.
TwoFolders(o, t) ==
    /\ Absent \notin {EntryOf(o), EntryOf(t)}
    /\ EntryOf(o).kind = "tree" /\ EntryOf(t).kind = "tree"
    /\ EntryOf(o).close = EntryOf(t).close

\* What three_way makes of file n, in the cases in which it gets there.
FileOutcome(b, o, t, r, missing, n) ==
    IF Same(EntryOf(o), EntryOf(t)) THEN Take(FileIn(o, n))
    ELSE IF Same(EntryOf(o), EntryOf(b)) THEN Take(FileIn(t, n))
    ELSE IF Same(EntryOf(t), EntryOf(b)) THEN Take(FileIn(o, n))
    ELSE IF ~ TwoFolders(o, t) THEN Conflict(FALSE)
    ELSE IF ~ (Opens(o, r, missing) /\ Opens(t, r, missing)) THEN Conflict(TRUE)
    ELSE Outcome(IF Opens(b, r, missing) THEN FileIn(b, n) ELSE Absent,
                 FileIn(o, n), FileIn(t, n), Conflict(FALSE))

-----------------------------------------------------------------------------
\* Entries.

\* A lock is of one of the two closes, at an epoch there can be.
LEMMA LockParts ==
    ASSUME NEW l \in Locks
    PROVE  l.close \in {Commons, Drawer} /\ l.epoch \in 0..MaxEpoch
BY MergeAssumption DEF Locks

\* What can stand in the working tree: nothing, a file, or a folder of files.
LEMMA WorkKinds ==
    ASSUME NEW w \in Works
    PROVE  \/ w = Absent
           \/ w # Absent /\ \E text \in Texts : w = AFile(text)
           \/ w # Absent /\ \E files \in SomeOf(Files, Texts) : w = AFolder(files)
BY MergeAssumption DEF AnyWork

\* A folder's files are a function on some of the names.
LEMMA SomeOfIs ==
    ASSUME NEW S, NEW T, NEW f \in SomeOf(S, T)
    PROVE  DOMAIN f \subseteq S /\ f \in [DOMAIN f -> T]
BY DEF SomeOf

\* A function on some of the names is one of those.
LEMMA SomeOfHas ==
    ASSUME NEW S, NEW T, NEW N, N \subseteq S, NEW f \in [N -> T]
    PROVE  f \in SomeOf(S, T)
BY DEF SomeOf

\* What stands at file n of a file, of a folder, of nothing.
LEMMA TextOf ==
    ASSUME NEW n
    PROVE  /\ TextIn(Absent, n) = Absent
           /\ \A text \in Texts : TextIn(AFile(text), n) = Absent
           /\ \A files \in SomeOf(Files, Texts) :
                  TextIn(AFolder(files), n) = IF n \in DOMAIN files THEN files[n] ELSE Absent
<1>1. TextIn(Absent, n) = Absent
      BY DEF TextIn
<1>2. ASSUME NEW text \in Texts PROVE TextIn(AFile(text), n) = Absent
  <2>1. AFile(text) # Absent
        BY MergeAssumption DEF AnyWork
  <2>2. n \notin DOMAIN AFile(text).files
        BY DEF AFile
  <2> QED BY <2>1, <2>2 DEF TextIn
<1>3. ASSUME NEW files \in SomeOf(Files, Texts)
      PROVE  TextIn(AFolder(files), n) = IF n \in DOMAIN files THEN files[n] ELSE Absent
  <2>1. AFolder(files) # Absent
        BY MergeAssumption DEF AnyWork
  <2>2. AFolder(files).files = files
        BY DEF AFolder
  <2> QED BY <2>1, <2>2 DEF TextIn
<1> QED BY <1>1, <1>2, <1>3

\* A text is absent or one that a file may have.
LEMMA TextKinds ==
    ASSUME NEW w \in Works, NEW n
    PROVE  TextIn(w, n) \in Texts \cup {Absent}
<1>1. ASSUME NEW files \in SomeOf(Files, Texts), n \in DOMAIN files PROVE files[n] \in Texts
      BY <1>1, SomeOfIs
<1> QED BY <1>1, WorkKinds, TextOf

\* Sealing a file gives one of the entries of files.
LEMMA BlobIs ==
    ASSUME NEW text \in Texts, NEW l \in Locks
    PROVE  /\ BlobEntry(text, l) \in FileEntries
           /\ BlobEntry(text, l) # Absent
           /\ BlobEntry(text, l).kind = "blob" /\ BlobEntry(text, l).close = l.close
           /\ BlobEntry(text, l).plain = [close |-> l.close, body |-> [text |-> text, entries |-> <<>>]]
           /\ BlobEntry(text, l).cipher.body = [text |-> text, entries |-> <<>>]
           /\ BlobEntry(text, l).cipher.close = l.close
           /\ BlobEntry(text, l).cipher.epoch = l.epoch
<1>1. BlobEntry(text, l) \in FileEntries
      BY LockParts DEF BlobEntry, TreeEntry, FileEntries, EntriesWith
<1> QED BY <1>1, MergeAssumption DEF BlobEntry, TreeEntry

\* Sealing a folder gives one of the entries of folders.
LEMMA FolderIs ==
    ASSUME NEW files \in SomeOf(Files, Texts), NEW l \in Locks
    PROVE  /\ FolderEntry(files, l) # Absent
           /\ FolderEntry(files, l) \in FolderEntries
           /\ FolderEntry(files, l).kind = "tree" /\ FolderEntry(files, l).close = l.close
           /\ FolderEntry(files, l).plain.close = l.close
           /\ FolderEntry(files, l).plain.body = FolderEntry(files, l).cipher.body
           /\ FolderEntry(files, l).cipher.body.entries
                = [n \in DOMAIN files |-> BlobEntry(files[n], l)]
           /\ FolderEntry(files, l).cipher.body.entries \in SomeOf(Files, FileEntries)
           /\ FolderEntry(files, l).cipher.close = l.close
           /\ FolderEntry(files, l).cipher.epoch = l.epoch
<1> DEFINE entries == [n \in DOMAIN files |-> BlobEntry(files[n], l)]
<1>1. \A n \in DOMAIN files : BlobEntry(files[n], l) \in FileEntries
  <2> SUFFICES ASSUME NEW n \in DOMAIN files PROVE BlobEntry(files[n], l) \in FileEntries
      OBVIOUS
  <2>1. files[n] \in Texts
        BY SomeOfIs
  <2> QED BY <2>1, BlobIs
<1>2. entries \in SomeOf(Files, FileEntries)
  <2>1. entries \in [DOMAIN files -> FileEntries]
        BY <1>1
  <2> HIDE DEF entries
  <2> QED BY <2>1, SomeOfIs, SomeOfHas
<1>3. FolderEntry(files, l) = TreeEntry("tree", l, [text |-> 0, entries |-> entries])
      BY DEF FolderEntry
<1> HIDE DEF entries
<1>4. FolderEntry(files, l) \in FolderEntries
      BY <1>2, <1>3, LockParts DEF TreeEntry, FolderEntries, EntriesWith
<1>5. FolderEntry(files, l) # Absent
      BY <1>4, MergeAssumption
<1>6. FolderEntry(files, l).cipher.body.entries = entries
      BY <1>3 DEF TreeEntry
<1>7. /\ FolderEntry(files, l).kind = "tree" /\ FolderEntry(files, l).close = l.close
      /\ FolderEntry(files, l).plain.close = l.close
      /\ FolderEntry(files, l).plain.body = FolderEntry(files, l).cipher.body
      /\ FolderEntry(files, l).cipher.close = l.close
      /\ FolderEntry(files, l).cipher.epoch = l.epoch
      BY <1>3 DEF TreeEntry
<1> QED BY <1>2, <1>4, <1>5, <1>6, <1>7 DEF entries

\* The root of a snapshot holds what was kept at the folder's name, sealed.
LEMMA RootIs ==
    ASSUME NEW s \in Snapshots
    PROVE  /\ s.work = Absent => EntryOf(s) = Absent
           /\ \A text \in Texts : s.work = AFile(text) => EntryOf(s) = BlobEntry(text, s.lock)
           /\ \A files \in SomeOf(Files, Texts) :
                  s.work = AFolder(files) => EntryOf(s) = FolderEntry(files, s.lock)
<1>1. s.work \in Works /\ s.lock \in Locks
      BY DEF Snapshots
<1>2. ASSUME NEW entry, entry \in FileEntries \cup FolderEntries, RootTree(s) = [n \in {Folder} |-> entry]
      PROVE  EntryOf(s) = entry
  <2>1. [n \in {Folder} |-> entry] \in [{Folder} -> FileEntries] \cup [{Folder} -> FolderEntries]
        BY <1>2
  <2>2. RootTree(s) # Absent
        BY <1>2, <2>1, MergeAssumption
  <2> QED BY <1>2, <2>2 DEF EntryOf, EntryAt, Names
<1>3. CASE s.work = Absent
  <2>1. EntryOf(s) = Absent
        BY <1>3 DEF EntryOf, EntryAt, Names, RootTree
  <2>2. (\A text \in Texts : AFile(text) # Absent) /\ (\A files \in SomeOf(Files, Texts) : AFolder(files) # Absent)
        BY MergeAssumption DEF AnyWork
  <2> QED BY <1>3, <2>1, <2>2
<1>4. ASSUME NEW text \in Texts, s.work = AFile(text)
      PROVE  EntryOf(s) = BlobEntry(text, s.lock)
  <2>1. s.work # Absent /\ s.work.kind = "blob" /\ s.work.text = text
        BY <1>4, MergeAssumption DEF AnyWork, AFile
  <2>2. RootTree(s) = [n \in {Folder} |-> BlobEntry(text, s.lock)]
        BY <2>1 DEF RootTree
  <2> QED BY <1>1, <1>2, <2>2, BlobIs
<1>5. ASSUME NEW files \in SomeOf(Files, Texts), s.work = AFolder(files)
      PROVE  EntryOf(s) = FolderEntry(files, s.lock)
  <2>1. s.work # Absent /\ s.work.kind = "tree" /\ s.work.files = files
        BY <1>5, MergeAssumption DEF AnyWork, AFolder
  <2>2. RootTree(s) = [n \in {Folder} |-> FolderEntry(files, s.lock)]
        BY <2>1 DEF RootTree
  <2> QED BY <1>1, <1>2, <2>2, FolderIs
<1> QED BY <1>3, <1>4, <1>5

-----------------------------------------------------------------------------
\* What stands in a snapshot.

\* What stands at the folder's name is of the snapshot's lock, is a tree if a
\* folder was kept there, and has the files that were kept.
LEMMA EntryIs ==
    ASSUME NEW s \in Snapshots
    PROVE  LET e == EntryOf(s)
           IN  /\ e = Absent <=> s.work = Absent
               /\ e = Absent => \A n : FileIn(s, n) = Absent
               /\ e # Absent =>
                    /\ e.close = s.lock.close /\ e.plain.close = s.lock.close
                    /\ e.cipher.close = s.lock.close /\ e.cipher.epoch = s.lock.epoch
                    /\ e.plain.body = e.cipher.body
                    /\ e.kind = "tree" <=> s.work.kind = "tree"
                    /\ e.cipher.body.entries # Absent
                    /\ \A n : EntryAt(e.cipher.body.entries, n) = FileIn(s, n)
<1> DEFINE e == EntryOf(s)
<1>1. s.work \in Works /\ s.lock \in Locks
      BY DEF Snapshots
<1>2. CASE s.work = Absent
  <2>1. e = Absent
        BY <1>2, RootIs
  <2>2. ASSUME NEW n PROVE FileIn(s, n) = Absent
        BY <1>2, TextOf DEF FileIn
  <2> QED BY <1>2, <2>1, <2>2
<1>3. ASSUME NEW text \in Texts, s.work # Absent, s.work = AFile(text)
      PROVE  /\ e # Absent
             /\ e.close = s.lock.close /\ e.plain.close = s.lock.close
             /\ e.cipher.close = s.lock.close /\ e.cipher.epoch = s.lock.epoch
             /\ e.plain.body = e.cipher.body
             /\ e.kind = "tree" <=> s.work.kind = "tree"
             /\ e.cipher.body.entries # Absent
             /\ \A n : EntryAt(e.cipher.body.entries, n) = FileIn(s, n)
  <2>1. e = BlobEntry(text, s.lock)
        BY <1>3, RootIs
  <2>0. /\ e # Absent
        /\ e.kind = "blob" /\ e.close = s.lock.close
        /\ e.plain = [close |-> s.lock.close, body |-> [text |-> text, entries |-> <<>>]]
        /\ e.cipher.body = [text |-> text, entries |-> <<>>]
        /\ e.cipher.close = s.lock.close
        /\ e.cipher.epoch = s.lock.epoch
    <3> HIDE DEF e
    <3> QED BY <1>1, <2>1, BlobIs
  <2>2. e.cipher.body.entries = <<>> /\ e.kind = "blob" /\ s.work.kind = "blob"
    <3> HIDE DEF e
    <3> QED BY <1>3, <2>0 DEF AFile
  <2>3. <<>> # Absent
    <3>1. <<>> \in [{} -> FileEntries]
          OBVIOUS
    <3>2. <<>> \in SomeOf(Files, FileEntries)
          BY <3>1, SomeOfHas
    <3> QED BY <3>2, MergeAssumption
  <2>4. ASSUME NEW n PROVE EntryAt(<<>>, n) = FileIn(s, n)
    <3>1. FileIn(s, n) = Absent
          BY <1>3, TextOf DEF FileIn
    <3>2. Names(<<>>) = {}
          BY DEF Names
    <3> QED BY <3>1, <3>2 DEF EntryAt
  <2> HIDE DEF e
  <2> QED BY <2>0, <2>2, <2>3, <2>4
<1>4. ASSUME NEW files \in SomeOf(Files, Texts), s.work # Absent, s.work = AFolder(files)
      PROVE  /\ e # Absent
             /\ e.close = s.lock.close /\ e.plain.close = s.lock.close
             /\ e.cipher.close = s.lock.close /\ e.cipher.epoch = s.lock.epoch
             /\ e.plain.body = e.cipher.body
             /\ e.kind = "tree" <=> s.work.kind = "tree"
             /\ e.cipher.body.entries # Absent
             /\ \A n : EntryAt(e.cipher.body.entries, n) = FileIn(s, n)
  <2>1. e = FolderEntry(files, s.lock)
        BY <1>4, RootIs
  <2>2. /\ e.cipher.body.entries = [n \in DOMAIN files |-> BlobEntry(files[n], s.lock)]
        /\ e.kind = "tree" /\ s.work.kind = "tree"
        BY <1>1, <1>4, <2>1, FolderIs DEF AFolder
  <2>3. e.cipher.body.entries # Absent
    <3>1. e.cipher.body.entries \in SomeOf(Files, FileEntries)
      <4> HIDE DEF e
      <4> QED BY <1>1, <2>1, FolderIs
    <3> QED BY <3>1, MergeAssumption
  <2>4. ASSUME NEW n PROVE EntryAt(e.cipher.body.entries, n) = FileIn(s, n)
    <3>1. Names(e.cipher.body.entries) = DOMAIN files
          BY <2>2, <2>3 DEF Names
    <3>2. TextIn(s.work, n) = IF n \in DOMAIN files THEN files[n] ELSE Absent
          BY <1>4, TextOf
    <3>3. n \in DOMAIN files => files[n] # Absent
          BY SomeOfIs, MergeAssumption
    <3>4. n \in DOMAIN files => e.cipher.body.entries[n] = BlobEntry(files[n], s.lock)
          BY <2>2
    <3> QED BY <3>1, <3>2, <3>3, <3>4 DEF EntryAt, FileIn
  <2> QED BY <1>1, <2>1, <2>2, <2>3, <2>4, FolderIs
<1> HIDE DEF e
<1>5. s.work # Absent =>
          /\ e # Absent
          /\ e.close = s.lock.close /\ e.plain.close = s.lock.close
          /\ e.cipher.close = s.lock.close /\ e.cipher.epoch = s.lock.epoch
          /\ e.plain.body = e.cipher.body
          /\ e.kind = "tree" <=> s.work.kind = "tree"
          /\ e.cipher.body.entries # Absent
          /\ \A n : EntryAt(e.cipher.body.entries, n) = FileIn(s, n)
      BY <1>1, <1>3, <1>4, WorkKinds
<1> QED BY <1>2, <1>5 DEF e

\* A file of a snapshot has its text, under the snapshot's lock.
LEMMA FileIs ==
    ASSUME NEW s \in Snapshots, NEW n
    PROVE  LET f == FileIn(s, n)
           IN  /\ f = Absent <=> TextIn(s.work, n) = Absent
               /\ f # Absent => /\ f.cipher.body.text = TextIn(s.work, n)
                                /\ f.plain.body.text = TextIn(s.work, n)
                                /\ f.close = s.lock.close
                                /\ f.plain = [close |-> s.lock.close,
                                              body |-> [text |-> TextIn(s.work, n), entries |-> <<>>]]
<1>1. s.work \in Works /\ s.lock \in Locks
      BY DEF Snapshots
<1>2. TextIn(s.work, n) # Absent => TextIn(s.work, n) \in Texts
      BY <1>1, TextKinds
<1> DEFINE text == TextIn(s.work, n)
<1>3. text # Absent =>
          /\ BlobEntry(text, s.lock) # Absent
          /\ BlobEntry(text, s.lock).close = s.lock.close
          /\ BlobEntry(text, s.lock).cipher.body = [text |-> text, entries |-> <<>>]
          /\ BlobEntry(text, s.lock).plain =
                 [close |-> s.lock.close, body |-> [text |-> text, entries |-> <<>>]]
      BY <1>1, <1>2, BlobIs
<1> HIDE DEF text
<1> QED BY <1>3 DEF FileIn, text

\* Same is symmetric, transitive and reflexive.
LEMMA SameIsEquality ==
    ASSUME NEW a, NEW b, NEW c
    PROVE  /\ Same(a, a)
           /\ Same(a, b) => Same(b, a)
           /\ Same(a, b) /\ Same(b, c) => Same(a, c)
BY DEF Same

\* Two files that are the same have one text; of one close, one text suffices.
LEMMA SameFile ==
    ASSUME NEW s \in Snapshots, NEW u \in Snapshots, NEW n
    PROVE  /\ Same(FileIn(s, n), FileIn(u, n)) => TextIn(s.work, n) = TextIn(u.work, n)
           /\ s.lock.close = u.lock.close /\ TextIn(s.work, n) = TextIn(u.work, n) =>
                  Same(FileIn(s, n), FileIn(u, n))
<1>1. /\ FileIn(s, n) = Absent <=> TextIn(s.work, n) = Absent
      /\ FileIn(s, n) # Absent =>
            /\ FileIn(s, n).plain.body.text = TextIn(s.work, n)
            /\ FileIn(s, n).close = s.lock.close
            /\ FileIn(s, n).plain = [close |-> s.lock.close,
                                     body |-> [text |-> TextIn(s.work, n), entries |-> <<>>]]
      BY FileIs
<1>2. /\ FileIn(u, n) = Absent <=> TextIn(u.work, n) = Absent
      /\ FileIn(u, n) # Absent =>
            /\ FileIn(u, n).plain.body.text = TextIn(u.work, n)
            /\ FileIn(u, n).close = u.lock.close
            /\ FileIn(u, n).plain = [close |-> u.lock.close,
                                     body |-> [text |-> TextIn(u.work, n), entries |-> <<>>]]
      BY FileIs
<1> DEFINE f == FileIn(s, n)
           g == FileIn(u, n)
<1> HIDE DEF f, g
<1>3. ASSUME Same(f, g) PROVE TextIn(s.work, n) = TextIn(u.work, n)
  <2>1. (f = Absent /\ g = Absent) \/ (f # Absent /\ g # Absent /\ f.plain = g.plain)
        BY <1>3 DEF Same
  <2> QED BY <1>1, <1>2, <2>1 DEF f, g
<1>4. ASSUME s.lock.close = u.lock.close, TextIn(s.work, n) = TextIn(u.work, n)
      PROVE  Same(f, g)
  <2>1. f = Absent <=> g = Absent
        BY <1>1, <1>2, <1>4 DEF f, g
  <2>2. f # Absent => f.plain = g.plain /\ f.close = g.close
        BY <1>1, <1>2, <1>4, <2>1 DEF f, g
  <2> QED BY <2>1, <2>2 DEF Same
<1> QED BY <1>3, <1>4 DEF f, g

\* Two folders that are the same have the same files: a plain id pins them.
LEMMA SameFolder ==
    ASSUME NEW s \in Snapshots, NEW u \in Snapshots, Same(EntryOf(s), EntryOf(u)), NEW n
    PROVE  FileIn(s, n) = FileIn(u, n) /\ TextIn(s.work, n) = TextIn(u.work, n)
<1>1. CASE EntryOf(s) = Absent
  <2>1. EntryOf(u) = Absent
        BY <1>1 DEF Same
  <2>2. FileIn(s, n) = Absent /\ FileIn(u, n) = Absent
        BY <1>1, <2>1, EntryIs
  <2> QED BY <2>2, FileIs
<1>2. CASE EntryOf(s) # Absent
  <2>1. EntryOf(u) # Absent /\ EntryOf(s).plain = EntryOf(u).plain
        BY <1>2 DEF Same
  <2>2. EntryOf(s).cipher.body.entries = EntryOf(u).cipher.body.entries
    <3>1. EntryOf(s).plain.body = EntryOf(s).cipher.body
          BY <1>2, EntryIs
    <3>2. EntryOf(u).plain.body = EntryOf(u).cipher.body
          BY <2>1, EntryIs
    <3> QED BY <2>1, <3>1, <3>2
  <2>3. EntryAt(EntryOf(s).cipher.body.entries, n) = FileIn(s, n)
        BY <1>2, EntryIs
  <2>4. EntryAt(EntryOf(u).cipher.body.entries, n) = FileIn(u, n)
        BY <2>1, EntryIs
  <2>5. FileIn(s, n) = FileIn(u, n)
        BY <2>2, <2>3, <2>4
  <2>6. Same(FileIn(s, n), FileIn(u, n))
        BY <2>5, SameIsEquality
  <2> QED BY <2>5, <2>6, SameFile
<1> QED BY <1>1, <1>2


-----------------------------------------------------------------------------
\* What three_way does.

\* The outcome at a name: an absent name is one that both agree to be absent.
LEMMA PresentAt ==
    ASSUME NEW outcomes, NEW n
    PROVE  At(Present(outcomes), n) = IF n \in DOMAIN outcomes THEN outcomes[n] ELSE Take(Absent)
BY DEF At, Present

\* Nothing on any side comes to nothing.
LEMMA NothingOfNothing ==
    ASSUME NEW d
    PROVE  Outcome(Absent, Absent, Absent, d) = Take(Absent)
BY DEF Outcome, Same

\* What three_way makes of a file in a folder.
LEMMA FilesMerged ==
    ASSUME NEW b, NEW o, NEW t, NEW n
    PROVE  At(MergeFiles(b, o, t), n)
             = Outcome(EntryAt(b, n), EntryAt(o, n), EntryAt(t, n), Conflict(FALSE))
<1> DEFINE all == Names(b) \cup Names(o) \cup Names(t)
           F(m) == Outcome(EntryAt(b, m), EntryAt(o, m), EntryAt(t, m), Conflict(FALSE))
<1>1. MergeFiles(b, o, t) = Present([m \in all |-> F(m)])
      BY DEF MergeFiles
<1>2. n \notin all => F(n) = Take(Absent)
  <2>1. n \notin all => EntryAt(b, n) = Absent /\ EntryAt(o, n) = Absent /\ EntryAt(t, n) = Absent
        BY DEF EntryAt
  <2> QED BY <2>1, NothingOfNothing
<1> HIDE DEF F, all
<1> DEFINE outcomes == [m \in all |-> F(m)]
<1>3. DOMAIN outcomes = all /\ (n \in all => outcomes[n] = F(n))
      OBVIOUS
<1> HIDE DEF outcomes
<1>4. At(Present(outcomes), n) = F(n)
      BY <1>2, <1>3, PresentAt
<1> QED BY <1>1, <1>4 DEF F, outcomes

\* What three_way makes of the folder.
LEMMA FolderMerged ==
    ASSUME NEW b, NEW o, NEW t, NEW r, NEW missing, NEW n
    PROVE  At(ThreeWay(b, o, t, r, missing), n)
             = Outcome(EntryAt(b, n), EntryAt(o, n), EntryAt(t, n),
                       Diverged(EntryAt(b, n), EntryAt(o, n), EntryAt(t, n), r, missing))
<1> DEFINE all == Names(b) \cup Names(o) \cup Names(t)
           F(m) == Outcome(EntryAt(b, m), EntryAt(o, m), EntryAt(t, m),
                           Diverged(EntryAt(b, m), EntryAt(o, m), EntryAt(t, m), r, missing))
<1>1. ThreeWay(b, o, t, r, missing) = Present([m \in all |-> F(m)])
      BY DEF ThreeWay
<1>2. n \notin all => F(n) = Take(Absent)
  <2>1. n \notin all => EntryAt(b, n) = Absent /\ EntryAt(o, n) = Absent /\ EntryAt(t, n) = Absent
        BY DEF EntryAt
  <2> QED BY <2>1, NothingOfNothing
<1> HIDE DEF F, all
<1> DEFINE outcomes == [m \in all |-> F(m)]
<1>3. DOMAIN outcomes = all /\ (n \in all => outcomes[n] = F(n))
      OBVIOUS
<1> HIDE DEF outcomes
<1>4. At(Present(outcomes), n) = F(n)
      BY <1>2, <1>3, PresentAt
<1> QED BY <1>1, <1>4 DEF F, outcomes

\* What the merger can load has the files of the snapshot.
LEMMA Loaded ==
    ASSUME NEW s \in Snapshots, NEW r, NEW missing, EntryOf(s) # Absent, NEW n
    PROVE  /\ Load(EntryOf(s).cipher, r, missing) = Absent <=> ~ Opens(s, r, missing)
           /\ EntryAt(Load(EntryOf(s).cipher, r, missing), n)
                = IF Opens(s, r, missing) THEN FileIn(s, n) ELSE Absent
<1> DEFINE e == EntryOf(s)
<1>1. e.cipher.body.entries # Absent /\ EntryAt(e.cipher.body.entries, n) = FileIn(s, n)
      BY EntryIs
<1>2. Load(e.cipher, r, missing) = IF Opens(s, r, missing) THEN e.cipher.body.entries ELSE Absent
      BY DEF Load, Opens
<1>3. EntryAt(Absent, n) = Absent
      BY DEF EntryAt, Names
<1> HIDE DEF e
<1>4. CASE Opens(s, r, missing)
      BY <1>1, <1>2, <1>4 DEF e
<1>5. CASE ~ Opens(s, r, missing)
      BY <1>2, <1>3, <1>5 DEF e
<1> QED BY <1>4, <1>5

\* What three_way makes of a file, whichever way it gets there.
LEMMA InsideIs ==
    ASSUME NEW b \in Snapshots, NEW o \in Snapshots, NEW t \in Snapshots,
           NEW r, NEW missing, NEW n
    PROVE  Inside(ThreeWay(RootTree(b), RootTree(o), RootTree(t), r, missing), n)
             = FileOutcome(b, o, t, r, missing, n)
<1> DEFINE merged == ThreeWay(RootTree(b), RootTree(o), RootTree(t), r, missing)
           d == Diverged(EntryOf(b), EntryOf(o), EntryOf(t), r, missing)
<1>1. At(merged, Folder) = Outcome(EntryOf(b), EntryOf(o), EntryOf(t), d)
      BY FolderMerged DEF EntryOf
<1>2. ASSUME NEW s \in Snapshots, At(merged, Folder) = Take(EntryOf(s))
      PROVE  Inside(merged, n) = Take(FileIn(s, n))
  <2>1. At(merged, Folder).is = "take" /\ At(merged, Folder).entry = EntryOf(s)
        BY <1>2 DEF Take
  <2> HIDE DEF merged
  <2>2. CASE EntryOf(s) = Absent
    <3>1. FileIn(s, n) = Absent
          BY <2>2, EntryIs
    <3> QED BY <1>2, <2>1, <2>2, <3>1 DEF Inside
  <2>3. CASE EntryOf(s) # Absent
    <3>1. EntryAt(EntryOf(s).cipher.body.entries, n) = FileIn(s, n)
          BY <2>3, EntryIs
    <3> QED BY <2>1, <2>3, <3>1 DEF Inside
  <2> QED BY <2>2, <2>3
<1>3. ASSUME NEW sealed, At(merged, Folder) = Conflict(sealed)
      PROVE  Inside(merged, n) = Conflict(sealed)
  <2>1. At(merged, Folder).is = "conflict"
        BY <1>3 DEF Conflict
  <2> QED BY <1>3, <2>1 DEF Inside
<1>4. ASSUME NEW tree, At(merged, Folder) = Subtree(tree)
      PROVE  Inside(merged, n) = At(tree, n)
  <2>1. At(merged, Folder).is = "subtree" /\ At(merged, Folder).tree = tree
        BY <1>4 DEF Subtree
  <2> QED BY <2>1 DEF Inside
<1>5. ~ TwoFolders(o, t) => d = Conflict(FALSE)
      BY DEF Diverged, TwoFolders
<1>6. TwoFolders(o, t) /\ ~ (Opens(o, r, missing) /\ Opens(t, r, missing)) => d = Conflict(TRUE)
  <2> SUFFICES ASSUME TwoFolders(o, t), ~ (Opens(o, r, missing) /\ Opens(t, r, missing))
               PROVE  d = Conflict(TRUE)
      OBVIOUS
  <2>1. Absent \in {Load(EntryOf(o).cipher, r, missing), Load(EntryOf(t).cipher, r, missing)}
        BY Loaded DEF TwoFolders
  <2> QED BY <2>1 DEF Diverged, TwoFolders
<1> DEFINE bt == IF EntryOf(b) = Absent THEN Absent ELSE Load(EntryOf(b).cipher, r, missing)
           files == MergeFiles(bt, Load(EntryOf(o).cipher, r, missing), Load(EntryOf(t).cipher, r, missing))
<1>7. ASSUME TwoFolders(o, t), Opens(o, r, missing), Opens(t, r, missing)
      PROVE  /\ d = Subtree(files)
             /\ At(files, n) = Outcome(IF Opens(b, r, missing) THEN FileIn(b, n) ELSE Absent,
                                       FileIn(o, n), FileIn(t, n), Conflict(FALSE))
  <2>1. Absent \notin {Load(EntryOf(o).cipher, r, missing), Load(EntryOf(t).cipher, r, missing)}
        BY <1>7, Loaded DEF TwoFolders
  <2>2. d = Subtree(files)
        BY <1>7, <2>1 DEF Diverged, TwoFolders
  <2>3. EntryAt(Load(EntryOf(o).cipher, r, missing), n) = FileIn(o, n)
        BY <1>7, Loaded DEF TwoFolders
  <2>4. EntryAt(Load(EntryOf(t).cipher, r, missing), n) = FileIn(t, n)
        BY <1>7, Loaded DEF TwoFolders
  <2>5. EntryAt(bt, n) = IF Opens(b, r, missing) THEN FileIn(b, n) ELSE Absent
    <3>1. CASE EntryOf(b) = Absent
      <4>1. EntryAt(Absent, n) = Absent
            BY DEF EntryAt, Names
      <4>2. ~ Opens(b, r, missing)
            BY <3>1 DEF Opens
      <4> QED BY <3>1, <4>1, <4>2
    <3>2. CASE EntryOf(b) # Absent
          BY <3>2, Loaded
    <3> QED BY <3>1, <3>2
  <2> HIDE DEF bt
  <2>6. At(files, n) = Outcome(EntryAt(bt, n), EntryAt(Load(EntryOf(o).cipher, r, missing), n),
                               EntryAt(Load(EntryOf(t).cipher, r, missing), n), Conflict(FALSE))
        BY FilesMerged
  <2> QED BY <2>2, <2>3, <2>4, <2>5, <2>6
<1> HIDE DEF merged, d, files
<1> DEFINE result == FileOutcome(b, o, t, r, missing, n)
<1> SUFFICES Inside(merged, n) = result
    BY DEF merged
<1> HIDE DEF result
<1>8. CASE Same(EntryOf(o), EntryOf(t))
  <2>1. At(merged, Folder) = Take(EntryOf(o))
        BY <1>1, <1>8 DEF Outcome
  <2>2. result = Take(FileIn(o, n))
        BY <1>8 DEF FileOutcome, result
  <2> QED BY <1>2, <2>1, <2>2
<1>9. CASE ~ Same(EntryOf(o), EntryOf(t)) /\ Same(EntryOf(o), EntryOf(b))
  <2>1. At(merged, Folder) = Take(EntryOf(t))
        BY <1>1, <1>9 DEF Outcome
  <2>2. result = Take(FileIn(t, n))
        BY <1>9 DEF FileOutcome, result
  <2> QED BY <1>2, <2>1, <2>2
<1>10. CASE /\ ~ Same(EntryOf(o), EntryOf(t)) /\ ~ Same(EntryOf(o), EntryOf(b))
            /\ Same(EntryOf(t), EntryOf(b))
  <2>1. At(merged, Folder) = Take(EntryOf(o))
        BY <1>1, <1>10 DEF Outcome
  <2>2. result = Take(FileIn(o, n))
        BY <1>10 DEF FileOutcome, result
  <2> QED BY <1>2, <2>1, <2>2
<1>11. CASE /\ ~ Same(EntryOf(o), EntryOf(t)) /\ ~ Same(EntryOf(o), EntryOf(b))
            /\ ~ Same(EntryOf(t), EntryOf(b))
  <2>1. At(merged, Folder) = d
        BY <1>1, <1>11 DEF Outcome
  <2>2. CASE ~ TwoFolders(o, t)
    <3>1. result = Conflict(FALSE)
          BY <1>11, <2>2 DEF FileOutcome, result
    <3> QED BY <1>3, <1>5, <2>1, <2>2, <3>1
  <2>3. CASE TwoFolders(o, t) /\ ~ (Opens(o, r, missing) /\ Opens(t, r, missing))
    <3>1. result = Conflict(TRUE)
          BY <1>11, <2>3 DEF FileOutcome, result
    <3> QED BY <1>3, <1>6, <2>1, <2>3, <3>1
  <2>4. CASE TwoFolders(o, t) /\ Opens(o, r, missing) /\ Opens(t, r, missing)
    <3>1. Inside(merged, n) = At(files, n)
          BY <1>4, <1>7, <2>1, <2>4
    <3>2. result = Outcome(IF Opens(b, r, missing) THEN FileIn(b, n) ELSE Absent,
                           FileIn(o, n), FileIn(t, n), Conflict(FALSE))
          BY <1>11, <2>4 DEF FileOutcome, result
    <3> QED BY <1>7, <2>4, <3>1, <3>2
  <2> QED BY <2>2, <2>3, <2>4
<1> QED BY <1>8, <1>9, <1>10, <1>11

-----------------------------------------------------------------------------
\* The invariant.

\* A lock comes no earlier than another: a folder stays protected, and its lock
\* is only ever rotated onwards.
Before(l, m) == l.close = Drawer => m.close = Drawer /\ l.epoch <= m.epoch

MergeInv ==
    /\ base \in Snapshots /\ ours \in Snapshots /\ theirs \in Snapshots
    /\ lock \in Locks /\ reach \in -1..MaxEpoch /\ baseHere \in BOOLEAN
    /\ Before(base.lock, ours.lock) /\ Before(base.lock, theirs.lock)
    /\ Before(ours.lock, lock) /\ Before(theirs.lock, lock)

\* Coming no earlier is reflexive and transitive.
LEMMA BeforeIs ==
    ASSUME NEW l \in Locks, NEW m \in Locks, NEW k \in Locks
    PROVE  Before(l, l) /\ (Before(l, m) /\ Before(m, k) => Before(l, k))
<1>1. l.epoch \in Int /\ m.epoch \in Int /\ k.epoch \in Int
  <2>1. 0..MaxEpoch \subseteq Int
        BY MergeAssumption
  <2> QED BY <2>1, LockParts
<1> QED BY <1>1 DEF Before

\* Both sides start from the base, under the lock of the day.
LEMMA MergeInvInit == Init => MergeInv
<1> SUFFICES ASSUME Init PROVE MergeInv
    OBVIOUS
<1>1. lock \in Locks /\ base \in Snapshots /\ base.lock = lock /\ ours = base /\ theirs = base
      BY DEF Init, Snapshots
<1>2. reach \in -1..MaxEpoch /\ baseHere \in BOOLEAN
      BY MergeAssumption DEF Init
<1> QED BY <1>1, <1>2, BeforeIs DEF MergeInv

\* Every step of a side, of the lock or of the merger preserves the invariant.
LEMMA MergeInvNext == MergeInv /\ [Next]_vars => MergeInv'
<1> SUFFICES ASSUME MergeInv, [Next]_vars PROVE MergeInv'
    OBVIOUS
<1>1. /\ base \in Snapshots /\ ours \in Snapshots /\ theirs \in Snapshots
      /\ lock \in Locks /\ reach \in -1..MaxEpoch /\ baseHere \in BOOLEAN
      /\ Before(base.lock, ours.lock) /\ Before(base.lock, theirs.lock)
      /\ Before(ours.lock, lock) /\ Before(theirs.lock, lock)
      BY DEF MergeInv
<1>2. base.lock \in Locks /\ ours.lock \in Locks /\ theirs.lock \in Locks
      BY <1>1 DEF Snapshots
<1>3. Before(base.lock, lock) /\ Before(lock, lock)
      BY <1>1, <1>2, BeforeIs
<1>4. ASSUME NEW w \in Works, KeepOurs(w) PROVE MergeInv'
  <2>1. ours' \in Snapshots /\ ours'.lock = lock
        BY <1>1, <1>4 DEF KeepOurs, Snapshots
  <2> QED BY <1>1, <1>3, <1>4, <2>1 DEF KeepOurs, MergeInv
<1>5. ASSUME NEW w \in Works, KeepTheirs(w) PROVE MergeInv'
  <2>1. theirs' \in Snapshots /\ theirs'.lock = lock
        BY <1>1, <1>5 DEF KeepTheirs, Snapshots
  <2> QED BY <1>1, <1>3, <1>5, <2>1 DEF KeepTheirs, MergeInv
<1>6. ASSUME lock' \in Locks, Before(lock, lock'), UNCHANGED <<base, ours, theirs, reach, baseHere>>
      PROVE  MergeInv'
  <2>1. Before(ours.lock, lock') /\ Before(theirs.lock, lock')
        BY <1>1, <1>2, <1>6, BeforeIs
  <2> QED BY <1>1, <1>6, <2>1 DEF MergeInv
<1>7. CASE Protect
  <2>1. lock' \in Locks
        BY <1>7, MergeAssumption DEF Protect, Locks
  <2>2. Before(lock, lock')
        BY <1>7, MergeAssumption DEF Protect, Before
  <2> QED BY <1>6, <1>7, <2>1, <2>2 DEF Protect
<1>8. CASE Rotate
  <2>1. lock \in [close : {Drawer}, epoch : 0..MaxEpoch] /\ lock.epoch < MaxEpoch
        BY <1>1, <1>8, MergeAssumption DEF Rotate, Locks
  <2>2. lock.epoch \in Int /\ lock.epoch + 1 \in 0..MaxEpoch
        BY <2>1, MergeAssumption
  <2>3. lock' \in [close : {Drawer}, epoch : 0..MaxEpoch] /\ lock'.epoch = lock.epoch + 1
        BY <1>8, <2>1, <2>2 DEF Rotate
  <2>4. lock' \in Locks /\ Before(lock, lock')
        BY <2>2, <2>3 DEF Locks, Before
  <2> QED BY <1>6, <1>8, <2>4 DEF Rotate
<1>9. ASSUME NEW e \in 0..MaxEpoch, Learn(e) PROVE MergeInv'
      BY <1>1, <1>9, MergeAssumption DEF Learn, MergeInv
<1>10. CASE UNCHANGED vars
      BY <1>1, <1>10 DEF vars, MergeInv
<1> QED BY <1>4, <1>5, <1>7, <1>8, <1>9, <1>10 DEF Next

\* In every reachable state the snapshots are well formed, each under the lock
\* of its day, and neither side's lock comes before that of the base.
THEOREM MergeInvariant == Spec => []MergeInv
BY MergeInvInit, MergeInvNext, PTL DEF Spec

-----------------------------------------------------------------------------
\* From outcomes to texts.

\* A taken file is settled, with its text.
LEMMA TakenIs ==
    ASSUME NEW merged, NEW n, NEW s \in Snapshots, Inside(merged, n) = Take(FileIn(s, n))
    PROVE  Settled(merged, n) /\ MergedText(merged, n) = TextIn(s.work, n)
<1>1. Inside(merged, n).is = "take" /\ Inside(merged, n).entry = FileIn(s, n)
      BY DEF Take
<1>2. Settled(merged, n)
      BY <1>1 DEF Settled
<1>3. MergedText(merged, n) = TextIn(s.work, n)
      BY <1>1, FileIs DEF MergedText
<1> QED BY <1>2, <1>3

\* So is nothing, taken because both sides agree on it or one removed it.
LEMMA ConflictIs ==
    ASSUME NEW merged, NEW n, NEW sealed, Inside(merged, n) = Conflict(sealed)
    PROVE  ~ Settled(merged, n) /\ Inside(merged, n).sealed = sealed
BY DEF Settled, Conflict

\* Files of the three in two folders that open: as texts that move or clash.
LEMMA FilesOutcome ==
    ASSUME NEW bf, NEW o \in Snapshots, NEW t \in Snapshots, NEW n
    PROVE  LET outcome == Outcome(bf, FileIn(o, n), FileIn(t, n), Conflict(FALSE))
           IN  \/ /\ outcome = Take(FileIn(o, n))
                  /\ TextIn(o.work, n) = TextIn(t.work, n) \/ Same(FileIn(t, n), bf)
               \/ outcome = Take(FileIn(t, n)) /\ Same(FileIn(o, n), bf)
               \/ /\ outcome = Conflict(FALSE) /\ ~ Same(FileIn(o, n), FileIn(t, n))
                  /\ ~ Same(FileIn(o, n), bf) /\ ~ Same(FileIn(t, n), bf)
<1>1. CASE Same(FileIn(o, n), FileIn(t, n))
  <2>1. TextIn(o.work, n) = TextIn(t.work, n)
        BY <1>1, SameFile
  <2> QED BY <1>1, <2>1 DEF Outcome
<1>2. CASE ~ Same(FileIn(o, n), FileIn(t, n)) /\ Same(FileIn(o, n), bf)
      BY <1>2 DEF Outcome
<1>3. CASE /\ ~ Same(FileIn(o, n), FileIn(t, n)) /\ ~ Same(FileIn(o, n), bf)
           /\ Same(FileIn(t, n), bf)
      BY <1>3 DEF Outcome
<1>4. CASE /\ ~ Same(FileIn(o, n), FileIn(t, n)) /\ ~ Same(FileIn(o, n), bf)
           /\ ~ Same(FileIn(t, n), bf)
      BY <1>4 DEF Outcome
<1> QED BY <1>1, <1>2, <1>3, <1>4

\* A file that a merge settles has the text both sides agree on, or that of one
\* side while the other's is the base's, or is absent where the base of two
\* folders that open does not.
LEMMA SettledIs ==
    ASSUME NEW b \in Snapshots, NEW o \in Snapshots, NEW t \in Snapshots,
           NEW r, NEW missing, NEW n,
           Settled(ThreeWay(RootTree(b), RootTree(o), RootTree(t), r, missing), n)
    PROVE  LET text == MergedText(ThreeWay(RootTree(b), RootTree(o), RootTree(t), r, missing), n)
               blind == Opens(o, r, missing) /\ ~ Opens(b, r, missing) /\ TwoFolders(o, t)
           IN  \/ TextIn(o.work, n) = TextIn(t.work, n) /\ text = TextIn(o.work, n)
               \/ /\ text = TextIn(t.work, n)
                  /\ \/ TextIn(o.work, n) = TextIn(b.work, n)
                     \/ blind /\ TextIn(o.work, n) = Absent
               \/ /\ text = TextIn(o.work, n)
                  /\ \/ TextIn(t.work, n) = TextIn(b.work, n)
                     \/ blind /\ TextIn(t.work, n) = Absent
<1> DEFINE merged == ThreeWay(RootTree(b), RootTree(o), RootTree(t), r, missing)
           blind == Opens(o, r, missing) /\ ~ Opens(b, r, missing) /\ TwoFolders(o, t)
           bf == IF Opens(b, r, missing) THEN FileIn(b, n) ELSE Absent
<1>1. Inside(merged, n) = FileOutcome(b, o, t, r, missing, n)
      BY InsideIs
<1>2. Settled(merged, n)
      OBVIOUS
<1> SUFFICES \/ TextIn(o.work, n) = TextIn(t.work, n) /\ MergedText(merged, n) = TextIn(o.work, n)
             \/ /\ MergedText(merged, n) = TextIn(t.work, n)
                /\ TextIn(o.work, n) = TextIn(b.work, n) \/ (blind /\ TextIn(o.work, n) = Absent)
             \/ /\ MergedText(merged, n) = TextIn(o.work, n)
                /\ TextIn(t.work, n) = TextIn(b.work, n) \/ (blind /\ TextIn(t.work, n) = Absent)
    OBVIOUS
<1> HIDE DEF merged
<1>3. CASE Same(EntryOf(o), EntryOf(t))
  <2>1. Inside(merged, n) = Take(FileIn(o, n))
        BY <1>1, <1>3 DEF FileOutcome
  <2> QED BY <1>3, <2>1, TakenIs, SameFolder
<1>4. CASE ~ Same(EntryOf(o), EntryOf(t)) /\ Same(EntryOf(o), EntryOf(b))
  <2>1. Inside(merged, n) = Take(FileIn(t, n))
        BY <1>1, <1>4 DEF FileOutcome
  <2> QED BY <1>4, <2>1, TakenIs, SameFolder
<1>5. CASE /\ ~ Same(EntryOf(o), EntryOf(t)) /\ ~ Same(EntryOf(o), EntryOf(b))
           /\ Same(EntryOf(t), EntryOf(b))
  <2>1. Inside(merged, n) = Take(FileIn(o, n))
        BY <1>1, <1>5 DEF FileOutcome
  <2> QED BY <1>5, <2>1, TakenIs, SameFolder
<1>6. CASE /\ ~ Same(EntryOf(o), EntryOf(t)) /\ ~ Same(EntryOf(o), EntryOf(b))
           /\ ~ Same(EntryOf(t), EntryOf(b))
  <2>1. TwoFolders(o, t) /\ Opens(o, r, missing) /\ Opens(t, r, missing)
    <3>1. Inside(merged, n) # Conflict(FALSE) /\ Inside(merged, n) # Conflict(TRUE)
          BY <1>2, ConflictIs
    <3> QED BY <1>1, <1>6, <3>1 DEF FileOutcome
  <2>2. Inside(merged, n) = Outcome(bf, FileIn(o, n), FileIn(t, n), Conflict(FALSE))
        BY <1>1, <1>6, <2>1 DEF FileOutcome
  <2>3. ASSUME NEW s \in Snapshots, Same(FileIn(s, n), bf)
        PROVE  TextIn(s.work, n) = TextIn(b.work, n) \/ (blind /\ TextIn(s.work, n) = Absent)
    <3>1. CASE Opens(b, r, missing)
          BY <2>3, <3>1, SameFile
    <3>2. CASE ~ Opens(b, r, missing)
      <4>1. FileIn(s, n) = Absent
            BY <2>3, <3>2 DEF Same
      <4>2. TextIn(s.work, n) = Absent
            BY <4>1, FileIs
      <4> QED BY <2>1, <3>2, <4>2
    <3> QED BY <3>1, <3>2
  <2> HIDE DEF bf, blind
  <2>4. Inside(merged, n) # Conflict(FALSE)
        BY <1>2, ConflictIs
  <2>5. \/ /\ Inside(merged, n) = Take(FileIn(o, n))
           /\ TextIn(o.work, n) = TextIn(t.work, n) \/ Same(FileIn(t, n), bf)
        \/ Inside(merged, n) = Take(FileIn(t, n)) /\ Same(FileIn(o, n), bf)
        BY <2>2, <2>4, FilesOutcome
  <2> QED BY <2>3, <2>5, TakenIs
<1> QED BY <1>3, <1>4, <1>5, <1>6

-----------------------------------------------------------------------------
\* The properties.

\* Where a later lock of two folders opens, the one before it does: a key goes
\* back through every epoch, and what is in the commons needs none.
LEMMA OpensBack ==
    ASSUME NEW b \in Snapshots, NEW o \in Snapshots, Before(b.lock, o.lock),
           NEW r \in Int, NEW missing, Opens(o, r, missing),
           EntryOf(b) # Absent, EntryOf(b).cipher \notin missing
    PROVE  Opens(b, r, missing)
<1>1. b.lock \in Locks /\ o.lock \in Locks
      BY DEF Snapshots
<1>2. b.lock.epoch \in Int /\ o.lock.epoch \in Int /\ b.lock.close \in {Commons, Drawer}
  <2>1. 0..MaxEpoch \subseteq Int
        BY MergeAssumption
  <2> QED BY <1>1, <2>1, LockParts
<1>3. EntryOf(o) # Absent /\ (o.lock.close = Commons \/ o.lock.epoch <= r)
  <2>1. EntryOf(o) # Absent /\ (EntryOf(o).cipher.close = Commons \/ EntryOf(o).cipher.epoch <= r)
        BY DEF Opens
  <2>2. EntryOf(o).cipher.close = o.lock.close /\ EntryOf(o).cipher.epoch = o.lock.epoch
        BY <2>1, EntryIs
  <2> QED BY <2>1, <2>2
<1>4. b.lock.close = Commons \/ b.lock.epoch <= r
      BY <1>2, <1>3, MergeAssumption DEF Before
<1>5. EntryOf(b).cipher.close = b.lock.close /\ EntryOf(b).cipher.epoch = b.lock.epoch
      BY EntryIs
<1> QED BY <1>4, <1>5 DEF Opens

\* A merger who has the base misses nothing.
LEMMA NothingMissing == baseHere => Missing = {}
BY DEF Missing

\* What is settled is what a merge of the three texts gives, which had no clash.
LEMMA InvSettles == MergeInv => SettledAsTexts
<1> SUFFICES ASSUME MergeInv, baseHere, NEW n, Settled(MergeOf(ours, theirs, reach), n)
             PROVE  ~ Clash(n) /\ MergedText(MergeOf(ours, theirs, reach), n) = TextMerge(n)
    BY DEF SettledAsTexts
<1>1. /\ base \in Snapshots /\ ours \in Snapshots /\ theirs \in Snapshots
      /\ reach \in Int /\ Before(base.lock, ours.lock)
      BY MergeAssumption DEF MergeInv
<1> DEFINE b == base o == ours t == theirs
           text == MergedText(MergeOf(ours, theirs, reach), n)
<1>2. Opens(ours, reach, {}) /\ ~ Opens(base, reach, {}) => TextIn(base.work, n) = Absent
  <2> SUFFICES ASSUME Opens(ours, reach, {}), ~ Opens(base, reach, {})
               PROVE  TextIn(base.work, n) = Absent
      OBVIOUS
  <2>1. EntryOf(base) = Absent
        BY <1>1, OpensBack
  <2>2. FileIn(base, n) = Absent
        BY <1>1, <2>1, EntryIs
  <2> QED BY <1>1, <2>2, FileIs
<1>3. MergeOf(ours, theirs, reach)
        = ThreeWay(RootTree(base), RootTree(ours), RootTree(theirs), reach, {})
      BY NothingMissing DEF MergeOf
<1>4. \/ TextIn(ours.work, n) = TextIn(theirs.work, n) /\ text = TextIn(ours.work, n)
      \/ text = TextIn(theirs.work, n) /\ TextIn(ours.work, n) = TextIn(base.work, n)
      \/ text = TextIn(ours.work, n) /\ TextIn(theirs.work, n) = TextIn(base.work, n)
      BY <1>1, <1>2, <1>3, SettledIs
<1> QED BY <1>4 DEF Clash, TextMerge

\* Whatever the merger can open: a file that the merge settles has the text of
\* a merge of the three texts (three_way, diverged).
THEOREM MergeSettlesAsTexts == Spec => []SettledAsTexts
BY MergeInvariant, InvSettles, PTL

\* A text that one side wrote and the merge settles is what it settles on.
LEMMA InvLosesNothing == MergeInv => NothingWrittenIsLost
<1> SUFFICES ASSUME MergeInv, NEW n, NEW side \in {ours, theirs},
                    TextIn(side.work, n) # Absent, TextIn(side.work, n) # TextIn(base.work, n),
                    Settled(MergeOf(ours, theirs, reach), n)
             PROVE  MergedText(MergeOf(ours, theirs, reach), n) = TextIn(side.work, n)
    BY DEF NothingWrittenIsLost
<1>1. base \in Snapshots /\ ours \in Snapshots /\ theirs \in Snapshots
      BY DEF MergeInv
<1>2. MergeOf(ours, theirs, reach)
        = ThreeWay(RootTree(base), RootTree(ours), RootTree(theirs), reach, Missing)
      BY DEF MergeOf
<1> DEFINE text == MergedText(MergeOf(ours, theirs, reach), n)
<1>3. \/ TextIn(ours.work, n) = TextIn(theirs.work, n) /\ text = TextIn(ours.work, n)
      \/ /\ text = TextIn(theirs.work, n)
         /\ TextIn(ours.work, n) = TextIn(base.work, n) \/ TextIn(ours.work, n) = Absent
      \/ /\ text = TextIn(ours.work, n)
         /\ TextIn(theirs.work, n) = TextIn(base.work, n) \/ TextIn(theirs.work, n) = Absent
      BY <1>1, <1>2, SettledIs
<1> QED BY <1>3

\* Even where the base is missing, a text that one side wrote is in the merge,
\* or in a conflict (diverged).
THEOREM WrittenIsNotLost == Spec => []NothingWrittenIsLost
BY MergeInvariant, InvLosesNothing, PTL

\* With every key and nothing missing, whatever stands in a snapshot opens.
LEMMA AllOpen ==
    ASSUME NEW s \in Snapshots, EntryOf(s) # Absent
    PROVE  Opens(s, MaxEpoch, {})
<1>1. s.lock \in Locks
      BY DEF Snapshots
<1>2. s.lock.epoch <= MaxEpoch
      BY <1>1, LockParts, MergeAssumption
<1> QED BY <1>2, EntryIs DEF Opens

\* Where one thing was kept under one lock, it was sealed alike.
LEMMA OneEntry ==
    ASSUME NEW s \in Snapshots, NEW u \in Snapshots, s.work = u.work, s.lock = u.lock
    PROVE  EntryOf(s) = EntryOf(u)
<1>1. s.work \in Works
      BY DEF Snapshots
<1> QED BY <1>1, WorkKinds, RootIs

\* With every key and one lock a conflict is one of ends or of texts.
LEMMA InvConflictsReal == MergeInv => ConflictsAreReal
<1> DEFINE merged == MergeOf(ours, theirs, MaxEpoch)
           both == /\ Absent \notin {ours.work, theirs.work}
                   /\ ours.work.kind = "tree" /\ theirs.work.kind = "tree"
<1> SUFFICES ASSUME MergeInv, baseHere, base.lock = ours.lock, base.lock = theirs.lock
             PROVE  /\ At(merged, Folder).is = "conflict" =>
                         ~ both /\ ours.work # theirs.work /\ base.work \notin {ours.work, theirs.work}
                    /\ both => \A n : ~ Settled(merged, n) => Clash(n)
    BY DEF ConflictsAreReal
<1>1. base \in Snapshots /\ ours \in Snapshots /\ theirs \in Snapshots
      BY DEF MergeInv
<1>2. merged = ThreeWay(RootTree(base), RootTree(ours), RootTree(theirs), MaxEpoch, {})
      BY NothingMissing DEF MergeOf
<1> HIDE DEF merged
<1>3. both => TwoFolders(ours, theirs) /\ Opens(ours, MaxEpoch, {}) /\ Opens(theirs, MaxEpoch, {})
  <2> SUFFICES ASSUME both
               PROVE  TwoFolders(ours, theirs) /\ Opens(ours, MaxEpoch, {}) /\ Opens(theirs, MaxEpoch, {})
      OBVIOUS
  <2>1. EntryOf(ours) # Absent /\ EntryOf(theirs) # Absent
        BY <1>1, EntryIs
  <2>2. EntryOf(ours).kind = "tree" /\ EntryOf(ours).close = ours.lock.close
        BY <1>1, <2>1, EntryIs
  <2>3. EntryOf(theirs).kind = "tree" /\ EntryOf(theirs).close = theirs.lock.close
        BY <1>1, <2>1, EntryIs
  <2> QED BY <1>1, <2>1, <2>2, <2>3, AllOpen DEF TwoFolders
<1>4. ASSUME At(merged, Folder).is = "conflict"
      PROVE  ~ both /\ ours.work # theirs.work /\ base.work \notin {ours.work, theirs.work}
  <2> DEFINE d == Diverged(EntryOf(base), EntryOf(ours), EntryOf(theirs), MaxEpoch, {})
  <2>1. At(merged, Folder) = Outcome(EntryOf(base), EntryOf(ours), EntryOf(theirs), d)
        BY <1>2, FolderMerged DEF EntryOf
  <2> HIDE DEF d
  <2>2. \A e : Take(e).is # "conflict"
        BY DEF Take
  <2>3. /\ ~ Same(EntryOf(ours), EntryOf(theirs))
        /\ ~ Same(EntryOf(ours), EntryOf(base)) /\ ~ Same(EntryOf(theirs), EntryOf(base))
        /\ d.is = "conflict"
        BY <1>4, <2>1, <2>2 DEF Outcome
  <2>4. EntryOf(ours) # EntryOf(theirs) /\ EntryOf(ours) # EntryOf(base) /\ EntryOf(theirs) # EntryOf(base)
        BY <2>3, SameIsEquality
  <2>5. ours.work # theirs.work /\ ours.work # base.work /\ theirs.work # base.work
        BY <1>1, <2>4, OneEntry
  <2>6. ~ both
    <3> SUFFICES ASSUME both PROVE FALSE
        OBVIOUS
    <3>1. TwoFolders(ours, theirs) /\ Opens(ours, MaxEpoch, {}) /\ Opens(theirs, MaxEpoch, {})
          BY <1>3
    <3>2. EntryOf(ours) # Absent /\ EntryOf(theirs) # Absent
          BY <3>1 DEF TwoFolders
    <3>3. Absent \notin {Load(EntryOf(ours).cipher, MaxEpoch, {}), Load(EntryOf(theirs).cipher, MaxEpoch, {})}
          BY <1>1, <3>1, <3>2, Loaded
    <3>4. \E files : d = Subtree(files)
          BY <3>1, <3>3 DEF d, Diverged, TwoFolders
    <3>5. d.is = "subtree"
          BY <3>4 DEF Subtree
    <3> QED BY <2>3, <3>5
  <2> QED BY <2>5, <2>6
<1>5. ASSUME both, NEW n, ~ Settled(merged, n) PROVE Clash(n)
  <2>1. Inside(merged, n) = FileOutcome(base, ours, theirs, MaxEpoch, {}, n)
        BY <1>1, <1>2, InsideIs
  <2>2. \A s \in Snapshots : Inside(merged, n) # Take(FileIn(s, n))
        BY <1>5, TakenIs
  <2> DEFINE bf == IF Opens(base, MaxEpoch, {}) THEN FileIn(base, n) ELSE Absent
  <2>3. Inside(merged, n) = Outcome(bf, FileIn(ours, n), FileIn(theirs, n), Conflict(FALSE))
        BY <1>1, <1>3, <1>5, <2>1, <2>2 DEF FileOutcome
  <2>4. bf = FileIn(base, n)
    <3>1. CASE EntryOf(base) = Absent
          BY <1>1, <3>1, EntryIs
    <3>2. CASE EntryOf(base) # Absent
          BY <1>1, <3>2, AllOpen
    <3> QED BY <3>1, <3>2
  <2> HIDE DEF bf
  <2>5. /\ ~ Same(FileIn(ours, n), FileIn(theirs, n))
        /\ ~ Same(FileIn(ours, n), FileIn(base, n)) /\ ~ Same(FileIn(theirs, n), FileIn(base, n))
        BY <1>1, <2>2, <2>3, <2>4, FilesOutcome
  <2>6. /\ TextIn(ours.work, n) # TextIn(theirs.work, n)
        /\ TextIn(ours.work, n) # TextIn(base.work, n) /\ TextIn(theirs.work, n) # TextIn(base.work, n)
        BY <1>1, <2>5, SameFile
  <2> QED BY <2>6 DEF Clash
<1> QED BY <1>4, <1>5

\* With every key, under one lock all along, the conflicts are the real ones
\* (three_way): no difference of ids stands for no difference of texts.
THEOREM OnlyRealConflicts == Spec => []ConflictsAreReal
BY MergeInvariant, InvConflictsReal, PTL

\* What either side has the merger does not miss.
LEMMA SidesAreHere ==
    ASSUME NEW s \in {ours, theirs}, EntryOf(s) # Absent
    PROVE  EntryOf(s).cipher \notin Missing
<1>1. Folder \in DOMAIN RootTree(s) /\ EntryOf(s) = RootTree(s)[Folder]
      BY DEF EntryOf, EntryAt, Names
<1>2. EntryOf(s).cipher \in UNION {{RootTree(u)[n].cipher : n \in DOMAIN RootTree(u)} : u \in {ours, theirs}}
      BY <1>1
<1> QED BY <1>2 DEF Missing

\* The same merge with more keys settles what it did, and alike.
LEMMA InvKeysHelp == MergeInv => KeysOnlyHelp
<1> DEFINE few == MergeOf(ours, theirs, reach)
           whole == MergeOf(ours, theirs, MaxEpoch)
<1> SUFFICES ASSUME MergeInv, NEW n
             PROVE  /\ Settled(few, n) => Settled(whole, n) /\ MergedText(whole, n) = MergedText(few, n)
                    /\ ~ Settled(whole, n) => ~ Inside(whole, n).sealed
    BY DEF KeysOnlyHelp
<1>1. /\ base \in Snapshots /\ ours \in Snapshots /\ theirs \in Snapshots
      /\ reach \in Int /\ MaxEpoch \in Int /\ reach <= MaxEpoch
      /\ Before(base.lock, ours.lock)
      BY MergeAssumption DEF MergeInv
<1>2. Inside(few, n) = FileOutcome(base, ours, theirs, reach, Missing, n)
      BY <1>1, InsideIs DEF MergeOf
<1>3. Inside(whole, n) = FileOutcome(base, ours, theirs, MaxEpoch, Missing, n)
      BY <1>1, InsideIs DEF MergeOf
<1> HIDE DEF few, whole
<1>4. ASSUME Inside(few, n) = Inside(whole, n)
      PROVE  Settled(few, n) => Settled(whole, n) /\ MergedText(whole, n) = MergedText(few, n)
      BY <1>4 DEF Settled, MergedText
<1>5. ASSUME NEW s \in {ours, theirs}, EntryOf(s) # Absent PROVE Opens(s, MaxEpoch, Missing)
  <2>1. Opens(s, MaxEpoch, {})
        BY <1>1, <1>5, AllOpen
  <2> QED BY <1>5, <2>1, SidesAreHere DEF Opens
<1>6. ASSUME Opens(ours, reach, Missing)
      PROVE  Opens(base, reach, Missing) <=> Opens(base, MaxEpoch, Missing)
  <2>1. ASSUME Opens(base, MaxEpoch, Missing) PROVE Opens(base, reach, Missing)
    <3>1. EntryOf(base) # Absent /\ EntryOf(base).cipher \notin Missing
          BY <2>1 DEF Opens
    <3> QED BY <1>1, <1>6, <3>1, OpensBack
  <2>2. ASSUME Opens(base, reach, Missing) PROVE Opens(base, MaxEpoch, Missing)
    <3>1. EntryOf(base) # Absent /\ EntryOf(base).cipher \notin Missing
          BY <2>2 DEF Opens
    <3>2. Opens(base, MaxEpoch, {})
          BY <1>1, <3>1, AllOpen
    <3> QED BY <3>1, <3>2 DEF Opens
  <2> QED BY <2>1, <2>2
<1>7. TwoFolders(ours, theirs) => Opens(ours, MaxEpoch, Missing) /\ Opens(theirs, MaxEpoch, Missing)
      BY <1>5 DEF TwoFolders
<1>8. Settled(few, n) => Inside(few, n) = Inside(whole, n)
  <2> SUFFICES ASSUME Settled(few, n) PROVE Inside(few, n) = Inside(whole, n)
      OBVIOUS
  <2>1. Inside(few, n) # Conflict(FALSE) /\ Inside(few, n) # Conflict(TRUE)
        BY ConflictIs
  <2>2. CASE \/ Same(EntryOf(ours), EntryOf(theirs)) \/ Same(EntryOf(ours), EntryOf(base))
             \/ Same(EntryOf(theirs), EntryOf(base))
    <3>1. \/ Same(EntryOf(ours), EntryOf(theirs))
          \/ ~ Same(EntryOf(ours), EntryOf(theirs)) /\ Same(EntryOf(ours), EntryOf(base))
          \/ /\ ~ Same(EntryOf(ours), EntryOf(theirs)) /\ ~ Same(EntryOf(ours), EntryOf(base))
             /\ Same(EntryOf(theirs), EntryOf(base))
          BY <2>2
    <3>2. CASE Same(EntryOf(ours), EntryOf(theirs))
      <4>1. Inside(few, n) = Take(FileIn(ours, n))
            BY <1>2, <3>2 DEF FileOutcome
      <4>2. Inside(whole, n) = Take(FileIn(ours, n))
            BY <1>3, <3>2 DEF FileOutcome
      <4> QED BY <4>1, <4>2
    <3>3. CASE ~ Same(EntryOf(ours), EntryOf(theirs)) /\ Same(EntryOf(ours), EntryOf(base))
      <4>1. Inside(few, n) = Take(FileIn(theirs, n))
            BY <1>2, <3>3 DEF FileOutcome
      <4>2. Inside(whole, n) = Take(FileIn(theirs, n))
            BY <1>3, <3>3 DEF FileOutcome
      <4> QED BY <4>1, <4>2
    <3>4. CASE /\ ~ Same(EntryOf(ours), EntryOf(theirs)) /\ ~ Same(EntryOf(ours), EntryOf(base))
               /\ Same(EntryOf(theirs), EntryOf(base))
      <4>1. Inside(few, n) = Take(FileIn(ours, n))
            BY <1>2, <3>4 DEF FileOutcome
      <4>2. Inside(whole, n) = Take(FileIn(ours, n))
            BY <1>3, <3>4 DEF FileOutcome
      <4> QED BY <4>1, <4>2
    <3> QED BY <3>1, <3>2, <3>3, <3>4
  <2>3. CASE /\ ~ Same(EntryOf(ours), EntryOf(theirs)) /\ ~ Same(EntryOf(ours), EntryOf(base))
             /\ ~ Same(EntryOf(theirs), EntryOf(base))
    <3>1. TwoFolders(ours, theirs) /\ Opens(ours, reach, Missing) /\ Opens(theirs, reach, Missing)
          BY <1>2, <2>1, <2>3 DEF FileOutcome
    <3>2. Opens(base, reach, Missing) <=> Opens(base, MaxEpoch, Missing)
          BY <1>6, <3>1
    <3>3. Inside(few, n) = Outcome(IF Opens(base, reach, Missing) THEN FileIn(base, n) ELSE Absent,
                                   FileIn(ours, n), FileIn(theirs, n), Conflict(FALSE))
          BY <1>2, <2>3, <3>1 DEF FileOutcome
    <3>4. Inside(whole, n) = Outcome(IF Opens(base, MaxEpoch, Missing) THEN FileIn(base, n) ELSE Absent,
                                     FileIn(ours, n), FileIn(theirs, n), Conflict(FALSE))
          BY <1>3, <1>7, <2>3, <3>1 DEF FileOutcome
    <3>5. CASE Opens(base, reach, Missing)
          BY <3>2, <3>3, <3>4, <3>5
    <3>6. CASE ~ Opens(base, reach, Missing)
          BY <3>2, <3>3, <3>4, <3>6
    <3> QED BY <3>5, <3>6
  <2> QED BY <2>2, <2>3
<1>9. ASSUME ~ Settled(whole, n) PROVE ~ Inside(whole, n).sealed
  <2>1. \A s \in Snapshots : Inside(whole, n) # Take(FileIn(s, n))
        BY <1>9, TakenIs
  <2> DEFINE bf == IF Opens(base, MaxEpoch, Missing) THEN FileIn(base, n) ELSE Absent
  <2>2. \/ Inside(whole, n) = Conflict(FALSE)
        \/ Inside(whole, n) = Outcome(bf, FileIn(ours, n), FileIn(theirs, n), Conflict(FALSE))
        BY <1>1, <1>3, <1>7, <2>1 DEF FileOutcome
  <2> HIDE DEF bf
  <2>3. Inside(whole, n) = Conflict(FALSE)
        BY <1>1, <2>1, <2>2, FilesOutcome
  <2> QED BY <2>3, ConflictIs
<1> QED BY <1>4, <1>8, <1>9

\* More keys never undo what a merge settled, and with all of them no conflict
\* waits for a key (diverged).
THEOREM MoreKeysOnlyHelp == Spec => []KeysOnlyHelp
BY MergeInvariant, InvKeysHelp, PTL

\* Turned around, the merge takes the same, or the other of two files with one
\* text.
LEMMA FileTurned ==
    ASSUME NEW b \in Snapshots, NEW o \in Snapshots, NEW t \in Snapshots,
           NEW r, NEW missing, NEW n
    PROVE  LET left == FileOutcome(b, o, t, r, missing, n)
               right == FileOutcome(b, t, o, r, missing, n)
           IN  \/ left = right
               \/ /\ TextIn(o.work, n) = TextIn(t.work, n)
                  /\ left = Take(FileIn(o, n)) /\ right = Take(FileIn(t, n))
<1> DEFINE left == FileOutcome(b, o, t, r, missing, n)
           right == FileOutcome(b, t, o, r, missing, n)
<1> SUFFICES \/ left = right
             \/ /\ TextIn(o.work, n) = TextIn(t.work, n)
                /\ left = Take(FileIn(o, n)) /\ right = Take(FileIn(t, n))
    OBVIOUS
<1>2. left = FileOutcome(b, o, t, r, missing, n)
      OBVIOUS
<1>3. right = FileOutcome(b, t, o, r, missing, n)
      OBVIOUS
<1> HIDE DEF left, right
<1>4. /\ Same(EntryOf(o), EntryOf(t)) <=> Same(EntryOf(t), EntryOf(o))
      /\ Same(EntryOf(o), EntryOf(b)) /\ Same(EntryOf(t), EntryOf(b))
            => Same(EntryOf(o), EntryOf(t))
      /\ TwoFolders(o, t) <=> TwoFolders(t, o)
      BY SameIsEquality DEF TwoFolders
<1>5. CASE Same(EntryOf(o), EntryOf(t))
  <2>1. left = Take(FileIn(o, n))
        BY <1>2, <1>5 DEF FileOutcome
  <2>2. right = Take(FileIn(t, n))
        BY <1>3, <1>4, <1>5 DEF FileOutcome
  <2> QED BY <1>5, <2>1, <2>2, SameFolder
<1>6. CASE ~ Same(EntryOf(o), EntryOf(t)) /\ Same(EntryOf(o), EntryOf(b))
  <2>1. left = Take(FileIn(t, n))
        BY <1>2, <1>6 DEF FileOutcome
  <2>2. /\ ~ Same(EntryOf(t), EntryOf(o)) /\ ~ Same(EntryOf(t), EntryOf(b))
        BY <1>4, <1>6
  <2>3. right = Take(FileIn(t, n))
        BY <1>3, <1>6, <2>2 DEF FileOutcome
  <2> QED BY <2>1, <2>3
<1>7. CASE ~ Same(EntryOf(o), EntryOf(t)) /\ Same(EntryOf(t), EntryOf(b))
  <2>1. /\ ~ Same(EntryOf(t), EntryOf(o)) /\ ~ Same(EntryOf(o), EntryOf(b))
        BY <1>4, <1>7
  <2>2. left = Take(FileIn(o, n))
        BY <1>2, <1>7, <2>1 DEF FileOutcome
  <2>3. right = Take(FileIn(o, n))
        BY <1>3, <1>7, <2>1 DEF FileOutcome
  <2> QED BY <2>2, <2>3
<1>8. CASE /\ ~ Same(EntryOf(o), EntryOf(t)) /\ ~ Same(EntryOf(o), EntryOf(b))
           /\ ~ Same(EntryOf(t), EntryOf(b))
  <2>1. ~ Same(EntryOf(t), EntryOf(o))
        BY <1>4, <1>8
  <2>2. CASE ~ TwoFolders(o, t)
    <3>1. left = Conflict(FALSE)
          BY <1>2, <1>8, <2>2 DEF FileOutcome
    <3>2. right = Conflict(FALSE)
          BY <1>3, <1>4, <1>8, <2>1, <2>2 DEF FileOutcome
    <3> QED BY <3>1, <3>2
  <2>3. CASE TwoFolders(o, t) /\ ~ (Opens(o, r, missing) /\ Opens(t, r, missing))
    <3>1. left = Conflict(TRUE)
          BY <1>2, <1>8, <2>3 DEF FileOutcome
    <3>2. right = Conflict(TRUE)
          BY <1>3, <1>4, <1>8, <2>1, <2>3 DEF FileOutcome
    <3> QED BY <3>1, <3>2
  <2>4. CASE TwoFolders(o, t) /\ Opens(o, r, missing) /\ Opens(t, r, missing)
    <3> DEFINE bf == IF Opens(b, r, missing) THEN FileIn(b, n) ELSE Absent
    <3>1. left = Outcome(bf, FileIn(o, n), FileIn(t, n), Conflict(FALSE))
          BY <1>2, <1>8, <2>4 DEF FileOutcome
    <3>2. right = Outcome(bf, FileIn(t, n), FileIn(o, n), Conflict(FALSE))
          BY <1>3, <1>4, <1>8, <2>1, <2>4 DEF FileOutcome
    <3> HIDE DEF bf
    <3> DEFINE f == FileIn(o, n)
               g == FileIn(t, n)
    <3>3. (Same(f, g) <=> Same(g, f)) /\ (Same(f, bf) /\ Same(g, bf) => Same(f, g))
          BY SameIsEquality
    <3>4. Same(f, g) => TextIn(o.work, n) = TextIn(t.work, n)
          BY SameFile
    <3>5. left = Outcome(bf, f, g, Conflict(FALSE)) /\ right = Outcome(bf, g, f, Conflict(FALSE))
          BY <3>1, <3>2
    <3> HIDE DEF f, g
    <3>6. CASE Same(f, g)
          BY <3>3, <3>4, <3>5, <3>6 DEF Outcome, f, g
    <3>7. CASE ~ Same(f, g) /\ Same(f, bf)
          BY <3>3, <3>5, <3>7 DEF Outcome
    <3>8. CASE ~ Same(f, g) /\ Same(g, bf)
          BY <3>3, <3>5, <3>8 DEF Outcome
    <3>9. CASE ~ Same(f, g) /\ ~ Same(f, bf) /\ ~ Same(g, bf)
          BY <3>3, <3>5, <3>9 DEF Outcome
    <3> QED BY <3>6, <3>7, <3>8, <3>9
  <2> QED BY <2>2, <2>3, <2>4
<1> QED BY <1>5, <1>6, <1>7, <1>8

\* Turning the sides around settles the same, on the same texts.
LEMMA InvSidesAlike == MergeInv => SidesAlike
<1> DEFINE left == MergeOf(ours, theirs, reach)
           right == MergeOf(theirs, ours, reach)
<1> SUFFICES ASSUME MergeInv, NEW n
             PROVE  /\ Settled(left, n) <=> Settled(right, n)
                    /\ Settled(left, n) => MergedText(left, n) = MergedText(right, n)
    BY DEF SidesAlike
<1>1. base \in Snapshots /\ ours \in Snapshots /\ theirs \in Snapshots
      BY DEF MergeInv
<1>2. Inside(left, n) = FileOutcome(base, ours, theirs, reach, Missing, n)
      BY <1>1, InsideIs DEF MergeOf
<1>3. Inside(right, n) = FileOutcome(base, theirs, ours, reach, Missing, n)
      BY <1>1, InsideIs DEF MergeOf
<1> HIDE DEF left, right
<1> SUFFICES \/ Inside(left, n) = Inside(right, n)
             \/ /\ TextIn(ours.work, n) = TextIn(theirs.work, n)
                /\ Inside(left, n) = Take(FileIn(ours, n)) /\ Inside(right, n) = Take(FileIn(theirs, n))
  <2>1. CASE Inside(left, n) = Inside(right, n)
        BY <2>1 DEF Settled, MergedText
  <2>2. CASE /\ TextIn(ours.work, n) = TextIn(theirs.work, n)
             /\ Inside(left, n) = Take(FileIn(ours, n)) /\ Inside(right, n) = Take(FileIn(theirs, n))
        BY <1>1, <2>2, TakenIs
  <2> QED BY <2>1, <2>2
<1>4. \/ FileOutcome(base, ours, theirs, reach, Missing, n) = FileOutcome(base, theirs, ours, reach, Missing, n)
      \/ /\ TextIn(ours.work, n) = TextIn(theirs.work, n)
         /\ FileOutcome(base, ours, theirs, reach, Missing, n) = Take(FileIn(ours, n))
         /\ FileOutcome(base, theirs, ours, reach, Missing, n) = Take(FileIn(theirs, n))
      BY <1>1, FileTurned
<1> QED BY <1>2, <1>3, <1>4

\* It does not matter which side merges (three_way): what one settles the other
\* does, on the same text.
THEOREM EitherSideMerges == Spec => []SidesAlike
BY MergeInvariant, InvSidesAlike, PTL
=============================================================================
