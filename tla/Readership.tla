----------------------------- MODULE Readership -----------------------------
(***************************************************************************)
(* What the locks of a commons promise, with no keys in it: who reads what *)
(* was sealed at which epoch of which close.  Reading is handed on by      *)
(* those who have it, a lock change adds an epoch for those who keep up,   *)
(* and days take readings away; nothing else changes it.                   *)
(***************************************************************************)
EXTENDS Integers

CONSTANTS People, Closes, Lanes, Commons, Founder

VARIABLES
    epoch,  \* the current epoch of every close founded so far
    reads   \* reads[c][p]: the pairs <<lane, epoch>> of c that p can open

vars == <<epoch, reads>>

\* A founder reads both lanes of the first epoch, nobody else anything.
FoundedBy(p) == [q \in People |-> IF q = p THEN Lanes \X {0} ELSE {}]

Init ==
    /\ epoch = [c \in {Commons} |-> 0]
    /\ reads = [c \in {Commons} |-> FoundedBy(Founder)]

Found(c, p) ==
    /\ c \in Closes \ DOMAIN epoch
    /\ epoch' = [d \in DOMAIN epoch \cup {c} |-> IF d = c THEN 0 ELSE epoch[d]]
    /\ reads' = [d \in DOMAIN epoch \cup {c} |-> IF d = c THEN FoundedBy(p) ELSE reads[d]]

\* A giver hands p, on c, some of what the giver reads there.
Handed(was, is, c, giver, p) ==
    /\ is[c][p] # was[c][p]
    /\ was[c][p] \subseteq is[c][p]
    /\ is[c][p] \subseteq was[c][p] \cup was[c][giver]
    /\ \A d \in DOMAIN was, q \in People : (d = c /\ q = p) \/ is[d][q] = was[d][q]

Hand ==
    /\ UNCHANGED epoch
    /\ DOMAIN reads' = DOMAIN reads
    /\ \E c \in DOMAIN epoch, giver, p \in People : Handed(reads, reads', c, giver, p)

\* Who reads a lane at some epoch up to e and keeps up reads it at all of them
\* and the next.
CaughtUp(readings, e) == {t[1] : t \in readings} \X (0..e + 1)

\* Changing the lock takes someone who reads everything under it.  Everybody
\* on that close catches up or stays where they were.
LockChanged(was, is, c) ==
    /\ \E p \in People : \A lane \in Lanes : <<lane, epoch[c]>> \in was[c][p]
    /\ \A d \in DOMAIN was, q \in People :
          \/ is[d][q] = was[d][q]
          \/ d = c /\ is[d][q] = CaughtUp(was[d][q], epoch[c])

ChangeLock(c) ==
    /\ epoch' = [epoch EXCEPT ![c] = @ + 1]
    /\ DOMAIN reads' = DOMAIN reads
    /\ LockChanged(reads, reads', c)

\* Readings run out, in each lane the newest epochs first.
Faded(was, is) ==
    \A c \in DOMAIN was, p \in People :
        /\ is[c][p] \subseteq was[c][p]
        /\ \A t \in is[c][p] : \A e \in 0..t[2] : <<t[1], e>> \in is[c][p]

Fade ==
    /\ UNCHANGED epoch
    /\ DOMAIN reads' = DOMAIN reads
    /\ Faded(reads, reads')

Next ==
    \/ \E c \in Closes, p \in People : Found(c, p)
    \/ Hand
    \/ \E c \in DOMAIN epoch : ChangeLock(c)
    \/ Fade

Spec == Init /\ [][Next]_vars
=============================================================================
