----------------------------- MODULE MCFolder -------------------------------
(***************************************************************************)
(* Instances of Folder for TLC: constants that a cfg cannot write.         *)
(***************************************************************************)
EXTENDS Folder, TLC

RootsAndDrawers == Permutations(ContentKeys) \cup Permutations(Closes \ {Commons})
ByName == <<"ana", "ben">>
\* All drawers are for one path.
OnePath == [c \in Closes |-> IF c = Commons THEN "" ELSE "vault"]

\* Commands one after the other, with and without a kill, or a path protected
\* twice; two at once, of every kind, and a kill.
Mixed == {[atOnce |-> 1, protect |-> 1, share |-> 1, rotate |-> 1, raise |-> 0, kill |-> 1],
          [atOnce |-> 1, protect |-> 1, share |-> 1, rotate |-> 2, raise |-> 0, kill |-> 0],
          [atOnce |-> 1, protect |-> 1, share |-> 2, rotate |-> 1, raise |-> 0, kill |-> 0],
          [atOnce |-> 1, protect |-> 2, share |-> 1, rotate |-> 1, raise |-> 0, kill |-> 0],
          [atOnce |-> 2, protect |-> 0, share |-> 1, rotate |-> 2, raise |-> 0, kill |-> 1],
          [atOnce |-> 2, protect |-> 0, share |-> 2, rotate |-> 1, raise |-> 0, kill |-> 1],
          [atOnce |-> 2, protect |-> 2, share |-> 0, rotate |-> 0, raise |-> 0, kill |-> 1],
          [atOnce |-> 2, protect |-> 1, share |-> 0, rotate |-> 0, raise |-> 3, kill |-> 1],
          [atOnce |-> 2, protect |-> 1, share |-> 1, rotate |-> 1, raise |-> 0, kill |-> 1]}
=============================================================================
