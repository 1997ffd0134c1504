------------------------------ MODULE MCMerge -------------------------------
(***************************************************************************)
(* Instances of Merge for TLC: constants that a cfg cannot write.          *)
(***************************************************************************)
EXTENDS Merge

SomeFiles == {"a", "b"}
SomeTexts == 1..3

\* Three versions of one file and two of another, each perhaps not there; or
\* a file in place of the folder; or nothing.
FilesOf(A, B) ==
    UNION {{f \in [N -> A \cup B] : \A n \in N : f[n] \in IF n = "a" THEN A ELSE B} :
              N \in SUBSET {"a", "b"}}
SomeWorks == {AFolder(f) : f \in FilesOf({1, 2, 3}, {1, 2})} \cup {AFile(1), Absent}
=============================================================================
