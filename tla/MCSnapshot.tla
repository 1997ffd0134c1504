----------------------------- MODULE MCSnapshot -----------------------------
(***************************************************************************)
(* Instances of Snapshot for TLC: constants that a cfg cannot write.       *)
(***************************************************************************)
EXTENDS Snapshot, TLC

\* A file in a folder.
Secret == <<"vault", "secret">>
VaultWalk ==
    << [do |-> "enter", path |-> Root], [do |-> "enter", path |-> <<"vault">>],
       [do |-> "snap", path |-> Secret], [do |-> "snap", path |-> <<"vault">>],
       [do |-> "snap", path |-> Root] >>
\* Every drawer is for the folder: it may be protected twice.
VaultDrawer == [c \in Drawers |-> <<"vault">>]

\* Two keeps at once, and a third after them; three in a row; two in a row
\* with more going on.
OverlapOrNot == {[atOnce |-> 2, keeps |-> 3, changes |-> 0, kills |-> 1],
                 [atOnce |-> 2, keeps |-> 2, changes |-> 1, kills |-> 1],
                 [atOnce |-> 1, keeps |-> 3, changes |-> 1, kills |-> 1],
                 [atOnce |-> 1, keeps |-> 2, changes |-> 2, kills |-> 0]}
=============================================================================
