------------------------------ MODULE MCDrawer ------------------------------
(***************************************************************************)
(* Instances of Drawer for TLC: constants that a cfg cannot write.         *)
(***************************************************************************)
EXTENDS Drawer, TLC

Roots == Permutations(ContentKeys)
RootsAndReceivers == Roots \cup Permutations(Receivers)
SetPower == {{}, {"set"}}
NoPower == {{}}
NoDays == {Never}
OneDay == {Never, 0}
=============================================================================
