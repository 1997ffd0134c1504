----------------------------- MODULE MCSignpost -----------------------------
(***************************************************************************)
(* Instances of Signpost for TLC: constants that a cfg cannot write.       *)
(***************************************************************************)
EXTENDS Signpost, TLC

Path == <<"ops", "prod">>
Alike == Permutations(ContentKeys) \cup Permutations(Terminals)
SetPower == {{"set"}}
SetOrNone == {{}, {"set"}}
NoDays == {Never}
OneDay == {Never, 0}
ApiGuarded == {{"api"}}

\* Two keepings in a row.
LineParents == "second" :> {"first"} @@ "first" :> {}

\* Two keepings of one parent.
ForkParents == "left" :> {"root"} @@ "right" :> {"root"} @@ "root" :> {}

ApiPins == [{"api"} -> Commits]
AnyPins == ApiPins \cup [{"web"} -> {"first"}]
=============================================================================
