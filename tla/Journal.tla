------------------------------ MODULE Journal -------------------------------
(***************************************************************************)
(* What a signpost promises, with no store, keys or processes in it: a log *)
(* of moves that is only ever added to, whose latest entry says where the  *)
(* signpost points, and whose guarded slots only move forward.             *)
(***************************************************************************)
EXTENDS Sequences, Integers

CONSTANTS
    People,
    Slots,     \* the fingers of the signpost
    Commits,   \* what a slot may point at
    Ancestry   \* the pairs <<older, newer>> of keepings, equal or descending

VARIABLES
    stands,    \* whether the signpost has been raised
    guarded,   \* the slots that move only forward
    log        \* the moves so far: who moved, and the whole value after

vars == <<stands, guarded, log>>

Values == UNION {[S -> Commits] : S \in SUBSET Slots}

Latest == IF log = <<>> THEN <<>> ELSE log[Len(log)].value

Init ==
    /\ stands = FALSE
    /\ guarded = {}
    /\ log = <<>>

Raise(G) ==
    /\ ~ stands
    /\ stands' = TRUE
    /\ guarded' = G
    /\ UNCHANGED log

\* A move says where every finger points: those it does not set stay.
Move(by, pins) ==
    LET value == [s \in DOMAIN Latest \cup DOMAIN pins |->
                     IF s \in DOMAIN pins THEN pins[s] ELSE Latest[s]]
    IN  /\ stands
        /\ \A s \in guarded \cap DOMAIN Latest : <<Latest[s], value[s]>> \in Ancestry
        /\ log' = Append(log, [by |-> by, value |-> value])
        /\ UNCHANGED <<stands, guarded>>

Next ==
    \/ \E G \in SUBSET Slots : Raise(G)
    \/ \E by \in People, pins \in Values : Move(by, pins)

Spec == Init /\ [][Next]_vars
=============================================================================
