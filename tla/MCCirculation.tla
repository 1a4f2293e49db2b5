---------------------------- MODULE MCCirculation ----------------------------
(* Small libraries for TLC: one record with several copies, every card valid. *)
EXTENDS CirculationRefinement, TLC

CONSTANTS r1, p1

OneRecord == [i \in Items |-> r1]
CardsValid == [p \in Patrons |-> 9]
\* One reader has an account with an address, the others have none.
OneAddress == {p1}

Readers == Permutations(Patrons \ HasEmail)
Copies == Permutations(Items)
Desks == Permutations(Sessions)
Symmetry == Readers \cup Copies \cup Desks
=============================================================================
