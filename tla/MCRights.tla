------------------------------- MODULE MCRights -------------------------------
(* A small school for TLC: collections other than the default one, and classes, *)
(* are interchangeable. *)
EXTENDS Rights, TLC

Classrooms == Permutations(Classes)
Shelves == Permutations(Collections \ {Socle})
Offices == Permutations(Curators)
Symmetry == Classrooms \cup Shelves \cup Offices
=============================================================================
