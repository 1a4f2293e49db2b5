------------------------------ MODULE MCDeposits ------------------------------
(* Small instances of Deposits for TLC. *)
EXTENDS Deposits, TLC

Symmetry == Permutations(Sessions) \cup Permutations(Directors)
=============================================================================
