------------------------------ MODULE MCHarvest ------------------------------
(***************************************************************************)
(* Small instances of Harvest: one or two OAI identifiers, one repository. *)
(***************************************************************************)
EXTENDS Harvest, TLC

\* The identifiers are interchangeable: no definition of Harvest names one.
Symmetry == Permutations(Ids)
\* A reduction: only the start of an execution and the answer of the repository
\* depend on the versions and on the day: the world need not move elsewhere.
WorldWaits ==
    world' # world \/ clock' # clock =>
        \A s \in Slots : sess[s].pc \in {"idle", "ask"}
=============================================================================
