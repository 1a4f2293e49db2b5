------------------------ MODULE CirculationRefinement ------------------------
(* The desk, one request at a time, implements Lending. *)
EXTENDS Circulation

CONSTANTS Shelf, Aside, Gone

BorrowerOf(i) == (CHOOSE l \in LoanIds : OpenLoan(l) /\ loans[l].item = i)
PlaceOf(i) ==
    CASE status[i] = "AVAILABLE"   -> Shelf
      [] status[i] = "ON_HOLD"     -> Aside
      [] status[i] = "CHECKED_OUT" -> loans[BorrowerOf(i)].patron
      [] OTHER                     -> Gone

ReadersOf(r, st) == {holds[h].patron : h \in HoldsIn(r, st)}

Abstract == INSTANCE Lending WITH
    place   <- [i \in Items |-> PlaceOf(i)],
    ready   <- [r \in Records |-> ReadersOf(r, "AVAILABLE")],
    waiting <- [r \in Records |-> ReadersOf(r, "PENDING")]

\* Every commit of checkout, returnItem, cloreVersPerte, placeHold, cancelHold and
\* expireStale is one operation of the abstract desk, or none.
ImplementsLending == Abstract!Spec
=============================================================================
