------------------------------- MODULE Lending -------------------------------
(***************************************************************************)
(* What the desk promises, one operation at a time: every copy is in one   *)
(* place, a copy set aside leaves only with a reader it is ready for, and  *)
(* nobody waits while a copy of the record is on the shelf.  No rows, no   *)
(* dates, no statements: Circulation is shown to implement this when       *)
(* requests do not overlap.                                                *)
(***************************************************************************)
EXTENDS FiniteSets

CONSTANTS Records, Items, RecordOf, Patrons, Shelf, Aside, Gone

VARIABLES
    place,     \* where each copy is: a place, or the reader who has it
    ready,     \* for each record, the readers a copy is set aside for
    waiting    \* for each record, the readers who wait

vars == <<place, ready, waiting>>

Init ==
    /\ place = [i \in Items |-> Shelf]
    /\ ready = [r \in Records |-> {}]
    /\ waiting = [r \in Records |-> {}]

At(r, where) == {i \in Items : RecordOf[i] = r /\ place[i] = where}

Lend(i, p) ==
    LET r == RecordOf[i] IN
    /\ \/ place[i] = Shelf /\ UNCHANGED ready
       \/ /\ place[i] = Aside /\ p \in ready[r]
          /\ ready' = [ready EXCEPT ![r] = @ \ {p}]
    /\ place' = [place EXCEPT ![i] = p]
    /\ UNCHANGED waiting

\* A copy that comes back is set aside for a reader who waits, if there is one.
GiveBack(i) ==
    LET r == RecordOf[i] IN
    /\ place[i] \in Patrons
    /\ \/ \E p \in waiting[r] :
             /\ place' = [place EXCEPT ![i] = Aside]
             /\ ready' = [ready EXCEPT ![r] = @ \cup {p}]
             /\ waiting' = [waiting EXCEPT ![r] = @ \ {p}]
       \/ /\ waiting[r] = {}
          /\ place' = [place EXCEPT ![i] = Shelf]
          /\ UNCHANGED <<ready, waiting>>

Lose(i) ==
    /\ place[i] \in Patrons
    /\ place' = [place EXCEPT ![i] = Gone]
    /\ UNCHANGED <<ready, waiting>>

Reserve(r, p) ==
    /\ p \notin ready[r] \cup waiting[r]
    /\ \/ \E i \in At(r, Shelf) :
             /\ place' = [place EXCEPT ![i] = Aside]
             /\ ready' = [ready EXCEPT ![r] = @ \cup {p}]
             /\ UNCHANGED waiting
       \/ /\ At(r, Shelf) = {}
          /\ waiting' = [waiting EXCEPT ![r] = @ \cup {p}]
          /\ UNCHANGED <<place, ready>>

\* A reader gives up, or comes too late: the copy goes on to the next reader.
GiveUp(r, p) ==
    \/ /\ p \in waiting[r]
       /\ waiting' = [waiting EXCEPT ![r] = @ \ {p}]
       /\ UNCHANGED <<place, ready>>
    \/ /\ p \in ready[r]
       /\ \/ \E q \in waiting[r] :
                /\ ready' = [ready EXCEPT ![r] = (@ \ {p}) \cup {q}]
                /\ waiting' = [waiting EXCEPT ![r] = @ \ {q}]
                /\ UNCHANGED place
          \/ /\ waiting[r] = {}
             /\ ready' = [ready EXCEPT ![r] = @ \ {p}]
             /\ \E i \in At(r, Aside) : place' = [place EXCEPT ![i] = Shelf]
             /\ UNCHANGED waiting

Next ==
    \/ \E i \in Items : \/ GiveBack(i) \/ Lose(i)
                        \/ \E p \in Patrons : Lend(i, p)
    \/ \E r \in Records, p \in Patrons : Reserve(r, p) \/ GiveUp(r, p)

Spec == Init /\ [][Next]_vars

-----------------------------------------------------------------------------
(* What this desk is worth *)

\* What Circulation gives the parameters: finitely many copies and readers, three
\* places that are nobody.
LendingAssumption ==
    /\ IsFiniteSet(Items) /\ IsFiniteSet(Patrons)
    /\ RecordOf \in [Items -> Records]
    /\ Shelf # Aside /\ Shelf # Gone /\ Aside # Gone
    /\ Patrons \cap {Shelf, Aside, Gone} = {}

\* The copies of a record set aside are as many as the readers they are ready for,
\* and the shelf of a record somebody waits for is empty.
NobodyIsForgotten ==
    \A r \in Records :
        /\ Cardinality(At(r, Aside)) = Cardinality(ready[r])
        /\ waiting[r] # {} => At(r, Shelf) = {}
=============================================================================
