----------------------------- MODULE LendingProofs -----------------------------
(***************************************************************************)
(* The abstract desk forgets nobody, for any number of copies and readers: *)
(* what an implementation of it inherits.                                  *)
(***************************************************************************)
EXTENDS Lending, TLAPS, FiniteSetTheorems

Places == Patrons \cup {Shelf, Aside, Gone}
TypeInv ==
    /\ place \in [Items -> Places]
    /\ ready \in [Records -> SUBSET Patrons]
    /\ waiting \in [Records -> SUBSET Patrons]

\* Nobody both waits and is told to come: to make a reader ready is to count him.
OnOneList == \A r \in Records : ready[r] \cap waiting[r] = {}

LendingInv == TypeInv /\ OnOneList /\ NobodyIsForgotten

\* The copies at a place after one copy has moved.
LEMMA Moved ==
    ASSUME TypeInv, NEW i \in Items, NEW w, place' = [place EXCEPT ![i] = w], NEW r, NEW x
    PROVE  At(r, x)' = IF RecordOf[i] = r /\ w = x THEN At(r, x) \cup {i} ELSE At(r, x) \ {i}
  <1>1. \A j \in Items : place'[j] = IF j = i THEN w ELSE place[j]
    BY DEF TypeInv
  <1>2. QED
    BY <1>1 DEF At

LEMMA AtFinite ==
    ASSUME LendingAssumption, NEW r, NEW x
    PROVE  IsFiniteSet(At(r, x)) /\ Cardinality(At(r, x)) \in Nat
  <1>1. At(r, x) \subseteq Items
    BY DEF At
  <1>2. QED
    BY <1>1, FS_Subset, FS_CardinalityType DEF LendingAssumption

LEMMA ReadyFinite ==
    ASSUME LendingAssumption, TypeInv, NEW r \in Records
    PROVE  IsFiniteSet(ready[r]) /\ Cardinality(ready[r]) \in Nat
  <1>1. ready[r] \subseteq Patrons
    BY DEF TypeInv
  <1>2. QED
    BY <1>1, FS_Subset, FS_CardinalityType DEF LendingAssumption

\* The count of a finite set, one element more or less.
LEMMA OneMore ==
    ASSUME NEW S, IsFiniteSet(S), NEW x
    PROVE  /\ Cardinality(S) \in Nat
           /\ x \notin S => Cardinality(S \cup {x}) = Cardinality(S) + 1
           /\ x \in S => Cardinality(S \ {x}) = Cardinality(S) - 1
           /\ x \notin S => S \ {x} = S
  BY FS_AddElement, FS_RemoveElement, FS_CardinalityType

LEMMA LendStep ==
    ASSUME LendingAssumption, LendingInv, NEW i \in Items, NEW p \in Patrons, Lend(i, p)
    PROVE  LendingInv'
  <1> DEFINE c == RecordOf[i]
  <1>1. c \in Records /\ p # Shelf /\ p # Aside /\ waiting' = waiting
    BY DEF LendingAssumption, Lend
  <1>2. TypeInv' /\ OnOneList'
    BY <1>1 DEF Lend, LendingInv, TypeInv, OnOneList, Places
  <1>3. ASSUME NEW r \in Records
        PROVE  /\ Cardinality(At(r, Aside)') = Cardinality(ready'[r])
               /\ waiting'[r] # {} => At(r, Shelf)' = {}
    <2>1. At(r, Aside)' = At(r, Aside) \ {i} /\ At(r, Shelf)' = At(r, Shelf) \ {i}
      <3>1. place' = [place EXCEPT ![i] = p] /\ TypeInv
        BY DEF Lend, LendingInv
      <3>2. /\ At(r, Aside)' = IF c = r /\ p = Aside
                               THEN At(r, Aside) \cup {i} ELSE At(r, Aside) \ {i}
            /\ At(r, Shelf)' = IF c = r /\ p = Shelf
                               THEN At(r, Shelf) \cup {i} ELSE At(r, Shelf) \ {i}
        BY <3>1, Moved, Zenon
      <3>3. QED
        BY <1>1, <3>2
    <2>2. /\ Cardinality(At(r, Aside)) = Cardinality(ready[r])
          /\ waiting[r] # {} => At(r, Shelf) = {}
      BY DEF LendingInv, NobodyIsForgotten
    <2>3. IsFiniteSet(At(r, Aside)) /\ IsFiniteSet(ready[r])
      BY AtFinite, ReadyFinite DEF LendingInv
    <2>4. CASE r = c /\ place[i] = Aside /\ p \in ready[c] /\ ready' = [ready EXCEPT ![c] = @ \ {p}]
      <3>1. i \in At(r, Aside) /\ ready'[r] = ready[r] \ {p}
        BY <1>1, <2>4 DEF At, LendingInv, TypeInv
      <3>2. QED
        BY <1>1, <2>1, <2>2, <2>3, <2>4, <3>1, OneMore
    <2>5. CASE i \notin At(r, Aside) /\ ready'[r] = ready[r]
      BY <1>1, <2>1, <2>2, <2>5
    <2>6. \/ r = c /\ place[i] = Aside /\ p \in ready[c] /\ ready' = [ready EXCEPT ![c] = @ \ {p}]
          \/ i \notin At(r, Aside) /\ ready'[r] = ready[r]
      BY <1>1 DEF Lend, At, LendingAssumption, LendingInv, TypeInv
    <2>7. QED
      BY <2>4, <2>5, <2>6
  <1>4. QED
    BY <1>2, <1>3 DEF LendingInv, NobodyIsForgotten

LEMMA GiveBackStep ==
    ASSUME LendingAssumption, LendingInv, NEW i \in Items, GiveBack(i)
    PROVE  LendingInv'
  <1> DEFINE c == RecordOf[i]
  <1>1. c \in Records /\ place[i] \in Patrons /\ place[i] # Shelf /\ place[i] # Aside
    BY DEF LendingAssumption, GiveBack
  <1>t. TypeInv /\ OnOneList /\ NobodyIsForgotten
    BY DEF LendingInv
  <1>2. ASSUME NEW p \in waiting[c], place' = [place EXCEPT ![i] = Aside],
               ready' = [ready EXCEPT ![c] = @ \cup {p}],
               waiting' = [waiting EXCEPT ![c] = @ \ {p}]
        PROVE  LendingInv'
    <2>1. p \in Patrons /\ p \notin ready[c]
      BY <1>1, <1>t DEF TypeInv, OnOneList
    <2>2. TypeInv' /\ OnOneList'
      BY <1>1, <1>2, <1>t, <2>1 DEF TypeInv, OnOneList, Places
    <2>3. ASSUME NEW r \in Records
          PROVE  /\ Cardinality(At(r, Aside)') = Cardinality(ready'[r])
                 /\ waiting'[r] # {} => At(r, Shelf)' = {}
      <3>1. /\ At(r, Aside)' = IF c = r THEN At(r, Aside) \cup {i} ELSE At(r, Aside) \ {i}
            /\ At(r, Shelf)' = At(r, Shelf) \ {i}
        BY <1>2, <1>t, Moved DEF LendingAssumption
      <3>2. i \notin At(r, Aside)
        BY <1>1 DEF At
      <3>3. /\ Cardinality(At(r, Aside)) = Cardinality(ready[r])
            /\ waiting[r] # {} => At(r, Shelf) = {}
        BY <1>t DEF NobodyIsForgotten
      <3>4. IsFiniteSet(At(r, Aside)) /\ IsFiniteSet(ready[r])
        BY <1>t, AtFinite, ReadyFinite
      <3>5. /\ ready'[r] = IF r = c THEN ready[r] \cup {p} ELSE ready[r]
            /\ waiting'[r] \subseteq waiting[r]
        BY <1>2, <1>t DEF TypeInv
      <3>6. CASE r = c
        <4>1. /\ At(r, Aside)' = At(r, Aside) \cup {i}
              /\ ready'[r] = ready[r] \cup {p} /\ p \notin ready[r]
          BY <2>1, <3>1, <3>5, <3>6
        <4>2. Cardinality(At(r, Aside)') = Cardinality(ready'[r])
          BY <3>2, <3>3, <3>4, <4>1, OneMore
        <4>3. QED
          BY <3>1, <3>3, <3>5, <4>2
      <3>7. CASE r # c
        <4>1. At(r, Aside)' = At(r, Aside) /\ ready'[r] = ready[r]
          BY <3>1, <3>2, <3>5, <3>7
        <4>2. QED
          BY <3>1, <3>3, <3>5, <4>1
      <3>8. QED
        BY <3>6, <3>7
    <2>4. QED
      BY <2>2, <2>3 DEF LendingInv, NobodyIsForgotten
  <1>3. CASE waiting[c] = {} /\ place' = [place EXCEPT ![i] = Shelf] /\ UNCHANGED <<ready, waiting>>
    <2>1. TypeInv' /\ OnOneList'
      BY <1>1, <1>3, <1>t DEF TypeInv, OnOneList, Places
    <2>2. ASSUME NEW r \in Records
          PROVE  /\ Cardinality(At(r, Aside)') = Cardinality(ready'[r])
                 /\ waiting'[r] # {} => At(r, Shelf)' = {}
      <3>1. /\ At(r, Aside)' = At(r, Aside) \ {i}
            /\ At(r, Shelf)' = IF c = r THEN At(r, Shelf) \cup {i} ELSE At(r, Shelf) \ {i}
        BY ZenonT(60), <1>3, <1>t, Moved DEF LendingAssumption
      <3>2. i \notin At(r, Aside)
        BY <1>1 DEF At
      <3>3. /\ Cardinality(At(r, Aside)) = Cardinality(ready[r])
            /\ waiting[r] # {} => At(r, Shelf) = {}
        BY <1>t DEF NobodyIsForgotten
      <3>4. QED
        BY <1>3, <3>1, <3>2, <3>3
    <2>3. QED
      BY <2>1, <2>2 DEF LendingInv, NobodyIsForgotten
  <1>4. QED
    BY <1>2, <1>3 DEF GiveBack

LEMMA LoseStep ==
    ASSUME LendingAssumption, LendingInv, NEW i \in Items, Lose(i)
    PROVE  LendingInv'
  <1>t. TypeInv /\ OnOneList /\ NobodyIsForgotten
    BY DEF LendingInv
  <1>1. /\ place' = [place EXCEPT ![i] = Gone] /\ ready' = ready /\ waiting' = waiting
        /\ place[i] # Aside /\ Gone # Aside /\ Gone # Shelf
    BY DEF Lose, LendingAssumption
  <1>2. TypeInv' /\ OnOneList'
    BY <1>1, <1>t DEF TypeInv, OnOneList, Places
  <1>3. ASSUME NEW r \in Records
        PROVE  At(r, Aside)' = At(r, Aside) /\ At(r, Shelf)' \subseteq At(r, Shelf)
    <2>1. /\ At(r, Aside)' = At(r, Aside) \ {i} /\ At(r, Shelf)' = At(r, Shelf) \ {i}
      BY <1>1, <1>t, Moved
    <2>2. i \notin At(r, Aside)
      BY <1>1 DEF At
    <2>3. QED
      BY <2>1, <2>2
  <1>4. QED
    BY <1>1, <1>2, <1>3, <1>t DEF LendingInv, NobodyIsForgotten

LEMMA ReserveStep ==
    ASSUME LendingAssumption, LendingInv, NEW c \in Records, NEW p \in Patrons, Reserve(c, p)
    PROVE  LendingInv'
  <1>t. TypeInv /\ OnOneList /\ NobodyIsForgotten
    BY DEF LendingInv
  <1>1. p \notin ready[c] /\ p \notin waiting[c]
    BY DEF Reserve
  <1>2. ASSUME NEW i \in At(c, Shelf), place' = [place EXCEPT ![i] = Aside],
               ready' = [ready EXCEPT ![c] = @ \cup {p}], waiting' = waiting
        PROVE  LendingInv'
    <2>1. i \in Items /\ RecordOf[i] = c /\ place[i] # Aside /\ Aside # Shelf
      BY DEF At, LendingAssumption
    <2>2. TypeInv' /\ OnOneList'
      BY <1>1, <1>2, <1>t, <2>1 DEF TypeInv, OnOneList, Places
    <2>3. ASSUME NEW r \in Records
          PROVE  /\ Cardinality(At(r, Aside)') = Cardinality(ready'[r])
                 /\ waiting'[r] # {} => At(r, Shelf)' = {}
      <3>1. /\ At(r, Aside)' = IF c = r THEN At(r, Aside) \cup {i} ELSE At(r, Aside) \ {i}
            /\ At(r, Shelf)' = At(r, Shelf) \ {i}
        BY ZenonT(60), <1>2, <1>t, <2>1, Moved
      <3>2. i \notin At(r, Aside)
        BY <2>1 DEF At
      <3>3. /\ Cardinality(At(r, Aside)) = Cardinality(ready[r])
            /\ waiting[r] # {} => At(r, Shelf) = {}
        BY <1>t DEF NobodyIsForgotten
      <3>4. IsFiniteSet(At(r, Aside)) /\ IsFiniteSet(ready[r])
        BY <1>t, AtFinite, ReadyFinite
      <3>5. ready'[r] = IF r = c THEN ready[r] \cup {p} ELSE ready[r]
        BY <1>2, <1>t DEF TypeInv
      <3>6. Cardinality(At(r, Aside)') = Cardinality(ready'[r])
        <4>1. CASE r = c
          BY <1>1, <3>1, <3>2, <3>3, <3>4, <3>5, <4>1, OneMore
        <4>2. CASE r # c
          BY <3>1, <3>2, <3>3, <3>5, <4>2
        <4>3. QED
          BY <4>1, <4>2
      <3>7. QED
        BY <1>2, <3>1, <3>3, <3>6
    <2>4. QED
      BY <2>2, <2>3 DEF LendingInv, NobodyIsForgotten
  <1>3. CASE /\ At(c, Shelf) = {} /\ waiting' = [waiting EXCEPT ![c] = @ \cup {p}]
             /\ UNCHANGED <<place, ready>>
    <2>1. TypeInv' /\ OnOneList'
      BY <1>1, <1>3, <1>t DEF TypeInv, OnOneList
    <2>2. \A r, x : At(r, x)' = At(r, x)
      BY <1>3 DEF At
    <2>3. \A r \in Records : r # c => waiting'[r] = waiting[r]
      BY <1>3, <1>t DEF TypeInv
    <2>4. QED
      BY <1>3, <1>t, <2>1, <2>2, <2>3 DEF LendingInv, NobodyIsForgotten
  <1>4. QED
    BY <1>2, <1>3 DEF Reserve

LEMMA GiveUpStep ==
    ASSUME LendingAssumption, LendingInv, NEW c \in Records, NEW p \in Patrons, GiveUp(c, p)
    PROVE  LendingInv'
  <1>t. TypeInv /\ OnOneList /\ NobodyIsForgotten
    BY DEF LendingInv
  <1>1. CASE /\ waiting' = [waiting EXCEPT ![c] = @ \ {p}] /\ UNCHANGED <<place, ready>>
    <2>1. TypeInv' /\ OnOneList'
      BY <1>1, <1>t DEF TypeInv, OnOneList
    <2>2. \A r, x : At(r, x)' = At(r, x)
      BY <1>1 DEF At
    <2>3. \A r \in Records : waiting'[r] \subseteq waiting[r]
      BY <1>1, <1>t DEF TypeInv
    <2>4. QED
      BY <1>1, <1>t, <2>1, <2>2, <2>3 DEF LendingInv, NobodyIsForgotten
  <1>2. ASSUME p \in ready[c], NEW q \in waiting[c], place' = place,
               ready' = [ready EXCEPT ![c] = (@ \ {p}) \cup {q}],
               waiting' = [waiting EXCEPT ![c] = @ \ {q}]
        PROVE  LendingInv'
    <2>1. q \notin ready[c] /\ q \in Patrons
      BY <1>t DEF OnOneList, TypeInv
    <2>2. TypeInv' /\ OnOneList'
      BY <1>2, <1>t, <2>1 DEF TypeInv, OnOneList
    <2>3. \A r, x : At(r, x)' = At(r, x)
      BY <1>2 DEF At
    <2>4. /\ \A r \in Records : r # c => ready'[r] = ready[r]
          /\ \A r \in Records : waiting'[r] \subseteq waiting[r]
          /\ ready'[c] = (ready[c] \ {p}) \cup {q}
      BY <1>2, <1>t DEF TypeInv
    <2>5. Cardinality(ready'[c]) = Cardinality(ready[c])
      <3>1. IsFiniteSet(ready[c]) /\ IsFiniteSet(ready[c] \ {p}) /\ q \notin ready[c] \ {p}
        BY <1>t, <2>1, ReadyFinite, FS_RemoveElement
      <3>2. /\ Cardinality(ready[c]) \in Nat
            /\ Cardinality(ready[c] \ {p}) = Cardinality(ready[c]) - 1
        BY <1>2, <3>1, OneMore
      <3>3. Cardinality((ready[c] \ {p}) \cup {q}) = Cardinality(ready[c] \ {p}) + 1
        BY <3>1, OneMore
      <3>4. QED
        BY <2>4, <3>2, <3>3
    <2>6. \A r \in Records : Cardinality(ready'[r]) = Cardinality(ready[r])
      BY <2>4, <2>5
    <2>7. QED
      BY <1>t, <2>2, <2>3, <2>4, <2>6 DEF LendingInv, NobodyIsForgotten
  <1>3. ASSUME NEW i \in At(c, Aside), p \in ready[c], waiting[c] = {},
               place' = [place EXCEPT ![i] = Shelf],
               ready' = [ready EXCEPT ![c] = @ \ {p}], waiting' = waiting
        PROVE  LendingInv'
    <2>1. i \in Items /\ RecordOf[i] = c /\ place[i] = Aside /\ Aside # Shelf
      BY DEF At, LendingAssumption
    <2>2. TypeInv' /\ OnOneList'
      BY <1>3, <1>t, <2>1 DEF TypeInv, OnOneList, Places
    <2>3. ASSUME NEW r \in Records
          PROVE  /\ Cardinality(At(r, Aside)') = Cardinality(ready'[r])
                 /\ waiting'[r] # {} => At(r, Shelf)' = {}
      <3>1. /\ At(r, Aside)' = At(r, Aside) \ {i}
            /\ At(r, Shelf)' = IF c = r THEN At(r, Shelf) \cup {i} ELSE At(r, Shelf) \ {i}
        <4>0. i \in Items /\ place' = [place EXCEPT ![i] = Shelf] /\ TypeInv
          BY <1>3, <1>t, <2>1
        <4>1. \A x : At(r, x)' = IF RecordOf[i] = r /\ Shelf = x
                                  THEN At(r, x) \cup {i} ELSE At(r, x) \ {i}
          BY <4>0, Moved
        <4>2. QED
          BY <2>1, <4>1
      <3>2. /\ Cardinality(At(r, Aside)) = Cardinality(ready[r])
            /\ waiting[r] # {} => At(r, Shelf) = {}
        BY <1>t DEF NobodyIsForgotten
      <3>3. IsFiniteSet(At(r, Aside)) /\ IsFiniteSet(ready[r])
        BY <1>t, AtFinite, ReadyFinite
      <3>4. ready'[r] = IF r = c THEN ready[r] \ {p} ELSE ready[r]
        BY <1>3, <1>t DEF TypeInv
      <3>5. CASE r = c
        BY <1>3, <3>1, <3>2, <3>3, <3>4, <3>5, OneMore
      <3>6. CASE r # c
        <4>1. i \notin At(r, Aside) /\ i \notin At(r, Shelf)
          BY <2>1, <3>6 DEF At
        <4>2. At(r, Aside)' = At(r, Aside) /\ At(r, Shelf)' = At(r, Shelf)
          BY <3>1, <3>6, <4>1
        <4>3. QED
          BY <1>3, <3>2, <3>4, <3>6, <4>2
      <3>7. QED
        BY <3>5, <3>6
    <2>4. QED
      BY <2>2, <2>3 DEF LendingInv, NobodyIsForgotten
  <1>4. QED
    BY <1>1, <1>2, <1>3 DEF GiveUp

\* The abstract desk, whatever is lent, brought back, lost or reserved, always has
\* one copy aside for each reader told to come, and never makes a reader wait
\* beside the shelf.  A desk that implements it keeps both promises.
THEOREM DeskForgetsNobody ==
    ASSUME LendingAssumption
    PROVE  Spec => []NobodyIsForgotten
  <1>1. Init => LendingInv
    <2> SUFFICES ASSUME Init PROVE LendingInv
      OBVIOUS
    <2>1. TypeInv /\ OnOneList
      BY DEF Init, TypeInv, OnOneList, Places
    <2>2. \A r \in Records : At(r, Aside) = {} /\ ready[r] = {} /\ waiting[r] = {}
      BY DEF Init, At, LendingAssumption
    <2>3. QED
      BY <2>1, <2>2 DEF LendingInv, NobodyIsForgotten
  <1>2. LendingInv /\ [Next]_vars => LendingInv'
    <2> SUFFICES ASSUME LendingInv, [Next]_vars PROVE LendingInv'
      OBVIOUS
    <2>1. CASE \E i \in Items : GiveBack(i) \/ Lose(i) \/ (\E p \in Patrons : Lend(i, p))
      BY <2>1, GiveBackStep, LoseStep, LendStep
    <2>2. CASE \E r \in Records, p \in Patrons : Reserve(r, p) \/ GiveUp(r, p)
      BY <2>2, ReserveStep, GiveUpStep
    <2>3. CASE UNCHANGED vars
      BY <2>3 DEF vars, LendingInv, TypeInv, OnOneList, NobodyIsForgotten, At
    <2>4. QED
      BY <2>1, <2>2, <2>3 DEF Next
  <1>3. LendingInv => NobodyIsForgotten
    BY DEF LendingInv
  <1>4. QED
    BY <1>1, <1>2, <1>3, PTL DEF Spec
=============================================================================
