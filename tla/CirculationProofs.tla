-------------------------- MODULE CirculationProofs --------------------------
(* Theorems about Circulation, for every value of its constants. *)
EXTENDS Circulation, FiniteSetTheorems, TLAPS

-----------------------------------------------------------------------------
(* Type correctness: the shapes of requests and of numbers *)

\* A request that arrives is a request.
LEMMA ArriveType ==
    ASSUME TypeOK, NEW op \in OpNames, NEW pc \in Labels
    PROVE  Arrive(op, pc) \in Request
  BY DEF TypeOK, Arrive, Idle, Request

LEMMA IdleType == Idle \in Request
  BY DEF Idle, Request, Labels

\* A process that takes up a request leaves every process with one.
LEMMA EnterType ==
    ASSUME TypeOK, NEW s \in Procs, NEW q \in Request, Enter(s, q)
    PROVE  sess' \in [Procs -> Request]
  BY DEF TypeOK, Enter

LEMMA DoneType ==
    ASSUME TypeOK, NEW s \in Procs, Done(s)
    PROVE  sess' \in [Procs -> Request]
  BY EnterType, IdleType DEF Done

LEMMA GotoType ==
    ASSUME TypeOK, NEW s \in Procs, NEW pc \in Labels, Goto(s, pc)
    PROVE  sess' \in [Procs -> Request]
  <1>1. [sess[s] EXCEPT !.pc = pc] \in Request
    BY DEF TypeOK, Request
  <1>2. QED
    BY <1>1, EnterType DEF Goto

\* How many active holds a record has is a number.
LEMMA CountType ==
    ASSUME CirculationAssumption, NEW r
    PROVE  Cardinality(ActiveHolds(r)) \in Nat
  <1>1. ActiveHolds(r) \subseteq HoldIds
    BY DEF ActiveHolds
  <1>2. QED
    BY <1>1, FS_Subset, FS_CardinalityType DEF CirculationAssumption

LEMMA FineType ==
    ASSUME CirculationAssumption, NEW due \in Nat, NEW now \in Nat
    PROVE  Fine(due, now) \in Nat
  BY DEF Fine, CirculationAssumption

\* What a request reads of a loan.
LEMMA LoanFine ==
    ASSUME CirculationAssumption, TypeOK, NEW l \in LoanIds
    PROVE  /\ loans[l].item \in Items \cup {NoItem}
           /\ loans[l].patron \in Patrons \cup {NoPatron}
           /\ loans[l].renewals \in Nat
           /\ Fine(loans[l].due, clock) \in Nat
  <1>1. loans[l] \in Loan /\ clock \in Nat
    BY DEF TypeOK
  <1>2. loans[l].due \in Nat
    BY <1>1 DEF Loan
  <1>3. QED
    BY <1>1, <1>2, FineType DEF Loan

-----------------------------------------------------------------------------
(* Type correctness: the rows the helpers write *)

LEMMA HoldRowType ==
    ASSUME TypeOK, NEW h, NEW row \in Hold
    PROVE  [holds EXCEPT ![h] = row] \in [HoldIds -> Hold]
  BY DEF TypeOK

LEMMA HoldStatusType ==
    ASSUME TypeOK, NEW h, NEW st \in HoldStatus
    PROVE  [holds EXCEPT ![h].status = st] \in [HoldIds -> Hold]
  BY DEF TypeOK, Hold

LEMMA NotifiedType ==
    ASSUME TypeOK, NEW h, NEW told \in BOOLEAN
    PROVE  [holds EXCEPT ![h].notified = told] \in [HoldIds -> Hold]
  BY DEF TypeOK, Hold

\* A history counter that counts one more.
LEMMA OneMore ==
    ASSUME NEW count \in [HoldIds -> Nat], NEW h
    PROVE  [count EXCEPT ![h] = @ + 1] \in [HoldIds -> Nat]
  <1>1. \A g \in HoldIds : count[g] + 1 \in Nat
    OBVIOUS
  <1>2. [count EXCEPT ![h] = @ + 1] =
          [g \in HoldIds |-> IF g = h THEN count[g] + 1 ELSE count[g]]
    OBVIOUS
  <1>3. QED
    BY <1>1, <1>2

LEMMA ReadyType ==
    ASSUME TypeOK, NEW h, NEW until \in Nat
    PROVE  /\ Ready(h, until) \in [HoldIds -> Hold]
           /\ Promoted(h) \in [HoldIds -> Nat]
  <1>1. ASSUME NEW g \in HoldIds
        PROVE  [holds[g] EXCEPT !.status = "AVAILABLE", !.expiry = until] \in Hold
    BY DEF TypeOK, Hold, HoldStatus
  <1>2. Ready(h, until) =
          [g \in HoldIds |->
             IF g = h THEN [holds[g] EXCEPT !.status = "AVAILABLE", !.expiry = until]
                      ELSE holds[g]]
    BY DEF TypeOK, Ready
  <1>3. Ready(h, until) \in [HoldIds -> Hold]
    BY <1>1, <1>2 DEF TypeOK
  <1>4. Promoted(h) \in [HoldIds -> Nat]
    BY OneMore DEF TypeOK, Promoted
  <1>5. QED
    BY <1>3, <1>4

LEMMA LoanRowType ==
    ASSUME TypeOK, NEW l, NEW row \in Loan
    PROVE  [loans EXCEPT ![l] = row] \in [LoanIds -> Loan]
  BY DEF TypeOK

LEMMA ClosedType ==
    ASSUME TypeOK, NEW l, NEW how \in {"rendu", "perte"}, NEW fine \in Nat
    PROVE  Closed(l, how, fine) \in [LoanIds -> Loan]
  BY DEF TypeOK, Closed, Loan

LEMMA ItemStatusType ==
    ASSUME TypeOK, NEW i, NEW st \in ItemStatus
    PROVE  [status EXCEPT ![i] = st] \in [Items -> ItemStatus]
  BY DEF TypeOK

LEMMA PassOnType ==
    ASSUME TypeOK, NEW h, NEW how \in HoldStatus, NEW next, NEW item,
           NEW until \in Nat, NEW again \in BOOLEAN,
           PassOn(h, how, next, item, until, again)
    PROVE  /\ holds' \in [HoldIds -> Hold]
           /\ promos' \in [HoldIds -> Nat]
           /\ status' \in [Items -> ItemStatus]
  <1>1. ASSUME NEW g \in HoldIds
        PROVE  /\ [holds[g] EXCEPT !.status = "AVAILABLE", !.expiry = until,
                                   !.notified = @ /\ ~again] \in Hold
               /\ [holds[g] EXCEPT !.status = how] \in Hold
               /\ holds[g] \in Hold
    BY DEF TypeOK, Hold, HoldStatus
  <1>2. holds' \in [HoldIds -> Hold]
    BY <1>1 DEF PassOn
  <1>3. promos' \in [HoldIds -> Nat]
    BY ReadyType DEF PassOn, TypeOK
  <1>4. status' \in [Items -> ItemStatus]
    BY ItemStatusType DEF PassOn, TypeOK, ItemStatus
  <1>5. QED
    BY <1>2, <1>3, <1>4

-----------------------------------------------------------------------------
(* Type correctness: every step of a request in flight *)

LEMMA StepType ==
    ASSUME CirculationAssumption, TypeOK, NEW s \in Procs, Step(s)
    PROVE  TypeOK'
  <1> DEFINE q == sess[s]
  <1>q. /\ q \in Request
        /\ q.now \in Nat /\ q.num \in Nat
    BY DEF TypeOK, Request
  <1>n. \A d \in {DeskPickupDays, PickupDays, LoanDays, OnlineDays} : q.now + d \in Nat
    BY <1>q DEF CirculationAssumption
  <1>l. {"commit", "commitPending", "txNext", "txHeld", "txCommit", "claim", "send"}
           \subseteq Labels
    BY DEF Labels
  <1>1. CASE CheckoutCount(s)
    <2>1. sess' \in [Procs -> Request]
      BY <1>1, DoneType, GotoType DEF CheckoutCount, Labels
    <2>2. QED
      BY <1>1, <2>1 DEF CheckoutCount, TypeOK, db
  <1>2. CASE CheckoutReady(s)
    <2>1. ASSUME NEW h \in HoldIds \cup {0}
          PROVE  [q EXCEPT !.pc = "commit", !.hold = h] \in Request
      BY <1>q, <1>l DEF Request
    <2>2. sess' \in [Procs -> Request]
      BY <1>2, <2>1, DoneType, EnterType DEF CheckoutReady, FindFirst, Oldest, HoldsIn
    <2>3. QED
      BY <1>2, <2>2 DEF CheckoutReady, TypeOK, db
  <1>3. CASE CheckoutCommit(s)
    <2>1. sess' \in [Procs -> Request]
      BY <1>3, DoneType DEF CheckoutCommit
    <2>2. [state |-> "open", item |-> q.item, patron |-> q.patron,
           due |-> q.now + LoanDays, renewals |-> 0, fine |-> 0] \in Loan
      BY <1>q, <1>n DEF Loan, Request
    <2>3. loans' \in [LoanIds -> Loan]
      BY <1>3, <2>2, LoanRowType DEF CheckoutCommit, TypeOK
    <2>4. holds' \in [HoldIds -> Hold]
      <3>1. [holds EXCEPT ![q.hold].status = "FULFILLED"] \in [HoldIds -> Hold]
        BY HoldStatusType DEF HoldStatus
      <3>2. QED
        BY <1>3, <3>1 DEF CheckoutCommit, TypeOK
    <2>5. status' \in [Items -> ItemStatus]
      BY <1>3, ItemStatusType DEF CheckoutCommit, TypeOK, ItemStatus
    <2>6. QED
      BY <1>3, <2>1, <2>3, <2>4, <2>5 DEF CheckoutCommit, TypeOK
  <1>4. CASE ReturnNext(s)
    <2>1. ASSUME NEW h \in HoldIds \cup {0}
          PROVE  [q EXCEPT !.pc = "commit", !.next = h] \in Request
      BY <1>q, <1>l DEF Request
    <2>2. sess' \in [Procs -> Request]
      BY <1>4, <2>1, EnterType DEF ReturnNext, FindFirst, NextHolds, HoldsIn
    <2>3. QED
      BY <1>4, <2>2 DEF ReturnNext, TypeOK, db
  <1>5. CASE ReturnCommit(s)
    <2>1. sess' \in [Procs -> Request]
      BY <1>5, DoneType, GotoType DEF ReturnCommit, Labels
    <2>2. loans' \in [LoanIds -> Loan]
      <3>1. Closed(q.loan, "rendu", q.num) \in [LoanIds -> Loan]
        BY <1>q, ClosedType
      <3>2. QED
        BY <1>5, <3>1 DEF ReturnCommit, TypeOK
    <2>3. holds' \in [HoldIds -> Hold] /\ promos' \in [HoldIds -> Nat]
      BY <1>5, <1>n, ReadyType DEF ReturnCommit, TypeOK
    <2>4. status' \in [Items -> ItemStatus]
      BY <1>5, ItemStatusType DEF ReturnCommit, TypeOK, ItemStatus
    <2>5. QED
      BY <1>5, <2>1, <2>2, <2>3, <2>4 DEF ReturnCommit, TypeOK
  <1>6. CASE PerteCommit(s)
    <2>1. sess' \in [Procs -> Request]
      BY <1>6, DoneType DEF PerteCommit
    <2>2. loans' \in [LoanIds -> Loan]
      <3>1. Closed(q.loan, "perte", q.num) \in [LoanIds -> Loan]
        BY <1>q, ClosedType
      <3>2. QED
        BY <1>6, <3>1 DEF PerteCommit, TypeOK
    <2>3. status' \in [Items -> ItemStatus]
      BY <1>6, ItemStatusType DEF PerteCommit, TypeOK, ItemStatus
    <2>4. QED
      BY <1>6, <2>1, <2>2, <2>3 DEF PerteCommit, TypeOK
  <1>7. CASE RenewHolds(s)
    <2>1. sess' \in [Procs -> Request]
      BY <1>7, DoneType, GotoType DEF RenewHolds, Labels
    <2>2. QED
      BY <1>7, <2>1 DEF RenewHolds, TypeOK, db
  <1>8. CASE RenewCommit(s)
    <2>1. sess' \in [Procs -> Request]
      BY <1>8, DoneType DEF RenewCommit
    <2>2. loans' \in [LoanIds -> Loan]
      <3>1. q.now + RenewalDays(q.op) \in Nat
        BY <1>n DEF RenewalDays
      <3>2. ASSUME NEW l \in LoanIds
            PROVE  [loans[l] EXCEPT !.due = q.now + RenewalDays(q.op),
                                    !.renewals = q.num + 1] \in Loan
        <4>1. q.num + 1 \in Nat
          BY <1>q
        <4>2. loans[l] \in Loan
          BY DEF TypeOK
        <4>3. QED
          BY <3>1, <4>1, <4>2 DEF Loan
      <3>3. loans' = [l \in LoanIds |->
               IF l = q.loan THEN [loans[l] EXCEPT !.due = q.now + RenewalDays(q.op),
                                                   !.renewals = q.num + 1]
                             ELSE loans[l]]
        BY <1>8 DEF RenewCommit, TypeOK
      <3>4. QED
        BY <3>2, <3>3 DEF TypeOK
    <2>3. QED
      BY <1>8, <2>1, <2>2 DEF RenewCommit, TypeOK
  <1>9. CASE HoldDuplicate(s)
    <2>1. sess' \in [Procs -> Request]
      BY <1>9, DoneType, GotoType DEF HoldDuplicate, Labels
    <2>2. QED
      BY <1>9, <2>1 DEF HoldDuplicate, TypeOK, db
  <1>10. CASE HoldReadyCommit(s)
    <2>1. sess' \in [Procs -> Request]
      BY <1>10, DoneType, GotoType DEF HoldReadyCommit, Labels
    <2>2. [status |-> "AVAILABLE", record |-> q.record, patron |-> q.patron,
           priority |-> 0, expiry |-> q.now + PickupDaysOf(q.op),
           notified |-> FALSE] \in Hold
      BY <1>q, <1>n DEF PickupDaysOf, Hold, HoldStatus, Request
    <2>3. holds' \in [HoldIds -> Hold] /\ promos' \in [HoldIds -> Nat]
      BY <1>10, <2>2, HoldRowType DEF HoldReadyCommit, TypeOK, Promoted
    <2>4. status' \in [Items -> ItemStatus]
      BY <1>10, ItemStatusType DEF HoldReadyCommit, ItemStatus
    <2>5. QED
      BY <1>10, <2>1, <2>3, <2>4 DEF HoldReadyCommit, TypeOK
  <1>11. CASE HoldCount(s)
    <2>1. [q EXCEPT !.pc = "commitPending",
                    !.num = Cardinality(ActiveHolds(q.record))] \in Request
      BY <1>q, <1>l, CountType DEF Request
    <2>2. sess' \in [Procs -> Request]
      BY <1>11, <2>1, EnterType DEF HoldCount
    <2>3. QED
      BY <1>11, <2>2 DEF HoldCount, TypeOK, db
  <1>12. CASE HoldPendingCommit(s)
    <2>1. sess' \in [Procs -> Request]
      BY <1>12, DoneType DEF HoldPendingCommit
    <2>2. [status |-> "PENDING", record |-> q.record, patron |-> q.patron,
           priority |-> q.num + 1, expiry |-> 0, notified |-> FALSE] \in Hold
      BY <1>q DEF Hold, HoldStatus, Request
    <2>3. holds' \in [HoldIds -> Hold]
      BY <1>12, <2>2, HoldRowType DEF HoldPendingCommit
    <2>4. QED
      BY <1>12, <2>1, <2>3 DEF HoldPendingCommit, TypeOK
  <1>13. CASE CancelPending(s)
    <2>1. sess' \in [Procs -> Request]
      BY <1>13, DoneType, GotoType DEF CancelPending, AfterCancel, Labels
    <2>2. holds' \in [HoldIds -> Hold]
      BY <1>13, HoldStatusType DEF CancelPending, Cancelled, HoldStatus
    <2>3. QED
      BY <1>13, <2>1, <2>2 DEF CancelPending, TypeOK
  <1>14. CASE CancelLock(s)
    <2>1. ASSUME NEW i \in Items \cup {NoItem}
          PROVE  [q EXCEPT !.item = i,
                           !.pc = IF i = NoItem THEN "txCommit" ELSE "txNext"] \in Request
      <3>1. ASSUME NEW pc \in Labels
            PROVE  [q EXCEPT !.item = i, !.pc = pc] \in Request
        BY <1>q DEF Request
      <3>2. QED
        BY <3>1 DEF Labels
    <2>2. sess' \in [Procs -> Request]
      BY <1>14, <2>1, EnterType DEF CancelLock, FindFirst, HeldItems, ItemsOf
    <2>3. QED
      BY <1>14, <2>2 DEF CancelLock, TypeOK, db
  <1>15. CASE CancelNext(s)
    <2>1. ASSUME NEW h \in HoldIds \cup {0}
          PROVE  [q EXCEPT !.pc = "txCommit", !.next = h] \in Request
      BY <1>q, <1>l DEF Request
    <2>2. sess' \in [Procs -> Request]
      BY <1>15, <2>1, EnterType DEF CancelNext, FindFirst, NextHolds, HoldsIn
    <2>3. QED
      BY <1>15, <2>2 DEF CancelNext, TypeOK, db
  <1>16. CASE CancelCommit(s)
    <2>1. sess' \in [Procs -> Request]
      BY <1>16, DoneType, GotoType DEF CancelCommit, AfterCancel, Labels
    <2>2. PassOn(q.hold, "CANCELLED", q.next, q.item, q.now + DeskPickupDays, FALSE)
      BY <1>16 DEF CancelCommit
    <2>3. /\ holds' \in [HoldIds -> Hold]
          /\ promos' \in [HoldIds -> Nat]
          /\ status' \in [Items -> ItemStatus]
      BY <1>n, <2>2, PassOnType DEF HoldStatus
    <2>4. QED
      BY <1>16, <2>1, <2>3 DEF CancelCommit, TypeOK
  <1>17. CASE ExpireHeld(s)
    <2>1. ASSUME NEW i \in Items \cup {NoItem}
          PROVE  [q EXCEPT !.pc = "txCommit", !.item = i] \in Request
      BY <1>q, <1>l DEF Request
    <2>2. sess' \in [Procs -> Request]
      BY <1>17, <2>1, EnterType DEF ExpireHeld, FindFirst, HeldItems, ItemsOf
    <2>3. QED
      BY <1>17, <2>2 DEF ExpireHeld, TypeOK, db
  <1>18. CASE ExpireCommit(s)
    <2>1. [Arrive("expire", "each") EXCEPT !.now = q.now, !.todo = q.todo \ {q.hold}]
             \in Request
      <3>1. Arrive("expire", "each") \in Request
        BY ArriveType DEF OpNames, Labels
      <3>2. QED
        BY <3>1, <1>q DEF Request
    <2>2. sess' \in [Procs -> Request]
      BY <1>18, <2>1, EnterType DEF ExpireCommit
    <2>3. PassOn(q.hold, "EXPIRED", q.next, q.item, q.now + PickupDays, TRUE)
      BY <1>18 DEF ExpireCommit
    <2>4. /\ holds' \in [HoldIds -> Hold]
          /\ promos' \in [HoldIds -> Nat]
          /\ status' \in [Items -> ItemStatus]
      BY <1>n, <2>3, PassOnType DEF HoldStatus
    <2>5. QED
      BY <1>18, <2>2, <2>4 DEF ExpireCommit, TypeOK
  <1>19. CASE ExpireEnd(s)
    <2>1. sess' \in [Procs -> Request]
      BY <1>19, GotoType DEF ExpireEnd, Labels
    <2>2. QED
      BY <1>19, <2>1 DEF ExpireEnd, TypeOK, db
  <1>20. ASSUME NEW h \in HoldIds, ExpireLock(s, h)
         PROVE  TypeOK'
    <2>1. ASSUME NEW g \in HoldIds \cup {0}
          PROVE  [q EXCEPT !.pc = IF g = 0 THEN "txHeld" ELSE "txCommit",
                           !.hold = h, !.record = holds[h].record, !.next = g] \in Request
      <3>1. holds[h].record \in Records \cup {NoRecord}
        BY DEF TypeOK, Hold
      <3>2. ASSUME NEW pc \in Labels
            PROVE  [q EXCEPT !.pc = pc, !.hold = h, !.record = holds[h].record,
                             !.next = g] \in Request
        BY <1>q, <3>1 DEF Request
      <3>3. QED
        BY <3>2 DEF Labels
    <2>2. [q EXCEPT !.todo = @ \ {h}] \in Request
      BY <1>q DEF Request
    <2>3. sess' \in [Procs -> Request]
      BY <1>20, <2>1, <2>2, EnterType DEF ExpireLock, FindFirst, NextHolds, HoldsIn
    <2>4. QED
      BY <1>20, <2>3 DEF ExpireLock, TypeOK, db
  <1>21. ASSUME NEW h \in HoldIds, NotifyClaim(s, h)
         PROVE  TypeOK'
    <2>1. /\ [q EXCEPT !.todo = @ \ {h}, !.hold = h, !.pc = "send"] \in Request
          /\ [q EXCEPT !.todo = @ \ {h}] \in Request
      <3>1. q.todo \ {h} \in SUBSET HoldIds
        BY <1>q DEF Request
      <3>2. [q EXCEPT !.todo = @ \ {h}] \in Request
        BY <1>q, <3>1 DEF Request
      <3>3. [q EXCEPT !.todo = @ \ {h}, !.hold = h, !.pc = "send"] \in Request
        BY <1>q, <1>l, <3>1 DEF Request
      <3>4. QED
        BY <3>2, <3>3
    <2>2. sess' \in [Procs -> Request]
      BY <1>21, <2>1, EnterType DEF NotifyClaim
    <2>3. holds' \in [HoldIds -> Hold]
      <3>1. [holds EXCEPT ![h].notified = TRUE] \in [HoldIds -> Hold]
        BY NotifiedType
      <3>2. QED
        BY <1>21, <3>1 DEF NotifyClaim, TypeOK
    <2>4. QED
      BY <1>21, <2>2, <2>3 DEF NotifyClaim, TypeOK
  <1>22. ASSUME NEW outcome \in {"sent", "refused", "sentThenError"}, NotifySend(s, outcome)
         PROVE  TypeOK'
    <2>1. [q EXCEPT !.pc = "claim", !.hold = 0] \in Request
      BY <1>q, <1>l DEF Request
    <2>2. sess' \in [Procs -> Request]
      BY <1>22, <2>1, EnterType DEF NotifySend
    <2>3. holds' \in [HoldIds -> Hold] /\ mails' \in [HoldIds -> Nat]
      <3>1. Released(q.hold) \in [HoldIds -> Hold]
        BY NotifiedType DEF Released
      <3>2. [mails EXCEPT ![q.hold] = @ + 1] \in [HoldIds -> Nat]
        BY OneMore DEF TypeOK
      <3>3. QED
        BY <1>22, <3>1, <3>2 DEF NotifySend, TypeOK
    <2>4. QED
      BY <1>22, <2>2, <2>3 DEF NotifySend, TypeOK
  <1>23. CASE NotifyFind(s)
    <2>1. [Arrive(q.op, "claim") EXCEPT !.now = q.now, !.todo = ToNotify] \in Request
      BY <1>q, <1>l DEF TypeOK, Arrive, Idle, ToNotify, Request
    <2>2. sess' \in [Procs -> Request]
      BY <1>23, <2>1, EnterType DEF NotifyFind
    <2>3. QED
      BY <1>23, <2>2 DEF NotifyFind, TypeOK, db
  <1>24. CASE NotifyEnd(s)
    BY <1>24, DoneType DEF NotifyEnd, TypeOK, db
  <1>25. QED
    BY <1>1, <1>2, <1>3, <1>4, <1>5, <1>6, <1>7, <1>8, <1>9, <1>10, <1>11, <1>12,
       <1>13, <1>14, <1>15, <1>16, <1>17, <1>18, <1>19, <1>20, <1>21, <1>22, <1>23,
       <1>24 DEF Step

\* Every request that arrives.
LEMMA ArrivalType ==
    ASSUME CirculationAssumption, TypeOK, NEW s \in Procs, Arrivals(s)
    PROVE  TypeOK'
  <1>1. ASSUME NEW i \in Items, NEW p \in Patrons, CheckoutRead(s, i, p)
        PROVE  TypeOK'
    <2>1. [Arrive("checkout", "count") EXCEPT !.item = i, !.patron = p,
                                              !.seen = status[i]] \in Request
      <3>1. Arrive("checkout", "count") \in Request
        BY ArriveType DEF OpNames, Labels
      <3>2. QED
        BY <3>1 DEF Request, TypeOK
    <2>2. QED
      BY <1>1, <2>1, EnterType DEF CheckoutRead, TypeOK, db
  <1>2. ASSUME NEW l \in LoanIds, ReturnRead(s, l)
        PROVE  TypeOK'
    <2>1. [Arrive("return", "next") EXCEPT !.loan = l, !.item = loans[l].item,
                                           !.num = Fine(loans[l].due, clock)] \in Request
      <3>1. Arrive("return", "next") \in Request
        BY ArriveType DEF OpNames, Labels
      <3>2. QED
        BY <3>1, LoanFine DEF Request
    <2>2. QED
      BY <1>2, <2>1, EnterType DEF ReturnRead, TypeOK, db
  <1>3. ASSUME NEW l \in LoanIds, PerteRead(s, l)
        PROVE  TypeOK'
    <2>1. [Arrive("perte", "commit") EXCEPT !.loan = l, !.item = loans[l].item,
                                            !.num = Fine(loans[l].due, clock)] \in Request
      <3>1. Arrive("perte", "commit") \in Request
        BY ArriveType DEF OpNames, Labels
      <3>2. QED
        BY <3>1, LoanFine DEF Request
    <2>2. QED
      BY <1>3, <2>1, EnterType DEF PerteRead, TypeOK, db
  <1>4. ASSUME NEW l \in LoanIds, NEW op \in {"renew", "renewOnline"}, RenewRead(s, l, op)
        PROVE  TypeOK'
    <2>1. [Arrive(op, "holds") EXCEPT !.loan = l, !.item = loans[l].item,
             !.patron = loans[l].patron, !.num = loans[l].renewals] \in Request
      <3>1. Arrive(op, "holds") \in Request
        BY ArriveType DEF OpNames, Labels
      <3>2. QED
        BY <3>1, LoanFine DEF Request
    <2>2. QED
      BY <1>4, <2>1, EnterType DEF RenewRead, TypeOK, db
  <1>5. ASSUME NEW r \in Records, NEW p \in Patrons, NEW op \in {"hold", "holdOnline"},
               HoldRead(s, r, p, op)
        PROVE  TypeOK'
    <2>1. ASSUME NEW i \in Items \cup {NoItem}
          PROVE  [Arrive(op, "duplicate") EXCEPT !.record = r, !.patron = p,
                                                 !.item = i] \in Request
      <3>1. Arrive(op, "duplicate") \in Request
        BY ArriveType DEF OpNames, Labels
      <3>2. QED
        BY <3>1 DEF Request
    <2>2. sess' \in [Procs -> Request]
      BY <1>5, <2>1, EnterType DEF HoldRead, FindFirst, ShelfItems, ItemsOf
    <2>3. QED
      BY <1>5, <2>2 DEF HoldRead, TypeOK, db
  <1>6. ASSUME NEW h \in HoldIds, NEW op \in {"cancel", "cancelOnline"}, CancelRead(s, h, op)
        PROVE  TypeOK'
    <2>1. [Arrive(op, "cancel") EXCEPT !.hold = h, !.record = holds[h].record,
                                       !.seen = holds[h].status] \in Request
      <3>1. holds[h].record \in Records \cup {NoRecord} /\ holds[h].status \in HoldStatus
        BY <1>6 DEF CancelRead, ActiveHold, ACTIVE_HOLD_STATUSES, TypeOK, Hold, HoldStatus
      <3>2. Arrive(op, "cancel") \in Request
        BY ArriveType DEF OpNames, Labels
      <3>3. QED
        BY <3>1, <3>2 DEF Request
    <2>2. QED
      BY <1>6, <2>1, EnterType DEF CancelRead, TypeOK, db
  <1>7. QED
    BY <1>1, <1>2, <1>3, <1>4, <1>5, <1>6 DEF Arrivals

LEMMA NextType ==
    ASSUME CirculationAssumption, TypeOK, [Next]_vars
    PROVE  TypeOK'
  <1>1. ASSUME NEW s \in Procs, ExpireFind(s)
        PROVE  TypeOK'
    <2>1. [Arrive("expire", "each") EXCEPT !.todo = StaleHolds] \in Request
      <3>1. Arrive("expire", "each") \in Request
        BY ArriveType DEF OpNames, Labels
      <3>2. QED
        BY <3>1 DEF Request, StaleHolds
    <2>2. QED
      BY <1>1, <2>1, EnterType DEF ExpireFind, TypeOK, db
  <1>2. ASSUME NEW s \in Procs, Abort(s)
        PROVE  TypeOK'
    BY <1>2, DoneType DEF Abort, TypeOK, db
  <1>3. ASSUME NEW i \in Items, NEW st \in ItemStatus, UpdateItem(i, st)
        PROVE  TypeOK'
    BY <1>3, ItemStatusType DEF UpdateItem, TypeOK
  <1>4. CASE Tick
    BY <1>4 DEF Tick, TypeOK, db, CirculationAssumption
  <1>5. CASE UNCHANGED vars
    BY <1>5 DEF vars, db, TypeOK
  <1>6. QED
    BY <1>1, <1>2, <1>3, <1>4, <1>5, StepType, ArrivalType DEF Next, Wait

LEMMA InitType ==
    ASSUME CirculationAssumption, Init
    PROVE  TypeOK
  <1>1. NoLoan \in Loan /\ NoHold \in Hold
    BY DEF NoLoan, Loan, NoHold, Hold
  <1>2. QED
    BY <1>1, IdleType DEF Init, TypeOK, ItemStatus

\* Rows and requests keep their shapes in every run of the desk, whatever
\* the traffic: statuses stay in their enumerations, counters and dates natural.
THEOREM TypeCorrect == Spec => []TypeOK
  <1>1. Init => TypeOK
    BY InitType, CirculationAssumption
  <1>2. TypeOK /\ [Next]_vars => TypeOK'
    BY NextType, CirculationAssumption
  <1>3. QED
    BY <1>1, <1>2, PTL DEF Spec

-----------------------------------------------------------------------------
(* A loan is closed once *)

\* A loan that is closed by the ones who may close it is open.
LEMMA FrozenStep ==
    ASSUME TypeOK, NEW s \in Procs, Step(s), NEW l \in LoanIds,
           loans[l].state \in {"rendu", "perte"}
    PROVE  loans'[l].state = loans[l].state /\ loans'[l].fine = loans[l].fine
  <1>r. loans[l] \in Loan
    BY DEF TypeOK
  <1>1. CASE CheckoutCommit(s)
    BY <1>1 DEF CheckoutCommit, FreshLoan, TypeOK
  <1>2. CASE ReturnCommit(s)
    BY <1>2 DEF ReturnCommit, StillOpen, OpenLoan, Closed, TypeOK
  <1>3. CASE PerteCommit(s)
    BY <1>3 DEF PerteCommit, StillOpen, OpenLoan, Closed, TypeOK
  <1>4. CASE RenewCommit(s)
    <2>1. loans'[l] = IF l = sess[s].loan
                      THEN [loans[l] EXCEPT !.due = sess[s].now + RenewalDays(sess[s].op),
                                            !.renewals = sess[s].num + 1]
                      ELSE loans[l]
      BY <1>4 DEF RenewCommit, TypeOK
    <2>2. QED
      BY <1>r, <2>1 DEF Loan
  <1>5. CASE UNCHANGED loans
    BY <1>5
  <1>6. QED
    <2>1. ASSUME NEW h \in HoldIds, ExpireLock(s, h) \/ NotifyClaim(s, h)
          PROVE  UNCHANGED loans
      BY <2>1 DEF ExpireLock, NotifyClaim, db
    <2>2. ASSUME NEW outcome \in {"sent", "refused", "sentThenError"}, NotifySend(s, outcome)
          PROVE  UNCHANGED loans
      BY <2>2 DEF NotifySend
    <2>3. QED
      BY <1>1, <1>2, <1>3, <1>4, <1>5, <2>1, <2>2
      DEF Step, db, CheckoutCount, CheckoutReady, ReturnNext, RenewHolds, HoldDuplicate,
          HoldReadyCommit, HoldCount, HoldPendingCommit, CancelPending, CancelLock,
          CancelNext, CancelCommit, ExpireHeld, ExpireCommit, ExpireEnd, NotifyFind,
          NotifyEnd

\* A double scan, a return racing a loss, a renewal sent too late or a request
\* that dies half-way never rewrites how a closed loan ended, nor its fine.
THEOREM ClosedLoansStayClosed == Spec => ClosedLoanFrozen
  <1>1. ASSUME TypeOK, [Next]_vars, NEW l \in LoanIds
        PROVE  loans[l].state \in {"rendu", "perte"} =>
                  loans'[l].state = loans[l].state /\ loans'[l].fine = loans[l].fine
    <2>1. ASSUME NEW s \in Procs, Arrivals(s)
          PROVE  UNCHANGED loans
      BY <2>1 DEF Arrivals, CheckoutRead, ReturnRead, PerteRead, RenewRead, HoldRead,
                  CancelRead, db
    <2>2. ASSUME NEW s \in Procs, ExpireFind(s) \/ Abort(s)
          PROVE  UNCHANGED loans
      BY <2>2 DEF ExpireFind, Abort, db
    <2>3. ASSUME NEW i \in Items, NEW st \in ItemStatus, UpdateItem(i, st)
          PROVE  UNCHANGED loans
      BY <2>3 DEF UpdateItem
    <2>4. CASE Tick \/ UNCHANGED vars
      BY <2>4 DEF Tick, vars, db
    <2>5. QED
      BY <1>1, <2>1, <2>2, <2>3, <2>4, FrozenStep DEF Next, Wait
  <1>2. TypeOK /\ [Next]_vars =>
           [\A l \in LoanIds : loans[l].state \in {"rendu", "perte"} =>
               loans'[l].state = loans[l].state /\ loans'[l].fine = loans[l].fine]_vars
    BY <1>1
  <1>3. QED
    BY <1>2, TypeCorrect, PTL DEF Spec, ClosedLoanFrozen
=============================================================================
