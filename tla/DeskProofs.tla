------------------------------ MODULE DeskProofs ------------------------------
(***************************************************************************)
(* What the lending desk keeps in order, for any number of copies, readers *)
(* and rows.  First the counter: any number of requests that overlap and   *)
(* die, while nobody places a hold.  Then the whole desk, holds included,  *)
(* one request at a time.                                                  *)
(***************************************************************************)
EXTENDS CirculationRefinement, CirculationProofs, WellFoundedInduction

-----------------------------------------------------------------------------
(* The counter *)

\* Nobody places a hold and nobody edits a copy.
OnlyCounter == Ops \cap {"hold", "holdOnline", "edit"} = {}

\* What a request q of the counter has read and where it can stand, beside the
\* loans ls: a return and a loss know the copy of their loan, a checkout about to
\* commit has seen its copy on the shelf or set aside.
CounterFits(q, ls) ==
    /\ q.op \in {"idle", "checkout", "return", "perte", "renew", "renewOnline", "expire"}
    /\ q.op = "checkout" =>
          /\ q.pc \in {"count", "ready", "commit"}
          /\ q.item \in Items /\ q.hold = 0
          /\ q.pc = "commit" => q.seen \in {"AVAILABLE", "ON_HOLD"}
    /\ q.op = "return" => q.pc \in {"next", "commit"} /\ q.next = 0
    /\ q.op = "perte" => q.pc = "commit"
    /\ q.op \in {"return", "perte"} =>
          /\ q.loan \in LoanIds /\ ls[q.loan].state # "unused"
          /\ q.item = ls[q.loan].item
    /\ q.op = "expire" => q.pc \in {"each", "notify", "claim", "send"}

NoHolds == \A h \in HoldIds : holds[h].status = "unused"
LentItems == \A l \in LoanIds : loans[l].state # "unused" => loans[l].item \in Items

CounterInv ==
    /\ TypeOK
    /\ NoHolds /\ LentItems /\ LoansInOrder
    /\ \A s \in Procs : CounterFits(sess[s], loans)

\* A row that exists keeps its copy, and a step creates one row at most.
CopiesKept ==
    \A l \in LoanIds : loans[l].state # "unused" =>
        loans'[l].state # "unused" /\ loans'[l].item = loans[l].item

\* One request moves, and fits; the others still do.
LEMMA CounterMoves ==
    ASSUME CounterInv, CopiesKept, NEW s \in Procs, NEW q, Enter(s, q), CounterFits(q, loans')
    PROVE  \A t \in Procs : CounterFits(sess'[t], loans')
  <1>1. ASSUME NEW t \in Procs, t # s
        PROVE  CounterFits(sess'[t], loans')
    <2>1. sess'[t] = sess[t] /\ CounterFits(sess[t], loans)
      BY <1>1 DEF Enter, CounterInv, TypeOK
    <2>2. QED
      BY <2>1 DEF CounterFits, CopiesKept
  <1>2. sess'[s] = q
    BY DEF Enter, CounterInv, TypeOK
  <1>3. QED
    BY <1>1, <1>2

LEMMA IdleFits == ASSUME NEW ls PROVE CounterFits(Idle, ls)
  BY DEF CounterFits, Idle

LEMMA CounterQuiet ==
    ASSUME CounterInv, UNCHANGED db, NEW s \in Procs, NEW q, Enter(s, q), CounterFits(q, loans)
    PROVE  /\ NoHolds' /\ LentItems' /\ LoansInOrder'
           /\ \A t \in Procs : CounterFits(sess'[t], loans')
  <1>1. CopiesKept /\ CounterFits(q, loans')
    BY DEF CopiesKept, db
  <1>2. \A t \in Procs : CounterFits(sess'[t], loans')
    BY <1>1, CounterMoves
  <1>3. QED
    BY <1>2 DEF CounterInv, NoHolds, LentItems, LoansInOrder, OneLoanPerItem,
                OpenLoanCheckedOut, OpenLoan, db

\* A conditional update of the copy: the copy a request saw free is still free
\* when its loan is written, so no loan is open on it.
LEMMA CounterLends ==
    ASSUME CounterInv, NEW s \in Procs, CheckoutCommit(s)
    PROVE  /\ NoHolds' /\ LentItems' /\ LoansInOrder'
           /\ \A t \in Procs : CounterFits(sess'[t], loans')
  <1> DEFINE q == sess[s]
  <1>q. q.item \in Items /\ q.hold = 0 /\ q.seen \in {"AVAILABLE", "ON_HOLD"}
    BY DEF CheckoutCommit, At, CounterInv, CounterFits
  <1>d. Enter(s, Idle) /\ CounterFits(Idle, loans')
    BY IdleFits DEF CheckoutCommit, Done
  <1>1. CASE UNCHANGED <<status, loans, holds>>
    BY <1>1, <1>d, CounterMoves
    DEF CounterInv, CopiesKept, NoHolds, LentItems, LoansInOrder, OneLoanPerItem,
        OpenLoanCheckedOut, OpenLoan
  <1>2. CASE ItemAsRead(s) /\ holds' = holds
             /\ status' = [status EXCEPT ![q.item] = "CHECKED_OUT"]
             /\ \E l \in LoanIds :
                   /\ FreshLoan(l)
                   /\ loans' = [loans EXCEPT ![l] =
                         [state |-> "open", item |-> q.item, patron |-> q.patron,
                          due |-> q.now + LoanDays, renewals |-> 0, fine |-> 0]]
    <2>1. PICK l \in LoanIds :
             /\ FreshLoan(l)
             /\ loans' = [loans EXCEPT ![l] =
                   [state |-> "open", item |-> q.item, patron |-> q.patron,
                    due |-> q.now + LoanDays, renewals |-> 0, fine |-> 0]]
      BY <1>2
    <2>2. /\ loans'[l].state = "open" /\ loans'[l].item = q.item
          /\ \A k \in LoanIds : k # l => loans'[k] = loans[k]
          /\ loans[l].state = "unused"
      BY <2>1 DEF CounterInv, TypeOK, FreshLoan
    <2>3. \A i \in Items : status'[i] = IF i = q.item THEN "CHECKED_OUT" ELSE status[i]
      BY <1>2 DEF CounterInv, TypeOK
    <2>4. \A k \in LoanIds : OpenLoan(k) => loans[k].item # q.item
      BY <1>2, <1>q DEF ItemAsRead, CounterInv, LoansInOrder, OpenLoanCheckedOut
    <2>5. CopiesKept
      BY <2>2 DEF CopiesKept
    <2>6. LentItems'
      BY <1>q, <2>2 DEF CounterInv, LentItems
    <2>7. OneLoanPerItem'
      BY <2>2, <2>4 DEF CounterInv, LoansInOrder, OneLoanPerItem, OpenLoan
    <2>8. OpenLoanCheckedOut'
      <3>1. ASSUME NEW k \in LoanIds, OpenLoan(k)'
            PROVE  status'[loans'[k].item] = "CHECKED_OUT"
        <4>1. CASE k = l
          BY <4>1, <2>2, <2>3, <1>q
        <4>2. CASE k # l
          <5>1. OpenLoan(k) /\ loans'[k].item = loans[k].item /\ loans[k].item \in Items
            BY <3>1, <4>2, <2>2 DEF OpenLoan, CounterInv, LentItems
          <5>2. QED
            BY <5>1, <2>3, <2>4 DEF CounterInv, LoansInOrder, OpenLoanCheckedOut
        <4>3. QED
          BY <4>1, <4>2
      <3>2. QED
        BY <3>1 DEF OpenLoanCheckedOut
    <2>9. \A t \in Procs : CounterFits(sess'[t], loans')
      BY <2>5, <1>d, CounterMoves
    <2>10. QED
      BY <1>2, <2>6, <2>7, <2>8, <2>9 DEF CounterInv, NoHolds, LoansInOrder
  <1>3. QED
    BY <1>q, <1>1, <1>2 DEF CheckoutCommit

\* Whoever closes the loan finds it open: no other loan is open on its copy, whose
\* status may be written.
LEMMA CounterCloses ==
    ASSUME CounterInv, NEW s \in Procs, ReturnCommit(s) \/ PerteCommit(s)
    PROVE  /\ NoHolds' /\ LentItems' /\ LoansInOrder'
           /\ \A t \in Procs : CounterFits(sess'[t], loans')
  <1> DEFINE q == sess[s]
  <1>q. /\ q.next = 0 \/ PerteCommit(s)
        /\ q.loan \in LoanIds /\ q.item = loans[q.loan].item
    BY DEF ReturnCommit, PerteCommit, At, CounterInv, CounterFits
  <1>d. Enter(s, Idle) /\ CounterFits(Idle, loans') /\ holds' = holds
    BY <1>q, IdleFits DEF ReturnCommit, PerteCommit, Done
  <1>1. CASE UNCHANGED <<status, loans>>
    BY <1>1, <1>d, CounterMoves
    DEF CounterInv, CopiesKept, NoHolds, LentItems, LoansInOrder, OneLoanPerItem,
        OpenLoanCheckedOut, OpenLoan
  <1>2. CASE /\ StillOpen(s)
             /\ \E how \in {"rendu", "perte"} : loans' = Closed(q.loan, how, q.num)
             /\ \E st \in ItemStatus : status' = [status EXCEPT ![q.item] = st]
    <2>1. PICK how \in {"rendu", "perte"} : loans' = Closed(q.loan, how, q.num)
      BY <1>2
    <2>2. loans \in [LoanIds -> Loan]
      BY DEF CounterInv, TypeOK
    <2>3. /\ loans'[q.loan].state # "open" /\ loans'[q.loan].state # "unused"
          /\ loans'[q.loan].item = loans[q.loan].item
          /\ \A k \in LoanIds : k # q.loan => loans'[k] = loans[k]
      BY <1>q, <2>1, <2>2 DEF Closed, Loan
    <2>4. \A i \in Items : i # q.item => status'[i] = status[i]
      BY <1>2 DEF CounterInv, TypeOK
    <2>5. CopiesKept /\ LentItems'
      <3>1. CopiesKept
        BY <2>3 DEF CopiesKept
      <3>2. loans[q.loan].state # "unused"
        BY <1>2 DEF StillOpen, OpenLoan
      <3>3. QED
        BY <1>q, <2>3, <3>1, <3>2 DEF CounterInv, LentItems
    <2>6. OneLoanPerItem'
      BY <2>3 DEF CounterInv, LoansInOrder, OneLoanPerItem, OpenLoan
    <2>7. OpenLoanCheckedOut'
      <3>1. ASSUME NEW k \in LoanIds, OpenLoan(k)'
            PROVE  status'[loans'[k].item] = "CHECKED_OUT"
        <4>1. k # q.loan /\ OpenLoan(k) /\ loans'[k].item = loans[k].item
          BY <3>1, <2>3 DEF OpenLoan
        <4>2. loans[k].item \in Items /\ loans[k].item # q.item
          BY <1>2, <1>q, <4>1 DEF StillOpen, OpenLoan, CounterInv, LentItems,
             LoansInOrder, OneLoanPerItem
        <4>3. QED
          BY <4>1, <4>2, <2>4 DEF CounterInv, LoansInOrder, OpenLoanCheckedOut
      <3>2. QED
        BY <3>1 DEF OpenLoanCheckedOut
    <2>8. \A t \in Procs : CounterFits(sess'[t], loans')
      BY <2>5, <1>d, CounterMoves
    <2>9. QED
      BY <1>d, <2>5, <2>6, <2>7, <2>8 DEF CounterInv, NoHolds, LoansInOrder
  <1>3. QED
    BY <1>q, <1>1, <1>2 DEF ReturnCommit, PerteCommit, ItemStatus

\* Every statement of a request.  Without holds, a return finds nobody to set the
\* copy aside for, a checkout nobody who has it aside, and a pass nothing to do.
LEMMA CounterStep ==
    ASSUME CirculationAssumption, CounterInv, NEW s \in Procs, Step(s)
    PROVE  /\ NoHolds' /\ LentItems' /\ LoansInOrder'
           /\ \A t \in Procs : CounterFits(sess'[t], loans')
  <1> DEFINE q == sess[s]
  <1>q. q \in Request /\ CounterFits(q, loans) /\ 0 \notin HoldIds
    BY DEF CounterInv, TypeOK, CirculationAssumption
  <1>e. \A r, st : st # "unused" => HoldsIn(r, st) = {}
    BY DEF CounterInv, NoHolds, HoldsIn
  <1>i. CounterFits(Idle, loans)
    BY IdleFits
  <1>1. CASE CheckoutCount(s)
    <2>1. CounterFits([q EXCEPT !.pc = IF q.seen = "ON_HOLD" THEN "ready" ELSE "commit"], loans)
          \/ q.seen \notin {"AVAILABLE", "ON_HOLD"}
      BY <1>1, <1>q DEF CounterFits, Request, CheckoutCount, At
    <2>2. QED
      BY <1>1, <1>i, <2>1, CounterQuiet DEF CheckoutCount, Done, Goto
  <1>2. CASE CheckoutReady(s)
    <2>1. \A h \in FindFirst(Oldest(HoldsIn(RecordOf[q.item], "AVAILABLE")), 0) : h = 0
      BY <1>e DEF FindFirst, Oldest
    <2>2. Done(s)
      BY <1>2, <2>1 DEF CheckoutReady, ReservedFor
    <2>3. QED
      BY <1>2, <1>i, <2>2, CounterQuiet DEF CheckoutReady, Done
  <1>3. CASE CheckoutCommit(s)
    BY <1>3, CounterLends
  <1>4. CASE ReturnNext(s)
    <2>1. \A h \in FindFirst(NextHolds(RecordOf[q.item]), 0) : h = 0
      BY <1>e DEF FindFirst, NextHolds
    <2>2. Enter(s, [q EXCEPT !.pc = "commit", !.next = 0])
      BY <1>4, <2>1 DEF ReturnNext
    <2>3. CounterFits([q EXCEPT !.pc = "commit", !.next = 0], loans)
      BY <1>4, <1>q DEF CounterFits, Request, ReturnNext, At
    <2>4. QED
      BY <1>4, <2>2, <2>3, CounterQuiet DEF ReturnNext
  <1>5. CASE ReturnCommit(s) \/ PerteCommit(s)
    BY <1>5, CounterCloses
  <1>6. CASE RenewHolds(s)
    <2>1. CounterFits([q EXCEPT !.pc = "commit"], loans)
      BY <1>6, <1>q DEF CounterFits, Request, RenewHolds, At
    <2>2. QED
      BY <1>6, <1>i, <2>1, CounterQuiet DEF RenewHolds, Done, Goto
  <1>7. CASE RenewCommit(s)
    <2>1. loans \in [LoanIds -> Loan]
      BY DEF CounterInv, TypeOK
    <2>2. \A k \in LoanIds : loans'[k].state = loans[k].state /\ loans'[k].item = loans[k].item
      <3>1. ASSUME NEW k \in LoanIds
            PROVE  loans'[k] = loans[k] \/ loans'[k] =
                      [loans[k] EXCEPT !.due = q.now + RenewalDays(q.op), !.renewals = q.num + 1]
        BY <1>7, <2>1 DEF RenewCommit
      <3>2. QED
        BY <2>1, <3>1 DEF Loan
    <2>3. CopiesKept /\ Enter(s, Idle) /\ CounterFits(Idle, loans')
      BY <1>7, <2>2, IdleFits DEF CopiesKept, RenewCommit, Done
    <2>4. \A t \in Procs : CounterFits(sess'[t], loans')
      BY <2>3, CounterMoves
    <2>5. UNCHANGED <<status, holds>>
      BY <1>7 DEF RenewCommit
    <2>6. NoHolds' /\ LentItems'
      BY <2>2, <2>5 DEF CounterInv, NoHolds, LentItems
    <2>7. OneLoanPerItem' /\ OpenLoanCheckedOut'
      BY <2>2, <2>5 DEF CounterInv, LoansInOrder, OneLoanPerItem, OpenLoanCheckedOut, OpenLoan
    <2>8. QED
      BY <2>4, <2>6, <2>7 DEF LoansInOrder
  <1>8. CASE \E h \in HoldIds : ExpireLock(s, h) \/ NotifyClaim(s, h)
    <2>1. PICK h \in HoldIds : ExpireLock(s, h) \/ NotifyClaim(s, h)
      BY <1>8
    <2>2. CASE ExpireLock(s, h)
      <3>1. ~StillReady(h)
        BY DEF StillReady, CounterInv, NoHolds
      <3>2. CounterFits([q EXCEPT !.todo = @ \ {h}], loans)
        BY <1>q DEF CounterFits, Request
      <3>3. QED
        BY <2>2, <3>1, <3>2, CounterQuiet DEF ExpireLock
    <2>3. CASE NotifyClaim(s, h)
      <3>1. q.op \in {"idle", "renew", "renewOnline", "expire"}
        BY <1>q, <2>3 DEF NotifyClaim, CounterFits
      <3>2. /\ CounterFits([q EXCEPT !.todo = @ \ {h}, !.hold = h, !.pc = "send"], loans)
            /\ CounterFits([q EXCEPT !.todo = @ \ {h}], loans)
        BY <1>q, <3>1 DEF CounterFits, Request
      <3>3. UNCHANGED <<status, loans>> /\ NoHolds'
        BY <2>3 DEF NotifyClaim, CounterInv, NoHolds, TypeOK, Hold
      <3>4. \E r : Enter(s, r) /\ CounterFits(r, loans)
        BY <2>3, <3>2 DEF NotifyClaim
      <3>5. CopiesKept
        BY <3>3 DEF CopiesKept
      <3>6. \A t \in Procs : CounterFits(sess'[t], loans')
        BY <3>3, <3>4, <3>5, CounterMoves
      <3>7. QED
        BY <3>3, <3>6 DEF CounterInv, LentItems, LoansInOrder,
           OneLoanPerItem, OpenLoanCheckedOut, OpenLoan
    <2>4. QED
      BY <2>1, <2>2, <2>3
  <1>9. CASE \E outcome \in {"sent", "refused", "sentThenError"} : NotifySend(s, outcome)
    <2>1. PICK outcome \in {"sent", "refused", "sentThenError"} : NotifySend(s, outcome)
      BY <1>9
    <2>2. q.op \in {"idle", "renew", "renewOnline", "expire"}
      BY <1>q, <2>1 DEF NotifySend, CounterFits
    <2>3. CounterFits([q EXCEPT !.pc = "claim", !.hold = 0], loans)
      BY <1>q, <2>2 DEF CounterFits, Request
    <2>4. UNCHANGED <<status, loans>> /\ CopiesKept
      BY <2>1 DEF NotifySend, CopiesKept
    <2>5. NoHolds'
      BY <2>1 DEF NotifySend, Released, CounterInv, NoHolds, TypeOK, Hold
    <2>6. \A t \in Procs : CounterFits(sess'[t], loans')
      BY <2>1, <2>3, <2>4, CounterMoves DEF NotifySend
    <2>7. QED
      BY <2>4, <2>5, <2>6 DEF CounterInv, LentItems, LoansInOrder,
         OneLoanPerItem, OpenLoanCheckedOut, OpenLoan
  <1>10. CASE ExpireEnd(s) \/ NotifyFind(s) \/ NotifyEnd(s)
    <2>1. CASE ExpireEnd(s)
      <3>1. CounterFits([q EXCEPT !.pc = "notify"], loans)
        BY <2>1, <1>q DEF CounterFits, Request, ExpireEnd, At
      <3>2. QED
        BY <2>1, <3>1, CounterQuiet DEF ExpireEnd, Goto
    <2>2. CASE NotifyFind(s)
      <3>1. q.op \in {"idle", "renew", "renewOnline", "expire"}
        BY <1>q, <2>2 DEF NotifyFind, CounterFits
      <3>2. CounterFits([Arrive(q.op, "claim") EXCEPT !.now = q.now, !.todo = ToNotify], loans)
        BY <3>1 DEF CounterFits, Arrive, Idle
      <3>3. QED
        BY <2>2, <3>2, CounterQuiet DEF NotifyFind
    <2>3. CASE NotifyEnd(s)
      BY <2>3, <1>i, CounterQuiet DEF NotifyEnd, Done
    <2>4. QED
      BY <1>10, <2>1, <2>2, <2>3
  <1>11. ~(\/ HoldDuplicate(s) \/ HoldReadyCommit(s) \/ HoldCount(s) \/ HoldPendingCommit(s)
           \/ CancelPending(s) \/ CancelLock(s) \/ CancelNext(s) \/ CancelCommit(s)
           \/ ExpireHeld(s) \/ ExpireCommit(s))
    BY <1>q DEF CounterFits, At, HoldDuplicate, HoldReadyCommit, HoldCount,
       HoldPendingCommit, CancelPending, CancelLock, CancelNext, CancelCommit, ExpireHeld,
       ExpireCommit
  <1>12. QED
    BY <1>1, <1>2, <1>3, <1>4, <1>5, <1>6, <1>7, <1>8, <1>9, <1>10, <1>11 DEF Step

LEMMA CounterArrival ==
    ASSUME CirculationAssumption, OnlyCounter, CounterInv, NEW s \in Procs,
           Arrivals(s) \/ ExpireFind(s) \/ Abort(s)
    PROVE  /\ NoHolds' /\ LentItems' /\ LoansInOrder'
           /\ \A t \in Procs : CounterFits(sess'[t], loans')
  <1>u. UNCHANGED db
    BY DEF Arrivals, CheckoutRead, ReturnRead, PerteRead, RenewRead, HoldRead, CancelRead,
           ExpireFind, Abort
  <1>1. ASSUME NEW i \in Items, NEW p \in Patrons, CheckoutRead(s, i, p)
        PROVE  \E q : Enter(s, q) /\ CounterFits(q, loans)
    <2>1. CounterFits([Arrive("checkout", "count") EXCEPT
                         !.item = i, !.patron = p, !.seen = status[i]], loans)
      BY DEF CounterFits, Arrive, Idle
    <2>2. QED
      BY <1>1, <2>1 DEF CheckoutRead
  <1>2. ASSUME NEW l \in LoanIds, ReturnRead(s, l)
        PROVE  \E q : Enter(s, q) /\ CounterFits(q, loans)
    <2>1. CounterFits([Arrive("return", "next") EXCEPT !.loan = l, !.item = loans[l].item,
                         !.num = Fine(loans[l].due, clock)], loans)
      BY <1>2 DEF CounterFits, Arrive, Idle, ReturnRead, OpenLoan
    <2>2. QED
      BY <1>2, <2>1 DEF ReturnRead
  <1>3. ASSUME NEW l \in LoanIds, PerteRead(s, l)
        PROVE  \E q : Enter(s, q) /\ CounterFits(q, loans)
    <2>1. CounterFits([Arrive("perte", "commit") EXCEPT !.loan = l, !.item = loans[l].item,
                         !.num = Fine(loans[l].due, clock)], loans)
      BY <1>3 DEF CounterFits, Arrive, Idle, PerteRead, OpenLoan
    <2>2. QED
      BY <1>3, <2>1 DEF PerteRead
  <1>4. ASSUME NEW l \in LoanIds, NEW op \in {"renew", "renewOnline"}, RenewRead(s, l, op)
        PROVE  \E q : Enter(s, q) /\ CounterFits(q, loans)
    <2>1. CounterFits([Arrive(op, "holds") EXCEPT
                         !.loan = l, !.item = loans[l].item, !.patron = loans[l].patron,
                         !.num = loans[l].renewals], loans)
      BY DEF CounterFits, Arrive, Idle
    <2>2. QED
      BY <1>4, <2>1 DEF RenewRead
  <1>5. ASSUME NEW r \in Records, NEW p \in Patrons, NEW op \in {"hold", "holdOnline"}
        PROVE  ~HoldRead(s, r, p, op)
    BY DEF HoldRead, Begin, OnlyCounter
  <1>6. ASSUME NEW h \in HoldIds, NEW op
        PROVE  ~CancelRead(s, h, op)
    BY DEF CancelRead, ActiveHold, ACTIVE_HOLD_STATUSES, CounterInv, NoHolds
  <1>7. ASSUME ExpireFind(s)
        PROVE  \E q : Enter(s, q) /\ CounterFits(q, loans)
    <2>1. CounterFits([Arrive("expire", "each") EXCEPT !.todo = StaleHolds], loans)
      BY DEF CounterFits, Arrive, Idle
    <2>2. QED
      BY <1>7, <2>1 DEF ExpireFind
  <1>8. ASSUME Abort(s)
        PROVE  \E q : Enter(s, q) /\ CounterFits(q, loans)
    BY <1>8, IdleFits DEF Abort, Done
  <1>9. \E q : Enter(s, q) /\ CounterFits(q, loans)
    <2>1. ASSUME Arrivals(s)
          PROVE  \E q : Enter(s, q) /\ CounterFits(q, loans)
      <3>1. CASE \E i \in Items, p \in Patrons : CheckoutRead(s, i, p)
        BY <3>1, <1>1
      <3>2. CASE \E l \in LoanIds :
                    \/ ReturnRead(s, l) \/ PerteRead(s, l)
                    \/ \E op \in {"renew", "renewOnline"} : RenewRead(s, l, op)
        BY <3>2, <1>2, <1>3, <1>4
      <3>3. QED
        BY <2>1, <3>1, <3>2, <1>5, <1>6 DEF Arrivals
    <2>2. QED
      BY <2>1, <1>7, <1>8
  <1>10. QED
    BY <1>u, <1>9, CounterQuiet

LEMMA CounterNext ==
    ASSUME CirculationAssumption, OnlyCounter, CounterInv, [Next]_vars
    PROVE  CounterInv'
  <1>1. TypeOK'
    BY NextType DEF CounterInv
  <1>2. /\ NoHolds' /\ LentItems' /\ LoansInOrder'
        /\ \A t \in Procs : CounterFits(sess'[t], loans')
    <2>1. CASE Tick \/ UNCHANGED vars
      BY <2>1 DEF Tick, vars, db, CounterInv, NoHolds, LentItems, LoansInOrder,
         OneLoanPerItem, OpenLoanCheckedOut, OpenLoan
    <2>2. \A i \in Items, st \in ItemStatus : ~UpdateItem(i, st)
      BY DEF UpdateItem, OnlyCounter
    <2>3. QED
      BY <2>1, <2>2, CounterStep, CounterArrival DEF Next, Wait
  <1>3. QED
    BY <1>1, <1>2 DEF CounterInv

LEMMA CounterInit == ASSUME CirculationAssumption, Init PROVE CounterInv
  <1>1. TypeOK
    BY InitType
  <1>2. \A s \in Procs : CounterFits(sess[s], loans)
    BY IdleFits DEF Init
  <1>3. QED
    BY <1>1, <1>2 DEF Init, CounterInv, NoHolds, LentItems, LoansInOrder, OneLoanPerItem,
       OpenLoanCheckedOut, OpenLoan, NoHold, NoLoan

\* While nobody places a hold, any number of checkouts, returns, losses, renewals and
\* passes that overlap and die leave one open loan per copy, and the copy checked out.
THEOREM CounterLendsOnce == ASSUME OnlyCounter PROVE Spec => []LoansInOrder
  <1>1. Init => CounterInv
    BY CounterInit, CirculationAssumption
  <1>2. CounterInv /\ [Next]_vars => CounterInv'
    BY CounterNext, CirculationAssumption
  <1>3. CounterInv => LoansInOrder
    BY DEF CounterInv
  <1>4. QED
    BY <1>1, <1>2, <1>3, PTL DEF Spec

-----------------------------------------------------------------------------
(* The whole desk, one request at a time *)

\* Requests do not overlap, and nobody edits a copy.
Serial == MaxInFlight = 1 /\ "edit" \notin Ops

LentRows == \A l \in LoanIds : loans[l].state # "unused" =>
                loans[l].item \in Items /\ loans[l].patron \in Patrons
HoldRows == \A h \in HoldIds : holds[h].status # "unused" =>
                holds[h].record \in Records /\ holds[h].patron \in Patrons

\* A copy checked out is on somebody's card.
CheckedOutIsLent ==
    \A i \in Items : status[i] = "CHECKED_OUT" =>
        \E l \in LoanIds : OpenLoan(l) /\ loans[l].item = i

\* Cardinality says nothing of an infinite set.
FiniteCounts == /\ \A r \in Records : IsFiniteSet(HeldItems(r))
          /\ \A p \in Patrons : IsFiniteSet(OpenLoansOf(p))

LoansPart == LentRows /\ LoansInOrder /\ CheckedOutIsLent /\ LoanCap /\ RenewalCap
HoldsPart == /\ HoldRows /\ NobodyWaitsBesideTheShelf /\ EveryReadyHoldHasItsCopy
             /\ OneHoldPerReader

-----------------------------------------------------------------------------
(* How the holds of a record and its copies set aside move together *)

\* Row h takes status st and keeps its reader and its record.
Becomes(h, st) == /\ holds'[h].status = st
                  /\ holds'[h].record = holds[h].record
                  /\ holds'[h].patron = holds[h].patron
Stays(h) == Becomes(h, holds[h].status)

\* Copy i takes status st, the others keep theirs.
Shelved(i, st) == \A j \in Items : status'[j] = IF j = i THEN st ELSE status[j]

HoldsFinite == \A r, st : IsFiniteSet(HoldsIn(r, st))

LEMMA HoldsInFinite == ASSUME CirculationAssumption PROVE HoldsFinite
  <1>1. \A r, st : HoldsIn(r, st) \subseteq HoldIds
    BY DEF HoldsIn
  <1>2. QED
    BY <1>1, FS_Subset DEF CirculationAssumption, HoldsFinite

\* Two sets as large as each other stay so when each gains or each loses an element.
LEMMA BothGain ==
    ASSUME NEW S, NEW T, IsFiniteSet(S), IsFiniteSet(T), Cardinality(S) = Cardinality(T),
           NEW x, x \notin S, NEW y, y \notin T
    PROVE  IsFiniteSet(S \cup {x}) /\ Cardinality(S \cup {x}) = Cardinality(T \cup {y})
  BY FS_AddElement

LEMMA BothLose ==
    ASSUME NEW S, NEW T, IsFiniteSet(S), IsFiniteSet(T), Cardinality(S) = Cardinality(T),
           NEW x \in S, NEW y \in T
    PROVE  IsFiniteSet(S \ {x}) /\ Cardinality(S \ {x}) = Cardinality(T \ {y})
  BY FS_RemoveElement

\* One element for another.
LEMMA Exchange ==
    ASSUME NEW T, IsFiniteSet(T), NEW x \in T, NEW y, y \notin T
    PROVE  Cardinality((T \ {x}) \cup {y}) = Cardinality(T)
  <1>1. /\ IsFiniteSet(T \ {x}) /\ Cardinality(T \ {x}) = Cardinality(T) - 1
        /\ Cardinality(T) \in Nat
    BY FS_RemoveElement, FS_CardinalityType
  <1>2. Cardinality((T \ {x}) \cup {y}) = Cardinality(T) - 1 + 1
    BY <1>1, FS_AddElement
  <1>3. QED
    BY <1>1, <1>2

LEMMA HeldMoves ==
    ASSUME NEW i \in Items, NEW st, Shelved(i, st), NEW r
    PROVE  HeldItems(r)' = IF RecordOf[i] = r /\ st = "ON_HOLD"
                           THEN HeldItems(r) \cup {i} ELSE HeldItems(r) \ {i}
  BY DEF Shelved, HeldItems, ItemsOf

LEMMA ReadyMoves ==
    ASSUME NEW h \in HoldIds, NEW st, Becomes(h, st), \A g \in HoldIds \ {h} : Stays(g), NEW r
    PROVE  HoldsIn(r, "AVAILABLE")' =
              IF holds[h].record = r /\ st = "AVAILABLE"
              THEN HoldsIn(r, "AVAILABLE") \cup {h} ELSE HoldsIn(r, "AVAILABLE") \ {h}
  BY DEF Becomes, Stays, HoldsIn

LEMMA NoHoldMoves ==
    ASSUME \A g \in HoldIds : Stays(g)
    PROVE  /\ \A r, st : HoldsIn(r, st)' = HoldsIn(r, st)
           /\ HoldRows => HoldRows'
           /\ OneHoldPerReader => OneHoldPerReader'
  <1>1. \A r, st : HoldsIn(r, st)' = HoldsIn(r, st)
    BY DEF Becomes, Stays, HoldsIn
  <1>2. QED
    BY <1>1 DEF Becomes, Stays, HoldRows, OneHoldPerReader, ActiveHold

\* Rows that say whether a reader was told have no part in this.
LEMMA HoldsSame ==
    ASSUME HoldsPart, UNCHANGED status, \A g \in HoldIds : Stays(g)
    PROVE  HoldsPart'
  <1>1. \A r : HeldItems(r)' = HeldItems(r)
    BY DEF HeldItems, ItemsOf
  <1>2. EveryReadyHoldHasItsCopy'
    BY <1>1, NoHoldMoves DEF HoldsPart, EveryReadyHoldHasItsCopy
  <1>3. NobodyWaitsBesideTheShelf'
    BY DEF Becomes, Stays, HoldsPart, NobodyWaitsBesideTheShelf, ItemsOf
  <1>4. QED
    BY <1>2, <1>3, NoHoldMoves DEF HoldsPart

\* A copy that was not set aside goes out or is lost.
LEMMA HoldsOut ==
    ASSUME HoldsPart, FiniteCounts, NEW i \in Items, NEW st, st \notin {"AVAILABLE", "ON_HOLD"},
           Shelved(i, st), status[i] # "ON_HOLD", \A g \in HoldIds : Stays(g)
    PROVE  HoldsPart' /\ \A r \in Records : IsFiniteSet(HeldItems(r)')
  <1>1. \A r : HeldItems(r)' = HeldItems(r)
    BY HeldMoves DEF HeldItems
  <1>2. EveryReadyHoldHasItsCopy'
    BY <1>1, NoHoldMoves DEF HoldsPart, EveryReadyHoldHasItsCopy
  <1>3. NobodyWaitsBesideTheShelf'
    BY DEF Becomes, Stays, Shelved, HoldsPart, NobodyWaitsBesideTheShelf, ItemsOf
  <1>4. QED
    BY <1>1, <1>2, <1>3, NoHoldMoves DEF HoldsPart, FiniteCounts

\* A copy that was not set aside comes back to the shelf; nobody waits for it.
LEMMA HoldsBack ==
    ASSUME HoldsPart, FiniteCounts, NEW i \in Items, Shelved(i, "AVAILABLE"),
           status[i] # "ON_HOLD", HoldsIn(RecordOf[i], "PENDING") = {},
           \A g \in HoldIds : Stays(g)
    PROVE  HoldsPart' /\ \A r \in Records : IsFiniteSet(HeldItems(r)')
  <1>1. \A r : HeldItems(r)' = HeldItems(r)
    BY HeldMoves DEF HeldItems
  <1>2. EveryReadyHoldHasItsCopy'
    BY <1>1, NoHoldMoves DEF HoldsPart, EveryReadyHoldHasItsCopy
  <1>3. NobodyWaitsBesideTheShelf'
    BY DEF Becomes, Stays, Shelved, HoldsPart, NobodyWaitsBesideTheShelf, ItemsOf, HoldsIn
  <1>4. QED
    BY <1>1, <1>2, <1>3, NoHoldMoves DEF HoldsPart, FiniteCounts

\* Holds that only end, or are made ready, keep to one per reader and record.
LEMMA HoldersKept ==
    ASSUME HoldsPart,
           \A g \in HoldIds : /\ ActiveHold(g)' => ActiveHold(g)
                              /\ holds'[g].status # "unused" => holds[g].status # "unused"
                              /\ holds'[g].record = holds[g].record
                              /\ holds'[g].patron = holds[g].patron
    PROVE  HoldRows' /\ OneHoldPerReader'
  <1>1. HoldRows'
    BY DEF HoldsPart, HoldRows
  <1>2. ASSUME NEW g \in HoldIds, NEW k \in HoldIds, ActiveHold(g)', ActiveHold(k)',
               holds'[g].record = holds'[k].record, holds'[g].patron = holds'[k].patron
        PROVE  g = k
    BY <1>2 DEF HoldsPart, OneHoldPerReader
  <1>3. OneHoldPerReader'
    BY <1>2 DEF OneHoldPerReader
  <1>4. QED
    BY <1>1, <1>3

\* A reader collects the copy set aside: hold and copy leave together.
LEMMA HoldsCollected ==
    ASSUME CirculationAssumption, HoldsPart, FiniteCounts, NEW i \in Items, NEW h \in HoldIds,
           Shelved(i, "CHECKED_OUT"), status[i] = "ON_HOLD",
           h \in HoldsIn(RecordOf[i], "AVAILABLE"), Becomes(h, "FULFILLED"),
           \A g \in HoldIds \ {h} : Stays(g)
    PROVE  HoldsPart' /\ \A r \in Records : IsFiniteSet(HeldItems(r)')
  <1>1. ASSUME NEW r \in Records
        PROVE  /\ IsFiniteSet(HeldItems(r)')
               /\ Cardinality(HeldItems(r)') = Cardinality(HoldsIn(r, "AVAILABLE")')
    <2>1. /\ HeldItems(r)' = HeldItems(r) \ {i}
          /\ HoldsIn(r, "AVAILABLE")' = HoldsIn(r, "AVAILABLE") \ {h}
      BY HeldMoves, ReadyMoves
    <2>2. i \in HeldItems(r) <=> RecordOf[i] = r
      BY DEF HeldItems, ItemsOf
    <2>3. h \in HoldsIn(r, "AVAILABLE") <=> RecordOf[i] = r
      BY DEF HoldsIn
    <2>4. /\ IsFiniteSet(HeldItems(r)) /\ IsFiniteSet(HoldsIn(r, "AVAILABLE"))
          /\ Cardinality(HeldItems(r)) = Cardinality(HoldsIn(r, "AVAILABLE"))
      BY HoldsInFinite DEF FiniteCounts, HoldsPart, EveryReadyHoldHasItsCopy, HoldsFinite
    <2>5. CASE RecordOf[i] = r
      <3>1. i \in HeldItems(r) /\ h \in HoldsIn(r, "AVAILABLE")
        BY <2>2, <2>3, <2>5
      <3>2. /\ IsFiniteSet(HeldItems(r) \ {i})
            /\ Cardinality(HeldItems(r) \ {i}) = Cardinality(HoldsIn(r, "AVAILABLE") \ {h})
        BY <2>4, <3>1, BothLose
      <3>3. QED
        BY <2>1, <3>2
    <2>6. CASE RecordOf[i] # r
      <3>1. HeldItems(r)' = HeldItems(r) /\ HoldsIn(r, "AVAILABLE")' = HoldsIn(r, "AVAILABLE")
        BY <2>1, <2>2, <2>3, <2>6
      <3>2. QED
        BY <2>4, <3>1
    <2>7. QED
      BY <2>5, <2>6
  <1>2. NobodyWaitsBesideTheShelf'
    BY DEF Becomes, Stays, Shelved, HoldsPart, NobodyWaitsBesideTheShelf, ItemsOf, HoldsIn
  <1>3. HoldRows' /\ OneHoldPerReader'
    <2>1. \A g \in HoldIds : holds'[g].record = holds[g].record /\ holds'[g].patron = holds[g].patron
      BY DEF Becomes, Stays
    <2>2. holds[h].status = "AVAILABLE" /\ holds'[h].status = "FULFILLED"
      BY DEF HoldsIn, Becomes
    <2>3. \A g \in HoldIds : g # h => holds'[g].status = holds[g].status
      BY DEF Becomes, Stays
    <2>4. \A g \in HoldIds : /\ ActiveHold(g)' => ActiveHold(g)
                             /\ holds'[g].status # "unused" => holds[g].status # "unused"
      BY <2>2, <2>3 DEF ActiveHold, ACTIVE_HOLD_STATUSES
    <2>5. QED
      BY <2>1, <2>4, HoldersKept
  <1>4. QED
    BY <1>1, <1>2, <1>3 DEF HoldsPart, EveryReadyHoldHasItsCopy

\* A copy that was not set aside is set aside for hold h, which is made ready: it was
\* waiting, or is new and its reader had no other.
LEMMA HoldsServed ==
    ASSUME CirculationAssumption, HoldsPart, FiniteCounts, NEW i \in Items, NEW h \in HoldIds,
           Shelved(i, "ON_HOLD"), status[i] # "ON_HOLD", holds[h].status # "AVAILABLE",
           holds'[h].status = "AVAILABLE", holds'[h].record = RecordOf[i],
           \A g \in HoldIds \ {h} : Stays(g)
    PROVE  /\ NobodyWaitsBesideTheShelf' /\ EveryReadyHoldHasItsCopy'
           /\ \A r \in Records : IsFiniteSet(HeldItems(r)')
  <1>1. ASSUME NEW r \in Records
        PROVE  /\ IsFiniteSet(HeldItems(r)')
               /\ Cardinality(HeldItems(r)') = Cardinality(HoldsIn(r, "AVAILABLE")')
    <2>1. HeldItems(r)' = IF RecordOf[i] = r THEN HeldItems(r) \cup {i} ELSE HeldItems(r) \ {i}
      BY HeldMoves
    <2>2. HoldsIn(r, "AVAILABLE")' = IF RecordOf[i] = r THEN HoldsIn(r, "AVAILABLE") \cup {h}
                                     ELSE HoldsIn(r, "AVAILABLE")
      BY DEF Stays, Becomes, HoldsIn
    <2>3. i \notin HeldItems(r) /\ h \notin HoldsIn(r, "AVAILABLE")
      BY DEF HeldItems, ItemsOf, HoldsIn
    <2>4. /\ IsFiniteSet(HeldItems(r)) /\ IsFiniteSet(HoldsIn(r, "AVAILABLE"))
          /\ Cardinality(HeldItems(r)) = Cardinality(HoldsIn(r, "AVAILABLE"))
      BY HoldsInFinite DEF FiniteCounts, HoldsPart, EveryReadyHoldHasItsCopy, HoldsFinite
    <2>5. CASE RecordOf[i] = r
      <3>1. /\ HeldItems(r)' = HeldItems(r) \cup {i}
            /\ HoldsIn(r, "AVAILABLE")' = HoldsIn(r, "AVAILABLE") \cup {h}
        BY <2>1, <2>2, <2>5
      <3>2. /\ IsFiniteSet(HeldItems(r) \cup {i})
            /\ Cardinality(HeldItems(r) \cup {i}) = Cardinality(HoldsIn(r, "AVAILABLE") \cup {h})
        BY <2>3, <2>4, BothGain
      <3>3. QED
        BY <3>1, <3>2
    <2>6. CASE RecordOf[i] # r
      <3>1. HeldItems(r)' = HeldItems(r) /\ HoldsIn(r, "AVAILABLE")' = HoldsIn(r, "AVAILABLE")
        BY <2>1, <2>2, <2>3, <2>6
      <3>2. QED
        BY <2>4, <3>1
    <2>7. QED
      BY <2>5, <2>6
  <1>2. NobodyWaitsBesideTheShelf'
    BY DEF Becomes, Stays, Shelved, HoldsPart, NobodyWaitsBesideTheShelf, ItemsOf
  <1>3. QED
    BY <1>1, <1>2 DEF EveryReadyHoldHasItsCopy

\* A copy comes back and goes to a reader who waits.
LEMMA HoldsPromoted ==
    ASSUME CirculationAssumption, HoldsPart, FiniteCounts, NEW i \in Items, NEW h \in HoldIds,
           Shelved(i, "ON_HOLD"), status[i] # "ON_HOLD",
           h \in HoldsIn(RecordOf[i], "PENDING"), Becomes(h, "AVAILABLE"),
           \A g \in HoldIds \ {h} : Stays(g)
    PROVE  HoldsPart' /\ \A r \in Records : IsFiniteSet(HeldItems(r)')
  <1>1. /\ holds[h].status # "AVAILABLE" /\ holds'[h].status = "AVAILABLE"
        /\ holds'[h].record = RecordOf[i]
    BY DEF HoldsIn, Becomes
  <1>a. ASSUME NEW g \in HoldIds
        PROVE  /\ ActiveHold(g)' => ActiveHold(g)
               /\ holds'[g].status # "unused" => holds[g].status # "unused"
               /\ holds'[g].record = holds[g].record /\ holds'[g].patron = holds[g].patron
    BY DEF Becomes, Stays, ActiveHold, ACTIVE_HOLD_STATUSES, HoldsIn
  <1>2. HoldRows' /\ OneHoldPerReader'
    BY <1>a, HoldersKept
  <1>3. QED
    BY <1>1, <1>2, HoldsServed DEF HoldsPart

\* A reader with no active hold on the record gets one.
LEMMA HoldsNew ==
    ASSUME HoldsPart, NEW h \in HoldIds, NEW r \in Records, NEW p \in Patrons,
           holds[h].status = "unused", ~Duplicate(r, p),
           holds'[h].record = r, holds'[h].patron = p, holds'[h].status \in ACTIVE_HOLD_STATUSES,
           \A g \in HoldIds \ {h} : Stays(g)
    PROVE  HoldRows' /\ OneHoldPerReader'
  <1>1. HoldRows'
    BY DEF Becomes, Stays, HoldsPart, HoldRows
  <1>2. ASSUME NEW g \in HoldIds, g # h, ActiveHold(g)', holds'[g].record = r, holds'[g].patron = p
        PROVE  FALSE
    BY <1>2 DEF Becomes, Stays, Duplicate, ActiveHolds, ActiveHold
  <1>3. ASSUME NEW g \in HoldIds, NEW k \in HoldIds, g # h, k # h, ActiveHold(g)', ActiveHold(k)',
               holds'[g].record = holds'[k].record, holds'[g].patron = holds'[k].patron
        PROVE  g = k
    BY <1>3 DEF Becomes, Stays, HoldsPart, OneHoldPerReader, ActiveHold
  <1>4. OneHoldPerReader'
    BY <1>2, <1>3 DEF OneHoldPerReader
  <1>5. QED
    BY <1>1, <1>4

\* A reader begins to wait: no copy is on the shelf.
LEMMA HoldsWaits ==
    ASSUME HoldsPart, UNCHANGED status, NEW h \in HoldIds, NEW r \in Records, NEW p \in Patrons,
           holds[h].status = "unused", ~Duplicate(r, p), ShelfItems(r) = {},
           holds'[h].record = r, holds'[h].patron = p, holds'[h].status = "PENDING",
           \A g \in HoldIds \ {h} : Stays(g)
    PROVE  HoldsPart'
  <1>1. HoldRows' /\ OneHoldPerReader'
    BY HoldsNew DEF ACTIVE_HOLD_STATUSES
  <1>2. NobodyWaitsBesideTheShelf'
    BY DEF Becomes, Stays, HoldsPart, NobodyWaitsBesideTheShelf, ShelfItems, ItemsOf
  <1>3. \A q \in Records : /\ HeldItems(q)' = HeldItems(q)
                           /\ HoldsIn(q, "AVAILABLE")' = HoldsIn(q, "AVAILABLE")
    BY DEF HeldItems, ItemsOf, HoldsIn, Becomes, Stays
  <1>4. QED
    BY <1>1, <1>2, <1>3 DEF HoldsPart, EveryReadyHoldHasItsCopy

\* A reader who waits gives up.
LEMMA HoldsGivenUp ==
    ASSUME HoldsPart, UNCHANGED status, NEW h \in HoldIds, holds[h].status = "PENDING",
           Becomes(h, "CANCELLED"), \A g \in HoldIds \ {h} : Stays(g)
    PROVE  HoldsPart'
  <1>a. ASSUME NEW g \in HoldIds
        PROVE  /\ ActiveHold(g)' => ActiveHold(g)
               /\ holds'[g].status # "unused" => holds[g].status # "unused"
               /\ holds'[g].record = holds[g].record /\ holds'[g].patron = holds[g].patron
    BY DEF Becomes, Stays, ActiveHold, ACTIVE_HOLD_STATUSES
  <1>1. HoldRows' /\ OneHoldPerReader'
    BY <1>a, HoldersKept
  <1>2. NobodyWaitsBesideTheShelf'
    BY DEF Becomes, Stays, HoldsPart, NobodyWaitsBesideTheShelf, ItemsOf
  <1>3. \A q \in Records : /\ HeldItems(q)' = HeldItems(q)
                           /\ HoldsIn(q, "AVAILABLE")' = HoldsIn(q, "AVAILABLE")
    BY DEF HeldItems, ItemsOf, HoldsIn, Becomes, Stays
  <1>4. QED
    BY <1>1, <1>2, <1>3 DEF HoldsPart, EveryReadyHoldHasItsCopy

\* A ready hold ends and its copy goes to a reader who waits.
LEMMA HoldsPassedOn ==
    ASSUME CirculationAssumption, HoldsPart, UNCHANGED status, NEW r \in Records,
           NEW h \in HoldsIn(r, "AVAILABLE"), NEW n \in HoldsIn(r, "PENDING"),
           NEW how \in {"CANCELLED", "EXPIRED"}, Becomes(h, how), Becomes(n, "AVAILABLE"),
           \A g \in HoldIds \ {h, n} : Stays(g)
    PROVE  HoldsPart'
  <1>1. HoldRows' /\ OneHoldPerReader'
    BY DEF Becomes, Stays, HoldsPart, HoldRows, OneHoldPerReader, ActiveHold,
           ACTIVE_HOLD_STATUSES, HoldsIn
  <1>w. ASSUME NEW g \in HoldIds, holds'[g].status = "PENDING"
        PROVE  holds[g].status = "PENDING" /\ holds'[g].record = holds[g].record
    <2>1. g # h /\ g # n
      BY <1>w DEF Becomes
    <2>2. QED
      BY <1>w, <2>1 DEF Becomes, Stays
  <1>2. NobodyWaitsBesideTheShelf'
    BY <1>w DEF HoldsPart, NobodyWaitsBesideTheShelf, ItemsOf
  <1>3. ASSUME NEW q \in Records
        PROVE  Cardinality(HeldItems(q)') = Cardinality(HoldsIn(q, "AVAILABLE")')
    <2>1. HeldItems(q)' = HeldItems(q)
      BY DEF HeldItems, ItemsOf
    <2>2. Cardinality(HeldItems(q)) = Cardinality(HoldsIn(q, "AVAILABLE"))
      BY DEF HoldsPart, EveryReadyHoldHasItsCopy
    <2>3. CASE q = r
      <3>1. HoldsIn(r, "AVAILABLE")' = (HoldsIn(r, "AVAILABLE") \ {h}) \cup {n}
        BY DEF HoldsIn, Becomes, Stays
      <3>2. n \notin HoldsIn(r, "AVAILABLE")
        BY DEF HoldsIn
      <3>3. IsFiniteSet(HoldsIn(r, "AVAILABLE"))
        BY HoldsInFinite DEF HoldsFinite
      <3>4. Cardinality(HoldsIn(r, "AVAILABLE")') = Cardinality(HoldsIn(r, "AVAILABLE"))
        BY <3>1, <3>2, <3>3, Exchange
      <3>5. QED
        BY <2>1, <2>2, <2>3, <3>4
    <2>4. CASE q # r
      <3>1. HoldsIn(q, "AVAILABLE")' = HoldsIn(q, "AVAILABLE")
        BY ZenonT(60), <2>4 DEF HoldsIn, Becomes, Stays
      <3>2. QED
        BY <2>1, <2>2, <3>1
    <2>5. QED
      BY <2>3, <2>4
  <1>4. QED
    BY <1>1, <1>2, <1>3 DEF HoldsPart, EveryReadyHoldHasItsCopy

\* A ready hold ends and, nobody waiting, its copy goes back to the shelf.
LEMMA HoldsReleased ==
    ASSUME CirculationAssumption, HoldsPart, FiniteCounts, NEW i \in Items, NEW h \in HoldIds,
           Shelved(i, "AVAILABLE"), status[i] = "ON_HOLD",
           h \in HoldsIn(RecordOf[i], "AVAILABLE"), HoldsIn(RecordOf[i], "PENDING") = {},
           NEW how \in {"CANCELLED", "EXPIRED"}, Becomes(h, how),
           \A g \in HoldIds \ {h} : Stays(g)
    PROVE  HoldsPart' /\ \A r \in Records : IsFiniteSet(HeldItems(r)')
  <1>1. ASSUME NEW r \in Records
        PROVE  /\ IsFiniteSet(HeldItems(r)')
               /\ Cardinality(HeldItems(r)') = Cardinality(HoldsIn(r, "AVAILABLE")')
    <2>1. /\ HeldItems(r)' = HeldItems(r) \ {i}
          /\ HoldsIn(r, "AVAILABLE")' = HoldsIn(r, "AVAILABLE") \ {h}
      BY HeldMoves, ReadyMoves
    <2>2. i \in HeldItems(r) <=> RecordOf[i] = r
      BY DEF HeldItems, ItemsOf
    <2>3. h \in HoldsIn(r, "AVAILABLE") <=> RecordOf[i] = r
      BY DEF HoldsIn
    <2>4. /\ IsFiniteSet(HeldItems(r)) /\ IsFiniteSet(HoldsIn(r, "AVAILABLE"))
          /\ Cardinality(HeldItems(r)) = Cardinality(HoldsIn(r, "AVAILABLE"))
      BY HoldsInFinite DEF FiniteCounts, HoldsPart, EveryReadyHoldHasItsCopy, HoldsFinite
    <2>5. CASE RecordOf[i] = r
      <3>1. i \in HeldItems(r) /\ h \in HoldsIn(r, "AVAILABLE")
        BY <2>2, <2>3, <2>5
      <3>2. /\ IsFiniteSet(HeldItems(r) \ {i})
            /\ Cardinality(HeldItems(r) \ {i}) = Cardinality(HoldsIn(r, "AVAILABLE") \ {h})
        BY SMTT(30), <2>4, <3>1, BothLose
      <3>3. QED
        BY <2>1, <3>2
    <2>6. CASE RecordOf[i] # r
      <3>1. HeldItems(r)' = HeldItems(r) /\ HoldsIn(r, "AVAILABLE")' = HoldsIn(r, "AVAILABLE")
        BY ZenonT(60), <2>1, <2>2, <2>3, <2>6
      <3>2. QED
        BY <2>4, <3>1
    <2>7. QED
      BY <2>5, <2>6
  <1>2. NobodyWaitsBesideTheShelf'
    BY DEF Becomes, Stays, Shelved, HoldsPart, NobodyWaitsBesideTheShelf, ItemsOf, HoldsIn
  <1>3. HoldRows' /\ OneHoldPerReader'
    BY DEF Becomes, Stays, HoldsPart, HoldRows, OneHoldPerReader, ActiveHold,
           ACTIVE_HOLD_STATUSES, HoldsIn
  <1>4. QED
    BY <1>1, <1>2, <1>3 DEF HoldsPart, EveryReadyHoldHasItsCopy

-----------------------------------------------------------------------------
(* How the loans and the copies checked out move together *)

\* Row l keeps its copy, its reader and whether it is open.
LoanStays(l) == /\ loans'[l].state = loans[l].state
                /\ loans'[l].item = loans[l].item
                /\ loans'[l].patron = loans[l].patron

LEMMA LoansSame ==
    ASSUME LoansPart, UNCHANGED loans,
           \A i \in Items : status'[i] = "CHECKED_OUT" <=> status[i] = "CHECKED_OUT"
    PROVE  LoansPart'
  <1>1. \A l \in LoanIds : OpenLoan(l)' <=> OpenLoan(l)
    BY DEF OpenLoan
  <1>2. \A p : OpenLoansOf(p)' = OpenLoansOf(p)
    BY DEF OpenLoansOf, OpenLoan
  <1>3. LentRows' /\ RenewalCap' /\ LoanCap'
    BY <1>2 DEF LoansPart, LentRows, RenewalCap, LoanCap
  <1>4. OneLoanPerItem'
    BY DEF LoansPart, LoansInOrder, OneLoanPerItem, OpenLoan
  <1>5. OpenLoanCheckedOut'
    BY DEF LoansPart, LentRows, LoansInOrder, OpenLoanCheckedOut, OpenLoan
  <1>6. CheckedOutIsLent'
    BY DEF LoansPart, CheckedOutIsLent, OpenLoan
  <1>7. QED
    BY <1>3, <1>4, <1>5, <1>6 DEF LoansPart, LoansInOrder

\* A reader under the cap takes a copy that is not on loan.
LEMMA LoansLent ==
    ASSUME CirculationAssumption, LoansPart, FiniteCounts,
           NEW i \in Items, NEW p \in Patrons, NEW l \in LoanIds,
           Shelved(i, "CHECKED_OUT"), status[i] # "CHECKED_OUT", UnderCap(p),
           loans[l].state = "unused", loans'[l].state = "open", loans'[l].item = i,
           loans'[l].patron = p, loans'[l].renewals = 0,
           \A k \in LoanIds \ {l} : loans'[k] = loans[k]
    PROVE  LoansPart' /\ \A q \in Patrons : IsFiniteSet(OpenLoansOf(q)')
  <1>1. \A k \in LoanIds : k # l => (OpenLoan(k)' <=> OpenLoan(k))
    BY DEF OpenLoan
  <1>2. OpenLoan(l)' /\ ~OpenLoan(l)
    BY DEF OpenLoan
  <1>3. LentRows'
    BY DEF LoansPart, LentRows
  <1>4. \A k \in LoanIds : OpenLoan(k) => loans[k].item \in Items /\ loans[k].item # i
    BY DEF LoansPart, LentRows, LoansInOrder, OpenLoanCheckedOut, OpenLoan
  <1>5. OneLoanPerItem'
    <2>1. ASSUME NEW j \in LoanIds, NEW k \in LoanIds, OpenLoan(j)', OpenLoan(k)',
                 loans'[j].item = loans'[k].item
          PROVE  j = k
      BY <2>1, <1>1, <1>4 DEF LoansPart, LoansInOrder, OneLoanPerItem
    <2>2. QED
      BY <2>1 DEF OneLoanPerItem
  <1>6. OpenLoanCheckedOut'
    <2>1. ASSUME NEW k \in LoanIds, OpenLoan(k)'
          PROVE  status'[loans'[k].item] = "CHECKED_OUT"
      <3>1. CASE k = l
        BY <3>1 DEF Shelved
      <3>2. CASE k # l
        <4>1. OpenLoan(k) /\ loans'[k].item = loans[k].item
          BY <2>1, <3>2, <1>1
        <4>2. loans[k].item \in Items /\ loans[k].item # i /\ status[loans[k].item] = "CHECKED_OUT"
          BY <4>1, <1>4 DEF LoansPart, LoansInOrder, OpenLoanCheckedOut
        <4>3. QED
          BY <4>1, <4>2 DEF Shelved
      <3>3. QED
        BY <3>1, <3>2
    <2>2. QED
      BY <2>1 DEF OpenLoanCheckedOut
  <1>7. CheckedOutIsLent'
    <2>1. ASSUME NEW j \in Items, status'[j] = "CHECKED_OUT"
          PROVE  \E k \in LoanIds : OpenLoan(k)' /\ loans'[k].item = j
      <3>1. CASE j = i
        BY <3>1, <1>2
      <3>2. CASE j # i
        <4>1. status[j] = "CHECKED_OUT"
          BY <2>1, <3>2 DEF Shelved
        <4>2. PICK k \in LoanIds : OpenLoan(k) /\ loans[k].item = j
          BY <4>1 DEF LoansPart, CheckedOutIsLent
        <4>3. QED
          BY <4>2, <1>1, <1>2
      <3>3. QED
        BY <3>1, <3>2
    <2>2. QED
      BY <2>1 DEF CheckedOutIsLent
  <1>8. RenewalCap'
    BY DEF LoansPart, RenewalCap, CirculationAssumption
  <1>9. ASSUME NEW q \in Patrons
        PROVE  IsFiniteSet(OpenLoansOf(q)') /\ Cardinality(OpenLoansOf(q)') <= MaxCheckouts
    <2>1. IsFiniteSet(OpenLoansOf(q)) /\ Cardinality(OpenLoansOf(q)) <= MaxCheckouts
      BY DEF FiniteCounts, LoansPart, LoanCap
    <2>2. CASE q = p
      <3>1. OpenLoansOf(p)' = OpenLoansOf(p) \cup {l}
        BY ZenonT(60) DEF OpenLoansOf, OpenLoan
      <3>2. l \notin OpenLoansOf(p)
        BY DEF OpenLoansOf, OpenLoan
      <3>3. /\ IsFiniteSet(OpenLoansOf(p) \cup {l})
            /\ Cardinality(OpenLoansOf(p) \cup {l}) = Cardinality(OpenLoansOf(p)) + 1
            /\ Cardinality(OpenLoansOf(p)) \in Nat
        BY <2>1, <2>2, <3>2, FS_AddElement, FS_CardinalityType
      <3>4. QED
        BY <2>2, <3>1, <3>3 DEF UnderCap, CirculationAssumption
    <2>3. CASE q # p
      <3>1. OpenLoansOf(q)' = OpenLoansOf(q)
        BY ZenonT(60), <2>3 DEF OpenLoansOf, OpenLoan
      <3>2. QED
        BY <2>1, <3>1
    <2>4. QED
      BY <2>2, <2>3
  <1>10. QED
    BY <1>3, <1>5, <1>6, <1>7, <1>8, <1>9 DEF LoansPart, LoansInOrder, LoanCap

\* An open loan is closed, and its copy goes somewhere else.
LEMMA LoansClosed ==
    ASSUME CirculationAssumption, LoansPart, FiniteCounts,
           NEW l \in LoanIds, OpenLoan(l), NEW st, st # "CHECKED_OUT",
           Shelved(loans[l].item, st), loans'[l].state \in {"rendu", "perte"},
           loans'[l].item = loans[l].item, loans'[l].patron = loans[l].patron,
           loans'[l].renewals = loans[l].renewals,
           \A k \in LoanIds \ {l} : loans'[k] = loans[k]
    PROVE  LoansPart' /\ \A q \in Patrons : IsFiniteSet(OpenLoansOf(q)')
  <1> DEFINE i == loans[l].item
  <1>1. \A k \in LoanIds : OpenLoan(k)' <=> OpenLoan(k) /\ k # l
    BY DEF OpenLoan
  <1>2. \A k \in LoanIds : loans'[k].item = loans[k].item /\ loans'[k].patron = loans[k].patron
                           /\ loans'[k].renewals = loans[k].renewals
    OBVIOUS
  <1>3. LentRows' /\ RenewalCap'
    BY <1>2 DEF LoansPart, LentRows, RenewalCap, OpenLoan
  <1>4. \A k \in LoanIds : OpenLoan(k) => loans[k].item \in Items /\ (k # l => loans[k].item # i)
    BY DEF LoansPart, LentRows, LoansInOrder, OneLoanPerItem, OpenLoan
  <1>5. OneLoanPerItem'
    <2>1. ASSUME NEW j \in LoanIds, NEW k \in LoanIds, OpenLoan(j)', OpenLoan(k)',
                 loans'[j].item = loans'[k].item
          PROVE  j = k
      BY <2>1, <1>1, <1>2 DEF LoansPart, LoansInOrder, OneLoanPerItem
    <2>2. QED
      BY <2>1 DEF OneLoanPerItem
  <1>6. OpenLoanCheckedOut'
    <2>1. ASSUME NEW k \in LoanIds, OpenLoan(k)'
          PROVE  status'[loans'[k].item] = "CHECKED_OUT"
      BY <2>1, <1>1, <1>2, <1>4 DEF LoansPart, LoansInOrder, OpenLoanCheckedOut, Shelved
    <2>2. QED
      BY <2>1 DEF OpenLoanCheckedOut
  <1>7. CheckedOutIsLent'
    <2>1. ASSUME NEW j \in Items, status'[j] = "CHECKED_OUT"
          PROVE  \E k \in LoanIds : OpenLoan(k)' /\ loans'[k].item = j
      <3>1. j # i /\ status[j] = "CHECKED_OUT"
        BY <2>1 DEF Shelved
      <3>2. PICK k \in LoanIds : OpenLoan(k) /\ loans[k].item = j
        BY <3>1 DEF LoansPart, CheckedOutIsLent
      <3>3. QED
        BY <3>1, <3>2, <1>1, <1>2
    <2>2. QED
      BY <2>1 DEF CheckedOutIsLent
  <1>8. ASSUME NEW q \in Patrons
        PROVE  IsFiniteSet(OpenLoansOf(q)') /\ Cardinality(OpenLoansOf(q)') <= MaxCheckouts
    <2>1. IsFiniteSet(OpenLoansOf(q)) /\ Cardinality(OpenLoansOf(q)) <= MaxCheckouts
      BY DEF FiniteCounts, LoansPart, LoanCap
    <2>2. OpenLoansOf(q)' \in SUBSET OpenLoansOf(q)
      BY <1>2 DEF OpenLoansOf, OpenLoan
    <2>3. /\ IsFiniteSet(OpenLoansOf(q)')
          /\ Cardinality(OpenLoansOf(q)') <= Cardinality(OpenLoansOf(q))
      BY <2>1, <2>2, FS_Subset
    <2>4. Cardinality(OpenLoansOf(q)) \in Nat /\ Cardinality(OpenLoansOf(q)') \in Nat
      BY <2>1, <2>3, FS_CardinalityType
    <2>5. QED
      BY <2>1, <2>3, <2>4 DEF CirculationAssumption
  <1>9. QED
    BY <1>3, <1>5, <1>6, <1>7, <1>8 DEF LoansPart, LoansInOrder, LoanCap

\* A renewal leaves the copy, the reader and the state of the loan.
LEMMA LoansRenewed ==
    ASSUME CirculationAssumption, LoansPart, FiniteCounts, UNCHANGED status, NEW l \in LoanIds,
           \A k \in LoanIds : LoanStays(k),
           loans'[l].renewals <= MaxRenewals \/ loans'[l].renewals <= OnlineMax,
           \A k \in LoanIds \ {l} : loans'[k].renewals = loans[k].renewals
    PROVE  LoansPart' /\ \A q \in Patrons : IsFiniteSet(OpenLoansOf(q)')
  <1>1. \A k \in LoanIds : OpenLoan(k)' <=> OpenLoan(k)
    BY DEF OpenLoan, LoanStays
  <1>2. \A p : OpenLoansOf(p)' = OpenLoansOf(p)
    BY DEF OpenLoansOf, OpenLoan, LoanStays
  <1>3. LentRows'
    BY DEF LoansPart, LentRows, LoanStays
  <1>4. LoanCap'
    BY <1>2 DEF LoansPart, LoanCap
  <1>5. RenewalCap'
    BY DEF LoansPart, RenewalCap
  <1>6. OneLoanPerItem'
    BY DEF LoansPart, LoansInOrder, OneLoanPerItem, OpenLoan, LoanStays
  <1>7. OpenLoanCheckedOut'
    BY DEF LoansPart, LoansInOrder, OpenLoanCheckedOut, OpenLoan, LoanStays
  <1>8. CheckedOutIsLent'
    BY DEF LoansPart, CheckedOutIsLent, OpenLoan, LoanStays
  <1>9. QED
    BY <1>2, <1>3, <1>4, <1>5, <1>6, <1>7, <1>8 DEF LoansPart, LoansInOrder, FiniteCounts

-----------------------------------------------------------------------------
(* What a request has read is still true *)

\* Nobody else is in flight, so nothing has changed since.
Alone == \A s, t \in Procs : sess[s].op # "idle" /\ sess[t].op # "idle" => s = t

After == {"notify", "claim", "send"}

CheckoutReads(s) ==
    LET q == sess[s] IN
    q.op = "checkout" =>
        /\ q.pc \in {"count", "ready", "commit"}
        /\ q.item \in Items /\ q.patron \in Patrons /\ q.seen = status[q.item]
        /\ q.pc # "commit" => q.hold = 0
        /\ q.pc # "count" => UnderCap(q.patron) /\ q.seen \in {"AVAILABLE", "ON_HOLD"}
        /\ q.pc = "ready" => q.seen = "ON_HOLD"
        /\ q.pc = "commit" =>
              IF q.seen = "AVAILABLE" THEN q.hold = 0
              ELSE /\ q.hold \in HoldsIn(RecordOf[q.item], "AVAILABLE")
                   /\ holds[q.hold].patron = q.patron

\* The reader who waits and was picked, or nobody waits.
NextRead(s, r) == IF sess[s].next = 0 THEN HoldsIn(r, "PENDING") = {}
                  ELSE sess[s].next \in HoldsIn(r, "PENDING")

ClosingReads(s) ==
    LET q == sess[s] IN
    /\ q.op = "return" => q.pc \in {"next", "commit"} \cup After
    /\ q.op = "perte" => q.pc = "commit"
    /\ q.op \in {"return", "perte"} /\ q.pc \in {"next", "commit"} =>
          q.loan \in LoanIds /\ OpenLoan(q.loan) /\ q.item = loans[q.loan].item
    /\ q.op = "return" /\ q.pc = "commit" => NextRead(s, RecordOf[q.item])

RenewReads(s) ==
    LET q == sess[s] IN
    q.op \in {"renew", "renewOnline"} =>
        /\ q.pc \in {"holds", "commit"}
        /\ q.loan \in LoanIds /\ OpenLoan(q.loan) /\ q.item = loans[q.loan].item
        /\ q.patron = loans[q.loan].patron /\ q.num < RenewalLimit(q.op)
        /\ q.pc = "commit" => BlockingHolds(q.op, RecordOf[q.item], q.patron) = {}

HoldReads(s) ==
    LET q == sess[s] IN
    q.op \in {"hold", "holdOnline"} =>
        /\ q.pc \in {"duplicate", "count", "commitReady", "commitPending"} \cup After
        /\ q.pc \notin After =>
              /\ q.record \in Records /\ q.patron \in Patrons
              /\ IF q.item = NoItem THEN ShelfItems(q.record) = {}
                                    ELSE q.item \in ShelfItems(q.record)
              /\ q.pc # "duplicate" => ~Duplicate(q.record, q.patron)
              /\ q.pc = "commitReady" => q.item # NoItem
              /\ q.pc \in {"count", "commitPending"} => q.item = NoItem

\* A ready hold is about to end, for the reader who waits or for the shelf.
EndingReads(s) ==
    LET q == sess[s] IN
    /\ q.hold \in HoldsIn(q.record, "AVAILABLE") /\ q.record \in Records
    /\ q.pc = "txCommit" => NextRead(s, q.record)
    /\ q.pc = "txNext" => q.item \in HeldItems(q.record)
    /\ q.pc = "txCommit" /\ q.next = 0 => q.item \in HeldItems(q.record)
    /\ q.pc = "txHeld" => q.next = 0 /\ HoldsIn(q.record, "PENDING") = {}

CancelReads(s) ==
    LET q == sess[s] IN
    q.op \in {"cancel", "cancelOnline"} =>
        /\ q.pc \in {"cancel", "txNext", "txCommit"} \cup After
        /\ q.pc = "cancel" =>
              /\ q.hold \in HoldsIn(q.record, q.seen) /\ q.seen \in ACTIVE_HOLD_STATUSES
              /\ q.record \in Records /\ q.next = 0
        /\ q.pc \in {"txNext", "txCommit"} => EndingReads(s)

ExpireReads(s) ==
    LET q == sess[s] IN
    q.op = "expire" =>
        /\ q.pc \in {"each", "txHeld", "txCommit"} \cup After
        /\ q.pc \in {"txHeld", "txCommit"} => EndingReads(s)

Reads(s) ==
    /\ sess[s].op \notin {"edit", "abort"}
    /\ sess[s].op = "idle" => sess[s].pc = "idle"
    /\ CheckoutReads(s) /\ ClosingReads(s) /\ RenewReads(s)
    /\ HoldReads(s) /\ CancelReads(s) /\ ExpireReads(s)

DeskPart == LoansPart /\ HoldsPart /\ FiniteCounts

SerialInv == TypeOK /\ Alone /\ DeskPart /\ \A s \in Procs : Reads(s)

\* A process at rest, and one that has only to tell readers, have read nothing that
\* can change.
LEMMA RestReads ==
    ASSUME NEW s,
           \/ sess'[s].op = "idle" /\ sess'[s].pc = "idle"
           \/ /\ sess'[s].op \in {"return", "hold", "holdOnline", "cancel", "cancelOnline", "expire"}
              /\ sess'[s].pc \in After
           \/ sess'[s].op = "expire" /\ sess'[s].pc = "each"
    PROVE  Reads(s)'
  BY DEF Reads, CheckoutReads, ClosingReads, RenewReads, HoldReads, CancelReads, ExpireReads, After

\* The one request in flight moves; the others rest.
LEMMA OneMoves ==
    ASSUME SerialInv, NEW s \in Procs, sess[s].op # "idle", NEW q, Enter(s, q), Reads(s)'
    PROVE  Alone' /\ \A t \in Procs : Reads(t)'
  <1>1. ASSUME NEW t \in Procs, t # s
        PROVE  sess'[t].op = "idle" /\ sess'[t].pc = "idle"
    BY <1>1 DEF Enter, SerialInv, TypeOK, Alone, Reads
  <1>2. Alone'
    BY <1>1 DEF Alone
  <1>3. ASSUME NEW t \in Procs
        PROVE  Reads(t)'
    <2>1. CASE t = s
      BY <2>1
    <2>2. CASE t # s
      BY <1>1, <2>2, RestReads
    <2>3. QED
      BY <2>1, <2>2
  <1>4. QED
    BY <1>2, <1>3

\* A request arrives only when nothing is in flight.
LEMMA Arrives ==
    ASSUME CirculationAssumption, Serial, SerialInv, NEW s \in Procs, NEW op, Begin(s, op)
    PROVE  \A t \in Procs : sess[t].op = "idle" /\ sess[t].pc = "idle"
  <1>1. Busy \subseteq Sessions \cup {Cron} /\ IsFiniteSet(Sessions \cup {Cron})
    BY FS_AddElement DEF Busy, Procs, CirculationAssumption
  <1>2. IsFiniteSet(Busy)
    BY <1>1, FS_Subset
  <1>3. Cardinality(Busy) \in Nat
    BY <1>2, FS_CardinalityType
  <1>4. Cardinality(Busy) = 0
    BY <1>3 DEF Begin, Serial
  <1>5. Busy = {}
    BY <1>2, <1>4, FS_EmptySet
  <1>6. QED
    BY <1>5 DEF Busy, SerialInv, Reads

LEMMA ArrivesAlone ==
    ASSUME CirculationAssumption, Serial, SerialInv, NEW s \in Procs, NEW op, Begin(s, op),
           NEW q, Enter(s, q), Reads(s)'
    PROVE  Alone' /\ \A t \in Procs : Reads(t)'
  <1>1. ASSUME NEW t \in Procs, t # s
        PROVE  sess'[t].op = "idle" /\ sess'[t].pc = "idle"
    BY <1>1, Arrives DEF Enter, SerialInv, TypeOK
  <1>2. Alone'
    BY <1>1 DEF Alone
  <1>3. ASSUME NEW t \in Procs
        PROVE  Reads(t)'
    <2>1. CASE t = s
      BY <2>1
    <2>2. CASE t # s
      BY <1>1, <2>2, RestReads
    <2>3. QED
      BY <2>1, <2>2
  <1>4. QED
    BY <1>2, <1>3

-----------------------------------------------------------------------------
(* Statements that only read *)

LEMMA Smallest ==
    ASSUME NEW T, T \subseteq Nat, T # {}
    PROVE  \E x \in T : \A y \in T : x <= y
  <1>1. PICK x \in T : \A y \in T : <<y, x>> \notin OpToRel(<, Nat)
    BY NatLessThanWellFounded, WFMin
  <1>2. ASSUME NEW y \in T
        PROVE  x <= y
    <2>1. x \in Nat /\ y \in Nat /\ <<y, x>> \in Nat \X Nat
      OBVIOUS
    <2>2. ~(y < x)
      BY <1>1, <2>1 DEF OpToRel
    <2>3. QED
      BY <2>1, <2>2
  <1>3. QED
    BY <1>2

\* orderBy priority, createdAt finds somebody whenever somebody waits.
LEMMA QueueHasAHead ==
    ASSUME CirculationAssumption, TypeOK, NEW r, HoldsIn(r, "PENDING") # {}
    PROVE  NextHolds(r) # {}
  <1> DEFINE S == HoldsIn(r, "PENDING")
             P == {holds[h].priority : h \in S}
  <1>1. S \subseteq HoldIds /\ HoldIds \subseteq Nat
    BY DEF HoldsIn, CirculationAssumption
  <1>2. P \subseteq Nat /\ P # {}
    <2>1. \A h \in HoldIds : holds[h] \in Hold
      BY DEF TypeOK
    <2>2. \A h \in S : holds[h].priority \in Nat
      BY <1>1, <2>1 DEF Hold
    <2>3. S # {}
      OBVIOUS
    <2> HIDE DEF S
    <2>4. QED
      BY <2>2, <2>3
  <1>3. PICK m \in P : \A n \in P : m <= n
    BY <1>2, Smallest
  <1> DEFINE T == {h \in S : holds[h].priority = m}
  <1>4. T \subseteq Nat /\ T # {}
    BY <1>1
  <1>5. PICK h \in T : \A g \in T : h <= g
    <2> HIDE DEF T
    <2>1. QED
      BY <1>4, Smallest
  <1>6. ASSUME NEW g \in S
        PROVE  Before(h, g)
    <2>1. holds[g].priority \in P /\ holds[g].priority \in Nat /\ holds[h].priority = m
      BY <1>1 DEF TypeOK, Hold
    <2>2. m <= holds[g].priority /\ m \in Nat
      BY <1>2, <1>3, <2>1
    <2>3. CASE holds[g].priority = m
      BY <1>5, <2>1, <2>3 DEF Before
    <2>4. CASE holds[g].priority # m
      BY <2>1, <2>2, <2>4 DEF Before
    <2>5. QED
      BY <2>3, <2>4
  <1>7. h \in NextHolds(r)
    BY <1>6 DEF NextHolds
  <1>8. QED
    BY <1>7

\* Who is found next: the reader who waits, or nobody when nobody does.
LEMMA FoundNext ==
    ASSUME CirculationAssumption, TypeOK, NEW r, NEW h \in FindFirst(NextHolds(r), 0)
    PROVE  IF h = 0 THEN HoldsIn(r, "PENDING") = {} ELSE h \in HoldsIn(r, "PENDING")
  <1>1. 0 \notin HoldIds /\ NextHolds(r) \subseteq HoldsIn(r, "PENDING")
        /\ HoldsIn(r, "PENDING") \subseteq HoldIds
    BY DEF CirculationAssumption, NextHolds, HoldsIn
  <1>2. QED
    BY <1>1, QueueHasAHead DEF FindFirst

\* A record with a ready hold has a copy set aside.
LEMMA FoundHeld ==
    ASSUME CirculationAssumption, HoldsPart, FiniteCounts, NEW r \in Records,
           HoldsIn(r, "AVAILABLE") # {}, NEW i \in FindFirst(HeldItems(r), NoItem)
    PROVE  i \in HeldItems(r) /\ i # NoItem
  <1>1. IsFiniteSet(HoldsIn(r, "AVAILABLE")) /\ IsFiniteSet(HeldItems(r))
    BY HoldsInFinite DEF HoldsFinite, FiniteCounts
  <1>2. Cardinality(HoldsIn(r, "AVAILABLE")) # 0
    BY <1>1, FS_EmptySet
  <1>3. Cardinality(HeldItems(r)) # 0
    BY <1>2 DEF HoldsPart, EveryReadyHoldHasItsCopy
  <1>4. HeldItems(r) # {}
    BY <1>3, FS_EmptySet
  <1>5. HeldItems(r) \subseteq Items /\ NoItem \notin Items
    BY DEF HeldItems, ItemsOf, CirculationAssumption
  <1>6. QED
    BY <1>4, <1>5 DEF FindFirst

\* What can be read does not change with a statement that writes nothing.
LEMMA ViewsSame ==
    ASSUME UNCHANGED db
    PROVE  /\ status' = status /\ loans' = loans /\ holds' = holds
           /\ \A r, st : HoldsIn(r, st)' = HoldsIn(r, st)
           /\ \A r : HeldItems(r)' = HeldItems(r) /\ ShelfItems(r)' = ShelfItems(r)
           /\ \A p : UnderCap(p)' <=> UnderCap(p)
           /\ \A l : OpenLoan(l)' <=> OpenLoan(l)
           /\ \A r, p : Duplicate(r, p)' <=> Duplicate(r, p)
           /\ \A op, r, p : BlockingHolds(op, r, p)' = BlockingHolds(op, r, p)
  BY DEF db, HoldsIn, HeldItems, ShelfItems, ItemsOf, UnderCap, OpenLoansOf, OpenLoan,
         Duplicate, ActiveHolds, ActiveHold, BlockingHolds

LEMMA DeskSame ==
    ASSUME DeskPart, UNCHANGED db
    PROVE  DeskPart'
  <1>1. UNCHANGED <<status, loans, holds>>
    BY DEF db
  <1>2. \A h \in HoldIds : Stays(h)
    BY <1>1 DEF Stays, Becomes
  <1>3. HoldsPart'
    BY <1>1, <1>2, HoldsSame DEF DeskPart
  <1>4. LoansPart'
    BY <1>1, LoansSame DEF DeskPart
  <1>5. FiniteCounts'
    BY <1>1 DEF DeskPart, FiniteCounts, HeldItems, ItemsOf, OpenLoansOf, OpenLoan
  <1>6. QED
    BY <1>3, <1>4, <1>5 DEF DeskPart

\* Only these requests have readers to tell.
LEMMA Tellers ==
    ASSUME NEW s \in Procs, sess[s] \in Request, Reads(s), sess[s].pc \in After
    PROVE  sess[s].op \in {"return", "hold", "holdOnline", "cancel", "cancelOnline", "expire"}
  BY DEF Reads, CheckoutReads, ClosingReads, RenewReads, After, Request, OpNames

\* What the one request in flight reads is what it keeps.
LEMMA ReadStep ==
    ASSUME CirculationAssumption, SerialInv, NEW s \in Procs,
           \/ CheckoutCount(s) \/ CheckoutReady(s) \/ ReturnNext(s) \/ RenewHolds(s)
           \/ HoldDuplicate(s) \/ HoldCount(s) \/ CancelLock(s) \/ CancelNext(s)
           \/ ExpireHeld(s) \/ ExpireEnd(s) \/ NotifyFind(s) \/ NotifyEnd(s)
           \/ \E h \in HoldIds : ExpireLock(s, h)
    PROVE  UNCHANGED db /\ Reads(s)'
  <1> DEFINE q == sess[s]
  <1>q. /\ q \in Request /\ Reads(s) /\ \A r : Enter(s, r) => sess'[s] = r
        /\ HoldsPart /\ FiniteCounts /\ TypeOK
    BY DEF SerialInv, DeskPart, TypeOK, Enter
  <1>d. Done(s) => Reads(s)'
    BY <1>q, RestReads DEF Done, Idle
  <1>u. UNCHANGED db
    BY DEF CheckoutCount, CheckoutReady, ReturnNext, RenewHolds, HoldDuplicate, HoldCount,
           CancelLock, CancelNext, ExpireHeld, ExpireEnd, NotifyFind, NotifyEnd, ExpireLock
  <1>v. /\ status' = status /\ loans' = loans /\ holds' = holds
        /\ \A r, st : HoldsIn(r, st)' = HoldsIn(r, st)
        /\ \A r : HeldItems(r)' = HeldItems(r) /\ ShelfItems(r)' = ShelfItems(r)
        /\ \A p : UnderCap(p)' <=> UnderCap(p)
        /\ \A l : OpenLoan(l)' <=> OpenLoan(l)
        /\ \A r, p : Duplicate(r, p)' <=> Duplicate(r, p)
        /\ \A op, r, p : BlockingHolds(op, r, p)' = BlockingHolds(op, r, p)
    BY <1>u, ViewsSame
  <1>s. SUFFICES Reads(s)'
    BY <1>u
  <1>1. CASE CheckoutCount(s)
    <2>1. CASE Done(s)
      BY <1>d, <2>1
    <2>2. CASE ~Done(s)
      <3>1. q.op = "checkout" /\ q.pc = "count" /\ UnderCap(q.patron)
            /\ q.seen \in {"AVAILABLE", "ON_HOLD"}
        BY <1>1, <2>2 DEF CheckoutCount, At
      <3>2. sess'[s] = [q EXCEPT !.pc = IF q.seen = "ON_HOLD" THEN "ready" ELSE "commit"]
        BY <1>1, <1>q, <2>2 DEF CheckoutCount, Goto
      <3>3. /\ sess'[s].op = "checkout" /\ sess'[s].item = q.item /\ sess'[s].patron = q.patron
            /\ sess'[s].seen = q.seen /\ sess'[s].hold = q.hold
            /\ sess'[s].pc = IF q.seen = "ON_HOLD" THEN "ready" ELSE "commit"
        BY <1>q, <3>1, <3>2 DEF Request
      <3>4. CheckoutReads(s)'
        BY <1>q, <1>v, <3>1, <3>3 DEF Reads, CheckoutReads
      <3>5. QED
        BY <3>3, <3>4 DEF Reads, ClosingReads, RenewReads, HoldReads, CancelReads, ExpireReads
    <2>3. QED
      BY <2>1, <2>2
  <1>2. CASE CheckoutReady(s)
    <2>1. CASE Done(s)
      BY <1>d, <2>1
    <2>2. CASE ~Done(s)
      <3>1. PICK h \in FindFirst(Oldest(HoldsIn(RecordOf[q.item], "AVAILABLE")), 0) :
               ReservedFor(h, q.patron) /\ Enter(s, [q EXCEPT !.pc = "commit", !.hold = h])
        BY <1>2, <2>2 DEF CheckoutReady
      <3>2. h \in HoldsIn(RecordOf[q.item], "AVAILABLE") /\ holds[h].patron = q.patron
        BY <3>1 DEF FindFirst, Oldest, ReservedFor
      <3>e. sess'[s] = [q EXCEPT !.pc = "commit", !.hold = h]
        BY <1>q, <3>1
      <3>3. /\ sess'[s].op = "checkout" /\ sess'[s].item = q.item /\ sess'[s].patron = q.patron
            /\ sess'[s].seen = q.seen /\ sess'[s].hold = h /\ sess'[s].pc = "commit"
            /\ q.op = "checkout" /\ q.pc = "ready"
        BY <3>e, <1>2, <1>q, <3>1 DEF Request, CheckoutReady, At
      <3>4. CheckoutReads(s)'
        BY <1>q, <1>v, <3>2, <3>3 DEF Reads, CheckoutReads
      <3>5. QED
        BY <3>3, <3>4 DEF Reads, ClosingReads, RenewReads, HoldReads, CancelReads, ExpireReads
    <2>3. QED
      BY <2>1, <2>2
  <1>3. CASE ReturnNext(s)
    <2>1. PICK h \in FindFirst(NextHolds(RecordOf[q.item]), 0) :
             Enter(s, [q EXCEPT !.pc = "commit", !.next = h])
      BY <1>3 DEF ReturnNext
    <2>2. IF h = 0 THEN HoldsIn(RecordOf[q.item], "PENDING") = {}
                   ELSE h \in HoldsIn(RecordOf[q.item], "PENDING")
      BY <1>q, <2>1, FoundNext
    <2>e. sess'[s] = [q EXCEPT !.pc = "commit", !.next = h]
      BY <1>q, <2>1
    <2>3. /\ sess'[s].op = "return" /\ sess'[s].item = q.item /\ sess'[s].loan = q.loan
          /\ sess'[s].next = h /\ sess'[s].pc = "commit" /\ q.op = "return" /\ q.pc = "next"
      BY <2>e, <1>3, <1>q, <2>1 DEF Request, ReturnNext, At
    <2>4. ClosingReads(s)'
      BY <1>q, <1>v, <2>2, <2>3 DEF Reads, ClosingReads, NextRead
    <2>5. QED
      BY <2>3, <2>4 DEF Reads, CheckoutReads, RenewReads, HoldReads, CancelReads, ExpireReads
  <1>4. CASE RenewHolds(s)
    <2>1. CASE Done(s)
      BY <1>d, <2>1
    <2>2. CASE ~Done(s)
      <3>1. q.op \in {"renew", "renewOnline"} /\ q.pc = "holds"
            /\ BlockingHolds(q.op, RecordOf[q.item], q.patron) = {}
            /\ Enter(s, [q EXCEPT !.pc = "commit"])
        BY <1>4, <2>2 DEF RenewHolds, At, Goto
      <3>e. sess'[s] = [q EXCEPT !.pc = "commit"]
        BY <1>q, <3>1
      <3>2. /\ sess'[s].op = q.op /\ sess'[s].item = q.item /\ sess'[s].patron = q.patron
            /\ sess'[s].loan = q.loan /\ sess'[s].num = q.num /\ sess'[s].pc = "commit"
        BY <3>e, <1>q, <3>1 DEF Request
      <3>3. RenewReads(s)'
        BY <1>q, <1>v, <3>1, <3>2 DEF Reads, RenewReads, RenewalLimit
      <3>4. QED
        BY <3>1, <3>2, <3>3 DEF Reads, CheckoutReads, ClosingReads, HoldReads, CancelReads, ExpireReads
    <2>3. QED
      BY <2>1, <2>2
  <1>5. CASE HoldDuplicate(s)
    <2>1. CASE Done(s)
      BY <1>d, <2>1
    <2>2. CASE ~Done(s)
      <3>1. /\ q.op \in {"hold", "holdOnline"} /\ q.pc = "duplicate"
            /\ ~Duplicate(q.record, q.patron)
            /\ Enter(s, [q EXCEPT !.pc = IF q.item = NoItem THEN "count" ELSE "commitReady"])
        BY <1>5, <2>2 DEF HoldDuplicate, At, Goto
      <3>e. sess'[s] = [q EXCEPT !.pc = IF q.item = NoItem THEN "count" ELSE "commitReady"]
        BY <1>q, <3>1
      <3>2. /\ sess'[s].op = q.op /\ sess'[s].item = q.item /\ sess'[s].patron = q.patron
            /\ sess'[s].record = q.record
            /\ sess'[s].pc = IF q.item = NoItem THEN "count" ELSE "commitReady"
        BY <3>e, <1>q, <3>1 DEF Request
      <3>3. HoldReads(s)'
        BY <1>q, <1>v, <3>1, <3>2 DEF Reads, HoldReads, After
      <3>4. QED
        BY <3>1, <3>2, <3>3
        DEF Reads, CheckoutReads, ClosingReads, RenewReads, CancelReads, ExpireReads
    <2>3. QED
      BY <2>1, <2>2
  <1>6. CASE HoldCount(s)
    <2>1. /\ q.op \in {"hold", "holdOnline"} /\ q.pc = "count"
          /\ Enter(s, [q EXCEPT !.pc = "commitPending", !.num = Cardinality(ActiveHolds(q.record))])
      BY <1>6 DEF HoldCount, At
    <2>e. sess'[s] = [q EXCEPT !.pc = "commitPending", !.num = Cardinality(ActiveHolds(q.record))]
      BY <1>q, <2>1
    <2>2. /\ sess'[s].op = q.op /\ sess'[s].item = q.item /\ sess'[s].patron = q.patron
          /\ sess'[s].record = q.record /\ sess'[s].pc = "commitPending"
      BY <2>e, <1>q, <2>1 DEF Request
    <2>3. HoldReads(s)'
      BY <1>q, <1>v, <2>1, <2>2 DEF Reads, HoldReads, After
    <2>4. QED
      BY <2>1, <2>2, <2>3
      DEF Reads, CheckoutReads, ClosingReads, RenewReads, CancelReads, ExpireReads
  <1>7. CASE CancelLock(s)
    <2>1. PICK i \in FindFirst(HeldItems(q.record), NoItem) :
             Enter(s, [q EXCEPT !.item = i, !.pc = IF i = NoItem THEN "txCommit" ELSE "txNext"])
      BY <1>7 DEF CancelLock
    <2>2. /\ q.op \in {"cancel", "cancelOnline"} /\ q.hold \in HoldsIn(q.record, "AVAILABLE")
          /\ q.record \in Records
      BY <1>7, <1>q DEF CancelLock, At, Reads, CancelReads
    <2>3. i \in HeldItems(q.record) /\ i # NoItem
      BY <1>q, <2>1, <2>2, FoundHeld
    <2>e. sess'[s] = [q EXCEPT !.item = i, !.pc = IF i = NoItem THEN "txCommit" ELSE "txNext"]
      BY <1>q, <2>1
    <2>4. /\ sess'[s].op = q.op /\ sess'[s].hold = q.hold /\ sess'[s].record = q.record
          /\ sess'[s].item = i /\ sess'[s].pc = "txNext"
      BY <2>e, <1>q, <2>1, <2>3 DEF Request
    <2>5. CancelReads(s)'
      BY <1>v, <2>2, <2>3, <2>4 DEF CancelReads, EndingReads
    <2>6. QED
      BY <2>2, <2>4, <2>5
      DEF Reads, CheckoutReads, ClosingReads, RenewReads, HoldReads, ExpireReads
  <1>8. CASE CancelNext(s)
    <2>1. PICK h \in FindFirst(NextHolds(q.record), 0) :
             Enter(s, [q EXCEPT !.pc = "txCommit", !.next = h])
      BY <1>8 DEF CancelNext
    <2>2. q.op \in {"cancel", "cancelOnline"} /\ q.pc = "txNext" /\ EndingReads(s)
      BY <1>8, <1>q DEF CancelNext, At, Reads, CancelReads
    <2>3. IF h = 0 THEN HoldsIn(q.record, "PENDING") = {} ELSE h \in HoldsIn(q.record, "PENDING")
      BY <1>q, <2>1, FoundNext
    <2>e. sess'[s] = [q EXCEPT !.pc = "txCommit", !.next = h]
      BY <1>q, <2>1
    <2>4. /\ sess'[s].op = q.op /\ sess'[s].hold = q.hold /\ sess'[s].record = q.record
          /\ sess'[s].item = q.item /\ sess'[s].next = h /\ sess'[s].pc = "txCommit"
      BY <2>e, <1>q, <2>1 DEF Request
    <2>a. /\ q.hold \in HoldsIn(q.record, "AVAILABLE") /\ q.record \in Records
          /\ q.item \in HeldItems(q.record)
      BY <2>2 DEF EndingReads
    <2>b. NextRead(s, q.record)'
      BY <1>v, <2>3, <2>4 DEF NextRead
    <2>5. CancelReads(s)'
      BY <1>v, <2>2, <2>a, <2>b, <2>4 DEF CancelReads, EndingReads
    <2>6. QED
      BY <2>2, <2>4, <2>5
      DEF Reads, CheckoutReads, ClosingReads, RenewReads, HoldReads, ExpireReads
  <1>9. CASE ExpireHeld(s)
    <2>1. PICK i \in FindFirst(HeldItems(q.record), NoItem) :
             Enter(s, [q EXCEPT !.pc = "txCommit", !.item = i])
      BY <1>9 DEF ExpireHeld
    <2>2. q.op = "expire" /\ q.pc = "txHeld" /\ EndingReads(s)
      BY <1>9, <1>q DEF ExpireHeld, At, Reads, ExpireReads
    <2>3. i \in HeldItems(q.record) /\ i # NoItem
      BY <1>q, <2>1, <2>2, FoundHeld DEF EndingReads
    <2>e. sess'[s] = [q EXCEPT !.pc = "txCommit", !.item = i]
      BY <1>q, <2>1
    <2>4. /\ sess'[s].op = q.op /\ sess'[s].hold = q.hold /\ sess'[s].record = q.record
          /\ sess'[s].item = i /\ sess'[s].next = q.next /\ sess'[s].pc = "txCommit"
      BY <2>e, <1>q, <2>1 DEF Request
    <2>5. ExpireReads(s)'
      BY <1>v, <2>2, <2>3, <2>4 DEF ExpireReads, EndingReads, NextRead
    <2>6. QED
      BY <2>2, <2>4, <2>5
      DEF Reads, CheckoutReads, ClosingReads, RenewReads, HoldReads, CancelReads
  <1>10. ASSUME NEW h \in HoldIds, ExpireLock(s, h)
         PROVE  Reads(s)'
    <2>1. q.op = "expire" /\ q.pc = "each"
      BY <1>10 DEF ExpireLock, At
    <2>2. CASE StillReady(h)
      <3>1. PICK g \in FindFirst(NextHolds(holds[h].record), 0) :
               Enter(s, [q EXCEPT !.pc = IF g = 0 THEN "txHeld" ELSE "txCommit",
                                  !.hold = h, !.record = holds[h].record, !.next = g])
        BY <1>10, <2>2 DEF ExpireLock
      <3>2. h \in HoldsIn(holds[h].record, "AVAILABLE") /\ holds[h].record \in Records
        BY <1>q, <2>2 DEF StillReady, HoldsIn, HoldsPart, HoldRows
      <3>3. IF g = 0 THEN HoldsIn(holds[h].record, "PENDING") = {}
                     ELSE g \in HoldsIn(holds[h].record, "PENDING")
        BY <1>q, <3>1, FoundNext
      <3>e. sess'[s] = [q EXCEPT !.pc = IF g = 0 THEN "txHeld" ELSE "txCommit",
                                 !.hold = h, !.record = holds[h].record, !.next = g]
        BY <1>q, <3>1
      <3>4. /\ sess'[s].op = q.op /\ sess'[s].hold = h /\ sess'[s].record = holds[h].record
            /\ sess'[s].next = g /\ sess'[s].pc = IF g = 0 THEN "txHeld" ELSE "txCommit"
        BY <3>e, <1>q, <3>1 DEF Request
      <3>5. ExpireReads(s)'
        BY <1>v, <2>1, <3>2, <3>3, <3>4 DEF ExpireReads, EndingReads, NextRead
      <3>6. QED
        BY <2>1, <3>4, <3>5
        DEF Reads, CheckoutReads, ClosingReads, RenewReads, HoldReads, CancelReads
    <2>3. CASE ~StillReady(h)
      <3>1. Enter(s, [q EXCEPT !.todo = @ \ {h}])
        BY <1>10, <2>3 DEF ExpireLock
      <3>e. sess'[s] = [q EXCEPT !.todo = @ \ {h}]
        BY <1>q, <3>1
      <3>2. sess'[s].op = "expire" /\ sess'[s].pc = "each"
        BY <3>e, <1>q, <2>1, <3>1 DEF Request
      <3>3. QED
        BY <3>2, RestReads
    <2>4. QED
      BY <2>2, <2>3
  <1>11. CASE ExpireEnd(s)
    <2>1. sess'[s].op = "expire" /\ sess'[s].pc = "notify"
      BY <1>11, <1>q DEF ExpireEnd, At, Goto, Request
    <2>2. QED
      BY <2>1, RestReads DEF After
  <1>12. CASE NotifyFind(s)
    <2>1. sess'[s].op = q.op /\ sess'[s].pc = "claim" /\ q.pc = "notify"
      BY ZenonT(60), <1>12, <1>q DEF NotifyFind, Arrive, Idle
    <2>2. q.op \in {"return", "hold", "holdOnline", "cancel", "cancelOnline", "expire"}
      BY <1>q, <2>1, Tellers DEF After
    <2>3. QED
      BY <2>1, <2>2, RestReads DEF After
  <1>13. CASE NotifyEnd(s)
    BY <1>13, <1>d DEF NotifyEnd
  <1>14. QED
    BY <1>1, <1>2, <1>3, <1>4, <1>5, <1>6, <1>7, <1>8, <1>9, <1>10, <1>11, <1>12, <1>13

\* What a request reads as it arrives.
LEMMA ArrivalReads ==
    ASSUME CirculationAssumption, SerialInv, NEW s \in Procs, Arrivals(s) \/ ExpireFind(s)
    PROVE  UNCHANGED db /\ Reads(s)' /\ \E op, q : Begin(s, op) /\ Enter(s, q)
  <1>q. /\ \A r : Enter(s, r) => sess'[s] = r
        /\ HoldsPart /\ LentRows /\ TypeOK
    BY DEF SerialInv, DeskPart, LoansPart, TypeOK, Enter
  <1>v. UNCHANGED db =>
           /\ status' = status /\ loans' = loans /\ holds' = holds
           /\ \A r, st : HoldsIn(r, st)' = HoldsIn(r, st)
           /\ \A r : ShelfItems(r)' = ShelfItems(r)
           /\ \A l : OpenLoan(l)' <=> OpenLoan(l)
    BY ViewsSame
  <1>1. ASSUME NEW i \in Items, NEW p \in Patrons, CheckoutRead(s, i, p)
        PROVE  UNCHANGED db /\ Reads(s)' /\ \E op, q : Begin(s, op) /\ Enter(s, q)
    <2>1. /\ UNCHANGED db /\ Begin(s, "checkout")
          /\ Enter(s, [Arrive("checkout", "count") EXCEPT !.item = i, !.patron = p, !.seen = status[i]])
      BY <1>1 DEF CheckoutRead
    <2>2. sess'[s] = [Arrive("checkout", "count") EXCEPT !.item = i, !.patron = p, !.seen = status[i]]
      BY <1>q, <2>1
    <2>3. /\ sess'[s].op = "checkout" /\ sess'[s].pc = "count" /\ sess'[s].item = i
          /\ sess'[s].patron = p /\ sess'[s].seen = status[i] /\ sess'[s].hold = 0
      BY <2>2 DEF Arrive, Idle
    <2>4. CheckoutReads(s)'
      BY <1>v, <2>1, <2>3 DEF CheckoutReads
    <2>5. Reads(s)'
      BY <2>3, <2>4 DEF Reads, ClosingReads, RenewReads, HoldReads, CancelReads, ExpireReads
    <2>6. QED
      BY <2>1, <2>5
  <1>2. ASSUME NEW l \in LoanIds, ReturnRead(s, l)
        PROVE  UNCHANGED db /\ Reads(s)' /\ \E op, q : Begin(s, op) /\ Enter(s, q)
    <2>1. /\ UNCHANGED db /\ Begin(s, "return") /\ OpenLoan(l)
          /\ Enter(s, [Arrive("return", "next") EXCEPT !.loan = l, !.item = loans[l].item,
                                                      !.num = Fine(loans[l].due, clock)])
      BY <1>2 DEF ReturnRead
    <2>2. sess'[s] = [Arrive("return", "next") EXCEPT !.loan = l, !.item = loans[l].item,
                                                      !.num = Fine(loans[l].due, clock)]
      BY <1>q, <2>1
    <2>3. /\ sess'[s].op = "return" /\ sess'[s].pc = "next" /\ sess'[s].loan = l
          /\ sess'[s].item = loans[l].item
      BY <2>2 DEF Arrive, Idle
    <2>4. ClosingReads(s)'
      BY <1>v, <2>1, <2>3 DEF ClosingReads
    <2>5. Reads(s)'
      BY <2>3, <2>4 DEF Reads, CheckoutReads, RenewReads, HoldReads, CancelReads, ExpireReads
    <2>6. QED
      BY <2>1, <2>5
  <1>3. ASSUME NEW l \in LoanIds, PerteRead(s, l)
        PROVE  UNCHANGED db /\ Reads(s)' /\ \E op, q : Begin(s, op) /\ Enter(s, q)
    <2>1. /\ UNCHANGED db /\ Begin(s, "perte") /\ OpenLoan(l)
          /\ Enter(s, [Arrive("perte", "commit") EXCEPT !.loan = l, !.item = loans[l].item,
                                                       !.num = Fine(loans[l].due, clock)])
      BY <1>3 DEF PerteRead
    <2>2. sess'[s] = [Arrive("perte", "commit") EXCEPT !.loan = l, !.item = loans[l].item,
                                                       !.num = Fine(loans[l].due, clock)]
      BY <1>q, <2>1
    <2>3. /\ sess'[s].op = "perte" /\ sess'[s].pc = "commit" /\ sess'[s].loan = l
          /\ sess'[s].item = loans[l].item
      BY <2>2 DEF Arrive, Idle
    <2>4. ClosingReads(s)'
      BY <1>v, <2>1, <2>3 DEF ClosingReads
    <2>5. Reads(s)'
      BY <2>3, <2>4 DEF Reads, CheckoutReads, RenewReads, HoldReads, CancelReads, ExpireReads
    <2>6. QED
      BY <2>1, <2>5
  <1>4. ASSUME NEW l \in LoanIds, NEW op \in {"renew", "renewOnline"}, RenewRead(s, l, op)
        PROVE  UNCHANGED db /\ Reads(s)' /\ \E o, q : Begin(s, o) /\ Enter(s, q)
    <2>1. /\ UNCHANGED db /\ Begin(s, op) /\ OpenLoan(l) /\ loans[l].renewals < RenewalLimit(op)
          /\ Enter(s, [Arrive(op, "holds") EXCEPT !.loan = l, !.item = loans[l].item,
                                                 !.patron = loans[l].patron,
                                                 !.num = loans[l].renewals])
      BY <1>4 DEF RenewRead, Renewable
    <2>2. sess'[s] = [Arrive(op, "holds") EXCEPT !.loan = l, !.item = loans[l].item,
                                                 !.patron = loans[l].patron,
                                                 !.num = loans[l].renewals]
      BY <1>q, <2>1
    <2>3. /\ sess'[s].op = op /\ sess'[s].pc = "holds" /\ sess'[s].loan = l
          /\ sess'[s].item = loans[l].item /\ sess'[s].patron = loans[l].patron
          /\ sess'[s].num = loans[l].renewals
      BY <2>2 DEF Arrive, Idle
    <2>4. RenewReads(s)'
      BY <1>v, <2>1, <2>3 DEF RenewReads, RenewalLimit
    <2>5. Reads(s)'
      BY <2>3, <2>4 DEF Reads, CheckoutReads, ClosingReads, HoldReads, CancelReads, ExpireReads
    <2>6. QED
      BY <2>1, <2>5
  <1>5. ASSUME NEW r \in Records, NEW p \in Patrons, NEW op \in {"hold", "holdOnline"},
               HoldRead(s, r, p, op)
        PROVE  UNCHANGED db /\ Reads(s)' /\ \E o, q : Begin(s, o) /\ Enter(s, q)
    <2>1. PICK i \in FindFirst(ShelfItems(r), NoItem) :
             Enter(s, [Arrive(op, "duplicate") EXCEPT !.record = r, !.patron = p, !.item = i])
      BY <1>5 DEF HoldRead
    <2>a. UNCHANGED db /\ Begin(s, op)
      BY <1>5 DEF HoldRead
    <2>b. IF i = NoItem THEN ShelfItems(r) = {} ELSE i \in ShelfItems(r)
      BY DEF FindFirst, ShelfItems, ItemsOf, CirculationAssumption
    <2>2. sess'[s] = [Arrive(op, "duplicate") EXCEPT !.record = r, !.patron = p, !.item = i]
      BY <1>q, <2>1
    <2>3. /\ sess'[s].op = op /\ sess'[s].pc = "duplicate" /\ sess'[s].record = r
          /\ sess'[s].patron = p /\ sess'[s].item = i
      BY <2>2 DEF Arrive, Idle
    <2>4. HoldReads(s)'
      BY <1>v, <2>a, <2>b, <2>3 DEF HoldReads, After
    <2>5. Reads(s)'
      BY <2>3, <2>4 DEF Reads, CheckoutReads, ClosingReads, RenewReads, CancelReads, ExpireReads
    <2>6. QED
      BY <2>1, <2>a, <2>5
  <1>6. ASSUME NEW h \in HoldIds, NEW op \in {"cancel", "cancelOnline"}, CancelRead(s, h, op)
        PROVE  UNCHANGED db /\ Reads(s)' /\ \E o, q : Begin(s, o) /\ Enter(s, q)
    <2>1. /\ UNCHANGED db /\ Begin(s, op) /\ ActiveHold(h)
          /\ Enter(s, [Arrive(op, "cancel") EXCEPT !.hold = h, !.record = holds[h].record,
                                                  !.seen = holds[h].status])
      BY <1>6 DEF CancelRead
    <2>a. /\ h \in HoldsIn(holds[h].record, holds[h].status) /\ holds[h].record \in Records
          /\ holds[h].status \in ACTIVE_HOLD_STATUSES
      BY <1>q, <2>1 DEF HoldsPart, HoldRows, ActiveHold, ACTIVE_HOLD_STATUSES, HoldsIn
    <2>2. sess'[s] = [Arrive(op, "cancel") EXCEPT !.hold = h, !.record = holds[h].record,
                                                  !.seen = holds[h].status]
      BY <1>q, <2>1
    <2>3. /\ sess'[s].op = op /\ sess'[s].pc = "cancel" /\ sess'[s].hold = h
          /\ sess'[s].record = holds[h].record /\ sess'[s].seen = holds[h].status
          /\ sess'[s].next = 0
      BY <2>2 DEF Arrive, Idle
    <2>4. CancelReads(s)'
      BY <1>v, <2>1, <2>a, <2>3 DEF CancelReads
    <2>5. Reads(s)'
      BY <2>3, <2>4 DEF Reads, CheckoutReads, ClosingReads, RenewReads, HoldReads, ExpireReads
    <2>6. QED
      BY <2>1, <2>5
  <1>7. CASE ExpireFind(s)
    <2>1. /\ UNCHANGED db /\ Begin(s, "expire")
          /\ Enter(s, [Arrive("expire", "each") EXCEPT !.todo = StaleHolds])
      BY <1>7 DEF ExpireFind
    <2>2. sess'[s] = [Arrive("expire", "each") EXCEPT !.todo = StaleHolds]
      BY <1>q, <2>1
    <2>3. sess'[s].op = "expire" /\ sess'[s].pc = "each"
      BY <2>2 DEF Arrive, Idle
    <2>4. QED
      BY <2>1, <2>3, RestReads
  <1>8. QED
    BY <1>1, <1>2, <1>3, <1>4, <1>5, <1>6, <1>7 DEF Arrivals

-----------------------------------------------------------------------------
(* Statements that write *)

LEMMA ShelfWritten ==
    ASSUME TypeOK, NEW i \in Items, NEW st, status' = [status EXCEPT ![i] = st]
    PROVE  Shelved(i, st)
  BY DEF TypeOK, Shelved

\* The loans are not touched and no copy goes out or comes in.
LEMMA OnlyHolds ==
    ASSUME DeskPart, UNCHANGED loans,
           \A i \in Items : status'[i] = "CHECKED_OUT" <=> status[i] = "CHECKED_OUT",
           HoldsPart', \A r \in Records : IsFiniteSet(HeldItems(r)')
    PROVE  DeskPart'
  <1>1. LoansPart'
    BY LoansSame DEF DeskPart
  <1>2. \A p \in Patrons : IsFiniteSet(OpenLoansOf(p)')
    BY DEF DeskPart, FiniteCounts, OpenLoansOf, OpenLoan
  <1>3. QED
    BY <1>1, <1>2 DEF DeskPart, FiniteCounts

\* A checkout: the copy is as it was read, on the shelf or set aside for this reader.
LEMMA CheckoutWrites ==
    ASSUME CirculationAssumption, SerialInv, NEW s \in Procs, CheckoutCommit(s)
    PROVE  DeskPart' /\ Reads(s)'
  <1> DEFINE q == sess[s]
             i == q.item
  <1>1. /\ q.op = "checkout" /\ q.pc = "commit" /\ Reads(s) /\ TypeOK
        /\ LoansPart /\ HoldsPart /\ FiniteCounts
    BY DEF SerialInv, DeskPart, CheckoutCommit, At
  <1>2. /\ i \in Items /\ q.patron \in Patrons /\ q.seen = status[i] /\ UnderCap(q.patron)
        /\ q.seen \in {"AVAILABLE", "ON_HOLD"}
        /\ IF q.seen = "AVAILABLE" THEN q.hold = 0
           ELSE q.hold \in HoldsIn(RecordOf[i], "AVAILABLE") /\ holds[q.hold].patron = q.patron
    BY <1>1 DEF Reads, CheckoutReads
  <1>3. status' = [status EXCEPT ![i] = "CHECKED_OUT"]
    BY <1>2 DEF CheckoutCommit, ItemAsRead
  <1>4. PICK l \in LoanIds :
           /\ FreshLoan(l)
           /\ loans' = [loans EXCEPT ![l] =
                 [state |-> "open", item |-> i, patron |-> q.patron,
                  due |-> q.now + LoanDays, renewals |-> 0, fine |-> 0]]
    BY <1>2 DEF CheckoutCommit, ItemAsRead
  <1>5. holds' = IF q.hold = 0 THEN holds ELSE [holds EXCEPT ![q.hold].status = "FULFILLED"]
    BY <1>2 DEF CheckoutCommit, ItemAsRead
  <1>6. Shelved(i, "CHECKED_OUT")
    BY <1>1, <1>2, <1>3, ShelfWritten
  <1>7. /\ loans[l].state = "unused" /\ loans'[l].state = "open" /\ loans'[l].item = i
        /\ loans'[l].patron = q.patron /\ loans'[l].renewals = 0
        /\ \A k \in LoanIds \ {l} : loans'[k] = loans[k]
    BY <1>1, <1>4 DEF FreshLoan, TypeOK
  <1>8. LoansPart' /\ \A p \in Patrons : IsFiniteSet(OpenLoansOf(p)')
    BY <1>1, <1>2, <1>6, <1>7, LoansLent
  <1>9. HoldsPart' /\ \A r \in Records : IsFiniteSet(HeldItems(r)')
    <2>1. CASE q.seen = "AVAILABLE"
      <3>1. holds' = holds /\ status[i] # "ON_HOLD"
        BY <1>2, <1>5, <2>1
      <3>2. \A g \in HoldIds : Stays(g)
        BY <3>1 DEF Stays, Becomes
      <3>3. QED
        BY <1>1, <1>2, <1>6, <3>1, <3>2, HoldsOut
    <2>2. CASE q.seen = "ON_HOLD"
      <3>1. q.hold \in HoldsIn(RecordOf[i], "AVAILABLE") /\ q.hold \in HoldIds /\ q.hold # 0
        BY <1>2, <2>2 DEF HoldsIn, CirculationAssumption
      <3>2. holds' = [holds EXCEPT ![q.hold].status = "FULFILLED"]
        BY <1>5, <3>1
      <3>3. Becomes(q.hold, "FULFILLED") /\ \A g \in HoldIds \ {q.hold} : Stays(g)
        BY <1>1, <3>1, <3>2 DEF Becomes, Stays, TypeOK, Hold
      <3>4. QED
        BY <1>1, <1>2, <1>6, <2>2, <3>1, <3>3, HoldsCollected
    <2>3. QED
      BY <1>2, <2>1, <2>2
  <1>10. sess'[s].op = "idle" /\ sess'[s].pc = "idle"
    BY <1>1 DEF CheckoutCommit, Done, Enter, Idle, TypeOK
  <1>11. QED
    BY <1>8, <1>9, <1>10, RestReads DEF DeskPart, FiniteCounts

\* A return: the copy goes to the reader who waits, or to the shelf when nobody does.
LEMMA ReturnWrites ==
    ASSUME CirculationAssumption, SerialInv, NEW s \in Procs, ReturnCommit(s)
    PROVE  DeskPart' /\ Reads(s)'
  <1> DEFINE q == sess[s]
             i == q.item
  <1>1. /\ q \in Request /\ q.op = "return" /\ q.pc = "commit" /\ Reads(s) /\ TypeOK
        /\ LoansPart /\ HoldsPart /\ FiniteCounts
    BY DEF SerialInv, DeskPart, ReturnCommit, At, TypeOK
  <1>2. /\ q.loan \in LoanIds /\ OpenLoan(q.loan) /\ i = loans[q.loan].item
        /\ NextRead(s, RecordOf[i])
    BY <1>1 DEF Reads, ClosingReads
  <1>3. i \in Items /\ status[i] = "CHECKED_OUT"
    BY <1>1, <1>2 DEF LoansPart, LentRows, LoansInOrder, OpenLoanCheckedOut, OpenLoan
  <1>4. loans' = Closed(q.loan, "rendu", q.num)
    BY <1>2 DEF ReturnCommit, StillOpen
  <1>5. /\ loans'[q.loan].state \in {"rendu", "perte"} /\ loans'[q.loan].item = i
        /\ loans'[q.loan].patron = loans[q.loan].patron
        /\ loans'[q.loan].renewals = loans[q.loan].renewals
        /\ \A k \in LoanIds \ {q.loan} : loans'[k] = loans[k]
    BY <1>1, <1>2, <1>4 DEF Closed, TypeOK, Loan
  <1>6. CASE q.next # 0
    <2>1. /\ holds' = Ready(q.next, q.now + DeskPickupDays)
          /\ status' = [status EXCEPT ![i] = "ON_HOLD"] /\ Goto(s, "notify")
      BY <1>2, <1>6 DEF ReturnCommit, StillOpen
    <2>2. q.next \in HoldsIn(RecordOf[i], "PENDING") /\ q.next \in HoldIds
      BY <1>2, <1>6 DEF NextRead, HoldsIn
    <2>3. Shelved(i, "ON_HOLD")
      BY <1>1, <1>3, <2>1, ShelfWritten
    <2>4. Becomes(q.next, "AVAILABLE") /\ \A g \in HoldIds \ {q.next} : Stays(g)
      BY <1>1, <2>1, <2>2 DEF Ready, Becomes, Stays, TypeOK, Hold
    <2>5. HoldsPart' /\ \A r \in Records : IsFiniteSet(HeldItems(r)')
      BY <1>1, <1>3, <2>2, <2>3, <2>4, HoldsPromoted
    <2>6. LoansPart' /\ \A p \in Patrons : IsFiniteSet(OpenLoansOf(p)')
      BY <1>1, <1>2, <1>5, <2>3, LoansClosed
    <2>7. sess'[s].op = "return" /\ sess'[s].pc = "notify"
      BY <1>1, <2>1 DEF Goto, Enter, TypeOK, Request
    <2>8. QED
      BY <2>5, <2>6, <2>7, RestReads DEF DeskPart, FiniteCounts, After
  <1>7. CASE q.next = 0
    <2>1. holds' = holds /\ status' = [status EXCEPT ![i] = "AVAILABLE"] /\ Done(s)
      BY <1>2, <1>7 DEF ReturnCommit, StillOpen
    <2>2. HoldsIn(RecordOf[i], "PENDING") = {}
      BY <1>2, <1>7 DEF NextRead
    <2>3. Shelved(i, "AVAILABLE")
      BY <1>1, <1>3, <2>1, ShelfWritten
    <2>4. \A g \in HoldIds : Stays(g)
      BY <2>1 DEF Stays, Becomes
    <2>5. HoldsPart' /\ \A r \in Records : IsFiniteSet(HeldItems(r)')
      BY <1>1, <1>3, <2>2, <2>3, <2>4, HoldsBack
    <2>6. LoansPart' /\ \A p \in Patrons : IsFiniteSet(OpenLoansOf(p)')
      BY <1>1, <1>2, <1>5, <2>3, LoansClosed
    <2>7. sess'[s].op = "idle" /\ sess'[s].pc = "idle"
      BY <1>1, <2>1 DEF Done, Enter, Idle, TypeOK
    <2>8. QED
      BY <2>5, <2>6, <2>7, RestReads DEF DeskPart, FiniteCounts
  <1>8. QED
    BY <1>6, <1>7

\* A loss: the copy leaves the collection.
LEMMA PerteWrites ==
    ASSUME CirculationAssumption, SerialInv, NEW s \in Procs, PerteCommit(s)
    PROVE  DeskPart' /\ Reads(s)'
  <1> DEFINE q == sess[s]
             i == q.item
  <1>1. /\ q.op = "perte" /\ q.pc = "commit" /\ Reads(s) /\ TypeOK
        /\ LoansPart /\ HoldsPart /\ FiniteCounts
    BY DEF SerialInv, DeskPart, PerteCommit, At
  <1>2. q.loan \in LoanIds /\ OpenLoan(q.loan) /\ i = loans[q.loan].item
    BY <1>1 DEF Reads, ClosingReads
  <1>3. i \in Items /\ status[i] = "CHECKED_OUT"
    BY <1>1, <1>2 DEF LoansPart, LentRows, LoansInOrder, OpenLoanCheckedOut, OpenLoan
  <1>4. /\ loans' = Closed(q.loan, "perte", q.num) /\ status' = [status EXCEPT ![i] = "LOST"]
        /\ holds' = holds
    BY <1>2 DEF PerteCommit, StillOpen
  <1>5. /\ loans'[q.loan].state \in {"rendu", "perte"} /\ loans'[q.loan].item = i
        /\ loans'[q.loan].patron = loans[q.loan].patron
        /\ loans'[q.loan].renewals = loans[q.loan].renewals
        /\ \A k \in LoanIds \ {q.loan} : loans'[k] = loans[k]
    BY <1>1, <1>2, <1>4 DEF Closed, TypeOK, Loan
  <1>6. Shelved(i, "LOST")
    BY <1>1, <1>3, <1>4, ShelfWritten
  <1>7. \A g \in HoldIds : Stays(g)
    BY <1>4 DEF Stays, Becomes
  <1>8. HoldsPart' /\ \A r \in Records : IsFiniteSet(HeldItems(r)')
    BY <1>1, <1>3, <1>6, <1>7, HoldsOut
  <1>9. LoansPart' /\ \A p \in Patrons : IsFiniteSet(OpenLoansOf(p)')
    BY <1>1, <1>2, <1>5, <1>6, LoansClosed
  <1>10. sess'[s].op = "idle" /\ sess'[s].pc = "idle"
    BY <1>1 DEF PerteCommit, Done, Enter, Idle, TypeOK
  <1>11. QED
    BY <1>8, <1>9, <1>10, RestReads DEF DeskPart, FiniteCounts

LEMMA RenewWrites ==
    ASSUME CirculationAssumption, SerialInv, NEW s \in Procs, RenewCommit(s)
    PROVE  DeskPart' /\ Reads(s)'
  <1> DEFINE q == sess[s]
  <1>1. /\ q \in Request /\ q.op \in {"renew", "renewOnline"} /\ Reads(s) /\ TypeOK
        /\ LoansPart /\ HoldsPart /\ FiniteCounts
    BY DEF SerialInv, DeskPart, RenewCommit, At, TypeOK
  <1>2. q.loan \in LoanIds /\ q.num < RenewalLimit(q.op) /\ q.num \in Nat
    BY <1>1 DEF Reads, RenewReads, Request
  <1>3. loans' = [loans EXCEPT ![q.loan].due = q.now + RenewalDays(q.op),
                               ![q.loan].renewals = q.num + 1]
    BY DEF RenewCommit
  <1>4. /\ \A k \in LoanIds : LoanStays(k)
        /\ loans'[q.loan].renewals = q.num + 1
        /\ \A k \in LoanIds \ {q.loan} : loans'[k].renewals = loans[k].renewals
    BY <1>1, <1>2, <1>3 DEF LoanStays, TypeOK, Loan
  <1>5. loans'[q.loan].renewals <= MaxRenewals \/ loans'[q.loan].renewals <= OnlineMax
    BY <1>2, <1>4 DEF RenewalLimit, CirculationAssumption
  <1>6. UNCHANGED <<status, holds>>
    BY DEF RenewCommit
  <1>7. LoansPart' /\ \A p \in Patrons : IsFiniteSet(OpenLoansOf(p)')
    BY <1>1, <1>2, <1>4, <1>5, <1>6, LoansRenewed
  <1>8. \A g \in HoldIds : Stays(g)
    BY <1>6 DEF Stays, Becomes
  <1>9. HoldsPart'
    BY <1>1, <1>6, <1>8, HoldsSame
  <1>10. \A r \in Records : IsFiniteSet(HeldItems(r)')
    BY <1>1, <1>6 DEF FiniteCounts, HeldItems, ItemsOf
  <1>11. sess'[s].op = "idle" /\ sess'[s].pc = "idle"
    BY <1>1 DEF RenewCommit, Done, Enter, Idle, TypeOK
  <1>12. QED
    BY <1>7, <1>9, <1>10, <1>11, RestReads DEF DeskPart, FiniteCounts

\* A hold on a record with a copy on the shelf: the copy is set aside.
LEMMA HoldReadyWrites ==
    ASSUME CirculationAssumption, SerialInv, NEW s \in Procs, HoldReadyCommit(s)
    PROVE  DeskPart' /\ Reads(s)'
  <1> DEFINE q == sess[s]
             i == q.item
  <1>1. /\ q \in Request /\ q.op \in {"hold", "holdOnline"} /\ q.pc = "commitReady"
        /\ Reads(s) /\ TypeOK /\ DeskPart /\ HoldsPart /\ FiniteCounts
    BY DEF SerialInv, DeskPart, HoldReadyCommit, At, TypeOK
  <1>2. /\ q.record \in Records /\ q.patron \in Patrons /\ i \in ShelfItems(q.record)
        /\ ~Duplicate(q.record, q.patron)
    BY <1>1 DEF Reads, HoldReads, After
  <1>3. i \in Items /\ RecordOf[i] = q.record /\ status[i] = "AVAILABLE"
    BY <1>2 DEF ShelfItems, ItemsOf
  <1>4. PICK h \in HoldIds :
           /\ FreshHold(h)
           /\ holds' = [holds EXCEPT ![h] =
                 [status |-> "AVAILABLE", record |-> q.record, patron |-> q.patron,
                  priority |-> 0, expiry |-> q.now + PickupDaysOf(q.op), notified |-> FALSE]]
    BY DEF HoldReadyCommit
  <1>5. status' = [status EXCEPT ![i] = "ON_HOLD"] /\ loans' = loans
    BY DEF HoldReadyCommit
  <1>6. Shelved(i, "ON_HOLD")
    BY <1>1, <1>3, <1>5, ShelfWritten
  <1>7. /\ holds[h].status = "unused" /\ holds'[h].status = "AVAILABLE"
        /\ holds'[h].record = q.record /\ holds'[h].patron = q.patron
        /\ \A g \in HoldIds \ {h} : Stays(g)
    BY <1>1, <1>4 DEF FreshHold, Stays, Becomes, TypeOK
  <1>8. HoldRows' /\ OneHoldPerReader'
    BY <1>1, <1>2, <1>7, HoldsNew DEF ACTIVE_HOLD_STATUSES
  <1>9. /\ NobodyWaitsBesideTheShelf' /\ EveryReadyHoldHasItsCopy'
        /\ \A r \in Records : IsFiniteSet(HeldItems(r)')
    BY <1>1, <1>3, <1>6, <1>7, HoldsServed
  <1>10. \A j \in Items : status'[j] = "CHECKED_OUT" <=> status[j] = "CHECKED_OUT"
    BY <1>3, <1>6 DEF Shelved
  <1>11. DeskPart'
    BY <1>1, <1>5, <1>8, <1>9, <1>10, OnlyHolds DEF HoldsPart
  <1>12. CASE q.op = "holdOnline"
    <2>1. Goto(s, "notify")
      BY <1>12 DEF HoldReadyCommit
    <2>2. sess'[s].op = "holdOnline" /\ sess'[s].pc = "notify"
      BY <1>1, <1>12, <2>1 DEF Goto, Enter, TypeOK, Request
    <2>3. QED
      BY <1>11, <2>2, RestReads DEF After
  <1>13. CASE q.op # "holdOnline"
    <2>1. sess'[s].op = "idle" /\ sess'[s].pc = "idle"
      BY <1>1, <1>13 DEF HoldReadyCommit, Done, Enter, Idle, TypeOK
    <2>2. QED
      BY <1>11, <2>1, RestReads
  <1>14. QED
    BY <1>12, <1>13

\* A hold on a record with no copy on the shelf: the reader waits.
LEMMA HoldPendingWrites ==
    ASSUME CirculationAssumption, SerialInv, NEW s \in Procs, HoldPendingCommit(s)
    PROVE  DeskPart' /\ Reads(s)'
  <1> DEFINE q == sess[s]
  <1>1. /\ q.op \in {"hold", "holdOnline"} /\ q.pc = "commitPending"
        /\ Reads(s) /\ TypeOK /\ DeskPart /\ HoldsPart /\ FiniteCounts
    BY DEF SerialInv, DeskPart, HoldPendingCommit, At, TypeOK
  <1>2. /\ q.record \in Records /\ q.patron \in Patrons /\ ShelfItems(q.record) = {}
        /\ ~Duplicate(q.record, q.patron)
    BY <1>1 DEF Reads, HoldReads, After
  <1>3. PICK h \in HoldIds :
           /\ FreshHold(h)
           /\ holds' = [holds EXCEPT ![h] =
                 [status |-> "PENDING", record |-> q.record, patron |-> q.patron,
                  priority |-> q.num + 1, expiry |-> 0, notified |-> FALSE]]
    BY DEF HoldPendingCommit
  <1>4. UNCHANGED <<status, loans>>
    BY DEF HoldPendingCommit
  <1>5. /\ holds[h].status = "unused" /\ holds'[h].status = "PENDING"
        /\ holds'[h].record = q.record /\ holds'[h].patron = q.patron
        /\ \A g \in HoldIds \ {h} : Stays(g)
    BY <1>1, <1>3 DEF FreshHold, Stays, Becomes, TypeOK
  <1>6. HoldsPart'
    BY <1>1, <1>2, <1>4, <1>5, HoldsWaits
  <1>7. \A r \in Records : IsFiniteSet(HeldItems(r)')
    BY <1>1, <1>4 DEF FiniteCounts, HeldItems, ItemsOf
  <1>8. DeskPart'
    BY <1>1, <1>4, <1>6, <1>7, OnlyHolds
  <1>9. sess'[s].op = "idle" /\ sess'[s].pc = "idle"
    BY <1>1 DEF HoldPendingCommit, Done, Enter, Idle, TypeOK
  <1>10. QED
    BY <1>8, <1>9, RestReads

LEMMA AfterCancelReads ==
    ASSUME TypeOK, NEW s \in Procs, sess[s].op \in {"cancel", "cancelOnline"}, AfterCancel(s)
    PROVE  Reads(s)'
  <1>1. CASE sess[s].op = "cancelOnline"
    <2>1. sess'[s].op = "cancelOnline" /\ sess'[s].pc = "notify"
      BY <1>1 DEF AfterCancel, Goto, Enter, TypeOK, Request
    <2>2. QED
      BY <2>1, RestReads DEF After
  <1>2. CASE sess[s].op # "cancelOnline"
    <2>1. sess'[s].op = "idle" /\ sess'[s].pc = "idle"
      BY <1>2 DEF AfterCancel, Done, Enter, Idle, TypeOK
    <2>2. QED
      BY <2>1, RestReads
  <1>3. QED
    BY <1>1, <1>2

LEMMA CancelPendingWrites ==
    ASSUME CirculationAssumption, SerialInv, NEW s \in Procs, CancelPending(s)
    PROVE  DeskPart' /\ Reads(s)'
  <1> DEFINE h == sess[s].hold
  <1>1. /\ sess[s].op \in {"cancel", "cancelOnline"} /\ sess[s].pc = "cancel"
        /\ Reads(s) /\ TypeOK /\ DeskPart /\ HoldsPart /\ FiniteCounts
    BY DEF SerialInv, DeskPart, CancelPending, At, TypeOK
  <1>2. h \in HoldIds /\ holds[h].status = "PENDING"
    BY <1>1 DEF Reads, CancelReads, CancelPending, HoldsIn
  <1>3. holds' = [holds EXCEPT ![h].status = "CANCELLED"] /\ UNCHANGED <<status, loans>>
    BY DEF CancelPending, Cancelled
  <1>4. Becomes(h, "CANCELLED") /\ \A g \in HoldIds \ {h} : Stays(g)
    BY <1>1, <1>2, <1>3 DEF Stays, Becomes, TypeOK, Hold
  <1>5. HoldsPart'
    BY <1>1, <1>2, <1>3, <1>4, HoldsGivenUp
  <1>6. \A r \in Records : IsFiniteSet(HeldItems(r)')
    BY <1>1, <1>3 DEF FiniteCounts, HeldItems, ItemsOf
  <1>7. DeskPart'
    BY <1>1, <1>3, <1>5, <1>6, OnlyHolds
  <1>8. QED
    BY <1>1, <1>7, AfterCancelReads DEF CancelPending

\* A ready hold ends, cancelled or expired: its copy goes to the reader who waits, or
\* to the shelf when nobody does.
LEMMA PassOnWrites ==
    ASSUME CirculationAssumption, DeskPart, TypeOK, NEW s \in Procs, sess[s].pc = "txCommit",
           EndingReads(s), NEW how \in {"CANCELLED", "EXPIRED"}, NEW until, NEW again,
           PassOn(sess[s].hold, how, sess[s].next, sess[s].item, until, again), UNCHANGED loans
    PROVE  DeskPart'
  <1> DEFINE q == sess[s]
             h == q.hold
             n == q.next
             r == q.record
             i == q.item
  <1>1. /\ h \in HoldsIn(r, "AVAILABLE") /\ h \in HoldIds /\ r \in Records /\ NextRead(s, r)
        /\ HoldsPart /\ FiniteCounts
    BY DEF EndingReads, HoldsIn, DeskPart
  <1>2. \A g \in HoldIds : /\ holds[g] \in Hold
                           /\ holds'[g] = IF g = n
                                  THEN [holds[g] EXCEPT !.status = "AVAILABLE", !.expiry = until,
                                                        !.notified = @ /\ ~again]
                                  ELSE IF g = h THEN [holds[g] EXCEPT !.status = how] ELSE holds[g]
    BY DEF PassOn, TypeOK
  <1>3. CASE n # 0
    <2>1. n \in HoldsIn(r, "PENDING") /\ n \in HoldIds /\ n # h
      BY <1>1, <1>3 DEF NextRead, HoldsIn
    <2>2. status' = status
      BY <1>3 DEF PassOn
    <2>a. /\ holds[n] \in Hold
          /\ holds'[n] = [holds[n] EXCEPT !.status = "AVAILABLE", !.expiry = until,
                                          !.notified = @ /\ ~again]
      BY <1>2, <2>1
    <2>3. Becomes(n, "AVAILABLE")
      BY <2>a DEF Becomes, Hold
    <2>b. holds[h] \in Hold /\ holds'[h] = [holds[h] EXCEPT !.status = how]
      BY <1>1, <1>2, <2>1
    <2>4. Becomes(h, how)
      BY <2>b DEF Becomes, Hold
    <2>5. \A g \in HoldIds \ {h, n} : Stays(g)
      BY <1>2 DEF Stays, Becomes
    <2>6. HoldsPart'
      BY <1>1, <2>1, <2>2, <2>3, <2>4, <2>5, HoldsPassedOn
    <2>7. \A x \in Records : IsFiniteSet(HeldItems(x)')
      BY <1>1, <2>2 DEF FiniteCounts, HeldItems, ItemsOf
    <2>8. QED
      BY <2>2, <2>6, <2>7, OnlyHolds
  <1>4. CASE n = 0
    <2>1. HoldsIn(r, "PENDING") = {} /\ i \in HeldItems(r) /\ n \notin HoldIds
      BY <1>1, <1>4 DEF NextRead, EndingReads, CirculationAssumption
    <2>2. i \in Items /\ i # NoItem /\ RecordOf[i] = r /\ status[i] = "ON_HOLD"
      BY <2>1 DEF HeldItems, ItemsOf, CirculationAssumption
    <2>3. status' = [status EXCEPT ![i] = "AVAILABLE"]
      BY <1>4, <2>2 DEF PassOn
    <2>4. Shelved(i, "AVAILABLE")
      BY <2>2, <2>3, ShelfWritten
    <2>b. holds[h] \in Hold /\ holds'[h] = [holds[h] EXCEPT !.status = how]
      BY <1>1, <1>2, <2>1
    <2>5. Becomes(h, how)
      BY <2>b DEF Becomes, Hold
    <2>6. \A g \in HoldIds \ {h} : Stays(g)
      BY <1>2, <2>1 DEF Stays, Becomes
    <2>7. HoldsPart' /\ \A x \in Records : IsFiniteSet(HeldItems(x)')
      BY <1>1, <2>1, <2>2, <2>4, <2>5, <2>6, HoldsReleased
    <2>8. \A j \in Items : status'[j] = "CHECKED_OUT" <=> status[j] = "CHECKED_OUT"
      BY <2>2, <2>4 DEF Shelved
    <2>9. QED
      BY <2>7, <2>8, OnlyHolds
  <1>5. QED
    BY <1>3, <1>4

LEMMA CancelWrites ==
    ASSUME CirculationAssumption, SerialInv, NEW s \in Procs, CancelCommit(s)
    PROVE  DeskPart' /\ Reads(s)'
  <1>1. /\ sess[s].op \in {"cancel", "cancelOnline"} /\ sess[s].pc = "txCommit"
        /\ Reads(s) /\ TypeOK /\ DeskPart
    BY DEF SerialInv, CancelCommit, At
  <1>2. EndingReads(s)
    BY <1>1 DEF Reads, CancelReads
  <1>3. /\ PassOn(sess[s].hold, "CANCELLED", sess[s].next, sess[s].item,
                  sess[s].now + DeskPickupDays, FALSE)
        /\ UNCHANGED loans /\ AfterCancel(s)
    BY DEF CancelCommit
  <1>4. DeskPart'
    BY <1>1, <1>2, <1>3, PassOnWrites
  <1>5. QED
    BY <1>1, <1>3, <1>4, AfterCancelReads

LEMMA ExpireWrites ==
    ASSUME CirculationAssumption, SerialInv, NEW s \in Procs, ExpireCommit(s)
    PROVE  DeskPart' /\ Reads(s)'
  <1>1. sess[s].op = "expire" /\ sess[s].pc = "txCommit" /\ Reads(s) /\ TypeOK /\ DeskPart
    BY DEF SerialInv, ExpireCommit, At
  <1>2. EndingReads(s)
    BY <1>1 DEF Reads, ExpireReads
  <1>3. /\ PassOn(sess[s].hold, "EXPIRED", sess[s].next, sess[s].item,
                  sess[s].now + PickupDays, TRUE)
        /\ UNCHANGED loans
    BY DEF ExpireCommit
  <1>4. DeskPart'
    BY <1>1, <1>2, <1>3, PassOnWrites
  <1>5. sess'[s].op = "expire" /\ sess'[s].pc = "each"
    BY <1>1 DEF ExpireCommit, Enter, Arrive, Idle, TypeOK
  <1>6. QED
    BY <1>4, <1>5, RestReads

\* Telling the readers touches no copy, no loan and no status of a hold.
LEMMA NotifyKeeps ==
    ASSUME TypeOK, NEW s \in Procs,
           \/ \E h \in HoldIds : NotifyClaim(s, h)
           \/ \E outcome \in {"sent", "refused", "sentThenError"} : NotifySend(s, outcome)
    PROVE  UNCHANGED <<status, loans>> /\ \A g \in HoldIds : Stays(g)
  <1>1. UNCHANGED <<status, loans>>
    BY DEF NotifyClaim, NotifySend
  <1>2. PICK h, b : holds' = holds \/ holds' = [holds EXCEPT ![h].notified = b]
    BY DEF NotifyClaim, NotifySend, Released
  <1>3. \A g \in HoldIds : Stays(g)
    BY <1>2 DEF Stays, Becomes, TypeOK, Hold
  <1>4. QED
    BY <1>1, <1>3

LEMMA NotifyWrites ==
    ASSUME CirculationAssumption, SerialInv, NEW s \in Procs,
           \/ \E h \in HoldIds : NotifyClaim(s, h)
           \/ \E outcome \in {"sent", "refused", "sentThenError"} : NotifySend(s, outcome)
    PROVE  DeskPart' /\ Reads(s)'
  <1>1. /\ sess[s] \in Request /\ Reads(s) /\ TypeOK /\ DeskPart /\ HoldsPart /\ FiniteCounts
        /\ sess[s].pc \in {"claim", "send"}
    BY DEF SerialInv, DeskPart, NotifyClaim, NotifySend, TypeOK
  <1>2. UNCHANGED <<status, loans>> /\ \A g \in HoldIds : Stays(g)
    BY <1>1, NotifyKeeps
  <1>3. sess'[s].op = sess[s].op /\ sess'[s].pc \in {"claim", "send"}
    <2>1. ASSUME NEW h \in HoldIds, NotifyClaim(s, h)
          PROVE  sess'[s].op = sess[s].op /\ sess'[s].pc \in {"claim", "send"}
      <3>1. sess[s].pc = "claim"
        BY <2>1 DEF NotifyClaim
      <3>2. \/ sess'[s] = [sess[s] EXCEPT !.todo = @ \ {h}, !.hold = h, !.pc = "send"]
            \/ sess'[s] = [sess[s] EXCEPT !.todo = @ \ {h}]
        BY <1>1, <2>1 DEF NotifyClaim, Enter, TypeOK
      <3>3. QED
        BY ZenonT(60), <1>1, <3>1, <3>2 DEF Request
    <2>2. ASSUME NEW outcome, NotifySend(s, outcome)
          PROVE  sess'[s].op = sess[s].op /\ sess'[s].pc \in {"claim", "send"}
      <3>1. sess'[s] = [sess[s] EXCEPT !.pc = "claim", !.hold = 0]
        BY <1>1, <2>2 DEF NotifySend, Enter, TypeOK
      <3>2. QED
        BY <1>1, <3>1 DEF Request
    <2>3. QED
      BY <2>1, <2>2
  <1>4. HoldsPart'
    BY <1>1, <1>2, HoldsSame
  <1>5. \A r \in Records : IsFiniteSet(HeldItems(r)')
    BY <1>1, <1>2 DEF FiniteCounts, HeldItems, ItemsOf
  <1>6. DeskPart'
    BY <1>1, <1>2, <1>4, <1>5, OnlyHolds
  <1>7. sess[s].op \in {"return", "hold", "holdOnline", "cancel", "cancelOnline", "expire"}
    BY <1>1, Tellers DEF After
  <1>8. Reads(s)'
    BY <1>3, <1>7, RestReads DEF After
  <1>9. QED
    BY <1>6, <1>8

-----------------------------------------------------------------------------
(* The desk stays in order *)

LEMMA StepMoves ==
    ASSUME NEW s \in Procs, Reads(s), Step(s)
    PROVE  sess[s].op # "idle" /\ \E q : Enter(s, q)
  <1>1. sess[s].op # "idle"
    BY DEF Step, At, Reads, CheckoutCount, CheckoutReady, CheckoutCommit, ReturnNext,
       ReturnCommit, PerteCommit, RenewHolds, RenewCommit, HoldDuplicate, HoldReadyCommit,
       HoldCount, HoldPendingCommit, CancelPending, CancelLock, CancelNext, CancelCommit,
       ExpireHeld, ExpireCommit, ExpireEnd, ExpireLock, NotifyClaim, NotifySend, NotifyFind,
       NotifyEnd
  <1>2. CASE CheckoutCount(s) \/ CheckoutReady(s) \/ CheckoutCommit(s) \/ ReturnNext(s)
             \/ ReturnCommit(s) \/ PerteCommit(s) \/ RenewHolds(s) \/ RenewCommit(s)
    BY <1>1, <1>2 DEF Done, Goto, CheckoutCount, CheckoutReady, CheckoutCommit, ReturnNext,
       ReturnCommit, PerteCommit, RenewHolds, RenewCommit
  <1>3. CASE HoldDuplicate(s) \/ HoldReadyCommit(s) \/ HoldCount(s) \/ HoldPendingCommit(s)
             \/ CancelPending(s) \/ CancelLock(s) \/ CancelNext(s) \/ CancelCommit(s)
    BY <1>1, <1>3 DEF Done, Goto, AfterCancel, HoldDuplicate, HoldReadyCommit, HoldCount,
       HoldPendingCommit, CancelPending, CancelLock, CancelNext, CancelCommit
  <1>4. CASE \/ ExpireHeld(s) \/ ExpireCommit(s) \/ ExpireEnd(s) \/ NotifyFind(s) \/ NotifyEnd(s)
             \/ \E h \in HoldIds : ExpireLock(s, h) \/ NotifyClaim(s, h)
             \/ \E outcome \in {"sent", "refused", "sentThenError"} : NotifySend(s, outcome)
    BY <1>1, <1>4 DEF Done, Goto, ExpireHeld, ExpireCommit, ExpireEnd, ExpireLock, NotifyClaim,
       NotifySend, NotifyFind, NotifyEnd
  <1>5. QED
    BY <1>2, <1>3, <1>4 DEF Step

LEMMA SerialStep ==
    ASSUME CirculationAssumption, SerialInv, NEW s \in Procs, Step(s)
    PROVE  DeskPart' /\ Reads(s)'
  <1>1. CASE \/ CheckoutCount(s) \/ CheckoutReady(s) \/ ReturnNext(s) \/ RenewHolds(s)
             \/ HoldDuplicate(s) \/ HoldCount(s) \/ CancelLock(s) \/ CancelNext(s)
             \/ ExpireHeld(s) \/ ExpireEnd(s) \/ NotifyFind(s) \/ NotifyEnd(s)
             \/ \E h \in HoldIds : ExpireLock(s, h)
    <2>1. UNCHANGED db /\ Reads(s)'
      BY <1>1, ReadStep
    <2>2. QED
      BY <2>1, DeskSame DEF SerialInv
  <1>2. CASE \/ CheckoutCommit(s) \/ ReturnCommit(s) \/ PerteCommit(s) \/ RenewCommit(s)
             \/ HoldReadyCommit(s) \/ HoldPendingCommit(s) \/ CancelPending(s)
             \/ CancelCommit(s) \/ ExpireCommit(s)
    BY <1>2, CheckoutWrites, ReturnWrites, PerteWrites, RenewWrites, HoldReadyWrites,
       HoldPendingWrites, CancelPendingWrites, CancelWrites, ExpireWrites
  <1>3. CASE \/ \E h \in HoldIds : NotifyClaim(s, h)
             \/ \E outcome \in {"sent", "refused", "sentThenError"} : NotifySend(s, outcome)
    BY <1>3, NotifyWrites
  <1>4. QED
    BY <1>1, <1>2, <1>3 DEF Step

\* A step that moves no request and writes no row.
LEMMA SerialRest ==
    ASSUME SerialInv, UNCHANGED <<db, sess>>
    PROVE  Alone' /\ DeskPart' /\ \A s \in Procs : Reads(s)'
  <1>1. DeskPart' /\ Alone'
    BY DeskSame DEF SerialInv, Alone
  <1>2. UNCHANGED db
    OBVIOUS
  <1>v. /\ status' = status /\ loans' = loans /\ holds' = holds /\ sess' = sess
        /\ \A r, st : HoldsIn(r, st)' = HoldsIn(r, st)
        /\ \A r : HeldItems(r)' = HeldItems(r) /\ ShelfItems(r)' = ShelfItems(r)
        /\ \A p : UnderCap(p)' <=> UnderCap(p)
        /\ \A l : OpenLoan(l)' <=> OpenLoan(l)
        /\ \A r, p : Duplicate(r, p)' <=> Duplicate(r, p)
        /\ \A op, r, p : BlockingHolds(op, r, p)' = BlockingHolds(op, r, p)
    BY <1>2, ViewsSame
  <1>3. ASSUME NEW s \in Procs
        PROVE  Reads(s)'
    <2>0. Reads(s)
      BY DEF SerialInv
    <2>1. CheckoutReads(s)'
      BY <1>v, <2>0 DEF Reads, CheckoutReads
    <2>2. ClosingReads(s)'
      BY <1>v, <2>0 DEF Reads, ClosingReads, NextRead
    <2>3. RenewReads(s)'
      BY <1>v, <2>0 DEF Reads, RenewReads, RenewalLimit
    <2>4. HoldReads(s)'
      BY <1>v, <2>0 DEF Reads, HoldReads
    <2>5. EndingReads(s)' <=> EndingReads(s)
      BY <1>v DEF EndingReads, NextRead
    <2>6. CancelReads(s)' /\ ExpireReads(s)'
      BY <1>v, <2>0, <2>5 DEF Reads, CancelReads, ExpireReads
    <2>7. QED
      BY <1>v, <2>0, <2>1, <2>2, <2>3, <2>4, <2>6 DEF Reads
  <1>4. QED
    BY <1>1, <1>3

LEMMA SerialNext ==
    ASSUME CirculationAssumption, Serial, SerialInv, [Next]_vars
    PROVE  SerialInv'
  <1>1. TypeOK'
    BY NextType DEF SerialInv
  <1>2. ASSUME NEW s \in Procs, Arrivals(s) \/ ExpireFind(s)
        PROVE  Alone' /\ DeskPart' /\ \A t \in Procs : Reads(t)'
    <2>1. UNCHANGED db /\ Reads(s)' /\ \E op, q : Begin(s, op) /\ Enter(s, q)
      BY <1>2, ArrivalReads
    <2>2. Alone' /\ \A t \in Procs : Reads(t)'
      BY <2>1, ArrivesAlone
    <2>3. QED
      BY <2>1, <2>2, DeskSame DEF SerialInv
  <1>3. ASSUME NEW s \in Procs, Step(s)
        PROVE  Alone' /\ DeskPart' /\ \A t \in Procs : Reads(t)'
    <2>1. Reads(s)
      BY DEF SerialInv
    <2>2. DeskPart' /\ Reads(s)'
      BY <1>3, SerialStep
    <2>3. sess[s].op # "idle" /\ \E q : Enter(s, q)
      BY <1>3, <2>1, StepMoves
    <2>4. QED
      BY <2>2, <2>3, OneMoves
  <1>4. ASSUME NEW s \in Procs, Abort(s)
        PROVE  Alone' /\ DeskPart' /\ \A t \in Procs : Reads(t)'
    <2>1. sess[s].op # "idle" /\ Enter(s, Idle) /\ UNCHANGED db
      BY <1>4 DEF Abort, Done
    <2>2. sess'[s].op = "idle" /\ sess'[s].pc = "idle"
      BY <2>1 DEF SerialInv, TypeOK, Enter, Idle
    <2>3. Reads(s)'
      BY <2>2, RestReads
    <2>4. QED
      BY <2>1, <2>3, OneMoves, DeskSame DEF SerialInv
  <1>5. ASSUME Tick \/ UNCHANGED vars
        PROVE  Alone' /\ DeskPart' /\ \A t \in Procs : Reads(t)'
    <2>1. UNCHANGED <<db, sess>>
      BY <1>5 DEF Tick, vars
    <2>2. QED
      BY <2>1, SerialRest
  <1>6. \A i \in Items, st \in ItemStatus : ~UpdateItem(i, st)
    BY DEF UpdateItem, Serial
  <1>7. Alone' /\ DeskPart' /\ \A t \in Procs : Reads(t)'
    <2>1. \/ \E s \in Procs : Arrivals(s) \/ ExpireFind(s) \/ Step(s) \/ Abort(s)
          \/ Tick \/ UNCHANGED vars
      BY <1>6 DEF Next, Wait
    <2>2. QED
      BY <1>2, <1>3, <1>4, <1>5, <2>1
  <1>8. QED
    BY <1>1, <1>7 DEF SerialInv

LEMMA SerialInit == ASSUME CirculationAssumption, Init PROVE SerialInv
  <1>1. TypeOK
    BY InitType
  <1>2. \A s \in Procs : sess[s] = Idle
    BY DEF Init
  <1>3. Alone /\ \A s \in Procs : Reads(s)
    BY <1>2 DEF Alone, Reads, CheckoutReads, ClosingReads, RenewReads, HoldReads, CancelReads,
       ExpireReads, Idle
  <1>4. /\ \A l \in LoanIds : loans[l] = NoLoan
        /\ \A h \in HoldIds : holds[h] = NoHold
        /\ \A i \in Items : status[i] = "AVAILABLE"
    BY DEF Init
  <1>a. /\ \A l \in LoanIds : loans[l].state = "unused"
        /\ \A h \in HoldIds : holds[h].status = "unused"
    BY <1>4 DEF NoLoan, NoHold
  <1>5. \A p : OpenLoansOf(p) = {}
    <2>1. \A l \in LoanIds : ~OpenLoan(l)
      BY <1>a DEF OpenLoan
    <2>2. QED
      BY <2>1 DEF OpenLoansOf
  <1>6. \A r : HeldItems(r) = {} /\ HoldsIn(r, "AVAILABLE") = {}
    <2>1. \A r : HeldItems(r) = {}
      BY <1>4 DEF HeldItems, ItemsOf
    <2>2. \A r : HoldsIn(r, "AVAILABLE") = {}
      BY <1>a DEF HoldsIn
    <2>3. QED
      BY <2>1, <2>2
  <1>7. IsFiniteSet({}) /\ Cardinality({}) = 0
    BY FS_EmptySet
  <1>8. FiniteCounts /\ EveryReadyHoldHasItsCopy /\ LoanCap
    <2>1. FiniteCounts
      BY <1>5, <1>6, <1>7 DEF FiniteCounts
    <2>2. EveryReadyHoldHasItsCopy
      BY <1>6 DEF EveryReadyHoldHasItsCopy
    <2>3. MaxCheckouts \in Nat
      BY DEF CirculationAssumption
    <2>4. LoanCap
      BY <1>5, <1>7, <2>3 DEF LoanCap
    <2>5. QED
      BY <2>1, <2>2, <2>4
  <1>9. LentRows /\ LoansInOrder /\ CheckedOutIsLent /\ RenewalCap
    <2>1. \A l \in LoanIds : ~OpenLoan(l)
      BY <1>a DEF OpenLoan
    <2>2. LentRows
      BY <1>a DEF LentRows
    <2>3. LoansInOrder
      BY <2>1 DEF LoansInOrder, OneLoanPerItem, OpenLoanCheckedOut
    <2>4. CheckedOutIsLent
      BY <1>4 DEF CheckedOutIsLent
    <2>5. RenewalCap
      <3>1. MaxRenewals \in Nat
        BY DEF CirculationAssumption
      <3>2. \A l \in LoanIds : loans[l].renewals = 0
        BY <1>4 DEF NoLoan
      <3>3. QED
        BY <3>1, <3>2 DEF RenewalCap
    <2>6. QED
      BY <2>2, <2>3, <2>4, <2>5
  <1>10. HoldRows /\ NobodyWaitsBesideTheShelf /\ OneHoldPerReader
    BY <1>4 DEF HoldRows, NobodyWaitsBesideTheShelf, OneHoldPerReader, ActiveHold,
       ACTIVE_HOLD_STATUSES, NoHold
  <1>11. QED
    BY <1>1, <1>3, <1>8, <1>9, <1>10 DEF SerialInv, DeskPart, LoansPart, HoldsPart

LEMMA SerialAlways == ASSUME Serial PROVE Spec => []SerialInv
  <1>1. Init => SerialInv
    BY SerialInit, CirculationAssumption
  <1>2. SerialInv /\ [Next]_vars => SerialInv'
    BY SerialNext, CirculationAssumption
  <1>3. QED
    BY <1>1, <1>2, PTL DEF Spec

\* One request at a time, whatever its requests are and wherever they die, the desk
\* keeps one open loan per copy and the copy checked out.
THEOREM DeskLendsOnce == ASSUME Serial PROVE Spec => []LoansInOrder
  <1>1. SerialInv => LoansInOrder
    BY DEF SerialInv, DeskPart, LoansPart
  <1>2. QED
    BY <1>1, SerialAlways, PTL

\* ... nobody waits while a copy of the record is on the shelf.
THEOREM DeskServesTheShelf == ASSUME Serial PROVE Spec => []NobodyWaitsBesideTheShelf
  <1>1. SerialInv => NobodyWaitsBesideTheShelf
    BY DEF SerialInv, DeskPart, HoldsPart
  <1>2. QED
    BY <1>1, SerialAlways, PTL

\* ... each ready hold has its copy set aside, and no copy waits for nobody.
THEOREM DeskSetsOneAside == ASSUME Serial PROVE Spec => []EveryReadyHoldHasItsCopy
  <1>1. SerialInv => EveryReadyHoldHasItsCopy
    BY DEF SerialInv, DeskPart, HoldsPart
  <1>2. QED
    BY <1>1, SerialAlways, PTL

\* ... and the caps on loans, renewals and holds are never exceeded.
THEOREM DeskKeepsItsLimits == ASSUME Serial PROVE Spec => []DeskLimits
  <1>1. SerialInv => DeskLimits
    BY DEF SerialInv, DeskPart, LoansPart, HoldsPart, DeskLimits
  <1>2. QED
    BY <1>1, SerialAlways, PTL

\* Only a checkout writes that a copy is checked out.
LEMMA OutByCheckout ==
    ASSUME CirculationAssumption, Serial, SerialInv, [Next]_vars, NEW i \in Items,
           status[i] # "CHECKED_OUT", status'[i] = "CHECKED_OUT"
    PROVE  \E s \in Procs : CheckoutCommit(s)
  <1>1. ASSUME NEW x, NEW st, st # "CHECKED_OUT",
               status' = status \/ status' = [status EXCEPT ![x] = st]
        PROVE  FALSE
    BY <1>1 DEF SerialInv, TypeOK
  <1>2. status' # status
    BY <1>1
  <1>3. ASSUME NEW s \in Procs, Step(s), ~CheckoutCommit(s)
        PROVE  FALSE
    <2>1. CASE ReturnCommit(s) \/ PerteCommit(s) \/ HoldReadyCommit(s)
      <3>1. PICK st : /\ st # "CHECKED_OUT"
                      /\ status' = status \/ status' = [status EXCEPT ![sess[s].item] = st]
        BY <2>1 DEF ReturnCommit, PerteCommit, HoldReadyCommit
      <3>2. QED
        BY <1>1, <3>1
    <2>2. CASE CancelCommit(s) \/ ExpireCommit(s)
      <3>1. status' = status \/ status' = [status EXCEPT ![sess[s].item] = "AVAILABLE"]
        BY <2>2 DEF CancelCommit, ExpireCommit, PassOn
      <3>2. QED
        BY <1>1, <3>1
    <2>3. CASE CheckoutCount(s) \/ CheckoutReady(s) \/ ReturnNext(s) \/ RenewHolds(s)
               \/ RenewCommit(s) \/ HoldDuplicate(s) \/ HoldCount(s) \/ HoldPendingCommit(s)
               \/ CancelPending(s) \/ CancelLock(s) \/ CancelNext(s)
      BY <1>2, <2>3 DEF db, CheckoutCount, CheckoutReady, ReturnNext, RenewHolds, RenewCommit,
         HoldDuplicate, HoldCount, HoldPendingCommit, CancelPending, CancelLock, CancelNext
    <2>4. CASE \/ ExpireHeld(s) \/ ExpireEnd(s) \/ NotifyFind(s) \/ NotifyEnd(s)
               \/ \E h \in HoldIds : ExpireLock(s, h) \/ NotifyClaim(s, h)
               \/ \E outcome \in {"sent", "refused", "sentThenError"} : NotifySend(s, outcome)
      BY <1>2, <2>4 DEF db, ExpireHeld, ExpireEnd, NotifyFind, NotifyEnd, ExpireLock, NotifyClaim,
         NotifySend
    <2>5. QED
      BY <1>3, <2>1, <2>2, <2>3, <2>4 DEF Step
  <1>4. ASSUME NEW s \in Procs, Arrivals(s) \/ ExpireFind(s) \/ Abort(s)
        PROVE  FALSE
    <2>1. UNCHANGED db
      BY <1>4, ArrivalReads DEF Abort
    <2>2. QED
      BY <1>2, <2>1 DEF db
  <1>5. ~Tick /\ ~UNCHANGED vars
    BY <1>2 DEF Tick, vars, db
  <1>6. \A j \in Items, st \in ItemStatus : ~UpdateItem(j, st)
    BY DEF UpdateItem, Serial
  <1>7. QED
    BY <1>3, <1>4, <1>5, <1>6 DEF Next, Wait

LEMMA AsideStep ==
    ASSUME CirculationAssumption, Serial, SerialInv, [Next]_vars, NEW i \in Items,
           status[i] = "ON_HOLD", status'[i] = "CHECKED_OUT"
    PROVE  \E h \in HoldIds, l \in LoanIds :
              /\ holds[h].status = "AVAILABLE" /\ holds'[h].status = "FULFILLED"
              /\ holds[h].record = RecordOf[i]
              /\ ~OpenLoan(l) /\ OpenLoan(l)' /\ loans'[l].item = i
              /\ loans'[l].patron = holds[h].patron
  <1>1. PICK s \in Procs : CheckoutCommit(s)
    BY OutByCheckout
  <1> DEFINE q == sess[s]
  <1>2. q.op = "checkout" /\ q.pc = "commit" /\ Reads(s) /\ TypeOK
    BY <1>1 DEF SerialInv, CheckoutCommit, At
  <1>3. status' = [status EXCEPT ![q.item] = "CHECKED_OUT"] /\ q.item = i
    BY <1>1, <1>2 DEF CheckoutCommit, TypeOK
  <1>4. /\ q.seen = "ON_HOLD" /\ q.hold \in HoldsIn(RecordOf[i], "AVAILABLE")
        /\ holds[q.hold].patron = q.patron
    BY <1>2, <1>3 DEF Reads, CheckoutReads
  <1>5. q.hold \in HoldIds /\ q.hold # 0
    BY <1>4 DEF HoldsIn, CirculationAssumption
  <1>6. /\ holds' = [holds EXCEPT ![q.hold].status = "FULFILLED"]
        /\ \E l \in LoanIds :
              /\ FreshLoan(l)
              /\ loans' = [loans EXCEPT ![l] =
                    [state |-> "open", item |-> q.item, patron |-> q.patron,
                     due |-> q.now + LoanDays, renewals |-> 0, fine |-> 0]]
    BY <1>1, <1>3, <1>4, <1>5 DEF CheckoutCommit, ItemAsRead
  <1>7. PICK l \in LoanIds :
           /\ FreshLoan(l)
           /\ loans' = [loans EXCEPT ![l] =
                 [state |-> "open", item |-> q.item, patron |-> q.patron,
                  due |-> q.now + LoanDays, renewals |-> 0, fine |-> 0]]
    BY <1>6
  <1>8. ~OpenLoan(l) /\ OpenLoan(l)' /\ loans'[l].item = i /\ loans'[l].patron = q.patron
    BY <1>2, <1>3, <1>7 DEF OpenLoan, FreshLoan, TypeOK
  <1>9. /\ holds[q.hold].status = "AVAILABLE" /\ holds[q.hold].record = RecordOf[i]
        /\ holds'[q.hold].status = "FULFILLED"
    BY <1>2, <1>4, <1>5, <1>6 DEF HoldsIn, TypeOK, Hold
  <1>10. QED
    BY <1>4, <1>5, <1>8, <1>9

\* A copy set aside leaves with the reader of a ready hold, which the same step fulfils.
THEOREM DeskKeepsWhatIsAside == ASSUME Serial PROVE Spec => SetAsideForItsReader
  <1>1. SerialInv /\ [Next]_vars =>
           [\A i \in Items : status[i] = "ON_HOLD" /\ status'[i] = "CHECKED_OUT" =>
              \E h \in HoldIds, l \in LoanIds :
                 /\ holds[h].status = "AVAILABLE" /\ holds'[h].status = "FULFILLED"
                 /\ holds[h].record = RecordOf[i]
                 /\ ~OpenLoan(l) /\ OpenLoan(l)' /\ loans'[l].item = i
                 /\ loans'[l].patron = holds[h].patron]_vars
    BY AsideStep, CirculationAssumption
  <1>2. QED
    BY <1>1, SerialAlways, PTL DEF Spec, SetAsideForItsReader

LEMMA RenewedStep ==
    ASSUME CirculationAssumption, Serial, SerialInv, [Next]_vars, NEW l \in LoanIds,
           loans'[l].renewals > loans[l].renewals, NEW h \in ActiveHolds(RecordOf[loans[l].item])
    PROVE  holds[h].patron = loans[l].patron
  <1>a. /\ loans[l] \in Loan /\ loans[l].renewals \in Nat /\ loans \in [LoanIds -> Loan]
        /\ loans'[l].renewals # loans[l].renewals
    BY DEF SerialInv, TypeOK, Loan
  <1>1. loans[l] \in Loan /\ loans[l].renewals \in Nat /\ loans' # loans
    BY <1>a
  <1>2. ASSUME NEW s \in Procs, RenewCommit(s)
        PROVE  holds[h].patron = loans[l].patron
    <2> DEFINE q == sess[s]
    <2>1. /\ q.op \in {"renew", "renewOnline"} /\ q.pc = "commit" /\ Reads(s)
          /\ loans' = [loans EXCEPT ![q.loan].due = q.now + RenewalDays(q.op),
                                   ![q.loan].renewals = q.num + 1]
      BY <1>2 DEF SerialInv, RenewCommit, At
    <2>a. \A k \in LoanIds : k # q.loan => loans'[k] = loans[k]
      BY <1>a, <2>1
    <2>2. q.loan = l
      BY <1>a, <2>a
    <2>3. /\ q.item = loans[l].item /\ q.patron = loans[l].patron
          /\ BlockingHolds(q.op, RecordOf[q.item], q.patron) = {}
      BY <2>1, <2>2 DEF Reads, RenewReads
    <2>4. QED
      BY <2>3 DEF BlockingHolds
  <1>3. ASSUME NEW s \in Procs, CheckoutCommit(s)
        PROVE  FALSE
    <2>1. \E row : \E k \in LoanIds : row.renewals = 0 /\ loans' = [loans EXCEPT ![k] = row]
      BY <1>1, <1>3 DEF CheckoutCommit
    <2>2. QED
      BY <1>1, <2>1 DEF SerialInv, TypeOK
  <1>4. ASSUME NEW s \in Procs, ReturnCommit(s) \/ PerteCommit(s)
        PROVE  FALSE
    <2>1. \E k, how, fine : loans' = [loans EXCEPT ![k].state = how, ![k].fine = fine]
      BY <1>1, <1>4 DEF ReturnCommit, PerteCommit, Closed
    <2>2. loans'[l].renewals = loans[l].renewals
      BY <1>1, <2>1 DEF SerialInv, TypeOK, Loan
    <2>3. QED
      BY <1>1, <2>2
  <1>5. ASSUME NEW s \in Procs, Step(s), ~RenewCommit(s)
        PROVE  FALSE
    <2>1. CASE CheckoutCount(s) \/ CheckoutReady(s) \/ ReturnNext(s) \/ RenewHolds(s)
               \/ HoldDuplicate(s) \/ HoldCount(s) \/ HoldReadyCommit(s) \/ HoldPendingCommit(s)
               \/ CancelPending(s) \/ CancelLock(s) \/ CancelNext(s) \/ CancelCommit(s)
      BY <1>1, <2>1 DEF db, CheckoutCount, CheckoutReady, ReturnNext, RenewHolds,
         HoldDuplicate, HoldCount, HoldReadyCommit, HoldPendingCommit, CancelPending, CancelLock,
         CancelNext, CancelCommit
    <2>2. CASE \/ ExpireHeld(s) \/ ExpireCommit(s) \/ ExpireEnd(s)
               \/ NotifyFind(s) \/ NotifyEnd(s)
               \/ \E g \in HoldIds : ExpireLock(s, g) \/ NotifyClaim(s, g)
               \/ \E outcome \in {"sent", "refused", "sentThenError"} : NotifySend(s, outcome)
      BY <1>1, <2>2 DEF db, ExpireHeld, ExpireCommit, ExpireEnd, NotifyFind, NotifyEnd, ExpireLock,
         NotifyClaim, NotifySend
    <2>3. QED
      BY <1>3, <1>4, <1>5, <2>1, <2>2 DEF Step
  <1>6. ASSUME NEW s \in Procs, Arrivals(s) \/ ExpireFind(s) \/ Abort(s)
        PROVE  FALSE
    <2>1. UNCHANGED db
      BY <1>6, ArrivalReads DEF Abort
    <2>2. QED
      BY <1>1, <2>1 DEF db
  <1>7. ~Tick /\ ~UNCHANGED vars
    BY <1>1 DEF Tick, vars, db
  <1>8. \A j \in Items, st \in ItemStatus : ~UpdateItem(j, st)
    BY DEF UpdateItem, Serial
  <1>9. QED
    BY <1>2, <1>5, <1>6, <1>7, <1>8 DEF Next, Wait

\* A renewal is written only when no other reader has an active hold on the record.
THEOREM DeskRenewsNothingReserved == ASSUME Serial PROVE Spec => ReservedIsNotRenewed
  <1>1. SerialInv /\ [Next]_vars =>
           [\A l \in LoanIds : loans'[l].renewals > loans[l].renewals =>
              \A h \in ActiveHolds(RecordOf[loans[l].item]) :
                 holds[h].patron = loans[l].patron]_vars
    BY RenewedStep, CirculationAssumption
  <1>2. QED
    BY <1>1, SerialAlways, PTL DEF Spec, ReservedIsNotRenewed

-----------------------------------------------------------------------------
(* The desk implements Lending, one request at a time *)

\* The shelf, the copies set aside and those that left are three places that are nobody.
Places == /\ Shelf # Aside /\ Shelf # Gone /\ Aside # Gone
          /\ Shelf \notin Patrons /\ Aside \notin Patrons /\ Gone \notin Patrons

\* PlaceOf, for any statuses and any loans.
PlaceIn(sts, ls, i) ==
    CASE sts[i] = "AVAILABLE"   -> Shelf
      [] sts[i] = "ON_HOLD"     -> Aside
      [] sts[i] = "CHECKED_OUT" ->
            ls[CHOOSE l \in LoanIds : ls[l].state = "open" /\ ls[l].item = i].patron
      [] OTHER                  -> Gone

LEMMA PlaceIsIn ==
    ASSUME NEW i
    PROVE  PlaceOf(i) = PlaceIn(status, loans, i) /\ PlaceOf(i)' = PlaceIn(status', loans', i)
  BY DEF PlaceOf, PlaceIn, BorrowerOf, OpenLoan

\* A copy checked out is with the reader of its one open loan.
LEMMA PlaceLent ==
    ASSUME NEW sts, NEW ls, NEW i, NEW l \in LoanIds, sts[i] = "CHECKED_OUT",
           ls[l].state = "open", ls[l].item = i,
           \A k \in LoanIds : ls[k].state = "open" /\ ls[k].item = i => k = l
    PROVE  PlaceIn(sts, ls, i) = ls[l].patron
  <1>1. (CHOOSE k \in LoanIds : ls[k].state = "open" /\ ls[k].item = i) = l
    OBVIOUS
  <1>2. QED
    BY <1>1 DEF PlaceIn

LEMMA PlaceElse ==
    ASSUME NEW sts, NEW ls, NEW i, sts[i] # "CHECKED_OUT"
    PROVE  PlaceIn(sts, ls, i) = IF sts[i] = "AVAILABLE" THEN Shelf
                                 ELSE IF sts[i] = "ON_HOLD" THEN Aside ELSE Gone
  BY DEF PlaceIn

\* Copy j stays where it is, and with whom it is.
LEMMA PlaceStays ==
    ASSUME LoansPart, NEW j \in Items, status'[j] = status[j],
           \A k \in LoanIds : OpenLoan(k) /\ loans[k].item = j => LoanStays(k),
           \A k \in LoanIds : OpenLoan(k)' /\ loans'[k].item = j => LoanStays(k)
    PROVE  PlaceOf(j)' = PlaceOf(j)
  <1>1. CASE status[j] = "CHECKED_OUT"
    <2>1. PICK l \in LoanIds : OpenLoan(l) /\ loans[l].item = j
      BY <1>1 DEF LoansPart, CheckedOutIsLent
    <2>2. \A k \in LoanIds : loans[k].state = "open" /\ loans[k].item = j => k = l
      BY <2>1 DEF LoansPart, LoansInOrder, OneLoanPerItem, OpenLoan
    <2>3. \A k \in LoanIds : loans'[k].state = "open" /\ loans'[k].item = j => k = l
      BY <2>2 DEF LoanStays, OpenLoan
    <2>4. loans'[l].state = "open" /\ loans'[l].item = j /\ loans'[l].patron = loans[l].patron
          /\ loans[l].state = "open"
      BY <2>1 DEF LoanStays, OpenLoan
    <2>5. PlaceIn(status, loans, j) = loans[l].patron
      BY <1>1, <2>1, <2>2, <2>4, PlaceLent
    <2>6. PlaceIn(status', loans', j) = loans'[l].patron
      BY <1>1, <2>3, <2>4, PlaceLent
    <2>7. QED
      BY <2>4, <2>5, <2>6, PlaceIsIn
  <1>2. CASE status[j] # "CHECKED_OUT"
    BY <1>2, PlaceElse, PlaceIsIn
  <1>3. QED
    BY <1>1, <1>2

\* The places that are somebody's, and the others.
LEMMA PlaceIs ==
    ASSUME Places, LoansPart, NEW i \in Items
    PROVE  /\ status[i] = "CHECKED_OUT" => PlaceOf(i) \in Patrons
           /\ PlaceOf(i) = Shelf <=> status[i] = "AVAILABLE"
           /\ PlaceOf(i) = Aside <=> status[i] = "ON_HOLD"
  <1>1. CASE status[i] = "CHECKED_OUT"
    <2>1. PICK l \in LoanIds : OpenLoan(l) /\ loans[l].item = i
      BY <1>1 DEF LoansPart, CheckedOutIsLent
    <2>2. \A k \in LoanIds : loans[k].state = "open" /\ loans[k].item = i => k = l
      BY <2>1 DEF LoansPart, LoansInOrder, OneLoanPerItem, OpenLoan
    <2>3. PlaceOf(i) = loans[l].patron
      BY <1>1, <2>1, <2>2, PlaceLent, PlaceIsIn DEF OpenLoan
    <2>4. loans[l].patron \in Patrons
      BY <2>1 DEF LoansPart, LentRows, OpenLoan
    <2>5. QED
      BY <1>1, <2>3, <2>4 DEF Places
  <1>2. CASE status[i] # "CHECKED_OUT"
    BY <1>2, PlaceElse, PlaceIsIn DEF Places
  <1>3. QED
    BY <1>1, <1>2

\* The readers of the holds that are in a state follow the holds.
ReadersKept == \A g \in HoldIds : holds[g].status # "unused" => holds'[g].patron = holds[g].patron

LEMMA ReadersSame ==
    ASSUME NEW r, NEW st, st # "unused", HoldsIn(r, st)' = HoldsIn(r, st), ReadersKept
    PROVE  ReadersOf(r, st)' = ReadersOf(r, st)
  <1>1. \A g \in HoldsIn(r, st) : holds'[g].patron = holds[g].patron
    BY DEF HoldsIn, ReadersKept
  <1>2. ReadersOf(r, st)' = {holds'[g].patron : g \in HoldsIn(r, st)}
    BY DEF ReadersOf
  <1>3. QED
    BY <1>1, <1>2 DEF ReadersOf

LEMMA ReaderJoins ==
    ASSUME NEW r, NEW st, st # "unused", NEW h \in HoldIds, ReadersKept,
           HoldsIn(r, st)' = HoldsIn(r, st) \cup {h}
    PROVE  ReadersOf(r, st)' = ReadersOf(r, st) \cup {holds'[h].patron}
  <1>1. \A g \in HoldsIn(r, st) : holds'[g].patron = holds[g].patron
    BY DEF HoldsIn, ReadersKept
  <1>2. ReadersOf(r, st)' = {holds'[g].patron : g \in HoldsIn(r, st) \cup {h}}
    BY DEF ReadersOf
  <1>3. {holds'[g].patron : g \in HoldsIn(r, st)} = ReadersOf(r, st)
    BY <1>1 DEF ReadersOf
  <1>4. QED
    BY <1>2, <1>3

LEMMA ReaderLeaves ==
    ASSUME OneHoldPerReader, NEW r, NEW st \in ACTIVE_HOLD_STATUSES, NEW h \in HoldsIn(r, st),
           ReadersKept, HoldsIn(r, st)' = HoldsIn(r, st) \ {h}
    PROVE  ReadersOf(r, st)' = ReadersOf(r, st) \ {holds[h].patron}
  <1>1. \A g \in HoldsIn(r, st) : holds'[g].patron = holds[g].patron
    BY DEF HoldsIn, ReadersKept, ACTIVE_HOLD_STATUSES
  <1>2. \A g \in HoldsIn(r, st) : g # h => holds[g].patron # holds[h].patron
    BY DEF HoldsIn, OneHoldPerReader, ActiveHold
  <1>3. ReadersOf(r, st)' = {holds'[g].patron : g \in HoldsIn(r, st) \ {h}}
    BY DEF ReadersOf
  <1>4. {holds'[g].patron : g \in HoldsIn(r, st) \ {h}} = {holds[g].patron : g \in HoldsIn(r, st) \ {h}}
    BY <1>1
  <1>5. {holds[g].patron : g \in HoldsIn(r, st) \ {h}} = ReadersOf(r, st) \ {holds[h].patron}
    BY <1>2 DEF ReadersOf
  <1>6. QED
    BY <1>3, <1>4, <1>5

\* What the abstract desk sees of a record and of a copy.
SameReaders(r) == /\ ReadersOf(r, "AVAILABLE")' = ReadersOf(r, "AVAILABLE")
                  /\ ReadersOf(r, "PENDING")' = ReadersOf(r, "PENDING")
LEMMA QuietReaders ==
    ASSUME \A g \in HoldIds : Stays(g)
    PROVE  ReadersKept /\ \A r : SameReaders(r)
  <1>1. ReadersKept
    BY DEF Stays, Becomes, ReadersKept
  <1>2. \A r, st : HoldsIn(r, st)' = HoldsIn(r, st)
    BY NoHoldMoves
  <1>3. QED
    BY <1>1, <1>2, ReadersSame DEF SameReaders

\* A step the abstract desk does not see.
LEMMA QuietStep ==
    ASSUME LoansPart, UNCHANGED status, \A k \in LoanIds : LoanStays(k), \A g \in HoldIds : Stays(g)
    PROVE  UNCHANGED Abstract!vars
  <1>1. \A i \in Items : PlaceOf(i)' = PlaceOf(i)
    BY PlaceStays
  <1>2. \A r : SameReaders(r)
    BY QuietReaders
  <1>3. QED
    BY <1>1, <1>2 DEF Abstract!vars, SameReaders

\* A copy that comes back or goes out: the others stay where they are.
LEMMA OthersStay ==
    ASSUME LoansPart, LoansPart', NEW i \in Items, NEW st, Shelved(i, st), NEW l \in LoanIds,
           \A k \in LoanIds \ {l} : loans'[k] = loans[k],
           OpenLoan(l) => loans[l].item = i, OpenLoan(l)' => loans'[l].item = i
    PROVE  \A j \in Items : j # i => PlaceOf(j)' = PlaceOf(j)
  <1>1. ASSUME NEW j \in Items, j # i
        PROVE  PlaceOf(j)' = PlaceOf(j)
    <2>1. status'[j] = status[j]
      BY <1>1 DEF Shelved
    <2>2. /\ \A k \in LoanIds : OpenLoan(k) /\ loans[k].item = j => LoanStays(k)
          /\ \A k \in LoanIds : OpenLoan(k)' /\ loans'[k].item = j => LoanStays(k)
      BY <1>1 DEF LoanStays
    <2>3. QED
      BY <2>1, <2>2, PlaceStays
  <1>2. QED
    BY <1>1

\* The abstract desk's state, written point by point.
LEMMA PlacesWritten ==
    ASSUME NEW i \in Items, NEW x, PlaceOf(i)' = x, \A j \in Items : j # i => PlaceOf(j)' = PlaceOf(j)
    PROVE  [j \in Items |-> PlaceOf(j)]' = [[j \in Items |-> PlaceOf(j)] EXCEPT ![i] = x]
  OBVIOUS

LEMMA PlacesSame ==
    ASSUME \A j \in Items : PlaceOf(j)' = PlaceOf(j)
    PROVE  [j \in Items |-> PlaceOf(j)]' = [j \in Items |-> PlaceOf(j)]
  OBVIOUS

LEMMA ReadersWritten ==
    ASSUME NEW r \in Records, NEW st, NEW X, ReadersOf(r, st)' = X,
           \A y \in Records : y # r => ReadersOf(y, st)' = ReadersOf(y, st)
    PROVE  [y \in Records |-> ReadersOf(y, st)]' = [[y \in Records |-> ReadersOf(y, st)] EXCEPT ![r] = X]
  OBVIOUS

LEMMA ReadersUnmoved ==
    ASSUME NEW st, \A y \in Records : ReadersOf(y, st)' = ReadersOf(y, st)
    PROVE  [y \in Records |-> ReadersOf(y, st)]' = [y \in Records |-> ReadersOf(y, st)]
  OBVIOUS

LEMMA LendSeen ==
    ASSUME CirculationAssumption, Places, SerialInv, NEW s \in Procs, CheckoutCommit(s)
    PROVE  Abstract!Next
  <1> DEFINE q == sess[s]
  <1>0. PICK i, p : i = q.item /\ p = q.patron
    OBVIOUS
  <1> DEFINE r == RecordOf[i]
  <1>1. /\ q.op = "checkout" /\ q.pc = "commit" /\ Reads(s) /\ TypeOK
        /\ LoansPart /\ HoldsPart /\ LoansPart'
    BY CheckoutWrites DEF SerialInv, DeskPart, CheckoutCommit, At
  <1>2. /\ i \in Items /\ p \in Patrons /\ q.seen = status[i] /\ r \in Records
        /\ q.seen \in {"AVAILABLE", "ON_HOLD"}
        /\ IF q.seen = "AVAILABLE" THEN q.hold = 0
           ELSE q.hold \in HoldsIn(r, "AVAILABLE") /\ holds[q.hold].patron = p
    BY <1>0, <1>1 DEF Reads, CheckoutReads, CirculationAssumption
  <1>3. status' = [status EXCEPT ![i] = "CHECKED_OUT"]
    BY <1>0, <1>2 DEF CheckoutCommit, ItemAsRead
  <1>4. PICK l \in LoanIds :
           /\ FreshLoan(l)
           /\ loans' = [loans EXCEPT ![l] =
                 [state |-> "open", item |-> i, patron |-> p,
                  due |-> q.now + LoanDays, renewals |-> 0, fine |-> 0]]
    BY <1>0, <1>2 DEF CheckoutCommit, ItemAsRead
  <1>5. holds' = IF q.hold = 0 THEN holds ELSE [holds EXCEPT ![q.hold].status = "FULFILLED"]
    BY <1>0, <1>2 DEF CheckoutCommit, ItemAsRead
  <1>6. Shelved(i, "CHECKED_OUT")
    BY <1>1, <1>2, <1>3, ShelfWritten
  <1>7. /\ loans[l].state = "unused" /\ loans'[l].state = "open" /\ loans'[l].item = i
        /\ loans'[l].patron = p /\ \A k \in LoanIds \ {l} : loans'[k] = loans[k]
    BY <1>1, <1>4 DEF FreshLoan, TypeOK
  <1>8. PlaceOf(i)' = p
    <2>1. \A k \in LoanIds : loans'[k].state = "open" /\ loans'[k].item = i => k = l
      BY <1>1, <1>7 DEF LoansPart, LoansInOrder, OneLoanPerItem, OpenLoan
    <2>2. status'[i] = "CHECKED_OUT"
      BY <1>2, <1>6 DEF Shelved
    <2>3. PlaceIn(status', loans', i) = loans'[l].patron
      BY <1>7, <2>1, <2>2, PlaceLent
    <2>4. QED
      BY <1>7, <2>3, PlaceIsIn
  <1>9. \A j \in Items : j # i => PlaceOf(j)' = PlaceOf(j)
    BY <1>1, <1>2, <1>6, <1>7, OthersStay DEF OpenLoan
  <1>10. [j \in Items |-> PlaceOf(j)]' = [[j \in Items |-> PlaceOf(j)] EXCEPT ![i] = p]
    BY <1>2, <1>8, <1>9, PlacesWritten
  <1>11. CASE q.seen = "AVAILABLE"
    <2>1. \A g \in HoldIds : Stays(g)
      BY <1>2, <1>5, <1>11 DEF Stays, Becomes
    <2>2. \A y : SameReaders(y)
      BY <2>1, QuietReaders
    <2>3. PlaceOf(i) = Shelf
      BY <1>1, <1>2, <1>11, PlaceIs
    <2>4. /\ [y \in Records |-> ReadersOf(y, "AVAILABLE")]' = [y \in Records |-> ReadersOf(y, "AVAILABLE")]
          /\ [y \in Records |-> ReadersOf(y, "PENDING")]' = [y \in Records |-> ReadersOf(y, "PENDING")]
      BY <2>2, ReadersUnmoved DEF SameReaders
    <2>5. Abstract!Lend(i, p)
      BY <1>2, <1>10, <2>3, <2>4 DEF Abstract!Lend
    <2>6. QED
      BY <1>2, <2>5 DEF Abstract!Next
  <1>12. CASE q.seen = "ON_HOLD"
    <2>1. q.hold \in HoldsIn(r, "AVAILABLE") /\ q.hold \in HoldIds /\ q.hold # 0
          /\ holds[q.hold].patron = p
      BY <1>2, <1>12 DEF HoldsIn, CirculationAssumption
    <2>2. holds' = [holds EXCEPT ![q.hold].status = "FULFILLED"]
      BY <1>5, <2>1
    <2>3. Becomes(q.hold, "FULFILLED") /\ \A g \in HoldIds \ {q.hold} : Stays(g)
      BY <1>1, <2>1, <2>2 DEF Becomes, Stays, TypeOK, Hold
    <2>4. ReadersKept
      BY <2>3 DEF ReadersKept, Stays, Becomes
    <2>5. \A y : HoldsIn(y, "AVAILABLE")' = HoldsIn(y, "AVAILABLE") \ {q.hold}
      BY <2>1, <2>3 DEF HoldsIn, Becomes, Stays
    <2>6. \A y : HoldsIn(y, "PENDING")' = HoldsIn(y, "PENDING")
      BY <2>1, <2>3 DEF HoldsIn, Becomes, Stays
    <2>7. ReadersOf(r, "AVAILABLE")' = ReadersOf(r, "AVAILABLE") \ {p}
      BY <1>1, <2>1, <2>4, <2>5, ReaderLeaves DEF HoldsPart, ACTIVE_HOLD_STATUSES
    <2>8. \A y \in Records : y # r => ReadersOf(y, "AVAILABLE")' = ReadersOf(y, "AVAILABLE")
      <3>1. ASSUME NEW y \in Records, y # r
            PROVE  ReadersOf(y, "AVAILABLE")' = ReadersOf(y, "AVAILABLE")
        <4>1. HoldsIn(y, "AVAILABLE")' = HoldsIn(y, "AVAILABLE")
          BY <2>1, <2>5, <3>1 DEF HoldsIn
        <4>2. QED
          BY <2>4, <4>1, ReadersSame
      <3>2. QED
        BY <3>1
    <2>9. /\ [y \in Records |-> ReadersOf(y, "AVAILABLE")]' =
                [[y \in Records |-> ReadersOf(y, "AVAILABLE")] EXCEPT ![r] = ReadersOf(r, "AVAILABLE") \ {p}]
          /\ [y \in Records |-> ReadersOf(y, "PENDING")]' = [y \in Records |-> ReadersOf(y, "PENDING")]
      <3>1. \A y \in Records : ReadersOf(y, "PENDING")' = ReadersOf(y, "PENDING")
        BY <2>4, <2>6, ReadersSame
      <3>2. r \in Records
        BY <1>2
      <3>3. [y \in Records |-> ReadersOf(y, "PENDING")]' = [y \in Records |-> ReadersOf(y, "PENDING")]
        BY <3>1, ReadersUnmoved
      <3>4. [y \in Records |-> ReadersOf(y, "AVAILABLE")]' =
                [[y \in Records |-> ReadersOf(y, "AVAILABLE")] EXCEPT ![r] = ReadersOf(r, "AVAILABLE") \ {p}]
        BY <2>7, <2>8, <3>2, ReadersWritten
      <3>5. QED
        BY <3>3, <3>4
    <2>10. PlaceOf(i) = Aside /\ p \in ReadersOf(r, "AVAILABLE")
      BY <1>1, <1>2, <1>12, <2>1, PlaceIs DEF ReadersOf
    <2>11. Abstract!Lend(i, p)
      BY <1>2, <1>10, <2>9, <2>10 DEF Abstract!Lend
    <2>12. QED
      BY <1>2, <2>11 DEF Abstract!Next
  <1>13. QED
    BY <1>2, <1>11, <1>12

LEMMA ReadersLeft ==
    ASSUME OneHoldPerReader, NEW r \in Records, NEW st \in ACTIVE_HOLD_STATUSES,
           NEW h \in HoldsIn(r, st), ReadersKept,
           \A y \in Records : HoldsIn(y, st)' = HoldsIn(y, st) \ {h}
    PROVE  [y \in Records |-> ReadersOf(y, st)]' =
           [[y \in Records |-> ReadersOf(y, st)] EXCEPT ![r] = ReadersOf(r, st) \ {holds[h].patron}]
  <1>1. ReadersOf(r, st)' = ReadersOf(r, st) \ {holds[h].patron}
    BY ReaderLeaves
  <1>2. ASSUME NEW y \in Records, y # r
        PROVE  ReadersOf(y, st)' = ReadersOf(y, st)
    <2>1. HoldsIn(y, st)' = HoldsIn(y, st) /\ st # "unused"
      BY <1>2 DEF HoldsIn, ACTIVE_HOLD_STATUSES
    <2>2. QED
      BY <2>1, ReadersSame
  <1>3. QED
    BY <1>1, <1>2, ReadersWritten

LEMMA ReadersJoined ==
    ASSUME NEW r \in Records, NEW st, st # "unused", NEW h \in HoldIds, ReadersKept,
           \A y \in Records : HoldsIn(y, st)' = IF y = r THEN HoldsIn(y, st) \cup {h} ELSE HoldsIn(y, st)
    PROVE  [y \in Records |-> ReadersOf(y, st)]' =
           [[y \in Records |-> ReadersOf(y, st)] EXCEPT ![r] = ReadersOf(r, st) \cup {holds'[h].patron}]
  <1>1. ReadersOf(r, st)' = ReadersOf(r, st) \cup {holds'[h].patron}
    BY ReaderJoins
  <1>2. \A y \in Records : y # r => ReadersOf(y, st)' = ReadersOf(y, st)
    BY ReadersSame
  <1>3. QED
    BY <1>1, <1>2, ReadersWritten

LEMMA NobodyIn ==
    ASSUME NEW r, NEW st, HoldsIn(r, st) = {}
    PROVE  ReadersOf(r, st) = {}
  BY DEF ReadersOf

\* An open loan is closed: the copy was with its reader, and goes where it is put.
LEMMA ClosedSeen ==
    ASSUME Places, LoansPart, LoansPart', NEW l \in LoanIds, OpenLoan(l), NEW i, i = loans[l].item,
           NEW st, st # "CHECKED_OUT", Shelved(i, st), loans'[l].state # "open",
           \A k \in LoanIds \ {l} : loans'[k] = loans[k]
    PROVE  /\ i \in Items /\ PlaceOf(i) \in Patrons
           /\ [j \in Items |-> PlaceOf(j)]' =
              [[j \in Items |-> PlaceOf(j)] EXCEPT
                  ![i] = IF st = "AVAILABLE" THEN Shelf ELSE IF st = "ON_HOLD" THEN Aside ELSE Gone]
  <1>1. i \in Items /\ status[i] = "CHECKED_OUT"
    BY DEF LoansPart, LentRows, LoansInOrder, OpenLoanCheckedOut, OpenLoan
  <1>2. PlaceOf(i) \in Patrons
    BY <1>1, PlaceIs
  <1>3. status'[i] = st
    BY <1>1 DEF Shelved
  <1>4. PlaceOf(i)' = IF st = "AVAILABLE" THEN Shelf ELSE IF st = "ON_HOLD" THEN Aside ELSE Gone
    BY <1>3, PlaceElse, PlaceIsIn
  <1>5. \A j \in Items : j # i => PlaceOf(j)' = PlaceOf(j)
    BY <1>1, OthersStay DEF OpenLoan
  <1>6. QED
    BY <1>1, <1>2, <1>4, <1>5, PlacesWritten

LEMMA GiveBackSeen ==
    ASSUME CirculationAssumption, Places, SerialInv, NEW s \in Procs, ReturnCommit(s)
    PROVE  Abstract!Next
  <1> DEFINE q == sess[s]
  <1>0. PICK i, l, h : i = q.item /\ l = q.loan /\ h = q.next
    OBVIOUS
  <1> DEFINE r == RecordOf[i]
  <1>1. /\ q.op = "return" /\ q.pc = "commit" /\ Reads(s) /\ TypeOK
        /\ LoansPart /\ HoldsPart /\ LoansPart'
    BY ReturnWrites DEF SerialInv, DeskPart, ReturnCommit, At
  <1>2. /\ l \in LoanIds /\ OpenLoan(l) /\ i = loans[l].item
        /\ IF h = 0 THEN HoldsIn(r, "PENDING") = {} ELSE h \in HoldsIn(r, "PENDING")
    BY <1>0, <1>1 DEF Reads, ClosingReads, NextRead
  <1>3. i \in Items /\ r \in Records
    BY <1>1, <1>2 DEF LoansPart, LentRows, OpenLoan, CirculationAssumption
  <1>4. loans' = Closed(l, "rendu", q.num)
    BY <1>0, <1>2 DEF ReturnCommit, StillOpen
  <1>5. loans'[l].state # "open" /\ \A k \in LoanIds \ {l} : loans'[k] = loans[k]
    BY <1>1, <1>2, <1>4 DEF Closed, TypeOK, Loan
  <1>6. CASE h # 0
    <2>1. /\ holds' = Ready(h, q.now + DeskPickupDays)
          /\ status' = [status EXCEPT ![i] = "ON_HOLD"]
      BY <1>0, <1>2, <1>6 DEF ReturnCommit, StillOpen
    <2>2. h \in HoldsIn(r, "PENDING") /\ h \in HoldIds
      BY <1>2, <1>6 DEF HoldsIn
    <2>3. Shelved(i, "ON_HOLD")
      BY <1>1, <1>3, <2>1, ShelfWritten
    <2>4. Becomes(h, "AVAILABLE") /\ \A g \in HoldIds \ {h} : Stays(g)
      BY <1>1, <2>1, <2>2 DEF Ready, Becomes, Stays, TypeOK, Hold
    <2>5. ReadersKept /\ holds'[h].patron = holds[h].patron
      BY <2>4 DEF ReadersKept, Stays, Becomes
    <2>a. \A y \in Records : HoldsIn(y, "PENDING")' = HoldsIn(y, "PENDING") \ {h}
      BY <2>2, <2>4 DEF HoldsIn, Becomes, Stays
    <2>6. \A y \in Records : HoldsIn(y, "AVAILABLE")' =
             IF y = r THEN HoldsIn(y, "AVAILABLE") \cup {h} ELSE HoldsIn(y, "AVAILABLE")
      <3>1. holds[h].record = r /\ holds[h].status = "PENDING"
        BY <2>2 DEF HoldsIn
      <3>2. QED
        BY <2>2, <2>4, <3>1, ReadyMoves DEF HoldsIn
    <2>7. /\ [y \in Records |-> ReadersOf(y, "AVAILABLE")]' =
                 [[y \in Records |-> ReadersOf(y, "AVAILABLE")] EXCEPT
                   ![r] = ReadersOf(r, "AVAILABLE") \cup {holds[h].patron}]
          /\ [y \in Records |-> ReadersOf(y, "PENDING")]' =
                 [[y \in Records |-> ReadersOf(y, "PENDING")] EXCEPT
                   ![r] = ReadersOf(r, "PENDING") \ {holds[h].patron}]
      <3>1. [y \in Records |-> ReadersOf(y, "AVAILABLE")]' =
                [[y \in Records |-> ReadersOf(y, "AVAILABLE")] EXCEPT
                  ![r] = ReadersOf(r, "AVAILABLE") \cup {holds'[h].patron}]
        BY <1>3, <2>2, <2>5, <2>6, ReadersJoined
      <3>2. [y \in Records |-> ReadersOf(y, "PENDING")]' =
                [[y \in Records |-> ReadersOf(y, "PENDING")] EXCEPT
                  ![r] = ReadersOf(r, "PENDING") \ {holds[h].patron}]
        BY <1>1, <1>3, <2>2, <2>5, <2>a, ReadersLeft DEF HoldsPart, ACTIVE_HOLD_STATUSES
      <3>3. QED
        BY <2>5, <3>1, <3>2
    <2>8. /\ PlaceOf(i) \in Patrons
          /\ [j \in Items |-> PlaceOf(j)]' = [[j \in Items |-> PlaceOf(j)] EXCEPT ![i] = Aside]
      BY <1>1, <1>2, <1>5, <2>3, ClosedSeen
    <2>9. holds[h].patron \in ReadersOf(r, "PENDING")
      BY <2>2 DEF ReadersOf
    <2>10. Abstract!GiveBack(i)
      BY <1>3, <2>7, <2>8, <2>9 DEF Abstract!GiveBack
    <2>11. QED
      BY <1>3, <2>10 DEF Abstract!Next
  <1>7. CASE h = 0
    <2>1. holds' = holds /\ status' = [status EXCEPT ![i] = "AVAILABLE"]
      BY <1>0, <1>2, <1>7 DEF ReturnCommit, StillOpen
    <2>2. Shelved(i, "AVAILABLE")
      BY <1>1, <1>3, <2>1, ShelfWritten
    <2>3. \A g \in HoldIds : Stays(g)
      BY <2>1 DEF Stays, Becomes
    <2>4. /\ [y \in Records |-> ReadersOf(y, "AVAILABLE")]' = [y \in Records |-> ReadersOf(y, "AVAILABLE")]
          /\ [y \in Records |-> ReadersOf(y, "PENDING")]' = [y \in Records |-> ReadersOf(y, "PENDING")]
      BY <2>3, QuietReaders, ReadersUnmoved DEF SameReaders
    <2>5. /\ PlaceOf(i) \in Patrons
          /\ [j \in Items |-> PlaceOf(j)]' = [[j \in Items |-> PlaceOf(j)] EXCEPT ![i] = Shelf]
      BY <1>1, <1>2, <1>5, <2>2, ClosedSeen
    <2>6. ReadersOf(r, "PENDING") = {}
      BY <1>2, <1>7, NobodyIn
    <2>7. Abstract!GiveBack(i)
      BY <1>3, <2>4, <2>5, <2>6 DEF Abstract!GiveBack
    <2>8. QED
      BY <1>3, <2>7 DEF Abstract!Next
  <1>8. QED
    BY <1>6, <1>7

LEMMA LoseSeen ==
    ASSUME CirculationAssumption, Places, SerialInv, NEW s \in Procs, PerteCommit(s)
    PROVE  Abstract!Next
  <1> DEFINE q == sess[s]
  <1>0. PICK i, l : i = q.item /\ l = q.loan
    OBVIOUS
  <1>1. /\ q.op = "perte" /\ q.pc = "commit" /\ Reads(s) /\ TypeOK
        /\ LoansPart /\ LoansPart'
    BY PerteWrites DEF SerialInv, DeskPart, PerteCommit, At
  <1>2. l \in LoanIds /\ OpenLoan(l) /\ i = loans[l].item
    BY <1>0, <1>1 DEF Reads, ClosingReads
  <1>3. i \in Items
    BY <1>1, <1>2 DEF LoansPart, LentRows, OpenLoan
  <1>4. /\ loans' = Closed(l, "perte", q.num) /\ status' = [status EXCEPT ![i] = "LOST"]
        /\ holds' = holds
    BY <1>0, <1>2 DEF PerteCommit, StillOpen
  <1>5. loans'[l].state # "open" /\ \A k \in LoanIds \ {l} : loans'[k] = loans[k]
    BY <1>1, <1>2, <1>4 DEF Closed, TypeOK, Loan
  <1>6. Shelved(i, "LOST")
    BY <1>1, <1>3, <1>4, ShelfWritten
  <1>7. \A g \in HoldIds : Stays(g)
    BY <1>4 DEF Stays, Becomes
  <1>8. /\ [y \in Records |-> ReadersOf(y, "AVAILABLE")]' = [y \in Records |-> ReadersOf(y, "AVAILABLE")]
        /\ [y \in Records |-> ReadersOf(y, "PENDING")]' = [y \in Records |-> ReadersOf(y, "PENDING")]
    BY <1>7, QuietReaders, ReadersUnmoved DEF SameReaders
  <1>9. /\ PlaceOf(i) \in Patrons
        /\ [j \in Items |-> PlaceOf(j)]' = [[j \in Items |-> PlaceOf(j)] EXCEPT ![i] = Gone]
    <2>1. PICK st : st = "LOST"
      OBVIOUS
    <2>a. st # "CHECKED_OUT" /\ Shelved(i, st)
      BY <1>6, <2>1
    <2>b. [j \in Items |-> PlaceOf(j)]' =
             [[j \in Items |-> PlaceOf(j)] EXCEPT
                 ![i] = IF st = "AVAILABLE" THEN Shelf ELSE IF st = "ON_HOLD" THEN Aside ELSE Gone]
      BY <1>1, <1>2, <1>5, <2>a, ClosedSeen
    <2>2. PlaceOf(i) \in Patrons
      BY <1>1, <1>2, <1>5, <2>a, ClosedSeen
    <2>3. QED
      BY <2>1, <2>b, <2>2
  <1>10. Abstract!Lose(i)
    BY <1>3, <1>8, <1>9 DEF Abstract!Lose
  <1>11. QED
    BY <1>3, <1>10 DEF Abstract!Next

\* A copy that is not lent moves, and no loan does.
LEMMA MovedSeen ==
    ASSUME LoansPart, UNCHANGED loans, NEW i \in Items, NEW st, st # "CHECKED_OUT", Shelved(i, st)
    PROVE  [j \in Items |-> PlaceOf(j)]' =
           [[j \in Items |-> PlaceOf(j)] EXCEPT
               ![i] = IF st = "AVAILABLE" THEN Shelf ELSE IF st = "ON_HOLD" THEN Aside ELSE Gone]
  <1>1. PlaceOf(i)' = IF st = "AVAILABLE" THEN Shelf ELSE IF st = "ON_HOLD" THEN Aside ELSE Gone
    BY PlaceElse, PlaceIsIn DEF Shelved
  <1>2. ASSUME NEW j \in Items, j # i
        PROVE  PlaceOf(j)' = PlaceOf(j)
    BY <1>2, PlaceStays DEF Shelved, LoanStays
  <1>3. QED
    BY <1>1, <1>2, PlacesWritten

LEMMA UnmovedSeen ==
    ASSUME LoansPart, UNCHANGED <<status, loans>>
    PROVE  [j \in Items |-> PlaceOf(j)]' = [j \in Items |-> PlaceOf(j)]
  <1>1. \A j \in Items : PlaceOf(j)' = PlaceOf(j)
    BY PlaceStays DEF LoanStays
  <1>2. QED
    BY <1>1, PlacesSame

\* A reader with no active hold is neither served nor waiting.
LEMMA NoDuplicateSeen ==
    ASSUME NEW r, NEW p, ~Duplicate(r, p)
    PROVE  p \notin ReadersOf(r, "AVAILABLE") \cup ReadersOf(r, "PENDING")
  BY DEF Duplicate, ActiveHolds, ActiveHold, ACTIVE_HOLD_STATUSES, ReadersOf, HoldsIn

LEMMA ReserveReadySeen ==
    ASSUME CirculationAssumption, Places, SerialInv, NEW s \in Procs, HoldReadyCommit(s)
    PROVE  Abstract!Next
  <1> DEFINE q == sess[s]
  <1>0. PICK i, r, p : i = q.item /\ r = q.record /\ p = q.patron
    OBVIOUS
  <1>1. /\ q.op \in {"hold", "holdOnline"} /\ q.pc = "commitReady" /\ Reads(s) /\ TypeOK
        /\ LoansPart
    BY DEF SerialInv, DeskPart, HoldReadyCommit, At
  <1>2. r \in Records /\ p \in Patrons /\ i \in ShelfItems(r) /\ ~Duplicate(r, p)
    BY <1>0, <1>1 DEF Reads, HoldReads, After
  <1>3. i \in Items /\ RecordOf[i] = r /\ status[i] = "AVAILABLE"
    BY <1>2 DEF ShelfItems, ItemsOf
  <1>4. PICK h \in HoldIds :
           /\ FreshHold(h)
           /\ holds' = [holds EXCEPT ![h] =
                 [status |-> "AVAILABLE", record |-> r, patron |-> p,
                  priority |-> 0, expiry |-> q.now + PickupDaysOf(q.op), notified |-> FALSE]]
    BY <1>0 DEF HoldReadyCommit
  <1>5. status' = [status EXCEPT ![i] = "ON_HOLD"] /\ loans' = loans
    BY <1>0 DEF HoldReadyCommit
  <1>6. Shelved(i, "ON_HOLD")
    BY <1>1, <1>3, <1>5, ShelfWritten
  <1>7. /\ holds[h].status = "unused" /\ holds'[h].status = "AVAILABLE"
        /\ holds'[h].record = r /\ holds'[h].patron = p
        /\ \A g \in HoldIds \ {h} : Stays(g)
    BY <1>1, <1>4 DEF FreshHold, Stays, Becomes, TypeOK
  <1>8. ReadersKept
    BY <1>7 DEF ReadersKept, Stays, Becomes
  <1>9. \A y \in Records : HoldsIn(y, "AVAILABLE")' =
           IF y = r THEN HoldsIn(y, "AVAILABLE") \cup {h} ELSE HoldsIn(y, "AVAILABLE")
    BY <1>7 DEF HoldsIn, Stays, Becomes
  <1>10. \A y \in Records : HoldsIn(y, "PENDING")' = HoldsIn(y, "PENDING")
    BY <1>7 DEF HoldsIn, Stays, Becomes
  <1>11. [y \in Records |-> ReadersOf(y, "AVAILABLE")]' =
             [[y \in Records |-> ReadersOf(y, "AVAILABLE")] EXCEPT
               ![r] = ReadersOf(r, "AVAILABLE") \cup {holds'[h].patron}]
    BY <1>2, <1>8, <1>9, ReadersJoined
  <1>12. [y \in Records |-> ReadersOf(y, "PENDING")]' = [y \in Records |-> ReadersOf(y, "PENDING")]
    BY <1>8, <1>10, ReadersSame, ReadersUnmoved
  <1>13. [j \in Items |-> PlaceOf(j)]' = [[j \in Items |-> PlaceOf(j)] EXCEPT ![i] = Aside]
    BY <1>1, <1>3, <1>5, <1>6, MovedSeen
  <1>14. PlaceOf(i) = Shelf
    BY <1>1, <1>3, PlaceIs
  <1>15. p \notin ReadersOf(r, "AVAILABLE") \cup ReadersOf(r, "PENDING")
    BY <1>2, NoDuplicateSeen
  <1>16. i \in Abstract!At(r, Shelf)
    BY <1>3, <1>14 DEF Abstract!At
  <1>17. Abstract!Reserve(r, p)
    BY <1>2, <1>7, <1>11, <1>12, <1>13, <1>15, <1>16 DEF Abstract!Reserve
  <1>18. QED
    BY <1>2, <1>17 DEF Abstract!Next

LEMMA ReservePendingSeen ==
    ASSUME CirculationAssumption, Places, SerialInv, NEW s \in Procs, HoldPendingCommit(s)
    PROVE  Abstract!Next
  <1> DEFINE q == sess[s]
  <1>0. PICK r, p : r = q.record /\ p = q.patron
    OBVIOUS
  <1>1. /\ q.op \in {"hold", "holdOnline"} /\ q.pc = "commitPending" /\ Reads(s) /\ TypeOK
        /\ LoansPart
    BY DEF SerialInv, DeskPart, HoldPendingCommit, At
  <1>2. r \in Records /\ p \in Patrons /\ ShelfItems(r) = {} /\ ~Duplicate(r, p)
    BY <1>0, <1>1 DEF Reads, HoldReads, After
  <1>3. PICK h \in HoldIds :
           /\ FreshHold(h)
           /\ holds' = [holds EXCEPT ![h] =
                 [status |-> "PENDING", record |-> r, patron |-> p,
                  priority |-> q.num + 1, expiry |-> 0, notified |-> FALSE]]
    BY <1>0 DEF HoldPendingCommit
  <1>4. UNCHANGED <<status, loans>>
    BY DEF HoldPendingCommit
  <1>5. /\ holds[h].status = "unused" /\ holds'[h].status = "PENDING"
        /\ holds'[h].record = r /\ holds'[h].patron = p
        /\ \A g \in HoldIds \ {h} : Stays(g)
    BY <1>1, <1>3 DEF FreshHold, Stays, Becomes, TypeOK
  <1>6. ReadersKept
    BY <1>5 DEF ReadersKept, Stays, Becomes
  <1>7. \A y \in Records : HoldsIn(y, "PENDING")' =
           IF y = r THEN HoldsIn(y, "PENDING") \cup {h} ELSE HoldsIn(y, "PENDING")
    BY <1>5 DEF HoldsIn, Stays, Becomes
  <1>8. \A y \in Records : HoldsIn(y, "AVAILABLE")' = HoldsIn(y, "AVAILABLE")
    BY <1>5 DEF HoldsIn, Stays, Becomes
  <1>9. [y \in Records |-> ReadersOf(y, "PENDING")]' =
            [[y \in Records |-> ReadersOf(y, "PENDING")] EXCEPT
              ![r] = ReadersOf(r, "PENDING") \cup {holds'[h].patron}]
    BY <1>2, <1>6, <1>7, ReadersJoined
  <1>10. [y \in Records |-> ReadersOf(y, "AVAILABLE")]' = [y \in Records |-> ReadersOf(y, "AVAILABLE")]
    BY <1>6, <1>8, ReadersSame, ReadersUnmoved
  <1>11. [j \in Items |-> PlaceOf(j)]' = [j \in Items |-> PlaceOf(j)]
    BY <1>1, <1>4, UnmovedSeen
  <1>12. p \notin ReadersOf(r, "AVAILABLE") \cup ReadersOf(r, "PENDING")
    BY <1>2, NoDuplicateSeen
  <1>13. Abstract!At(r, Shelf) = {}
    BY <1>1, <1>2, PlaceIs DEF Abstract!At, ShelfItems, ItemsOf
  <1>14. Abstract!Reserve(r, p)
    BY <1>2, <1>5, <1>9, <1>10, <1>11, <1>12, <1>13 DEF Abstract!Reserve
  <1>15. QED
    BY <1>2, <1>14 DEF Abstract!Next

LEMMA GiveUpWaitingSeen ==
    ASSUME CirculationAssumption, Places, SerialInv, NEW s \in Procs, CancelPending(s)
    PROVE  Abstract!Next
  <1>0. PICK h, r, p : h = sess[s].hold /\ r = holds[h].record /\ p = holds[h].patron
    OBVIOUS
  <1>1. /\ sess[s].op \in {"cancel", "cancelOnline"} /\ sess[s].pc = "cancel" /\ Reads(s)
        /\ TypeOK /\ LoansPart /\ HoldsPart
    BY DEF SerialInv, DeskPart, CancelPending, At
  <1>2. h \in HoldIds /\ holds[h].status = "PENDING"
    BY <1>0, <1>1 DEF Reads, CancelReads, CancelPending, HoldsIn
  <1>3. r \in Records /\ p \in Patrons /\ h \in HoldsIn(r, "PENDING")
    BY <1>0, <1>1, <1>2 DEF HoldsPart, HoldRows, HoldsIn
  <1>4. holds' = [holds EXCEPT ![h].status = "CANCELLED"] /\ UNCHANGED <<status, loans>>
    BY <1>0 DEF CancelPending, Cancelled
  <1>5. Becomes(h, "CANCELLED") /\ \A g \in HoldIds \ {h} : Stays(g)
    BY <1>1, <1>2, <1>4 DEF Stays, Becomes, TypeOK, Hold
  <1>6. ReadersKept
    BY <1>5 DEF ReadersKept, Stays, Becomes
  <1>7. \A y \in Records : HoldsIn(y, "PENDING")' = HoldsIn(y, "PENDING") \ {h}
    BY <1>5 DEF HoldsIn, Stays, Becomes
  <1>8. \A y \in Records : HoldsIn(y, "AVAILABLE")' = HoldsIn(y, "AVAILABLE")
    BY <1>2, <1>5 DEF HoldsIn, Stays, Becomes
  <1>9. [y \in Records |-> ReadersOf(y, "PENDING")]' =
            [[y \in Records |-> ReadersOf(y, "PENDING")] EXCEPT
              ![r] = ReadersOf(r, "PENDING") \ {holds[h].patron}]
    BY <1>1, <1>3, <1>6, <1>7, ReadersLeft DEF HoldsPart, ACTIVE_HOLD_STATUSES
  <1>10. [y \in Records |-> ReadersOf(y, "AVAILABLE")]' = [y \in Records |-> ReadersOf(y, "AVAILABLE")]
    BY <1>6, <1>8, ReadersSame, ReadersUnmoved
  <1>11. [j \in Items |-> PlaceOf(j)]' = [j \in Items |-> PlaceOf(j)]
    BY <1>1, <1>4, UnmovedSeen
  <1>12. p \in ReadersOf(r, "PENDING")
    BY <1>0, <1>3 DEF ReadersOf
  <1>13. Abstract!GiveUp(r, p)
    BY <1>0, <1>3, <1>9, <1>10, <1>11, <1>12 DEF Abstract!GiveUp
  <1>14. QED
    BY <1>3, <1>13 DEF Abstract!Next

\* One reader leaves and another joins.
LEMMA ReadersSwapped ==
    ASSUME OneHoldPerReader, NEW r \in Records, NEW st \in ACTIVE_HOLD_STATUSES,
           NEW h \in HoldsIn(r, st), NEW n \in HoldIds, ReadersKept,
           \A y \in Records : HoldsIn(y, st)' =
              IF y = r THEN (HoldsIn(y, st) \ {h}) \cup {n} ELSE HoldsIn(y, st)
    PROVE  [y \in Records |-> ReadersOf(y, st)]' =
           [[y \in Records |-> ReadersOf(y, st)] EXCEPT
               ![r] = (ReadersOf(r, st) \ {holds[h].patron}) \cup {holds'[n].patron}]
  <1>1. \A g \in HoldsIn(r, st) : holds'[g].patron = holds[g].patron
    BY DEF HoldsIn, ReadersKept, ACTIVE_HOLD_STATUSES
  <1>2. \A g \in HoldsIn(r, st) : g # h => holds[g].patron # holds[h].patron
    BY DEF HoldsIn, OneHoldPerReader, ActiveHold
  <1>3. ReadersOf(r, st)' = {holds'[g].patron : g \in (HoldsIn(r, st) \ {h}) \cup {n}}
    BY DEF ReadersOf
  <1>4. {holds'[g].patron : g \in HoldsIn(r, st) \ {h}} = {holds[g].patron : g \in HoldsIn(r, st) \ {h}}
    BY <1>1
  <1>5. {holds[g].patron : g \in HoldsIn(r, st) \ {h}} = ReadersOf(r, st) \ {holds[h].patron}
    BY <1>2 DEF ReadersOf
  <1>6. {holds'[g].patron : g \in (HoldsIn(r, st) \ {h}) \cup {n}}
           = {holds'[g].patron : g \in HoldsIn(r, st) \ {h}} \cup {holds'[n].patron}
    OBVIOUS
  <1>7. ReadersOf(r, st)' = (ReadersOf(r, st) \ {holds[h].patron}) \cup {holds'[n].patron}
    BY <1>3, <1>4, <1>5, <1>6
  <1>8. ASSUME NEW y \in Records, y # r
        PROVE  ReadersOf(y, st)' = ReadersOf(y, st)
    <2>1. HoldsIn(y, st)' = HoldsIn(y, st) /\ st # "unused"
      BY <1>8 DEF ACTIVE_HOLD_STATUSES
    <2>2. QED
      BY <2>1, ReadersSame
  <1>9. QED
    BY <1>7, <1>8, ReadersWritten

LEMMA PassOnSeen ==
    ASSUME CirculationAssumption, Places, LoansPart, HoldsPart, TypeOK, NEW s \in Procs,
           sess[s].pc = "txCommit", EndingReads(s), NEW how \in {"CANCELLED", "EXPIRED"},
           NEW until, NEW again,
           PassOn(sess[s].hold, how, sess[s].next, sess[s].item, until, again), UNCHANGED loans
    PROVE  Abstract!Next
  <1>0. PICK h, n, r, i, p : /\ h = sess[s].hold /\ n = sess[s].next /\ r = sess[s].record
                             /\ i = sess[s].item /\ p = holds[h].patron
    OBVIOUS
  <1>1. /\ h \in HoldsIn(r, "AVAILABLE") /\ h \in HoldIds /\ r \in Records
        /\ IF n = 0 THEN HoldsIn(r, "PENDING") = {} ELSE n \in HoldsIn(r, "PENDING")
        /\ n = 0 => i \in HeldItems(r)
    BY <1>0 DEF EndingReads, HoldsIn, NextRead
  <1>2. PassOn(h, how, n, i, until, again)
    BY <1>0
  <1>3. \A g \in HoldIds : /\ holds[g] \in Hold
                           /\ holds'[g] = IF g = n
                                  THEN [holds[g] EXCEPT !.status = "AVAILABLE", !.expiry = until,
                                                        !.notified = @ /\ ~again]
                                  ELSE IF g = h THEN [holds[g] EXCEPT !.status = how] ELSE holds[g]
    BY <1>2 DEF PassOn, TypeOK
  <1>4. p \in Patrons /\ p \in ReadersOf(r, "AVAILABLE")
    BY <1>0, <1>1 DEF HoldsPart, HoldRows, HoldsIn, ReadersOf
  <1>5. CASE n # 0
    <2>1. n \in HoldsIn(r, "PENDING") /\ n \in HoldIds /\ n # h
      BY <1>1, <1>5 DEF HoldsIn
    <2>2. status' = status
      BY <1>2, <1>5 DEF PassOn
    <2>a. /\ holds[n] \in Hold
          /\ holds'[n] = [holds[n] EXCEPT !.status = "AVAILABLE", !.expiry = until,
                                          !.notified = @ /\ ~again]
      BY <1>3, <2>1
    <2>3. Becomes(n, "AVAILABLE")
      BY <2>a DEF Becomes, Hold
    <2>b. holds[h] \in Hold /\ holds'[h] = [holds[h] EXCEPT !.status = how]
      BY <1>1, <1>3, <2>1
    <2>4. Becomes(h, how)
      BY <2>b DEF Becomes, Hold
    <2>5. \A g \in HoldIds : g # h /\ g # n => Stays(g)
      BY <1>3 DEF Stays, Becomes
    <2>6. ReadersKept /\ holds'[n].patron = holds[n].patron
      BY <2>3, <2>4, <2>5 DEF ReadersKept, Stays, Becomes
    <2>7. \A y \in Records : HoldsIn(y, "PENDING")' = HoldsIn(y, "PENDING") \ {n}
      <3>1. \A g \in HoldIds : holds'[g].status = "PENDING" <=> holds[g].status = "PENDING" /\ g # n
        BY <1>1, <2>3, <2>4, <2>5 DEF HoldsIn, Becomes, Stays
      <3>2. \A g \in HoldIds : holds'[g].record = holds[g].record
        BY <2>3, <2>4, <2>5 DEF Becomes, Stays
      <3>3. QED
        BY <3>1, <3>2 DEF HoldsIn
    <2>8. \A y \in Records : HoldsIn(y, "AVAILABLE")' =
             IF y = r THEN (HoldsIn(y, "AVAILABLE") \ {h}) \cup {n} ELSE HoldsIn(y, "AVAILABLE")
      <3>1. \A g \in HoldIds :
               holds'[g].status = "AVAILABLE" <=> g = n \/ (holds[g].status = "AVAILABLE" /\ g # h)
        BY <2>1, <2>3, <2>4, <2>5 DEF Becomes, Stays
      <3>2. \A g \in HoldIds : holds'[g].record = holds[g].record
        BY <2>3, <2>4, <2>5 DEF Becomes, Stays
      <3>3. /\ holds[h].record = r /\ holds[n].record = r
            /\ \A y : HoldsIn(y, "AVAILABLE") \subseteq HoldIds
        BY <1>1, <2>1 DEF HoldsIn
      <3>4. ASSUME NEW y \in Records, NEW g
            PROVE  g \in HoldsIn(y, "AVAILABLE")' <=>
                     IF y = r THEN g = n \/ (g \in HoldsIn(y, "AVAILABLE") /\ g # h)
                     ELSE g \in HoldsIn(y, "AVAILABLE")
        BY <1>1, <2>1, <3>1, <3>2, <3>3 DEF HoldsIn
      <3>5. QED
        BY <3>4
    <2>9. [y \in Records |-> ReadersOf(y, "PENDING")]' =
              [[y \in Records |-> ReadersOf(y, "PENDING")] EXCEPT
                ![r] = ReadersOf(r, "PENDING") \ {holds[n].patron}]
      BY <1>1, <2>1, <2>6, <2>7, ReadersLeft DEF HoldsPart, ACTIVE_HOLD_STATUSES
    <2>10. [y \in Records |-> ReadersOf(y, "AVAILABLE")]' = [[y \in Records |-> ReadersOf(y, "AVAILABLE")] EXCEPT
              ![r] = (ReadersOf(r, "AVAILABLE") \ {holds[h].patron}) \cup {holds'[n].patron}]
      BY <1>1, <2>1, <2>6, <2>8, ReadersSwapped DEF HoldsPart, ACTIVE_HOLD_STATUSES
    <2>11. [j \in Items |-> PlaceOf(j)]' = [j \in Items |-> PlaceOf(j)]
      BY <2>2, UnmovedSeen
    <2>12. holds[n].patron \in ReadersOf(r, "PENDING")
      BY <2>1 DEF ReadersOf
    <2>13. Abstract!GiveUp(r, p)
      BY <1>0, <1>1, <1>4, <2>6, <2>9, <2>10, <2>11, <2>12 DEF Abstract!GiveUp
    <2>14. QED
      BY <1>1, <1>4, <2>13 DEF Abstract!Next
  <1>6. CASE n = 0
    <2>1. HoldsIn(r, "PENDING") = {} /\ i \in HeldItems(r) /\ n \notin HoldIds
      BY <1>1, <1>6 DEF CirculationAssumption
    <2>2. i \in Items /\ i # NoItem /\ RecordOf[i] = r /\ status[i] = "ON_HOLD"
      BY <2>1 DEF HeldItems, ItemsOf, CirculationAssumption
    <2>3. status' = [status EXCEPT ![i] = "AVAILABLE"]
      BY <1>2, <1>6, <2>2 DEF PassOn
    <2>4. Shelved(i, "AVAILABLE")
      BY <2>2, <2>3, ShelfWritten
    <2>b. holds[h] \in Hold /\ holds'[h] = [holds[h] EXCEPT !.status = how]
      BY <1>1, <1>3, <2>1
    <2>5. Becomes(h, how)
      BY <2>b DEF Becomes, Hold
    <2>6. \A g \in HoldIds \ {h} : Stays(g)
      BY <1>3, <2>1 DEF Stays, Becomes
    <2>7. ReadersKept
      BY <2>5, <2>6 DEF ReadersKept, Stays, Becomes
    <2>8. \A y \in Records : HoldsIn(y, "AVAILABLE")' = HoldsIn(y, "AVAILABLE") \ {h}
      BY <2>5, <2>6 DEF HoldsIn, Becomes, Stays
    <2>9. \A y \in Records : HoldsIn(y, "PENDING")' = HoldsIn(y, "PENDING")
      BY <1>1, <2>5, <2>6 DEF HoldsIn, Becomes, Stays
    <2>10. [y \in Records |-> ReadersOf(y, "AVAILABLE")]' =
               [[y \in Records |-> ReadersOf(y, "AVAILABLE")] EXCEPT
                 ![r] = ReadersOf(r, "AVAILABLE") \ {holds[h].patron}]
      BY <1>1, <2>7, <2>8, ReadersLeft DEF HoldsPart, ACTIVE_HOLD_STATUSES
    <2>11. [y \in Records |-> ReadersOf(y, "PENDING")]' = [y \in Records |-> ReadersOf(y, "PENDING")]
      BY <2>7, <2>9, ReadersSame, ReadersUnmoved
    <2>12. [j \in Items |-> PlaceOf(j)]' = [[j \in Items |-> PlaceOf(j)] EXCEPT ![i] = Shelf]
      BY <2>2, <2>4, MovedSeen
    <2>13. PlaceOf(i) = Aside
      BY <2>2, PlaceIs
    <2>14. i \in Abstract!At(r, Aside)
      BY <2>2, <2>13 DEF Abstract!At
    <2>15. ReadersOf(r, "PENDING") = {}
      BY <2>1, NobodyIn
    <2>16. Abstract!GiveUp(r, p)
      BY <1>0, <1>1, <1>4, <2>10, <2>11, <2>12, <2>14, <2>15 DEF Abstract!GiveUp
    <2>17. QED
      BY <1>1, <1>4, <2>16 DEF Abstract!Next
  <1>7. QED
    BY <1>5, <1>6

LEMMA EndingSeen ==
    ASSUME CirculationAssumption, Places, SerialInv, NEW s \in Procs,
           CancelCommit(s) \/ ExpireCommit(s)
    PROVE  Abstract!Next
  <1>1. Reads(s) /\ TypeOK /\ LoansPart /\ HoldsPart
    BY DEF SerialInv, DeskPart
  <1>2. CASE CancelCommit(s)
    <2>1. /\ sess[s].op \in {"cancel", "cancelOnline"} /\ sess[s].pc = "txCommit"
          /\ PassOn(sess[s].hold, "CANCELLED", sess[s].next, sess[s].item,
                    sess[s].now + DeskPickupDays, FALSE)
          /\ UNCHANGED loans
      BY <1>2 DEF CancelCommit, At
    <2>2. EndingReads(s)
      BY <1>1, <2>1 DEF Reads, CancelReads
    <2>3. QED
      BY <1>1, <2>1, <2>2, PassOnSeen
  <1>3. CASE ExpireCommit(s)
    <2>1. /\ sess[s].op = "expire" /\ sess[s].pc = "txCommit"
          /\ PassOn(sess[s].hold, "EXPIRED", sess[s].next, sess[s].item,
                    sess[s].now + PickupDays, TRUE)
          /\ UNCHANGED loans
      BY <1>3 DEF ExpireCommit, At
    <2>2. EndingReads(s)
      BY <1>1, <2>1 DEF Reads, ExpireReads
    <2>3. QED
      BY <1>1, <2>1, <2>2, PassOnSeen
  <1>4. QED
    BY <1>2, <1>3

LEMMA LendingInit ==
    ASSUME CirculationAssumption, Init
    PROVE  Abstract!Init
  <1>1. \A i \in Items : PlaceOf(i) = Shelf
    BY PlaceElse, PlaceIsIn DEF Init
  <1>2. \A h \in HoldIds : holds[h].status = "unused"
    BY DEF Init, NoHold
  <1>3. \A r : ReadersOf(r, "AVAILABLE") = {} /\ ReadersOf(r, "PENDING") = {}
    <2>1. \A r : HoldsIn(r, "AVAILABLE") = {} /\ HoldsIn(r, "PENDING") = {}
      BY <1>2 DEF HoldsIn
    <2>2. QED
      BY <2>1, NobodyIn
  <1>4. QED
    BY <1>1, <1>3 DEF Abstract!Init

LEMMA LendingNext ==
    ASSUME CirculationAssumption, Serial, Places, SerialInv, [Next]_vars
    PROVE  Abstract!Next \/ UNCHANGED Abstract!vars
  <1>0. TypeOK /\ LoansPart /\ HoldsPart
    BY DEF SerialInv, DeskPart
  <1>q. ASSUME UNCHANGED <<status, loans, holds>>
        PROVE  UNCHANGED Abstract!vars
    BY <1>0, <1>q, QuietStep DEF LoanStays, Stays, Becomes
  <1>1. ASSUME NEW s \in Procs, Step(s)
        PROVE  Abstract!Next \/ UNCHANGED Abstract!vars
    <2>1. CASE \/ CheckoutCount(s) \/ CheckoutReady(s) \/ ReturnNext(s) \/ RenewHolds(s)
               \/ HoldDuplicate(s) \/ HoldCount(s) \/ CancelLock(s) \/ CancelNext(s)
               \/ ExpireHeld(s) \/ ExpireEnd(s) \/ NotifyFind(s) \/ NotifyEnd(s)
               \/ \E h \in HoldIds : ExpireLock(s, h)
      <3>1. UNCHANGED db
        BY <2>1, ReadStep
      <3>2. QED
        BY <1>q, <3>1 DEF db
    <2>2. CASE RenewCommit(s)
      <3>1. loans' = [loans EXCEPT ![sess[s].loan].due = sess[s].now + RenewalDays(sess[s].op),
                                   ![sess[s].loan].renewals = sess[s].num + 1]
        BY <2>2 DEF RenewCommit
      <3>2. \A k \in LoanIds : LoanStays(k)
        BY <1>0, <3>1 DEF LoanStays, TypeOK, Loan
      <3>3. UNCHANGED status /\ \A g \in HoldIds : Stays(g)
        BY <2>2 DEF RenewCommit, Stays, Becomes
      <3>4. QED
        BY <1>0, <3>2, <3>3, QuietStep
    <2>3. CASE \/ \E h \in HoldIds : NotifyClaim(s, h)
               \/ \E outcome \in {"sent", "refused", "sentThenError"} : NotifySend(s, outcome)
      <3>1. UNCHANGED <<status, loans>> /\ \A g \in HoldIds : Stays(g)
        BY <1>0, <2>3, NotifyKeeps
      <3>2. QED
        BY <1>0, <3>1, QuietStep DEF LoanStays
    <2>4. CASE \/ CheckoutCommit(s) \/ ReturnCommit(s) \/ PerteCommit(s) \/ HoldReadyCommit(s)
               \/ HoldPendingCommit(s) \/ CancelPending(s) \/ CancelCommit(s) \/ ExpireCommit(s)
      BY <2>4, LendSeen, GiveBackSeen, LoseSeen, ReserveReadySeen, ReservePendingSeen,
         GiveUpWaitingSeen, EndingSeen
    <2>5. QED
      BY <1>1, <2>1, <2>2, <2>3, <2>4 DEF Step
  <1>2. ASSUME NEW s \in Procs, Arrivals(s) \/ ExpireFind(s) \/ Abort(s)
        PROVE  UNCHANGED Abstract!vars
    <2>1. UNCHANGED db
      BY <1>2, ArrivalReads DEF Abort
    <2>2. QED
      BY <1>q, <2>1 DEF db
  <1>3. ASSUME Tick \/ UNCHANGED vars
        PROVE  UNCHANGED Abstract!vars
    BY <1>q, <1>3 DEF Tick, vars, db
  <1>4. \A i \in Items, st \in ItemStatus : ~UpdateItem(i, st)
    BY DEF UpdateItem, Serial
  <1>5. QED
    BY <1>1, <1>2, <1>3, <1>4 DEF Next, Wait

\* One request at a time, every commit of the desk is one operation of the abstract
\* desk, and every other statement is none.
THEOREM DeskImplementsLending == ASSUME Serial, Places PROVE Spec => ImplementsLending
  <1>1. Init => Abstract!Init
    BY LendingInit, CirculationAssumption
  <1>2. SerialInv /\ [Next]_vars => [Abstract!Next]_(Abstract!vars)
    BY LendingNext, CirculationAssumption
  <1>3. QED
    BY <1>1, <1>2, SerialAlways, PTL DEF Spec, Abstract!Spec, ImplementsLending
=============================================================================
