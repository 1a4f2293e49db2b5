----------------------------- MODULE Circulation -----------------------------
(***************************************************************************)
(* The lending desk of one school: CirculationService and HoldsService,    *)
(* with the online renewal of ReaderService and the item edit of           *)
(* CatalogingService, over the tables items, checkouts and holds.          *)
(*                                                                         *)
(* The server runs many requests at once on one READ COMMITTED database.   *)
(* A request is a sequence of awaited statements; between two of them any  *)
(* other request may run.  Each session below is one request in flight:    *)
(* its record keeps what the request has READ, which may be stale when it  *)
(* is used.  A transaction that only writes is one step (its row locks     *)
(* make it atomic); a transaction that reads between its writes keeps the  *)
(* lock of the first row it wrote until it commits.                        *)
(*                                                                         *)
(* An operator named Slip... is a plausible slip in the code of the        *)
(* definition that follows it; the specification does not use it (README,  *)
(* "Mutation testing").                                                    *)
(***************************************************************************)
EXTENDS Integers, FiniteSets

CONSTANTS
    Sessions,        \* HTTP requests that can be in flight together
    Cron,            \* the hourly holds scheduler
    MaxInFlight,     \* bound: requests and scheduler passes in flight together
    Ops,             \* the handlers that receive traffic
    Records,         \* biblio_records
    Items,           \* items (copies)
    RecordOf,        \* items.record_id
    Patrons,         \* patrons
    HasEmail,        \* patrons whose account carries a usable address
    CardExpiry,      \* patrons.expiry_date: last day the card is valid
    LoanIds,         \* checkouts rows that may be created, in creation order
    HoldIds,         \* holds rows that may be created, in creation order
    MaxCheckouts,    \* resolved rule: simultaneous loans
    MaxRenewals,     \* resolved rule: renewals
    LoanDays,        \* resolved rule: loan period
    FinePerDay,      \* resolved rule: daily fine
    OnlineMax,       \* tenant policy: online renewals
    OnlineDays,      \* tenant policy: days an online renewal gives
    RefuseOverdue,   \* tenant policy: online renewal of a late loan refused
    DeskPickupDays,  \* HOLD_PICKUP_DAYS, used by return, cancel and desk holds
    PickupDays,      \* tenant policy: holdPickupDays
    EditStatuses,    \* statuses staff may write on an item
    MailOutcomes,    \* what the mail server may do with a message
    Days,            \* bound: the days explored
    MaxMails,        \* bound: messages delivered for one hold
    NoItem, NoPatron, NoRecord

OpNames == {"checkout", "return", "renew", "renewOnline", "perte", "hold",
            "holdOnline", "cancel", "cancelOnline", "expire", "edit", "abort"}

ItemStatus == {"AVAILABLE", "CHECKED_OUT", "ON_HOLD", "IN_TRANSIT",
               "DAMAGED", "LOST", "WITHDRAWN", "MISSING"}

HoldStatus == {"PENDING", "AVAILABLE", "FULFILLED", "CANCELLED", "EXPIRED"}

ACTIVE_HOLD_STATUSES == {"PENDING", "AVAILABLE"}

ASSUME CirculationAssumption ==
    /\ IsFiniteSet(Sessions) /\ Cron \notin Sessions
    /\ Ops \subseteq OpNames
    /\ NoItem \notin Items /\ NoPatron \notin Patrons /\ NoRecord \notin Records
    /\ RecordOf \in [Items -> Records]
    /\ HasEmail \subseteq Patrons
    /\ CardExpiry \in [Patrons -> Nat]
    /\ LoanIds \subseteq Nat \ {0} /\ HoldIds \subseteq Nat \ {0}
    /\ IsFiniteSet(HoldIds)
    /\ {MaxInFlight, MaxCheckouts, MaxRenewals, LoanDays, FinePerDay, OnlineMax,
        OnlineDays, DeskPickupDays, PickupDays, MaxMails} \subseteq Nat
    /\ Days \subseteq Nat
    /\ RefuseOverdue \in BOOLEAN
    /\ EditStatuses \subseteq ItemStatus
    /\ MailOutcomes \subseteq {"sent", "refused", "sentThenError"}

VARIABLES
    status,   \* items.status
    loans,    \* checkouts
    holds,    \* holds
    clock,    \* the day
    sess,     \* what each request in flight has read, and where it stands
    promos,   \* history: how many times a hold was made ready
    mails     \* history: how many "ready" messages were delivered for a hold

db == <<status, loans, holds, promos, mails>>
vars == <<db, clock, sess>>

Procs == Sessions \cup {Cron}

\* checkouts: the row is "unused" until it is created; state is closed_as,
\* or "open" while return_date is null.
Loan == [state : {"unused", "open", "rendu", "perte"},
         item : Items \cup {NoItem}, patron : Patrons \cup {NoPatron},
         due : Nat, renewals : Nat, fine : Nat]
NoLoan == [state |-> "unused", item |-> NoItem, patron |-> NoPatron,
           due |-> 0, renewals |-> 0, fine |-> 0]

\* holds: notified is notification_tentee_a, not null.
Hold == [status : HoldStatus \cup {"unused"}, record : Records \cup {NoRecord},
         patron : Patrons \cup {NoPatron}, priority : Nat, expiry : Nat,
         notified : BOOLEAN]
NoHold == [status |-> "unused", record |-> NoRecord, patron |-> NoPatron,
           priority |-> 0, expiry |-> 0, notified |-> FALSE]

\* Where a request stands; in the tx labels it is inside a transaction.
Labels == {"idle", "count", "ready", "commit", "next", "holds", "duplicate",
           "commitReady", "commitPending", "cancel", "txNext", "txHeld",
           "txCommit", "each", "notify", "claim", "send"}

\* A request in flight: num is the number it computed from what it read (the
\* renewals so far, the queue length or the fine); seen the status it read.
Request == [op : OpNames \cup {"idle"}, pc : Labels, now : Nat,
            item : Items \cup {NoItem}, record : Records \cup {NoRecord},
            patron : Patrons \cup {NoPatron},
            loan : LoanIds \cup {0}, hold : HoldIds \cup {0},
            next : HoldIds \cup {0},
            seen : ItemStatus \cup HoldStatus \cup {"none"},
            num : Nat, todo : SUBSET HoldIds]
Idle == [op |-> "idle", pc |-> "idle", now |-> 0, item |-> NoItem,
         record |-> NoRecord, patron |-> NoPatron, loan |-> 0, hold |-> 0,
         next |-> 0, seen |-> "none", num |-> 0, todo |-> {}]

Init ==
    /\ status = [i \in Items |-> "AVAILABLE"]
    /\ loans = [l \in LoanIds |-> NoLoan]
    /\ holds = [h \in HoldIds |-> NoHold]
    /\ clock = 0
    /\ sess = [s \in Procs |-> Idle]
    /\ promos = [h \in HoldIds |-> 0]
    /\ mails = [h \in HoldIds |-> 0]

-----------------------------------------------------------------------------
(* Queries *)

\* A findFirst: any of the rows that match, 0 when there is none.
FindFirst(S, none) == IF S = {} THEN {none} ELSE S

ItemsOf(r) == {i \in Items : RecordOf[i] = r}
\* Slip: a copy that circulates is taken for a copy on the shelf.
SlipShelfItems(r) == {i \in ItemsOf(r) : status[i] \in {"AVAILABLE", "CHECKED_OUT"}}
ShelfItems(r) == {i \in ItemsOf(r) : status[i] = "AVAILABLE"}
HeldItems(r) == {i \in ItemsOf(r) : status[i] = "ON_HOLD"}
OpenLoan(l) == loans[l].state = "open"
OpenLoansOf(p) == {l \in LoanIds : OpenLoan(l) /\ loans[l].patron = p}
ActiveHold(h) == holds[h].status \in ACTIVE_HOLD_STATUSES
ActiveHolds(r) == {h \in HoldIds : ActiveHold(h) /\ holds[h].record = r}
HoldsIn(r, st) == {h \in HoldIds : holds[h].status = st /\ holds[h].record = r}

\* orderBy createdAt
Oldest(S) == {h \in S : \A g \in S : h <= g}

\* orderBy priority, createdAt
Before(g, h) == \/ holds[g].priority < holds[h].priority
                \/ holds[g].priority = holds[h].priority /\ g <= h
\* Slip: the head of the queue is looked for by its number.
SlipNextHolds(r) == {h \in HoldsIn(r, "PENDING") : holds[h].priority = 1}
NextHolds(r) == {h \in HoldsIn(r, "PENDING") :
                    \A g \in HoldsIn(r, "PENDING") : Before(h, g)}

\* Slip: a loan returned early earns its days back.
SlipFine(due, now) == (now - due) * FinePerDay
\* computeFine, on whole days: late days times the daily tariff.
Fine(due, now) == (IF now > due THEN now - due ELSE 0) * FinePerDay

FreshLoan(l) == /\ loans[l].state = "unused"
                /\ \A k \in LoanIds : k < l => loans[k].state # "unused"
FreshHold(h) == /\ holds[h].status = "unused"
                /\ \A g \in HoldIds : g < h => holds[g].status # "unused"

-----------------------------------------------------------------------------
(* Sessions *)

Busy == {s \in Procs : sess[s].op # "idle"}
Doing(ops) == {s \in Busy : sess[s].op \in ops}

\* The row bounds leave room for what the requests in flight may create.
RoomFor(op) ==
    /\ op = "checkout" => Cardinality({l \in LoanIds : loans[l].state = "unused"})
                            > Cardinality(Doing({"checkout"}))
    /\ op \in {"hold", "holdOnline"} =>
           Cardinality({h \in HoldIds : holds[h].status = "unused"})
              > Cardinality(Doing({"hold", "holdOnline"}))

Begin(s, op) ==
    /\ op \in Ops
    /\ sess[s].op = "idle"
    /\ op = "expire" <=> s = Cron
    /\ Cardinality(Busy) < MaxInFlight
    /\ RoomFor(op)

At(s, ops, pc) == sess[s].op \in ops /\ sess[s].pc = pc

Arrive(op, pc) == [Idle EXCEPT !.op = op, !.pc = pc, !.now = clock]
Enter(s, q) == sess' = [sess EXCEPT ![s] = q]
Goto(s, pc) == Enter(s, [sess[s] EXCEPT !.pc = pc])
Done(s) == Enter(s, Idle)

\* A row another transaction has written and not committed yet.
InTransaction(s) == sess[s].pc \in {"txNext", "txHeld", "txCommit"}
Unlocked(s, h) == \A t \in Procs : t # s /\ InTransaction(t) => sess[t].hold # h

-----------------------------------------------------------------------------
(* checkout: the desk lends item i to patron p *)

CheckoutRead(s, i, p) ==
    /\ Begin(s, "checkout")
    /\ CardExpiry[p] >= clock
    /\ Enter(s, [Arrive("checkout", "count") EXCEPT
                    !.item = i, !.patron = p, !.seen = status[i]])
    /\ UNCHANGED <<db, clock>>

UnderCap(p) == Cardinality(OpenLoansOf(p)) < MaxCheckouts

CheckoutCount(s) ==
    /\ At(s, {"checkout"}, "count")
    /\ IF ~UnderCap(sess[s].patron) \/ sess[s].seen \notin {"AVAILABLE", "ON_HOLD"}
       THEN Done(s)
       ELSE Goto(s, IF sess[s].seen = "ON_HOLD" THEN "ready" ELSE "commit")
    /\ UNCHANGED <<db, clock>>

\* Slip: any ready hold opens the way.
SlipReservedFor(h, p) == h # 0
ReservedFor(h, p) == h # 0 /\ holds[h].patron = p

\* An item set aside leaves only with the patron of the oldest ready hold.
CheckoutReady(s) ==
    /\ At(s, {"checkout"}, "ready")
    /\ \E h \in FindFirst(Oldest(HoldsIn(RecordOf[sess[s].item], "AVAILABLE")), 0) :
          IF ReservedFor(h, sess[s].patron)
          THEN Enter(s, [sess[s] EXCEPT !.pc = "commit", !.hold = h])
          ELSE Done(s)
    /\ UNCHANGED <<db, clock>>

\* Slip: an unconditional update.
SlipItemAsRead(s) == TRUE
ItemAsRead(s) == status[sess[s].item] = sess[s].seen

CheckoutCommit(s) ==
    LET q == sess[s] IN
    /\ At(s, {"checkout"}, "commit")
    /\ Unlocked(s, q.hold)
    /\ \/ /\ ItemAsRead(s)
          /\ status' = [status EXCEPT ![q.item] = "CHECKED_OUT"]
          /\ \E l \in LoanIds :
                /\ FreshLoan(l)
                /\ loans' = [loans EXCEPT ![l] =
                      [state |-> "open", item |-> q.item, patron |-> q.patron,
                       due |-> q.now + LoanDays, renewals |-> 0, fine |-> 0]]
          /\ holds' = IF q.hold = 0 THEN holds
                      ELSE [holds EXCEPT ![q.hold].status = "FULFILLED"]
       \/ ~ItemAsRead(s) /\ UNCHANGED <<status, loans, holds>>
    /\ Done(s)
    /\ UNCHANGED <<clock, promos, mails>>

-----------------------------------------------------------------------------
(* returnItem and cloreVersPerte: the two ways a loan is closed *)

ReturnRead(s, l) ==
    /\ Begin(s, "return")
    /\ OpenLoan(l)
    /\ Enter(s, [Arrive("return", "next") EXCEPT
                    !.loan = l, !.item = loans[l].item,
                    !.num = Fine(loans[l].due, clock)])
    /\ UNCHANGED <<db, clock>>

\* The next of the queue is read before the transaction opens.
ReturnNext(s) ==
    /\ At(s, {"return"}, "next")
    /\ \E h \in FindFirst(NextHolds(RecordOf[sess[s].item]), 0) :
          Enter(s, [sess[s] EXCEPT !.pc = "commit", !.next = h])
    /\ UNCHANGED <<db, clock>>

Closed(l, how, fine) ==
    [loans EXCEPT ![l].state = how, ![l].fine = fine]

\* Slip: a close that does not look whether the loan is still open.
SlipStillOpen(s) == TRUE
StillOpen(s) == OpenLoan(sess[s].loan)

\* hold.update of a hold made ready: pickup window, one more promotion.
Ready(h, until) == [holds EXCEPT ![h].status = "AVAILABLE", ![h].expiry = until]
Promoted(h) == [promos EXCEPT ![h] = @ + 1]

ReturnCommit(s) ==
    LET q == sess[s] IN
    /\ At(s, {"return"}, "commit")
    /\ Unlocked(s, q.next)
    /\ \/ /\ StillOpen(s)
          /\ loans' = Closed(q.loan, "rendu", q.num)
          /\ \/ /\ q.next # 0
                /\ holds' = Ready(q.next, q.now + DeskPickupDays)
                /\ promos' = Promoted(q.next)
                /\ status' = [status EXCEPT ![q.item] = "ON_HOLD"]
                /\ Goto(s, "notify")
             \/ /\ q.next = 0
                /\ status' = [status EXCEPT ![q.item] = "AVAILABLE"]
                /\ Done(s)
                /\ UNCHANGED <<holds, promos>>
       \/ /\ ~StillOpen(s)
          /\ Done(s)
          /\ UNCHANGED <<status, loans, holds, promos>>
    /\ UNCHANGED <<clock, mails>>

PerteRead(s, l) ==
    /\ Begin(s, "perte")
    /\ OpenLoan(l)
    /\ Enter(s, [Arrive("perte", "commit") EXCEPT
                    !.loan = l, !.item = loans[l].item,
                    !.num = Fine(loans[l].due, clock)])
    /\ UNCHANGED <<db, clock>>

PerteCommit(s) ==
    LET q == sess[s] IN
    /\ At(s, {"perte"}, "commit")
    /\ \/ /\ StillOpen(s)
          /\ loans' = Closed(q.loan, "perte", q.num)
          /\ status' = [status EXCEPT ![q.item] = "LOST"]
       \/ ~StillOpen(s) /\ UNCHANGED <<status, loans>>
    /\ Done(s)
    /\ UNCHANGED <<holds, promos, mails, clock>>

-----------------------------------------------------------------------------
(* renew (desk) and renewLoan (reader): two rules, one unconditional update *)

RenewalLimit(op) == IF op = "renew" THEN MaxRenewals ELSE OnlineMax
RenewalDays(op) == IF op = "renew" THEN LoanDays ELSE OnlineDays

\* The refusals that need only the loan, as it is read.
Renewable(op, l) ==
    /\ loans[l].renewals < RenewalLimit(op)
    /\ op = "renew" \/ RefuseOverdue => loans[l].due >= clock

RenewRead(s, l, op) ==
    /\ Begin(s, op)
    /\ OpenLoan(l)
    /\ Renewable(op, l)
    /\ Enter(s, [Arrive(op, "holds") EXCEPT
                    !.loan = l, !.item = loans[l].item, !.patron = loans[l].patron,
                    !.num = loans[l].renewals])
    /\ UNCHANGED <<db, clock>>

\* Slip: a hold whose copy is ready no longer counts.
SlipBlockingHolds(op, r, p) == {h \in HoldsIn(r, "PENDING") : holds[h].patron # p}
\* The desk refuses on any active hold of the record, the reader's own page on
\* the holds of the other readers.
BlockingHolds(op, r, p) ==
    {h \in ActiveHolds(r) : op = "renew" \/ holds[h].patron # p}

RenewHolds(s) ==
    LET q == sess[s] IN
    /\ At(s, {"renew", "renewOnline"}, "holds")
    /\ IF BlockingHolds(q.op, RecordOf[q.item], q.patron) = {}
       THEN Goto(s, "commit") ELSE Done(s)
    /\ UNCHANGED <<db, clock>>

RenewCommit(s) ==
    LET q == sess[s] IN
    /\ At(s, {"renew", "renewOnline"}, "commit")
    /\ loans' = [loans EXCEPT ![q.loan].due = q.now + RenewalDays(q.op),
                              ![q.loan].renewals = q.num + 1]
    /\ Done(s)
    /\ UNCHANGED <<status, holds, promos, mails, clock>>

-----------------------------------------------------------------------------
(* placeHold: desk ("hold") or reader ("holdOnline", who is then notified) *)

HoldRead(s, r, p, op) ==
    /\ Begin(s, op)
    /\ op = "hold" => CardExpiry[p] >= clock
    /\ \E i \in FindFirst(ShelfItems(r), NoItem) :
          Enter(s, [Arrive(op, "duplicate") EXCEPT
                       !.record = r, !.patron = p, !.item = i])
    /\ UNCHANGED <<db, clock>>

\* Slip: a ready hold is not seen as a duplicate.
SlipDuplicate(r, p) == \E h \in HoldsIn(r, "PENDING") : holds[h].patron = p
Duplicate(r, p) == \E h \in ActiveHolds(r) : holds[h].patron = p

HoldDuplicate(s) ==
    LET q == sess[s] IN
    /\ At(s, {"hold", "holdOnline"}, "duplicate")
    /\ IF Duplicate(q.record, q.patron) THEN Done(s)
       ELSE Goto(s, IF q.item = NoItem THEN "count" ELSE "commitReady")
    /\ UNCHANGED <<db, clock>>

PickupDaysOf(op) == IF op \in {"hold", "return", "cancel", "cancelOnline"}
                    THEN DeskPickupDays ELSE PickupDays

\* The item found on the shelf is set aside, whatever it has become.
HoldReadyCommit(s) ==
    LET q == sess[s] IN
    /\ At(s, {"hold", "holdOnline"}, "commitReady")
    /\ \E h \in HoldIds :
          /\ FreshHold(h)
          /\ holds' = [holds EXCEPT ![h] =
                [status |-> "AVAILABLE", record |-> q.record, patron |-> q.patron,
                 priority |-> 0, expiry |-> q.now + PickupDaysOf(q.op),
                 notified |-> FALSE]]
          /\ promos' = Promoted(h)
    /\ status' = [status EXCEPT ![q.item] = "ON_HOLD"]
    /\ IF q.op = "holdOnline" THEN Goto(s, "notify") ELSE Done(s)
    /\ UNCHANGED <<loans, mails, clock>>

HoldCount(s) ==
    /\ At(s, {"hold", "holdOnline"}, "count")
    /\ Enter(s, [sess[s] EXCEPT !.pc = "commitPending",
                                !.num = Cardinality(ActiveHolds(sess[s].record))])
    /\ UNCHANGED <<db, clock>>

HoldPendingCommit(s) ==
    LET q == sess[s] IN
    /\ At(s, {"hold", "holdOnline"}, "commitPending")
    /\ \E h \in HoldIds :
          /\ FreshHold(h)
          /\ holds' = [holds EXCEPT ![h] =
                [status |-> "PENDING", record |-> q.record, patron |-> q.patron,
                 priority |-> q.num + 1, expiry |-> 0, notified |-> FALSE]]
    /\ Done(s)
    /\ UNCHANGED <<status, loans, promos, mails, clock>>

-----------------------------------------------------------------------------
(* cancelHold: desk ("cancel") or reader ("cancelOnline", then notify) *)

AfterCancel(s) == IF sess[s].op = "cancelOnline" THEN Goto(s, "notify") ELSE Done(s)

CancelRead(s, h, op) ==
    /\ Begin(s, op)
    /\ ActiveHold(h)
    /\ Enter(s, [Arrive(op, "cancel") EXCEPT
                    !.hold = h, !.record = holds[h].record, !.seen = holds[h].status])
    /\ UNCHANGED <<db, clock>>

Cancelled(h) == [holds EXCEPT ![h].status = "CANCELLED"]

\* The hold was read as waiting: the transaction is its only write.
CancelPending(s) ==
    /\ At(s, {"cancel", "cancelOnline"}, "cancel")
    /\ sess[s].seen = "PENDING"
    /\ Unlocked(s, sess[s].hold)
    /\ holds' = Cancelled(sess[s].hold)
    /\ AfterCancel(s)
    /\ UNCHANGED <<status, loans, promos, mails, clock>>

\* The hold was read as ready: its row is written first, and locked, then a
\* held item of the record is looked for.
CancelLock(s) ==
    /\ At(s, {"cancel", "cancelOnline"}, "cancel")
    /\ sess[s].seen = "AVAILABLE"
    /\ Unlocked(s, sess[s].hold)
    /\ \E i \in FindFirst(HeldItems(sess[s].record), NoItem) :
          Enter(s, [sess[s] EXCEPT !.item = i,
                                   !.pc = IF i = NoItem THEN "txCommit" ELSE "txNext"])
    /\ UNCHANGED <<db, clock>>

CancelNext(s) ==
    /\ At(s, {"cancel", "cancelOnline"}, "txNext")
    /\ \E h \in FindFirst(NextHolds(sess[s].record), 0) :
          Enter(s, [sess[s] EXCEPT !.pc = "txCommit", !.next = h])
    /\ UNCHANGED <<db, clock>>

\* Slip: the copy promised to the next reader goes back to the shelf as well.
SlipPassOn(h, how, next, item, until, again) ==
    /\ holds' = [g \in HoldIds |->
          IF g = next
          THEN [holds[g] EXCEPT !.status = "AVAILABLE", !.expiry = until]
          ELSE IF g = h THEN [holds[g] EXCEPT !.status = how] ELSE holds[g]]
    /\ promos' = IF next = 0 THEN promos ELSE Promoted(next)
    /\ status' = IF item # NoItem THEN [status EXCEPT ![item] = "AVAILABLE"] ELSE status
\* The commit of a transaction that gives up hold h: it takes status `how`, and
\* the copy goes to the next of the queue or, when there is none, to the shelf.
PassOn(h, how, next, item, until, again) ==
    /\ holds' = [g \in HoldIds |->
          IF g = next
          THEN [holds[g] EXCEPT !.status = "AVAILABLE", !.expiry = until,
                                !.notified = @ /\ ~again]
          ELSE IF g = h THEN [holds[g] EXCEPT !.status = how] ELSE holds[g]]
    /\ promos' = IF next = 0 THEN promos ELSE Promoted(next)
    /\ status' = IF next = 0 /\ item # NoItem
                 THEN [status EXCEPT ![item] = "AVAILABLE"] ELSE status

CancelCommit(s) ==
    LET q == sess[s] IN
    /\ At(s, {"cancel", "cancelOnline"}, "txCommit")
    /\ Unlocked(s, q.next)
    /\ PassOn(q.hold, "CANCELLED", q.next, q.item, q.now + DeskPickupDays, FALSE)
    /\ AfterCancel(s)
    /\ UNCHANGED <<loans, mails, clock>>

-----------------------------------------------------------------------------
(* expireStale: the hourly pass of the holds scheduler *)

\* Slip: only the holds nobody was told of are looked at.
SlipStaleHolds == {h \in HoldIds : /\ holds[h].status = "AVAILABLE"
                                   /\ holds[h].expiry < clock
                                   /\ ~holds[h].notified}
StaleHolds == {h \in HoldIds : holds[h].status = "AVAILABLE" /\ holds[h].expiry < clock}

ExpireFind(s) ==
    /\ Begin(s, "expire")
    /\ Enter(s, [Arrive("expire", "each") EXCEPT !.todo = StaleHolds])
    /\ UNCHANGED <<db, clock>>

\* Slip: an unconditional update.
SlipStillReady(h) == TRUE
StillReady(h) == holds[h].status = "AVAILABLE"

\* One transaction per stale hold: the conditional update locks the row; the
\* next of the queue is read inside the transaction.
ExpireLock(s, h) ==
    /\ At(s, {"expire"}, "each")
    /\ h \in sess[s].todo
    /\ Unlocked(s, h)
    /\ \/ /\ StillReady(h)
          /\ \E g \in FindFirst(NextHolds(holds[h].record), 0) :
                Enter(s, [sess[s] EXCEPT
                    !.pc = IF g = 0 THEN "txHeld" ELSE "txCommit",
                    !.hold = h, !.record = holds[h].record, !.next = g])
       \/ /\ ~StillReady(h)
          /\ Enter(s, [sess[s] EXCEPT !.todo = @ \ {h}])
    /\ UNCHANGED <<db, clock>>

ExpireHeld(s) ==
    /\ At(s, {"expire"}, "txHeld")
    /\ \E i \in FindFirst(HeldItems(sess[s].record), NoItem) :
          Enter(s, [sess[s] EXCEPT !.pc = "txCommit", !.item = i])
    /\ UNCHANGED <<db, clock>>

ExpireCommit(s) ==
    LET q == sess[s] IN
    /\ At(s, {"expire"}, "txCommit")
    /\ Unlocked(s, q.next)
    /\ PassOn(q.hold, "EXPIRED", q.next, q.item, q.now + PickupDays, TRUE)
    /\ Enter(s, [Arrive("expire", "each") EXCEPT !.now = q.now,
                                                 !.todo = q.todo \ {q.hold}])
    /\ UNCHANGED <<loans, mails, clock>>

ExpireEnd(s) ==
    /\ At(s, {"expire"}, "each")
    /\ sess[s].todo = {}
    /\ Goto(s, "notify")
    /\ UNCHANGED <<db, clock>>

-----------------------------------------------------------------------------
(* notifyAvailable: the tail of return, holdOnline, cancelOnline and expire *)

\* Slip: the readers who wait, instead of those whose copy waits.
SlipToNotify == {h \in HoldIds : holds[h].status = "PENDING" /\ ~holds[h].notified}
ToNotify == {h \in HoldIds : holds[h].status = "AVAILABLE" /\ ~holds[h].notified}

NotifyFind(s) ==
    /\ sess[s].pc = "notify"
    /\ Enter(s, [Arrive(sess[s].op, "claim") EXCEPT !.now = sess[s].now,
                                                    !.todo = ToNotify])
    /\ UNCHANGED <<db, clock>>

\* Slip: an unconditional update.
SlipUnclaimed(h) == TRUE
Unclaimed(h) == ~holds[h].notified

\* The right to send is claimed by a conditional update; a patron without a
\* usable address keeps the claim and gets no message.
NotifyClaim(s, h) ==
    /\ sess[s].pc = "claim"
    /\ h \in sess[s].todo
    /\ Unlocked(s, h)
    /\ \/ /\ Unclaimed(h)
          /\ holds' = [holds EXCEPT ![h].notified = TRUE]
          /\ IF holds[h].patron \in HasEmail
             THEN Enter(s, [sess[s] EXCEPT !.todo = @ \ {h}, !.hold = h, !.pc = "send"])
             ELSE Enter(s, [sess[s] EXCEPT !.todo = @ \ {h}])
       \/ /\ ~Unclaimed(h)
          /\ Enter(s, [sess[s] EXCEPT !.todo = @ \ {h}])
          /\ UNCHANGED holds
    /\ UNCHANGED <<status, loans, promos, mails, clock>>

\* Slip: the claim is kept when the message did not leave.
SlipReleased(h) == holds
Released(h) == [holds EXCEPT ![h].notified = FALSE]

\* The mail server accepts, refuses, or accepts and then reports an error; a
\* failure gives the claim back.
NotifySend(s, outcome) ==
    LET h == sess[s].hold IN
    /\ sess[s].pc = "send"
    /\ outcome \in MailOutcomes
    /\ outcome # "sent" => Unlocked(s, h)
    /\ outcome # "refused" => mails[h] < MaxMails
    /\ mails' = IF outcome = "refused" THEN mails ELSE [mails EXCEPT ![h] = @ + 1]
    /\ holds' = IF outcome = "sent" THEN holds
                ELSE Released(h)
    /\ Enter(s, [sess[s] EXCEPT !.pc = "claim", !.hold = 0])
    /\ UNCHANGED <<status, loans, promos, clock>>

NotifyEnd(s) ==
    /\ sess[s].pc = "claim"
    /\ sess[s].todo = {}
    /\ Done(s)
    /\ UNCHANGED <<db, clock>>

-----------------------------------------------------------------------------
(* The rest of the world *)

\* updateItem: staff writes the status it likes; the read before it only
\* checks that the item exists.
UpdateItem(i, st) ==
    /\ "edit" \in Ops
    /\ st \in EditStatuses
    /\ status' = [status EXCEPT ![i] = st]
    /\ UNCHANGED <<loans, holds, promos, mails, clock, sess>>

\* A request dies between two statements: its uncommitted writes are lost.
Abort(s) ==
    /\ "abort" \in Ops
    /\ sess[s].op # "idle"
    /\ Done(s)
    /\ UNCHANGED <<db, clock>>

\* Time passes to the next day explored.  A request may see midnight, once.
Tick ==
    /\ clock' \in Days
    /\ \A s \in Busy : sess[s].now = clock /\ clock' = clock + 1
    /\ clock < clock' /\ \A d \in Days : d <= clock \/ clock' <= d
    /\ UNCHANGED <<db, sess>>

\* With no request in flight the server may wait; with one, it must go on: a
\* deadlock is a request that waits for ever.
Wait == Busy = {} /\ UNCHANGED vars

-----------------------------------------------------------------------------

Arrivals(s) ==
    \/ \E i \in Items, p \in Patrons : CheckoutRead(s, i, p)
    \/ \E l \in LoanIds : \/ ReturnRead(s, l) \/ PerteRead(s, l)
                          \/ \E op \in {"renew", "renewOnline"} : RenewRead(s, l, op)
    \/ \E r \in Records, p \in Patrons, op \in {"hold", "holdOnline"} :
          HoldRead(s, r, p, op)
    \/ \E h \in HoldIds, op \in {"cancel", "cancelOnline"} : CancelRead(s, h, op)

\* The statements of a request that has started.
Step(s) ==
    \/ CheckoutCount(s) \/ CheckoutReady(s) \/ CheckoutCommit(s)
    \/ ReturnNext(s) \/ ReturnCommit(s) \/ PerteCommit(s)
    \/ RenewHolds(s) \/ RenewCommit(s)
    \/ HoldDuplicate(s) \/ HoldReadyCommit(s) \/ HoldCount(s) \/ HoldPendingCommit(s)
    \/ CancelPending(s) \/ CancelLock(s) \/ CancelNext(s) \/ CancelCommit(s)
    \/ ExpireHeld(s) \/ ExpireCommit(s) \/ ExpireEnd(s)
    \/ \E h \in HoldIds : ExpireLock(s, h) \/ NotifyClaim(s, h)
    \/ \E outcome \in {"sent", "refused", "sentThenError"} : NotifySend(s, outcome)
    \/ NotifyFind(s) \/ NotifyEnd(s)

Next ==
    \/ \E s \in Procs : Arrivals(s) \/ ExpireFind(s) \/ Step(s) \/ Abort(s)
    \/ \E i \in Items, st \in ItemStatus : UpdateItem(i, st)
    \/ Tick
    \/ Wait

Spec == Init /\ [][Next]_vars

\* Node runs every request it has started; the hourly pass comes back; days go by.
Fairness ==
    /\ \A s \in Procs : WF_vars(Step(s))
    /\ WF_vars(ExpireFind(Cron))
    /\ WF_vars(Tick)

FairSpec == Spec /\ Fairness

-----------------------------------------------------------------------------
(* Properties *)

\* Rows and requests keep the shapes of their tables and of their code.
TypeOK ==
    /\ status \in [Items -> ItemStatus]
    /\ loans \in [LoanIds -> Loan]
    /\ holds \in [HoldIds -> Hold]
    /\ clock \in Nat
    /\ sess \in [Procs -> Request]
    /\ promos \in [HoldIds -> Nat]
    /\ mails \in [HoldIds -> Nat]

\* checkout's conditional update is there so that "two simultaneous loans of the
\* same copy cannot both succeed": two open loans are never on one copy.
OneLoanPerItem ==
    \A k, l \in LoanIds :
        OpenLoan(k) /\ OpenLoan(l) /\ loans[k].item = loans[l].item => k = l

\* A copy whose loan is open is checked out: it is not on the shelf, not set
\* aside, not lost.
OpenLoanCheckedOut ==
    \A l \in LoanIds : OpenLoan(l) => status[loans[l].item] = "CHECKED_OUT"

\* Copies and loans agree, through any sequence of loans, returns, losses and holds.
LoansInOrder == OneLoanPerItem /\ OpenLoanCheckedOut

\* A hold waits only while no copy of its record is on the shelf.
NobodyWaitsBesideTheShelf ==
    \A h \in HoldIds : holds[h].status = "PENDING" =>
        \A i \in ItemsOf(holds[h].record) : status[i] # "AVAILABLE"

\* As many copies of a record are set aside as it has ready holds: nobody is
\* told to come for a copy that is not there, no copy waits for nobody.
EveryReadyHoldHasItsCopy ==
    \A r \in Records :
        Cardinality(HeldItems(r)) = Cardinality(HoldsIn(r, "AVAILABLE"))

\* The rule's cap on simultaneous loans is never exceeded.
LoanCap == \A p \in Patrons : Cardinality(OpenLoansOf(p)) <= MaxCheckouts

\* Counter and reader renewals share one count; neither exceeds both limits.
RenewalCap ==
    \A l \in LoanIds : loans[l].renewals <= MaxRenewals \/ loans[l].renewals <= OnlineMax

\* "Un document reserve par quelqu'un d'autre n'est pas renouvelable": when a
\* renewal is written, no other reader has an active hold on the record.
ReservedIsNotRenewed ==
    [][\A l \in LoanIds : loans'[l].renewals > loans[l].renewals =>
          \A h \in ActiveHolds(RecordOf[loans[l].item]) :
              holds[h].patron = loans[l].patron]_vars

\* "Vous avez deja une reservation active": one active hold per reader and record.
OneHoldPerReader ==
    \A g, h \in HoldIds :
        /\ ActiveHold(g) /\ ActiveHold(h)
        /\ holds[g].record = holds[h].record /\ holds[g].patron = holds[h].patron
        => g = h

\* What the refusals of the desk and of the reader's page add up to: the caps on
\* loans and renewals and the single hold per record are never exceeded.
DeskLimits == LoanCap /\ RenewalCap /\ OneHoldPerReader

\* A loan is closed once: the way it ended and its fine are never rewritten, by
\* a double scan, a return racing a loss, or a renewal sent too late.
ClosedLoanFrozen ==
    [][\A l \in LoanIds : loans[l].state \in {"rendu", "perte"} =>
          loans'[l].state = loans[l].state /\ loans'[l].fine = loans[l].fine]_vars

\* A copy set aside leaves with the patron of a ready hold, which the same step
\* fulfils.
SetAsideForItsReader ==
    [][\A i \in Items : status[i] = "ON_HOLD" /\ status'[i] = "CHECKED_OUT" =>
          \E h \in HoldIds, l \in LoanIds :
              /\ holds[h].status = "AVAILABLE" /\ holds'[h].status = "FULFILLED"
              /\ holds[h].record = RecordOf[i]
              /\ ~OpenLoan(l) /\ OpenLoan(l)' /\ loans'[l].item = i
              /\ loans'[l].patron = holds[h].patron]_vars

\* "Jamais deux emails": a hold gets at most one message each time it is made
\* ready, whatever requests and scheduler passes look at it together.
OneMailPerPromotion == \A h \in HoldIds : mails[h] <= promos[h]

\* A claim to notify is never kept for nothing: the message was delivered, or a
\* request is about to send it, or the reader has no address.
NoLeakedClaim ==
    \A h \in HoldIds :
        holds[h].notified /\ holds[h].patron \in HasEmail /\ mails[h] = 0 =>
            \E s \in Procs : sess[s].pc = "send" /\ sess[s].hold = h

\* A ready hold is taken back by the scheduler only once its pickup window is over.
ExpiredOnlyWhenDue ==
    [][\A h \in HoldIds : holds[h].status # "EXPIRED" /\ holds'[h].status = "EXPIRED" =>
          holds[h].status = "AVAILABLE" /\ holds[h].expiry < clock]_vars

\* placeHold tells the reader its place in the queue; the place shown on the
\* reader's page is counted by positionOf.
PositionOf(h) ==
    1 + Cardinality({g \in ActiveHolds(holds[h].record) : g # h /\ Before(g, h)})

\* The place announced when a hold is placed is its place in the queue.
AnnouncedPlaceIsPosition ==
    [][\A h \in HoldIds : holds[h].status = "unused" /\ holds'[h].status = "PENDING" =>
          PositionOf(h)' = holds'[h].priority]_vars

\* A ready hold whose pickup window is over does not stay so: the scheduler
\* takes it back, or the reader comes, cancels or gets a new window.
LateHold(h) == holds[h].status = "AVAILABLE" /\ holds[h].expiry < clock
LateHoldIsTakenBack == \A h \in HoldIds : LateHold(h) ~> ~LateHold(h)

\* A reader with an address whose copy waits is told, unless the hold ends first.
ReadyReaderIsTold ==
    \A h \in HoldIds :
        holds[h].status = "AVAILABLE" /\ holds[h].patron \in HasEmail
            ~> mails[h] > 0 \/ holds[h].status # "AVAILABLE"
=============================================================================
