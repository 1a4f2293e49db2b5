----------------------------- MODULE StockProofs -----------------------------
(* Theorems about the reminders beside the lending desk, for every value of *)
(* the constants and any number of passes: what a pass writes and sends.    *)
EXTENDS Stock, DeskProofs

-----------------------------------------------------------------------------
(* The loans, as the other services see them *)

\* A loan row that exists keeps its patron.
LEMMA PatronStep ==
    ASSUME TypeOK, [Next]_vars, NEW l \in LoanIds, loans[l].state # "unused"
    PROVE  loans'[l].state # "unused" /\ loans'[l].patron = loans[l].patron
  <1>r. loans[l] \in Loan
    BY DEF TypeOK
  <1>1. ASSUME NEW s \in Procs, Arrivals(s) \/ ExpireFind(s) \/ Abort(s)
        PROVE  UNCHANGED loans
    BY <1>1 DEF Arrivals, CheckoutRead, ReturnRead, PerteRead, RenewRead, HoldRead,
                CancelRead, ExpireFind, Abort, db
  <1>2. ASSUME NEW i \in Items, NEW st \in ItemStatus, UpdateItem(i, st)
        PROVE  UNCHANGED loans
    BY <1>2 DEF UpdateItem
  <1>3. CASE Tick \/ UNCHANGED vars
    BY <1>3 DEF Tick, vars, db
  <1>4. ASSUME NEW s \in Procs, Step(s)
        PROVE  loans'[l].state # "unused" /\ loans'[l].patron = loans[l].patron
    <2>1. CASE CheckoutCommit(s)
      BY <2>1 DEF CheckoutCommit, FreshLoan, TypeOK
    <2>2. CASE ReturnCommit(s) \/ PerteCommit(s)
      BY <1>r, <2>2 DEF ReturnCommit, PerteCommit, Closed, TypeOK, Loan
    <2>3. CASE RenewCommit(s)
      BY <1>r, <2>3 DEF RenewCommit, TypeOK, Loan
    <2>4. CASE UNCHANGED loans
      BY <2>4
    <2>5. QED
      <3>1. ASSUME NEW h \in HoldIds, ExpireLock(s, h) \/ NotifyClaim(s, h)
            PROVE  UNCHANGED loans
        BY <3>1 DEF ExpireLock, NotifyClaim, db
      <3>2. ASSUME NEW outcome \in {"sent", "refused", "sentThenError"}, NotifySend(s, outcome)
            PROVE  UNCHANGED loans
        BY <3>2 DEF NotifySend
      <3>3. QED
        BY <1>4, <2>1, <2>2, <2>3, <2>4, <3>1, <3>2
        DEF Step, db, CheckoutCount, CheckoutReady, ReturnNext, RenewHolds, HoldDuplicate,
            HoldReadyCommit, HoldCount, HoldPendingCommit, CancelPending, CancelLock,
            CancelNext, CancelCommit, ExpireHeld, ExpireCommit, ExpireEnd, NotifyFind,
            NotifyEnd
  <1>5. QED
    BY <1>1, <1>2, <1>3, <1>4 DEF Next, Wait

\* Recolement writes no status a copy cannot have; the desk's rows keep their
\* shapes in the whole library.
LEMMA DeskTypeStep ==
    ASSUME TypeOK, [StockNext]_all
    PROVE  TypeOK'
  <1>1. CASE Desk(Next) \/ UNCHANGED all
    BY <1>1, NextType, CirculationAssumption DEF Desk, all
  <1>2. CASE Mailing(Rappels!Next)
    BY <1>2 DEF Mailing, vars, db, TypeOK
  <1>3. CASE Shelves(Recolement!Next)
    <2>1. status' \in [Items -> ItemStatus]
      <3>1. ASSUME NEW c \in Clerks, Recolement!MarkMissing(c)
            PROVE  status' \in [Items -> ItemStatus]
        BY <3>1 DEF Recolement!MarkMissing, TypeOK, ItemStatus
      <3>2. ASSUME NEW c \in Clerks, Recolement!Step(c) \/ Recolement!Abort(c)
            PROVE  status' \in [Items -> ItemStatus]
        BY <3>1, <3>2 DEF TypeOK, Recolement!Step, Recolement!Abort, Recolement!Scan,
            Recolement!AnnulerScan, Recolement!CloseSession, Recolement!ReopenSession,
            Recolement!ReadItems, Recolement!ReadScans, Recolement!Apply
      <3>3. QED
        BY <1>3, <3>2 DEF Shelves, TypeOK, Recolement!Next, Recolement!CreateSession,
            Recolement!Arrive
    <2>2. QED
      BY <1>3, <2>1 DEF Shelves, TypeOK
  <1>4. QED
    BY <1>1, <1>2, <1>3 DEF StockNext

\* The tables and the requests of the desk keep their shapes with recolement
\* writing into items and passes reading checkouts between any two statements.
THEOREM DeskTypeCorrect == StockSpec => []TypeOK
  <1>1. StockInit => TypeOK
    BY InitType, CirculationAssumption DEF StockInit
  <1>2. TypeOK /\ [StockNext]_all => TypeOK'
    BY DeskTypeStep
  <1>3. QED
    BY <1>1, <1>2, PTL DEF StockSpec

-----------------------------------------------------------------------------
(* The shapes of passes and rows.  Stages bounds what TLC explores; the table *)
(* holds any date and any number.                                             *)

Keys == Rappels!Keys
Passes == Rappels!Passes
Reminder == Rappels!Reminder

\* A pass that treats a reminder.
InHand(p) == pass[p].pc \in {"skip", "reserve", "send", "mark"}

LEMMA QuotientType ==
    ASSUME NEW a \in Nat, NEW b \in Nat \ {0}
    PROVE  a \div b \in Nat
  BY Z3

\* What planFor says of a loan is a reminder.
LEMMA PlannedType ==
    ASSUME StockAssumption, TypeOK, Stages = Nat, NEW l \in LoanIds,
           NEW c \in Configs, NEW asOf \in Nat
    PROVE  Rappels!Planned(l, c, asOf) \subseteq Reminder
  <1>1. loans[l].due \in Nat /\ c.before \in Nat /\ c.every \in Nat \ {0}
    BY DEF TypeOK, Loan, StockAssumption, Rappels!RemindersAssumption
  <1>2. asOf > loans[l].due => (asOf - loans[l].due - 1) \div c.every \in Nat
    <2>1. asOf > loans[l].due => asOf - loans[l].due - 1 \in Nat
      BY <1>1
    <2>2. QED
      BY <1>1, <2>1, QuotientType
  <1>3. Rappels!Plan(loans[l].due, c, asOf) \subseteq {"DUE_SOON", "OVERDUE"} \X Nat
    BY <1>1, <1>2 DEF Rappels!Plan
  <1>4. ASSUME NEW s \in Rappels!Plan(loans[l].due, c, asOf)
        PROVE  [key |-> <<l, s[1], s[2]>>, due |-> loans[l].due,
                mail |-> loans[l].patron \in HasEmail] \in Reminder
    <2>1. s[1] \in {"DUE_SOON", "OVERDUE"} /\ s[2] \in Nat
      BY <1>3, <1>4
    <2>2. <<l, s[1], s[2]>> \in Rappels!Keys
      BY <2>1 DEF Rappels!Keys
    <2>3. (loans[l].patron \in HasEmail) \in BOOLEAN
      OBVIOUS
    <2>4. QED
      BY <1>1, <2>2, <2>3, Zenon DEF Reminder, Rappels!Reminder
  <1>5. QED
    BY <1>4 DEF Rappels!Planned

LEMMA RestingType == Configs # {} => Rappels!Resting \in Rappels!Pass
  BY DEF Rappels!Resting, Rappels!Pass, Rappels!LogStatus

\* A pass that changes one pass for a pass.
LEMMA PassEnterType ==
    ASSUME Rappels!TypeOK, NEW p \in Passes, NEW q \in Rappels!Pass, Rappels!Enter(p, q)
    PROVE  pass' \in [Passes -> Rappels!Pass]
  BY DEF Rappels!TypeOK, Rappels!Enter, Passes

LEMMA PassResumeType ==
    ASSUME StockAssumption, Rappels!TypeOK, NEW p \in Passes,
           NEW todo \in SUBSET Reminder, Rappels!Resume(p, todo)
    PROVE  pass' \in [Passes -> Rappels!Pass]
  <1>1. pass[p] \in Rappels!Pass
    BY DEF Rappels!TypeOK, Passes
  <1>2. [pass[p] EXCEPT !.pc = "each", !.todo = todo, !.cur = Rappels!NoReminder,
                        !.seen = "none"] \in Rappels!Pass
    BY <1>1 DEF Rappels!Pass, Rappels!LogStatus, Reminder
  <1>3. Rappels!Resting \in Rappels!Pass
    BY RestingType DEF StockAssumption, Rappels!RemindersAssumption
  <1>4. QED
    BY <1>2, <1>3, PassEnterType DEF Rappels!Resume

LEMMA LogType ==
    ASSUME Rappels!TypeOK, NEW k, NEW st \in Rappels!LogStatus
    PROVE  [log EXCEPT ![k] = st] \in [Rappels!Keys -> Rappels!LogStatus]
  BY DEF Rappels!TypeOK

\* A step of a pass keeps rows and passes in their shapes.
LEMMA PassTypeStep ==
    ASSUME StockAssumption, TypeOK, Stages = Nat, Rappels!TypeOK,
           NEW p \in Passes, InHand(p) => pass[p].cur \in Reminder, Rappels!Step(p)
    PROVE  Rappels!TypeOK'
  <1>p. pass[p] \in Rappels!Pass
    BY DEF Rappels!TypeOK, Passes
  <1>1. CASE Rappels!ReadLoans(p)
    <2>1. UNION {Rappels!Planned(l, pass[p].config, pass[p].asOf) :
                    l \in {k \in LoanIds : loans[k].state = "open"}} \in SUBSET Reminder
      BY <1>p, PlannedType DEF Rappels!Pass
    <2>2. pass' \in [Passes -> Rappels!Pass]
      BY <1>1, <2>1, PassResumeType DEF Rappels!ReadLoans
    <2>3. QED
      BY <1>1, <2>2 DEF Rappels!ReadLoans, Rappels!TypeOK, Passes
  <1>2. ASSUME NEW t \in pass[p].todo, Rappels!Look(p, t)
        PROVE  Rappels!TypeOK'
    <2>1. t \in Reminder /\ t.key \in Rappels!Keys /\ log[t.key] \in Rappels!LogStatus
      BY <1>p, <1>2 DEF Rappels!Pass, Reminder, Rappels!Reminder, Rappels!TypeOK
    <2>2. pass' \in [Passes -> Rappels!Pass]
      <3>1. CASE Rappels!Settled(t.key)
        <4>1. pass[p].todo \ {t} \in SUBSET Reminder
          BY <1>p DEF Rappels!Pass, Reminder
        <4>2. QED
          BY <1>2, <3>1, <4>1, PassResumeType DEF Rappels!Look
      <3>2. CASE ~Rappels!Settled(t.key)
        <4> DEFINE q == [pass[p] EXCEPT !.todo = @ \ {t}, !.cur = t, !.seen = log[t.key],
                           !.pc = IF ~t.mail THEN "skip"
                                  ELSE IF log[t.key] = "none" THEN "reserve" ELSE "send"]
        <4>1. q \in Rappels!Pass
          BY <1>p, <2>1 DEF Rappels!Pass, Reminder
        <4> HIDE DEF q
        <4>2. Rappels!Enter(p, q)
          BY <1>2, <3>2 DEF Rappels!Look, q
        <4>3. QED
          BY <4>1, <4>2, PassEnterType
      <3>3. QED
        BY <3>1, <3>2
    <2>3. contested' \subseteq Rappels!Keys
      BY <1>2, <2>1 DEF Rappels!Look, Rappels!TypeOK
    <2>4. QED
      BY <1>2, <2>2, <2>3 DEF Rappels!Look, Rappels!TypeOK, Passes
  <1>t. pass[p].todo \in SUBSET Reminder
    BY <1>p DEF Rappels!Pass, Reminder
  <1>3. CASE Rappels!Skip(p)
    <2>1. pass' \in [Passes -> Rappels!Pass]
      <3>1. Rappels!Resting \in Rappels!Pass
        BY RestingType DEF StockAssumption, Rappels!RemindersAssumption
      <3>2. QED
        BY <1>3, <1>t, <3>1, PassEnterType, PassResumeType DEF Rappels!Skip, Rappels!Proceed
    <2>2. log' \in [Rappels!Keys -> Rappels!LogStatus]
      BY <1>3, LogType DEF Rappels!Skip, Rappels!TypeOK, Rappels!LogStatus
    <2>3. QED
      BY <1>3, <2>1, <2>2 DEF Rappels!Skip, Rappels!TypeOK, Passes
  <1>4. CASE Rappels!Reserve(p)
    <2>1. [pass[p] EXCEPT !.pc = "send"] \in Rappels!Pass
      BY <1>p DEF Rappels!Pass
    <2>2. pass' \in [Passes -> Rappels!Pass]
      BY <1>4, <1>t, <2>1, PassEnterType, PassResumeType DEF Rappels!Reserve, Rappels!Proceed
    <2>3. log' \in [Rappels!Keys -> Rappels!LogStatus]
      BY <1>4, LogType DEF Rappels!Reserve, Rappels!TypeOK, Rappels!LogStatus
    <2>4. QED
      BY <1>4, <2>2, <2>3 DEF Rappels!Reserve, Rappels!TypeOK, Passes
  <1>5. CASE Rappels!Mark(p)
    <2>1. pass' \in [Passes -> Rappels!Pass]
      BY <1>5, <1>t, PassResumeType DEF Rappels!Mark, Rappels!Proceed
    <2>2. log' \in [Rappels!Keys -> Rappels!LogStatus]
      BY <1>5, <1>p, LogType DEF Rappels!Mark, Rappels!Pass
    <2>3. QED
      BY <1>5, <2>1, <2>2 DEF Rappels!Mark, Rappels!TypeOK, Passes
  <1>6. ASSUME NEW outcome \in {"sent", "refused", "sentThenError"}, Rappels!Send(p, outcome)
        PROVE  Rappels!TypeOK'
    <2>1. [pass[p] EXCEPT !.pc = "mark", !.seen = Rappels!Written(outcome)] \in Rappels!Pass
      BY <1>p DEF Rappels!Pass, Rappels!Written, Rappels!LogStatus
    <2>2. pass' \in [Passes -> Rappels!Pass]
      BY <1>6, <2>1, PassEnterType DEF Rappels!Send
    <2>k. pass[p].cur.key \in Rappels!Keys
      BY <1>6 DEF Rappels!Send, InHand, Reminder, Rappels!Reminder
    <2>3. reminded' \in [Rappels!Keys -> Nat]
      BY <1>6, <2>k DEF Rappels!Send, Rappels!TypeOK
    <2>4. contested' \subseteq Rappels!Keys
      BY <1>6, <2>k DEF Rappels!Send, Rappels!TypeOK
    <2>5. QED
      BY <1>6, <2>2, <2>3, <2>4 DEF Rappels!Send, Rappels!TypeOK, Passes
  <1>7. QED
    BY <1>1, <1>2, <1>3, <1>4, <1>5, <1>6 DEF Rappels!Step

\* What starts, dies or is set beside the passes keeps the shapes too.
LEMMA RemindersTypeStep ==
    ASSUME StockAssumption, TypeOK, Stages = Nat, Rappels!TypeOK,
           \A p \in Passes : InHand(p) => pass[p].cur \in Reminder, Rappels!Next
    PROVE  Rappels!TypeOK'
  <1>r. Rappels!Resting \in Rappels!Pass
    BY RestingType DEF StockAssumption, Rappels!RemindersAssumption
  <1>1. ASSUME NEW p \in Passes, NEW day \in AsOfDays \cup {clock}, Rappels!Start(p, day)
        PROVE  Rappels!TypeOK'
    <2>1. day \in Nat /\ config \in Configs
      BY DEF TypeOK, Rappels!TypeOK, StockAssumption, Rappels!RemindersAssumption
    <2>2. [Rappels!Resting EXCEPT !.pc = "loans", !.asOf = day, !.config = config]
            \in Rappels!Pass
      BY <1>r, <2>1 DEF Rappels!Pass
    <2>3. pass' \in [Passes -> Rappels!Pass]
      BY <1>1, <2>2, PassEnterType DEF Rappels!Start
    <2>4. QED
      BY <1>1, <2>3 DEF Rappels!Start, Rappels!TypeOK, Passes
  <1>2. ASSUME NEW p \in Passes, Rappels!Step(p)
        PROVE  Rappels!TypeOK'
    BY <1>2, PassTypeStep
  <1>3. ASSUME NEW p \in Passes, Rappels!Crash(p)
        PROVE  Rappels!TypeOK'
    <2>1. pass' \in [Passes -> Rappels!Pass]
      BY <1>3, <1>r, PassEnterType DEF Rappels!Crash
    <2>2. QED
      BY <1>3, <2>1 DEF Rappels!Crash, Rappels!TypeOK, Passes
  <1>4. CASE Rappels!Switch \/ \E c \in Configs : Rappels!UpdateSettings(c)
    BY <1>4 DEF Rappels!Switch, Rappels!UpdateSettings, Rappels!TypeOK
  <1>5. QED
    BY <1>1, <1>2, <1>3, <1>4 DEF Rappels!Next, Passes

-----------------------------------------------------------------------------
(* What the rows and the passes say of the loans and of the messages *)

\* A reminder about a loan that exists, with what its reader's account says.
Real(t) ==
    /\ loans[t.key[1]].state # "unused"
    /\ t.mail <=> loans[t.key[1]].patron \in HasEmail

PassAsTheLoan(p) ==
    /\ \A t \in pass[p].todo : Real(t)
    /\ InHand(p) => /\ pass[p].cur \in Reminder
                    /\ Real(pass[p].cur)
                    /\ pass[p].pc = "skip" <=> ~pass[p].cur.mail
Mailed(k) == loans[k[1]].state # "unused" /\ loans[k[1]].patron \in HasEmail
AsTheLoan ==
    /\ \A p \in Passes : PassAsTheLoan(p)
    /\ \A k \in Keys : log[k] \in {"PENDING", "SENT", "FAILED"} => Mailed(k)

PassTold(p) == pass[p].pc = "mark" =>
    /\ pass[p].seen \in {"SENT", "FAILED"}
    /\ pass[p].seen = "SENT" => reminded[pass[p].cur.key] > 0
Told == (\A p \in Passes : PassTold(p)) /\ (\A k \in Keys : log[k] = "SENT" => reminded[k] > 0)

\* A stage whose row always told what became of its message is in one pass's
\* hands, and its one message is on record or about to be.
InHandsOf(p, k) == pass[p].cur.key = k /\ pass[p].pc \in {"send", "mark"}
SentBy(p, k) == pass[p].cur.key = k /\ pass[p].pc = "mark" /\ pass[p].seen = "SENT"
KeyOnce(k) ==
    /\ \A p, o \in Passes : InHandsOf(p, k) /\ InHandsOf(o, k) => p = o
    /\ \A p \in Passes : InHandsOf(p, k) => log[k] \notin {"none", "SENT"}
    /\ reminded[k] > 0 => /\ reminded[k] = 1
                          /\ log[k] = "SENT" \/ \E p \in Passes : SentBy(p, k)
Once == \A k \in Keys \ contested : KeyOnce(k)

RemindersInv == TypeOK /\ Rappels!TypeOK /\ AsTheLoan /\ Told /\ Once

\* The desk and recolement take no loan row away and give none to another reader.
LEMMA LoansKept ==
    ASSUME TypeOK, [StockNext]_all, NEW l \in LoanIds, loans[l].state # "unused"
    PROVE  loans'[l].state # "unused" /\ loans'[l].patron = loans[l].patron
  <1>1. CASE Desk(Next)
    BY <1>1, PatronStep DEF Desk
  <1>2. CASE Shelves(Recolement!Next) \/ Mailing(Rappels!Next) \/ UNCHANGED all
    BY <1>2 DEF Shelves, Mailing, all, vars, db
  <1>3. QED
    BY <1>1, <1>2 DEF StockNext

LEMMA RealKept ==
    ASSUME TypeOK, [StockNext]_all, NEW t \in Reminder, Real(t)
    PROVE  Real(t)'
  BY LoansKept DEF Real, Reminder, Rappels!Reminder, Rappels!Keys

LEMMA MailedKept ==
    ASSUME TypeOK, [StockNext]_all, NEW k \in Keys, Mailed(k)
    PROVE  Mailed(k)'
  BY LoansKept DEF Mailed, Keys, Rappels!Keys

-----------------------------------------------------------------------------
(* One pass moves *)

\* p becomes q, and the other passes stay where they are.
Moves(p, q) == pass'[p] = q /\ \A o \in Passes \ {p} : pass'[o] = pass[o]

LEMMA EnterMoves ==
    ASSUME Rappels!TypeOK, NEW p \in Passes, NEW q, Rappels!Enter(p, q)
    PROVE  Moves(p, q)
  BY DEF Rappels!TypeOK, Rappels!Enter, Moves, Passes

\* Going on: nothing is in hand, and what is left was there before.
LEMMA ResumeMoves ==
    ASSUME Rappels!TypeOK, NEW p \in Passes, NEW todo, Rappels!Resume(p, todo)
    PROVE  /\ Moves(p, pass'[p])
           /\ pass'[p].pc \in {"idle", "each"}
           /\ pass'[p].todo = todo
  <1> DEFINE q == [pass[p] EXCEPT !.pc = "each", !.todo = todo,
                     !.cur = Rappels!NoReminder, !.seen = "none"]
  <1>1. pass[p] \in Rappels!Pass
    BY DEF Rappels!TypeOK, Passes
  <1>2. q.pc = "each" /\ q.todo = todo
    BY <1>1 DEF Rappels!Pass
  <1>3. Rappels!Resting.pc = "idle" /\ Rappels!Resting.todo = {}
    BY DEF Rappels!Resting
  <1>4. CASE todo = {}
    <2>1. Moves(p, Rappels!Resting)
      BY <1>4, EnterMoves DEF Rappels!Resume
    <2>2. QED
      BY <1>3, <1>4, <2>1 DEF Moves
  <1> HIDE DEF q
  <1>5. CASE todo # {}
    <2>1. Moves(p, q)
      BY <1>5, EnterMoves DEF Rappels!Resume, q
    <2>2. QED
      BY <1>2, <2>1 DEF Moves
  <1>6. QED
    BY <1>4, <1>5

LEMMA KeyKept ==
    ASSUME NEW j, KeyOnce(j), log'[j] = log[j], reminded'[j] = reminded[j],
           \A o \in Passes : InHandsOf(o, j)' => InHandsOf(o, j),
           \A o \in Passes : SentBy(o, j) => SentBy(o, j)'
    PROVE  KeyOnce(j)'
  BY DEF KeyOnce, Passes

\* A pass that has nothing on the wire after its step, and no message on the wire
\* before it that its row does not tell of.
LEMMA Leaves ==
    ASSUME AsTheLoan, Told, Once, UNCHANGED <<loans, log, reminded>>,
           NEW p \in Passes, Moves(p, pass'[p]),
           PassAsTheLoan(p)', pass'[p].pc \notin {"send", "mark"},
           contested \subseteq contested',
           pass[p].pc = "mark" => pass[p].cur.key \in contested'
    PROVE  AsTheLoan' /\ Told' /\ Once'
  <1>1. AsTheLoan'
    BY DEF AsTheLoan, PassAsTheLoan, InHand, Real, Mailed, Moves, Passes, Keys
  <1>2. Told'
    BY DEF Told, PassTold, Moves, Passes, Keys
  <1>3. ASSUME NEW k \in Keys \ contested'
        PROVE  KeyOnce(k)'
    <2>1. KeyOnce(k)
      BY <1>3 DEF Once, Keys
    <2>2. \A o \in Passes : InHandsOf(o, k)' => o # p /\ InHandsOf(o, k)
      BY DEF InHandsOf, Moves
    <2>3. \A o \in Passes : SentBy(o, k) => SentBy(o, k)'
      BY <1>3 DEF SentBy, Moves
    <2>4. QED
      BY <2>1, <2>2, <2>3 DEF KeyOnce, Passes
  <1>4. QED
    BY <1>1, <1>2, <1>3 DEF Once, Keys

\* The same of a pass that comes to rest or goes on.
LEMMA Rests ==
    ASSUME AsTheLoan, Told, Once, UNCHANGED <<loans, log, reminded>>,
           NEW p \in Passes, Moves(p, pass'[p]),
           pass'[p].pc \in {"idle", "loans", "each"}, \A t \in pass'[p].todo : Real(t),
           contested \subseteq contested',
           pass[p].pc = "mark" => pass[p].cur.key \in contested'
    PROVE  AsTheLoan' /\ Told' /\ Once'
  <1>1. PassAsTheLoan(p)'
    BY DEF PassAsTheLoan, InHand, Real
  <1>2. QED
    BY <1>1, Leaves

LEMMA StartStep ==
    ASSUME RemindersInv, UNCHANGED loans, NEW p \in Passes, NEW day, Rappels!Start(p, day)
    PROVE  AsTheLoan' /\ Told' /\ Once'
  <1> DEFINE q == [Rappels!Resting EXCEPT !.pc = "loans", !.asOf = day, !.config = config]
  <1>1. q.pc = "loans" /\ q.todo = {}
    BY DEF Rappels!Resting
  <1> HIDE DEF q
  <1>2. Moves(p, q)
    BY EnterMoves DEF Rappels!Start, q, RemindersInv
  <1>3. QED
    BY <1>1, <1>2, Rests DEF Rappels!Start, RemindersInv, Moves

LEMMA ReadLoansStep ==
    ASSUME RemindersInv, UNCHANGED loans, NEW p \in Passes, Rappels!ReadLoans(p)
    PROVE  AsTheLoan' /\ Told' /\ Once'
  <1>1. ASSUME NEW l \in LoanIds, loans[l].state = "open",
               NEW t \in Rappels!Planned(l, pass[p].config, pass[p].asOf)
        PROVE  Real(t)
    <2>1. PICK s : t = [key |-> <<l, s[1], s[2]>>, due |-> loans[l].due,
                        mail |-> loans[l].patron \in HasEmail]
      BY <1>1 DEF Rappels!Planned
    <2>2. t.key[1] = l /\ (t.mail <=> loans[l].patron \in HasEmail)
      BY <2>1
    <2>3. QED
      BY <1>1, <2>2 DEF Real
  <1>2. QED
    BY <1>1, ResumeMoves, Rests DEF Rappels!ReadLoans, RemindersInv

LEMMA CrashStep ==
    ASSUME RemindersInv, UNCHANGED loans, NEW p \in Passes, Rappels!Crash(p)
    PROVE  AsTheLoan' /\ Told' /\ Once'
  <1>1. Rappels!Resting.pc = "idle" /\ Rappels!Resting.todo = {}
    BY DEF Rappels!Resting
  <1>2. Moves(p, Rappels!Resting)
    BY EnterMoves DEF Rappels!Crash, RemindersInv
  <1>3. pass[p].pc = "mark" => pass[p].cur.key \in contested'
    BY DEF Rappels!Crash, Rappels!Sending, RemindersInv, AsTheLoan, PassAsTheLoan, InHand,
           Reminder, Rappels!Reminder, Passes
  <1>4. QED
    BY <1>1, <1>2, <1>3, Rests DEF Rappels!Crash, RemindersInv, Moves

LEMMA LookStep ==
    ASSUME RemindersInv, UNCHANGED loans, NEW p \in Passes, NEW t \in pass[p].todo,
           Rappels!Look(p, t)
    PROVE  AsTheLoan' /\ Told' /\ Once'
  <1> DEFINE k == t.key
             q == [pass[p] EXCEPT !.todo = @ \ {t}, !.cur = t, !.seen = log[k],
                     !.pc = IF ~t.mail THEN "skip"
                            ELSE IF log[k] = "none" THEN "reserve" ELSE "send"]
  <1>p. pass[p] \in Rappels!Pass
    BY DEF RemindersInv, Rappels!TypeOK, Passes
  <1>t. t \in Reminder /\ k \in Keys /\ Real(t)
    BY <1>p DEF Rappels!Pass, Reminder, Rappels!Reminder, Keys, RemindersInv, AsTheLoan,
                PassAsTheLoan
  <1>d. \A u \in pass[p].todo : Real(u)
    BY DEF RemindersInv, AsTheLoan, PassAsTheLoan
  <1>1. CASE Rappels!Settled(k)
    BY <1>1, <1>d, ResumeMoves, Rests DEF Rappels!Look, RemindersInv
  <1>2. CASE ~Rappels!Settled(k)
    <2>1. /\ q.todo = pass[p].todo \ {t} /\ q.cur = t
          /\ q.pc = IF ~t.mail THEN "skip"
                    ELSE IF log[k] = "none" THEN "reserve" ELSE "send"
      BY <1>p DEF Rappels!Pass
    <2>2. Moves(p, q)
      <3> HIDE DEF q
      <3>1. Rappels!Enter(p, q)
        BY <1>2 DEF Rappels!Look, q
      <3>2. QED
        BY <3>1, EnterMoves DEF RemindersInv
    <2> HIDE DEF q
    <2>3. pass'[p] = q /\ \A o \in Passes \ {p} : pass'[o] = pass[o]
      BY <2>2 DEF Moves
    <2>4. PassAsTheLoan(p)'
      BY <1>t, <1>d, <2>1, <2>3 DEF PassAsTheLoan, InHand, Real
    <2>5. UNCHANGED <<log, reminded>> /\ contested \subseteq contested' /\ pass[p].pc = "each"
      BY <1>2 DEF Rappels!Look
    <2>6. CASE q.pc # "send"
      <3>1. q.pc \notin {"send", "mark"}
        BY <2>1, <2>6
      <3>2. QED
        BY <2>2, <2>3, <2>4, <2>5, <3>1, Leaves DEF RemindersInv
    <2>7. CASE q.pc = "send"
      <3>1. log[k] \notin {"none", "SENT"}
        BY <1>2, <2>1, <2>7 DEF Rappels!Settled
      <3>2. AsTheLoan'
        BY <2>3, <2>4, <2>5 DEF RemindersInv, AsTheLoan, PassAsTheLoan, InHand, Real, Mailed,
                                Passes, Keys
      <3>3. Told'
        BY <2>3, <2>5, <2>7 DEF RemindersInv, Told, PassTold, Passes, Keys
      <3>4. ASSUME NEW j \in Keys \ contested'
            PROVE  KeyOnce(j)'
        <4>1. KeyOnce(j)
          BY <2>5, <3>4 DEF RemindersInv, Once, Keys
        <4>2. \A o \in Passes : SentBy(o, j) => SentBy(o, j)'
          BY <2>3, <2>5 DEF SentBy
        <4>3. CASE j # k
          <5>1. \A o \in Passes : InHandsOf(o, j)' => InHandsOf(o, j)
            BY <2>1, <2>3, <4>3 DEF InHandsOf
          <5>2. QED
            BY <2>5, <4>1, <4>2, <5>1 DEF KeyOnce, Passes
        <4>4. CASE j = k
          <5>1. \A o \in Passes : ~InHandsOf(o, k)
            BY <1>2, <3>4, <4>4 DEF Rappels!Look, Rappels!Sending, InHandsOf, Passes
          <5>2. \A o \in Passes : InHandsOf(o, k)' => o = p
            BY <2>3, <5>1 DEF InHandsOf
          <5>3. ~(reminded[k] > 0)
            BY <3>1, <4>1, <4>4, <5>1 DEF KeyOnce, SentBy, InHandsOf
          <5>4. QED
            BY <2>5, <3>1, <4>4, <5>2, <5>3 DEF KeyOnce, Passes
        <4>5. QED
          BY <4>3, <4>4
      <3>5. QED
        BY <3>2, <3>3, <3>4 DEF Once, Keys
    <2>8. QED
      BY <2>6, <2>7
  <1>3. QED
    BY <1>1, <1>2

LEMMA SkipStep ==
    ASSUME RemindersInv, StockAssumption, UNCHANGED loans, NEW p \in Passes, Rappels!Skip(p)
    PROVE  AsTheLoan' /\ Told' /\ Once'
  <1> DEFINE k == pass[p].cur.key
  <1>d. \A u \in pass[p].todo : Real(u)
    BY DEF RemindersInv, AsTheLoan, PassAsTheLoan
  <1>k. k \in Keys /\ ~Mailed(k)
    BY DEF Rappels!Skip, RemindersInv, AsTheLoan, PassAsTheLoan, InHand, Real, Mailed, Keys,
           Reminder, Rappels!Reminder
  <1>l. log[k] \notin {"PENDING", "SENT", "FAILED"}
    BY <1>k DEF RemindersInv, AsTheLoan
  <1>1. CASE pass[p].seen = "none" /\ log[k] # "none"
    <2>1. Rappels!Resting.pc = "idle" /\ Rappels!Resting.todo = {}
      BY DEF Rappels!Resting
    <2>2. Moves(p, Rappels!Resting)
      BY <1>1, EnterMoves DEF Rappels!Skip, RemindersInv
    <2>3. QED
      BY <1>1, <2>1, <2>2, Rests DEF Rappels!Skip, RemindersInv, Moves
  <1>2. CASE ~(pass[p].seen = "none" /\ log[k] # "none")
    <2>1. /\ Moves(p, pass'[p])
          /\ pass'[p].pc \in {"idle", "each"}
          /\ pass'[p].todo = pass[p].todo
      BY <1>2, ResumeMoves DEF Rappels!Skip, Rappels!Proceed, RemindersInv
    <2>2. /\ pass[p].pc = "skip" /\ UNCHANGED <<reminded, contested>>
          /\ log' = [log EXCEPT ![k] = "SKIPPED_NO_EMAIL"]
      BY <1>2 DEF Rappels!Skip
    <2>3. /\ log'[k] = "SKIPPED_NO_EMAIL"
          /\ \A j \in Keys \ {k} : log'[j] = log[j]
      BY <1>k, <2>2 DEF RemindersInv, Rappels!TypeOK, Keys
    <2>4. AsTheLoan'
      BY <1>d, <2>1, <2>3 DEF RemindersInv, AsTheLoan, PassAsTheLoan, InHand, Real, Mailed,
                              Moves, Passes, Keys
    <2>5. Told'
      BY <2>1, <2>2, <2>3 DEF RemindersInv, Told, PassTold, Moves, Passes, Keys
    <2>6. ASSUME NEW j \in Keys \ contested'
          PROVE  KeyOnce(j)'
      <3>1. KeyOnce(j)
        BY <2>2, <2>6 DEF RemindersInv, Once, Keys
      <3>2. \A o \in Passes : InHandsOf(o, j)' => InHandsOf(o, j)
        BY <2>1, <2>2 DEF InHandsOf, Moves
      <3>s. \A o \in Passes : SentBy(o, j) => SentBy(o, j)'
        BY <2>1, <2>2 DEF SentBy, Moves
      <3>3. CASE j # k
        BY <2>2, <2>3, <2>6, <3>1, <3>2, <3>s, <3>3, KeyKept
      <3>4. CASE j = k
        <4>1. /\ log'[j] = "SKIPPED_NO_EMAIL" /\ reminded'[j] = reminded[j]
              /\ log[j] # "SENT"
          BY <1>l, <2>2, <2>3, <3>4
        <4>2. QED
          BY <3>1, <3>2, <3>s, <4>1 DEF KeyOnce, Passes
      <3>5. QED
        BY <3>3, <3>4
    <2>7. QED
      BY <2>4, <2>5, <2>6 DEF Once, Keys
  <1>3. QED
    BY <1>1, <1>2

LEMMA ReserveStep ==
    ASSUME RemindersInv, UNCHANGED loans, NEW p \in Passes, Rappels!Reserve(p)
    PROVE  AsTheLoan' /\ Told' /\ Once'
  <1> DEFINE k == pass[p].cur.key
             q == [pass[p] EXCEPT !.pc = "send"]
  <1>p. pass[p] \in Rappels!Pass
    BY DEF RemindersInv, Rappels!TypeOK, Passes
  <1>d. \A u \in pass[p].todo : Real(u)
    BY DEF RemindersInv, AsTheLoan, PassAsTheLoan
  <1>k. k \in Keys /\ Mailed(k)
    BY DEF Rappels!Reserve, RemindersInv, AsTheLoan, PassAsTheLoan, InHand, Real, Mailed, Keys,
           Reminder, Rappels!Reminder
  <1>1. CASE ~Rappels!Unreserved(k)
    BY <1>1, <1>d, ResumeMoves, Rests DEF Rappels!Reserve, Rappels!Proceed, RemindersInv
  <1>2. CASE Rappels!Unreserved(k)
    <2>1. q.pc = "send" /\ q.cur = pass[p].cur /\ q.todo = pass[p].todo
      BY <1>p DEF Rappels!Pass
    <2> HIDE DEF q
    <2>2. Moves(p, q)
      <3>1. Rappels!Enter(p, q)
        BY <1>2 DEF Rappels!Reserve, q
      <3>2. QED
        BY <3>1, EnterMoves DEF RemindersInv
    <2>3. /\ pass[p].pc = "reserve" /\ UNCHANGED <<reminded, contested>>
          /\ log[k] = "none" /\ log' = [log EXCEPT ![k] = "PENDING"]
      BY <1>2 DEF Rappels!Reserve, Rappels!Unreserved
    <2>4. /\ log'[k] = "PENDING"
          /\ \A j \in Keys \ {k} : log'[j] = log[j]
      BY <1>k, <2>3 DEF RemindersInv, Rappels!TypeOK, Keys
    <2>5. PassAsTheLoan(p)'
      BY <2>1, <2>2, <2>3 DEF RemindersInv, AsTheLoan, PassAsTheLoan, InHand, Real, Moves
    <2>6. AsTheLoan'
      BY <1>k, <2>2, <2>4, <2>5 DEF RemindersInv, AsTheLoan, PassAsTheLoan, InHand, Real,
                                    Mailed, Moves, Passes, Keys
    <2>7. Told'
      BY <2>1, <2>2, <2>3, <2>4 DEF RemindersInv, Told, PassTold, Moves, Passes, Keys
    <2>8. ASSUME NEW j \in Keys \ contested'
          PROVE  KeyOnce(j)'
      <3>1. KeyOnce(j)
        BY <2>3, <2>8 DEF RemindersInv, Once, Keys
      <3>2. \A o \in Passes : SentBy(o, j) => SentBy(o, j)'
        BY <2>2, <2>3 DEF SentBy, Moves
      <3>3. CASE j # k
        <4>1. \A o \in Passes : InHandsOf(o, j)' => InHandsOf(o, j)
          BY <2>1, <2>2, <3>3 DEF InHandsOf, Moves
        <4>2. QED
          BY <2>3, <2>4, <2>8, <3>1, <3>2, <3>3, <4>1, KeyKept
      <3>4. CASE j = k
        <4>1. \A o \in Passes : ~InHandsOf(o, j)
          BY <2>3, <3>1, <3>4 DEF KeyOnce
        <4>2. \A o \in Passes : InHandsOf(o, j)' => o = p
          BY <2>2, <4>1 DEF InHandsOf, Moves
        <4>3. ~(reminded[j] > 0)
          BY <2>3, <3>1, <3>4, <4>1 DEF KeyOnce, SentBy, InHandsOf
        <4>4. log'[j] = "PENDING" /\ reminded'[j] = reminded[j]
          BY <2>3, <2>4, <3>4
        <4>5. QED
          BY <4>2, <4>3, <4>4 DEF KeyOnce, Passes
      <3>5. QED
        BY <3>3, <3>4
    <2>9. QED
      BY <2>6, <2>7, <2>8 DEF Once, Keys
  <1>3. QED
    BY <1>1, <1>2

LEMMA SendStep ==
    ASSUME RemindersInv, UNCHANGED loans, NEW p \in Passes,
           NEW outcome \in {"sent", "refused", "sentThenError"}, Rappels!Send(p, outcome)
    PROVE  AsTheLoan' /\ Told' /\ Once'
  <1> DEFINE k == pass[p].cur.key
             q == [pass[p] EXCEPT !.pc = "mark", !.seen = Rappels!Written(outcome)]
  <1>p. pass[p] \in Rappels!Pass
    BY DEF RemindersInv, Rappels!TypeOK, Passes
  <1>k. k \in Keys /\ reminded[k] \in Nat
    BY DEF Rappels!Send, RemindersInv, AsTheLoan, PassAsTheLoan, InHand, Keys,
           Reminder, Rappels!Reminder, Rappels!TypeOK
  <1>1. /\ q.pc = "mark" /\ q.cur = pass[p].cur /\ q.todo = pass[p].todo
        /\ q.seen = IF outcome = "sent" THEN "SENT" ELSE "FAILED"
    BY <1>p DEF Rappels!Pass, Rappels!Written
  <1>2. Moves(p, q)
    <2> HIDE DEF q
    <2>1. Rappels!Enter(p, q)
      BY DEF Rappels!Send, q
    <2>2. QED
      BY <2>1, EnterMoves DEF RemindersInv
  <1> HIDE DEF q
  <1>3. /\ pass[p].pc = "send" /\ UNCHANGED log
        /\ contested' = contested \cup {j \in {k} : outcome = "sentThenError"}
        /\ reminded'[k] = IF outcome = "refused" THEN reminded[k] ELSE reminded[k] + 1
        /\ \A j \in Keys \ {k} : reminded'[j] = reminded[j]
    BY <1>k DEF Rappels!Send, RemindersInv, Rappels!TypeOK, Keys
  <1>4. PassAsTheLoan(p)'
    BY <1>1, <1>2, <1>3 DEF RemindersInv, AsTheLoan, PassAsTheLoan, InHand, Real, Moves
  <1>5. AsTheLoan'
    BY <1>2, <1>3, <1>4 DEF RemindersInv, AsTheLoan, PassAsTheLoan, InHand, Real, Mailed,
                            Moves, Passes, Keys
  <1>6. Told'
    <2>1. \A j \in Keys : reminded[j] > 0 => reminded'[j] > 0
      BY <1>k, <1>3
    <2>2. \A o \in Passes : pass[o].pc = "mark" => pass[o].cur.key \in Keys
      BY DEF RemindersInv, AsTheLoan, PassAsTheLoan, InHand, Reminder, Rappels!Reminder, Keys
    <2>3. PassTold(p)'
      BY <1>k, <1>1, <1>2, <1>3 DEF PassTold, Moves
    <2>4. ASSUME NEW o \in Passes \ {p}
          PROVE  PassTold(o)'
      BY <1>2, <2>1, <2>2 DEF RemindersInv, Told, PassTold, Moves
    <2>5. QED
      BY <1>3, <2>1, <2>3, <2>4 DEF RemindersInv, Told, Passes, Keys
  <1>7. ASSUME NEW j \in Keys \ contested'
        PROVE  KeyOnce(j)'
    <2>1. KeyOnce(j)
      BY <1>3, <1>7 DEF RemindersInv, Once, Keys
    <2>2. \A o \in Passes : InHandsOf(o, j)' => InHandsOf(o, j)
      BY <1>1, <1>2, <1>3 DEF InHandsOf, Moves
    <2>s. \A o \in Passes : SentBy(o, j) => SentBy(o, j)'
      BY <1>1, <1>2, <1>3 DEF SentBy, Moves
    <2>3. CASE j # k
      BY <1>3, <1>7, <2>1, <2>2, <2>s, <2>3, KeyKept
    <2>4. CASE j = k
      <3>1. InHandsOf(p, j)
        BY <1>3, <2>4 DEF InHandsOf
      <3>2. ~(reminded[j] > 0)
        BY <1>3, <2>1, <3>1 DEF KeyOnce, SentBy, InHandsOf
      <3>3. outcome # "sentThenError"
        BY <1>3, <1>7, <2>4
      <3>4. outcome = "sent" => SentBy(p, j)'
        BY <1>1, <1>2, <2>4 DEF SentBy, Moves
      <3>5. reminded'[j] > 0 => outcome = "sent" /\ reminded'[j] = 1
        BY <1>k, <1>3, <2>4, <3>2, <3>3
      <3>6. log'[j] = log[j]
        BY <1>3
      <3>7. QED
        BY <2>1, <2>2, <2>s, <3>4, <3>5, <3>6 DEF KeyOnce, Passes
    <2>5. QED
      BY <2>3, <2>4
  <1>8. QED
    BY <1>5, <1>6, <1>7 DEF Once, Keys

LEMMA MarkStep ==
    ASSUME RemindersInv, UNCHANGED loans, NEW p \in Passes, Rappels!Mark(p)
    PROVE  AsTheLoan' /\ Told' /\ Once'
  <1> DEFINE k == pass[p].cur.key
  <1>d. \A u \in pass[p].todo : Real(u)
    BY DEF RemindersInv, AsTheLoan, PassAsTheLoan
  <1>k. k \in Keys /\ Mailed(k)
    BY DEF Rappels!Mark, RemindersInv, AsTheLoan, PassAsTheLoan, InHand, Real, Mailed, Keys,
           Reminder, Rappels!Reminder
  <1>1. /\ Moves(p, pass'[p])
        /\ pass'[p].pc \in {"idle", "each"}
        /\ pass'[p].todo = pass[p].todo
    BY ResumeMoves DEF Rappels!Mark, Rappels!Proceed, RemindersInv
  <1>2. /\ pass[p].pc = "mark" /\ UNCHANGED <<reminded, contested>>
        /\ log'[k] = pass[p].seen
        /\ \A j \in Keys \ {k} : log'[j] = log[j]
    BY <1>k DEF Rappels!Mark, RemindersInv, Rappels!TypeOK, Keys
  <1>3. pass[p].seen \in {"SENT", "FAILED"} /\ (pass[p].seen = "SENT" => reminded[k] > 0)
    BY <1>2 DEF RemindersInv, Told, PassTold
  <1>4. AsTheLoan'
    BY <1>d, <1>k, <1>1, <1>2 DEF RemindersInv, AsTheLoan, PassAsTheLoan, InHand, Real, Mailed,
                                  Moves, Passes, Keys
  <1>5. Told'
    BY <1>1, <1>2, <1>3 DEF RemindersInv, Told, PassTold, Moves, Passes, Keys
  <1>6. ASSUME NEW j \in Keys \ contested'
        PROVE  KeyOnce(j)'
    <2>1. KeyOnce(j) /\ reminded'[j] = reminded[j]
      BY <1>2, <1>6 DEF RemindersInv, Once, Keys
    <2>2. \A o \in Passes : InHandsOf(o, j)' => o # p /\ InHandsOf(o, j)
      BY <1>1 DEF InHandsOf, Moves
    <2>3. CASE j # k
      <3>1. log'[j] = log[j]
        BY <1>2, <1>6, <2>3
      <3>2. \A o \in Passes : SentBy(o, j) => SentBy(o, j)'
        BY <1>1, <2>3 DEF SentBy, Moves
      <3>3. QED
        BY <2>1, <2>2, <3>1, <3>2 DEF KeyOnce, Passes
    <2>4. CASE j = k
      <3>1. InHandsOf(p, j)
        BY <1>2, <2>4 DEF InHandsOf
      <3>2. \A o \in Passes : ~InHandsOf(o, j)'
        BY <2>1, <2>2, <3>1 DEF KeyOnce
      <3>3. reminded[j] > 0 => reminded[j] = 1 /\ pass[p].seen = "SENT"
        BY <2>1, <3>1 DEF KeyOnce, SentBy, InHandsOf
      <3>4. log'[j] = pass[p].seen
        BY <1>2, <2>4
      <3>5. QED
        BY <2>1, <3>2, <3>3, <3>4 DEF KeyOnce, Passes
    <2>5. QED
      BY <2>3, <2>4
  <1>7. QED
    BY <1>4, <1>5, <1>6 DEF Once, Keys

-----------------------------------------------------------------------------
(* The invariant *)

LEMMA RemindersInit == ASSUME StockAssumption, StockInit PROVE RemindersInv
  <1>r. /\ Rappels!Resting \in Rappels!Pass
        /\ Rappels!Resting.pc = "idle" /\ Rappels!Resting.todo = {}
    BY RestingType DEF StockAssumption, Rappels!RemindersAssumption, Rappels!Resting
  <1>1. TypeOK
    BY InitType, CirculationAssumption DEF StockInit
  <1>2. Rappels!TypeOK
    BY <1>r DEF StockInit, Rappels!Init, Rappels!TypeOK, Rappels!LogStatus
  <1>3. AsTheLoan /\ Told /\ Once
    BY <1>r DEF StockInit, Rappels!Init, AsTheLoan, PassAsTheLoan, InHand, Told, PassTold, Once,
                KeyOnce, InHandsOf, SentBy, Passes, Keys
  <1>4. QED
    BY <1>1, <1>2, <1>3 DEF RemindersInv

LEMMA RemindersStep ==
    ASSUME StockAssumption, Stages = Nat, RemindersInv, [StockNext]_all
    PROVE  RemindersInv'
  <1>1. TypeOK'
    BY DeskTypeStep DEF RemindersInv
  <1>2. CASE Mailing(Rappels!Next)
    <2>u. UNCHANGED loans
      BY <1>2 DEF Mailing, vars, db
    <2>1. Rappels!TypeOK'
      <3>1. \A p \in Passes : InHand(p) => pass[p].cur \in Reminder
        BY DEF RemindersInv, AsTheLoan, PassAsTheLoan
      <3>2. Rappels!Next
        BY <1>2 DEF Mailing
      <3>3. TypeOK /\ Rappels!TypeOK
        BY DEF RemindersInv
      <3>4. QED
        BY <3>1, <3>2, <3>3, RemindersTypeStep, Zenon
    <2>2. ASSUME NEW p \in Passes, Rappels!Step(p)
          PROVE  AsTheLoan' /\ Told' /\ Once'
      BY <2>u, <2>2, ReadLoansStep, LookStep, SkipStep, ReserveStep, SendStep, MarkStep
      DEF Rappels!Step
    <2>3. ASSUME Rappels!Switch \/ \E c \in Configs : Rappels!UpdateSettings(c)
          PROVE  AsTheLoan' /\ Told' /\ Once'
      <3>1. UNCHANGED <<log, pass, reminded, contested>>
        BY <2>3 DEF Rappels!Switch, Rappels!UpdateSettings
      <3>2. AsTheLoan'
        BY <2>u, <3>1 DEF RemindersInv, AsTheLoan, PassAsTheLoan, InHand, Real, Mailed, Passes,
                          Keys
      <3>3. Told' /\ Once'
        BY <3>1 DEF RemindersInv, Told, PassTold, Once, KeyOnce, InHandsOf, SentBy, Passes, Keys
      <3>4. QED
        BY <3>2, <3>3
    <2>4. AsTheLoan' /\ Told' /\ Once'
      <3>1. ASSUME NEW p \in Passes, NEW day, Rappels!Start(p, day)
            PROVE  AsTheLoan' /\ Told' /\ Once'
        BY <2>u, <3>1, StartStep
      <3>2. ASSUME NEW p \in Passes, Rappels!Crash(p)
            PROVE  AsTheLoan' /\ Told' /\ Once'
        BY <2>u, <3>2, CrashStep
      <3>3. Rappels!Next
        BY <1>2 DEF Mailing
      <3>4. QED
        BY <2>2, <2>3, <3>1, <3>2, <3>3, Zenon DEF Rappels!Next, Passes
    <2>5. QED
      BY <1>1, <2>1, <2>4 DEF RemindersInv
  <1>3. CASE UNCHANGED reminders
    <2>1. Rappels!TypeOK'
      BY <1>3 DEF reminders, RemindersInv, Rappels!TypeOK
    <2>2. Told' /\ Once'
      BY <1>3 DEF reminders, RemindersInv, Told, PassTold, Once, KeyOnce, InHandsOf, SentBy
    <2>3. ASSUME NEW p \in Passes
          PROVE  PassAsTheLoan(p)'
      <3>1. pass[p] \in Rappels!Pass /\ pass' = pass
        BY <1>3 DEF reminders, RemindersInv, Rappels!TypeOK, Passes
      <3>2. PassAsTheLoan(p)
        BY DEF RemindersInv, AsTheLoan
      <3>3. \A t \in pass[p].todo : Real(t)'
        BY <3>1, <3>2, RealKept DEF PassAsTheLoan, Rappels!Pass, Reminder, RemindersInv
      <3>4. ASSUME InHand(p)
            PROVE  Real(pass[p].cur)'
        <4> DEFINE t == pass[p].cur
        <4>1. t \in Reminder /\ Real(t)
          BY <3>2, <3>4 DEF PassAsTheLoan
        <4>2. t.key[1] \in LoanIds /\ loans[t.key[1]].state # "unused"
          BY <4>1 DEF Reminder, Rappels!Reminder, Rappels!Keys, Real
        <4>3. /\ loans'[t.key[1]].state # "unused"
              /\ loans'[t.key[1]].patron = loans[t.key[1]].patron
          BY <4>2, LoansKept DEF RemindersInv
        <4>4. QED
          BY <3>1, <4>1, <4>3 DEF Real
      <3>5. QED
        BY <3>1, <3>2, <3>3, <3>4 DEF PassAsTheLoan, InHand, Real
    <2>4. \A k \in Keys : log'[k] \in {"PENDING", "SENT", "FAILED"} => Mailed(k)'
      BY <1>3, MailedKept DEF reminders, RemindersInv, AsTheLoan
    <2>5. AsTheLoan'
      BY <2>3, <2>4 DEF AsTheLoan, Passes, Keys
    <2>6. QED
      BY <1>1, <2>1, <2>2, <2>5 DEF RemindersInv
  <1>4. QED
    BY <1>2, <1>3 DEF StockNext, Desk, Shelves, all

LEMMA RemindersInvariant == ASSUME Stages = Nat PROVE StockSpec => []RemindersInv
  <1>1. StockInit => RemindersInv
    BY RemindersInit, StockAssumption
  <1>2. RemindersInv /\ [StockNext]_all => RemindersInv'
    BY RemindersStep, StockAssumption
  <1>3. QED
    BY <1>1, <1>2, PTL DEF StockSpec

\* What the administration reads as sent has left: whatever number of passes, of
\* failures and of deaths after the reservation (processReminder).
THEOREM SentIsMailed == ASSUME Stages = Nat PROVE StockSpec => []SentMeansMailed
  <1>1. RemindersInv => SentMeansMailed
    BY DEF RemindersInv, Told, SentMeansMailed, Rappels!SentMeansMailed, Rappels!Settled, Keys
  <1>2. QED
    BY <1>1, RemindersInvariant, PTL

\* "Jamais deux fois": the unique key and the reservation before the message keep
\* any number of passes from telling one stage twice, outside the stages on which
\* two passes were together or whose message was never recorded.
THEOREM ToldOnce == ASSUME Stages = Nat PROVE StockSpec => []OneMailPerStage
  <1>1. RemindersInv => OneMailPerStage
    BY DEF RemindersInv, Once, KeyOnce, OneMailPerStage, Rappels!OneMailPerStage,
           Rappels!TypeOK, Keys
  <1>2. QED
    BY <1>1, RemindersInvariant, PTL

\* reminder_logs and the passes keep the shapes of their table and of their code.
THEOREM RemindersTypeCorrect == ASSUME Stages = Nat PROVE StockSpec => []Rappels!TypeOK
  <1>1. RemindersInv => Rappels!TypeOK
    BY DEF RemindersInv
  <1>2. QED
    BY <1>1, RemindersInvariant, PTL

-----------------------------------------------------------------------------
(* Recolement beside the counter *)

\* The marking looks again at each copy it writes: it leaves a copy on loan alone,
\* whatever the session read before the loan.
LEMMA CounterBesideRecolement ==
    ASSUME OnlyCounter, CounterInv, [StockNext]_all
    PROVE  CounterInv'
  <1>1. CASE Desk(Next) \/ UNCHANGED all
    BY <1>1, CounterNext, CirculationAssumption DEF Desk, all
  <1>2. CASE Mailing(Rappels!Next)
    <2>1. UNCHANGED vars
      BY <1>2 DEF Mailing
    <2>2. QED
      BY <2>1, CounterNext, CirculationAssumption
  <1>3. CASE Shelves(Recolement!Next)
    <2>1. TypeOK'
      BY <1>3, DeskTypeStep DEF CounterInv
    <2>2. UNCHANGED <<loans, holds, sess>>
      BY <1>3 DEF Shelves
    <2>3. \A i \in Items : status[i] = "CHECKED_OUT" => status'[i] = "CHECKED_OUT"
      <3>1. ASSUME NEW c \in Clerks, Recolement!MarkMissing(c)
            PROVE  \A i \in Items : status[i] = "CHECKED_OUT" => status'[i] = "CHECKED_OUT"
        BY <3>1 DEF Recolement!MarkMissing, Recolement!Markable
      <3>2. ASSUME NEW c \in Clerks, Recolement!Step(c) \/ Recolement!Abort(c)
            PROVE  Recolement!MarkMissing(c) \/ UNCHANGED status
        BY <3>2 DEF Recolement!Step, Recolement!Abort, Recolement!Scan,
            Recolement!AnnulerScan, Recolement!CloseSession, Recolement!ReopenSession,
            Recolement!ReadItems, Recolement!ReadScans, Recolement!Apply
      <3>3. QED
        BY <1>3, <3>1, <3>2 DEF Shelves, Recolement!Next, Recolement!CreateSession,
            Recolement!Arrive
    <2>4. NoHolds' /\ LentItems' /\ OneLoanPerItem' /\ \A s \in Procs : CounterFits(sess'[s], loans')
      BY <2>2 DEF CounterInv, NoHolds, LentItems, LoansInOrder, OneLoanPerItem, OpenLoan
    <2>5. OpenLoanCheckedOut'
      BY <2>2, <2>3 DEF CounterInv, LentItems, LoansInOrder, OpenLoanCheckedOut, OpenLoan
    <2>6. QED
      BY <2>1, <2>4, <2>5 DEF CounterInv, LoansInOrder
  <1>4. QED
    BY <1>1, <1>2, <1>3 DEF StockNext

\* A copy lent while a session classifies what it has not seen stays checked out,
\* for any number of campaigns, clerks and requests of the counter that overlap.
THEOREM RecolementSparesLoans == ASSUME OnlyCounter PROVE StockSpec => []OpenLoanCheckedOut
  <1>1. StockInit => CounterInv
    BY CounterInit, CirculationAssumption DEF StockInit
  <1>2. CounterInv /\ [StockNext]_all => CounterInv'
    BY CounterBesideRecolement
  <1>3. CounterInv => OpenLoanCheckedOut
    BY DEF CounterInv, LoansInOrder
  <1>4. QED
    BY <1>1, <1>2, <1>3, PTL DEF StockSpec
=============================================================================
