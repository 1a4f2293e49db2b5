----------------------------- MODULE NoticeProofs -----------------------------
(***************************************************************************)
(* What is said and done about ready holds, for any number of requests,    *)
(* passes and holds: a reader gets at most one message each time a hold is *)
(* made ready, when the mail server never reports an error for a message   *)
(* it has accepted; a ready hold is taken back once its window is over,    *)
(* when windows outlast requests; a claim is never kept for nothing, when  *)
(* no request dies holding one.                                            *)
(***************************************************************************)
EXTENDS CirculationProofs

\* The requests about to send the message of hold h, and whether somebody may
\* still claim it.
Senders(h) == {s \in Procs : sess[s].pc = "send" /\ sess[s].hold = h}
Claimable(h) == IF holds[h].notified \/ promos[h] = 0 THEN 0 ELSE 1

ReadyWasPromoted ==
    \A h \in HoldIds : holds[h].status = "AVAILABLE" => promos[h] > 0
UnusedNotPromoted ==
    \A h \in HoldIds : holds[h].status = "unused" => promos[h] = 0
ListedWasPromoted ==
    \A s \in Procs : \A h \in sess[s].todo : promos[h] > 0

\* Each promotion gives one right to a message: it is spent, or about to be, or
\* nobody has claimed it.
RightsToMail ==
    \A h \in HoldIds :
        mails[h] + Cardinality(Senders(h)) + Claimable(h) <= promos[h]

MailInv == /\ ReadyWasPromoted
           /\ UnusedNotPromoted
           /\ ListedWasPromoted
           /\ RightsToMail

-----------------------------------------------------------------------------
(* Counting senders *)

LEMMA SendersFinite ==
    ASSUME CirculationAssumption, NEW h
    PROVE  IsFiniteSet(Senders(h)) /\ Cardinality(Senders(h)) \in Nat
  <1>1. IsFiniteSet(Procs)
    BY FS_AddElement DEF CirculationAssumption, Procs
  <1>2. Senders(h) \subseteq Procs
    BY DEF Senders
  <1>3. QED
    BY <1>1, <1>2, FS_Subset, FS_CardinalityType

\* With fewer senders of a hold, fewer rights are about to be spent.
LEMMA FewerSenders ==
    ASSUME CirculationAssumption, NEW h, Senders(h)' \subseteq Senders(h)
    PROVE  Cardinality(Senders(h)') \in Nat /\ Cardinality(Senders(h)') <= Cardinality(Senders(h))
  BY SendersFinite, FS_Subset, FS_CardinalityType

LEMMA OneMoreSender ==
    ASSUME CirculationAssumption, NEW h, NEW s, Senders(h)' \subseteq Senders(h) \cup {s}
    PROVE  /\ Cardinality(Senders(h)') \in Nat
           /\ Cardinality(Senders(h)') <= Cardinality(Senders(h)) + 1
  <1> DEFINE S == Senders(h)
             T == Senders(h)'
  <1>1. IsFiniteSet(S) /\ Cardinality(S) \in Nat
    BY SendersFinite
  <1>2. /\ IsFiniteSet(S \cup {s})
        /\ Cardinality(S \cup {s}) = IF s \in S THEN Cardinality(S) ELSE Cardinality(S) + 1
    BY <1>1, FS_AddElement
  <1>3. IsFiniteSet(T) /\ Cardinality(T) <= Cardinality(S \cup {s})
    BY <1>2, FS_Subset
  <1>4. Cardinality(T) \in Nat
    BY <1>3, FS_CardinalityType
  <1> HIDE DEF S, T
  <1>5. Cardinality(T) <= Cardinality(S) + 1
    BY <1>1, <1>2, <1>3, <1>4
  <1>6. QED
    BY <1>4, <1>5 DEF S, T

-----------------------------------------------------------------------------
(* Steps that send and claim nothing *)

\* Nobody starts to send, and a list of holds to look at grows only with ready ones.
SessionsQuiet ==
    /\ \A h \in HoldIds : Senders(h)' \subseteq Senders(h)
    /\ \A t \in Procs : \A h \in sess'[t].todo :
          h \in sess[t].todo \/ holds[h].status = "AVAILABLE"

\* Hold h keeps its promotions and its claim, or is promoted once more.
Kept(h) ==
    /\ promos'[h] = promos[h]
    /\ holds'[h].notified = holds[h].notified \/ promos[h] = 0
    /\ holds'[h].status = "AVAILABLE" => holds[h].status = "AVAILABLE"
    /\ holds'[h].status = "unused" => holds[h].status = "unused"
Raised(h) ==
    /\ promos'[h] = promos[h] + 1
    /\ holds'[h].status # "unused"
HoldsQuiet == \A h \in HoldIds : Kept(h) \/ Raised(h)

LEMMA QuietStep ==
    ASSUME CirculationAssumption, TypeOK, TypeOK', MailInv,
           SessionsQuiet, HoldsQuiet, UNCHANGED mails
    PROVE  MailInv'
  <1>n. \A h \in HoldIds : promos[h] \in Nat /\ mails[h] \in Nat
    BY DEF TypeOK
  <1>1. ReadyWasPromoted'
    BY <1>n DEF MailInv, ReadyWasPromoted, HoldsQuiet, Kept, Raised
  <1>2. UnusedNotPromoted'
    BY DEF MailInv, UnusedNotPromoted, HoldsQuiet, Kept, Raised
  <1>3. ListedWasPromoted'
    <2>1. ASSUME NEW t \in Procs, NEW h \in sess'[t].todo
          PROVE  promos'[h] > 0
      <3>1. h \in HoldIds
        BY DEF TypeOK, Request
      <3>2. promos[h] > 0
        BY <3>1 DEF SessionsQuiet, MailInv, ListedWasPromoted, ReadyWasPromoted
      <3>3. QED
        BY <1>n, <3>1, <3>2 DEF HoldsQuiet, Kept, Raised
    <2>2. QED
      BY <2>1 DEF ListedWasPromoted
  <1>4. RightsToMail'
    <2>1. ASSUME NEW h \in HoldIds
          PROVE  mails'[h] + Cardinality(Senders(h)') + Claimable(h)' <= promos'[h]
      <3>1. mails[h] + Cardinality(Senders(h)) + Claimable(h) <= promos[h]
        BY DEF MailInv, RightsToMail
      <3>2. /\ Cardinality(Senders(h)) \in Nat
            /\ Cardinality(Senders(h)') \in Nat
            /\ Cardinality(Senders(h)') <= Cardinality(Senders(h))
        BY SendersFinite, FewerSenders DEF SessionsQuiet
      <3>3. Claimable(h) \in {0, 1} /\ Claimable(h)' \in {0, 1}
        BY DEF Claimable
      <3>4. CASE Kept(h)
        <4>1. Claimable(h)' = Claimable(h)
          BY <3>4 DEF Kept, Claimable
        <4>2. QED
          BY <1>n, <3>1, <3>2, <3>3, <3>4, <4>1 DEF Kept
      <3>5. CASE Raised(h)
        BY <1>n, <3>1, <3>2, <3>3, <3>5 DEF Raised
      <3>6. QED
        BY <3>4, <3>5 DEF HoldsQuiet
    <2>2. QED
      BY <2>1 DEF RightsToMail
  <1>5. QED
    BY <1>1, <1>2, <1>3, <1>4 DEF MailInv

\* A request that goes on without sending.
LEMMA EnterQuiet ==
    ASSUME TypeOK, NEW s \in Procs, NEW q, Enter(s, q), q.pc # "send",
           \A h \in q.todo : h \in sess[s].todo \/ holds[h].status = "AVAILABLE"
    PROVE  SessionsQuiet
  BY DEF TypeOK, Enter, SessionsQuiet, Senders

LEMMA DoneQuiet ==
    ASSUME TypeOK, NEW s \in Procs, Done(s)
    PROVE  SessionsQuiet
  BY EnterQuiet DEF Done, Idle

LEMMA GotoQuiet ==
    ASSUME TypeOK, NEW s \in Procs, NEW pc, Goto(s, pc), pc # "send"
    PROVE  SessionsQuiet
  <1>1. sess[s] \in Request
    BY DEF TypeOK
  <1>2. /\ [sess[s] EXCEPT !.pc = pc].pc = pc
        /\ [sess[s] EXCEPT !.pc = pc].todo = sess[s].todo
    BY <1>1 DEF Request
  <1>3. QED
    BY <1>2, EnterQuiet DEF Goto

\* A step that writes no hold.
LEMMA HoldsUnchanged ==
    ASSUME UNCHANGED <<holds, promos>>
    PROVE  HoldsQuiet
  BY DEF HoldsQuiet, Kept

\* A hold that ends, and no promotion.
LEMMA HoldEnds ==
    ASSUME TypeOK, NEW h, NEW st \in {"FULFILLED", "CANCELLED", "EXPIRED"},
           holds' = [holds EXCEPT ![h].status = st], UNCHANGED promos
    PROVE  HoldsQuiet
  <1>1. ASSUME NEW g \in HoldIds
        PROVE  Kept(g)
    <2>1. holds'[g] = IF g = h THEN [holds[g] EXCEPT !.status = st] ELSE holds[g]
      BY DEF TypeOK
    <2>2. holds[g] \in Hold
      BY DEF TypeOK
    <2>3. QED
      BY <2>1, <2>2 DEF Kept, Hold
  <1>2. QED
    BY <1>1 DEF HoldsQuiet

\* A hold made ready, and its promotion.
LEMMA HoldMadeReady ==
    ASSUME TypeOK, NEW h, NEW until, holds' = Ready(h, until), promos' = Promoted(h)
    PROVE  HoldsQuiet
  <1>1. ASSUME NEW g \in HoldIds
        PROVE  Kept(g) \/ Raised(g)
    <2>1. holds'[g] = IF g = h THEN [holds[g] EXCEPT !.status = "AVAILABLE", !.expiry = until]
                      ELSE holds[g]
      BY DEF TypeOK, Ready
    <2>2. promos'[g] = IF g = h THEN promos[g] + 1 ELSE promos[g]
      BY DEF TypeOK, Promoted
    <2>3. holds[g] \in Hold
      BY DEF TypeOK
    <2>4. QED
      BY <2>1, <2>2, <2>3 DEF Kept, Raised, Hold
  <1>2. QED
    BY <1>1 DEF HoldsQuiet

\* A hold given up, and the next one made ready if there is one.
LEMMA PassOnQuiet ==
    ASSUME CirculationAssumption, TypeOK, NEW h, NEW how \in {"CANCELLED", "EXPIRED"},
           NEW next \in HoldIds \cup {0}, NEW item, NEW until, NEW again,
           PassOn(h, how, next, item, until, again)
    PROVE  HoldsQuiet
  <1>1. ASSUME NEW g \in HoldIds
        PROVE  Kept(g) \/ Raised(g)
    <2>1. holds'[g] = IF g = next
                      THEN [holds[g] EXCEPT !.status = "AVAILABLE", !.expiry = until,
                                            !.notified = @ /\ ~again]
                      ELSE IF g = h THEN [holds[g] EXCEPT !.status = how] ELSE holds[g]
      BY DEF PassOn
    <2>2. promos'[g] = IF next # 0 /\ g = next THEN promos[g] + 1 ELSE promos[g]
      BY DEF TypeOK, PassOn, Promoted
    <2>3. holds[g] \in Hold
      BY DEF TypeOK
    <2>4. g # 0
      BY DEF CirculationAssumption
    <2>5. QED
      BY <2>1, <2>2, <2>3, <2>4 DEF Kept, Raised, Hold
  <1>2. QED
    BY <1>1 DEF HoldsQuiet

-----------------------------------------------------------------------------
(* Claims and messages *)

\* A claim turns what anybody may claim into one sender, or into nothing.
LEMMA ClaimStep ==
    ASSUME CirculationAssumption, TypeOK, TypeOK', MailInv, NEW s \in Procs,
           NEW h \in HoldIds, NotifyClaim(s, h)
    PROVE  MailInv'
  <1> DEFINE q == sess[s]
  <1>q. q \in Request
    BY DEF TypeOK
  <1>1. CASE ~Unclaimed(h)
    <2>1. /\ [q EXCEPT !.todo = @ \ {h}].pc = "claim"
          /\ [q EXCEPT !.todo = @ \ {h}].todo \subseteq q.todo
      BY <1>q DEF NotifyClaim, Request
    <2>2. SessionsQuiet
      BY <1>1, <2>1, EnterQuiet DEF NotifyClaim
    <2>3. HoldsQuiet
      BY <1>1, HoldsUnchanged DEF NotifyClaim
    <2>4. QED
      BY <2>2, <2>3, QuietStep DEF NotifyClaim
  <1>2. CASE Unclaimed(h)
    <2> DEFINE mailed == holds[h].patron \in HasEmail
               after == IF mailed
                        THEN [q EXCEPT !.todo = @ \ {h}, !.hold = h, !.pc = "send"]
                        ELSE [q EXCEPT !.todo = @ \ {h}]
    <2>1. sess' = [sess EXCEPT ![s] = after]
      BY <1>2 DEF NotifyClaim, Enter
    <2>2. /\ after.todo \subseteq q.todo
          /\ mailed => after.pc = "send" /\ after.hold = h
          /\ ~mailed => after.pc = "claim"
      BY <1>q DEF NotifyClaim, Request
    <2>3. \A t \in Procs : sess'[t] = IF t = s THEN after ELSE sess[t]
      BY <2>1 DEF TypeOK
    <2>4. \A g \in HoldIds : holds'[g] = IF g = h THEN [holds[g] EXCEPT !.notified = TRUE]
                                         ELSE holds[g]
      BY <1>2 DEF NotifyClaim, TypeOK
    <2>5. promos' = promos /\ mails' = mails
      BY DEF NotifyClaim
    <2>6. \A g \in HoldIds : /\ holds'[g].status = holds[g].status
                             /\ g # h => holds'[g].notified = holds[g].notified
                             /\ g = h => holds'[g].notified = TRUE
      BY <2>4 DEF TypeOK, Hold
    <2>7. ReadyWasPromoted' /\ UnusedNotPromoted'
      BY <2>5, <2>6 DEF MailInv, ReadyWasPromoted, UnusedNotPromoted
    <2>8. ListedWasPromoted'
      BY <2>2, <2>3, <2>5 DEF MailInv, ListedWasPromoted
    <2>9. RightsToMail'
      <3>1. ASSUME NEW g \in HoldIds, g # h
            PROVE  mails'[g] + Cardinality(Senders(g)') + Claimable(g)' <= promos'[g]
        <4>1. Senders(g)' \subseteq Senders(g)
          BY <2>2, <2>3, <3>1 DEF Senders
        <4>2. Claimable(g)' = Claimable(g)
          BY <2>5, <2>6, <3>1 DEF Claimable
        <4>3. mails[g] + Cardinality(Senders(g)) + Claimable(g) <= promos[g]
          BY DEF MailInv, RightsToMail
        <4>4. mails[g] \in Nat /\ promos[g] \in Nat /\ Claimable(g) \in {0, 1}
          BY DEF TypeOK, Claimable
        <4>5. QED
          BY <2>5, <4>1, <4>2, <4>3, <4>4, SendersFinite, FewerSenders
      <3>2. mails'[h] + Cardinality(Senders(h)') + Claimable(h)' <= promos'[h]
        <4>1. Senders(h)' \subseteq Senders(h) \cup {s}
          BY <2>3 DEF Senders
        <4>2. /\ Cardinality(Senders(h)') \in Nat
              /\ Cardinality(Senders(h)') <= Cardinality(Senders(h)) + 1
          BY <4>1, OneMoreSender
        <4>3. promos[h] > 0
          BY DEF NotifyClaim, MailInv, ListedWasPromoted
        <4>4. Claimable(h) = 1 /\ Claimable(h)' = 0
          BY <1>2, <2>6, <4>3 DEF Claimable, Unclaimed, TypeOK
        <4>5. mails[h] + Cardinality(Senders(h)) + Claimable(h) <= promos[h]
          BY DEF MailInv, RightsToMail
        <4>6. mails[h] \in Nat /\ promos[h] \in Nat /\ Cardinality(Senders(h)) \in Nat
          BY SendersFinite DEF TypeOK
        <4>7. QED
          BY <2>5, <4>2, <4>4, <4>5, <4>6
      <3>3. QED
        BY <3>1, <3>2 DEF RightsToMail
    <2>10. QED
      BY <2>7, <2>8, <2>9 DEF MailInv
  <1>3. QED
    BY <1>1, <1>2

\* A message that leaves spends a sender; a message that is refused turns the
\* sender back into what anybody may claim.
LEMMA SendStep ==
    ASSUME CirculationAssumption, TypeOK, TypeOK', MailInv, NEW s \in Procs,
           NEW outcome \in {"sent", "refused"}, NotifySend(s, outcome)
    PROVE  MailInv'
  <1> DEFINE q == sess[s]
             h == sess[s].hold
             after == [q EXCEPT !.pc = "claim", !.hold = 0]
  <1>q. q \in Request
    BY DEF TypeOK
  <1>1. after.pc = "claim" /\ after.todo = q.todo
    BY <1>q DEF Request
  <1>2. \A t \in Procs : sess'[t] = IF t = s THEN after ELSE sess[t]
    BY DEF NotifySend, Enter, TypeOK
  <1>3. \A g \in HoldIds : /\ holds'[g].status = holds[g].status
                           /\ g # h => holds'[g].notified = holds[g].notified
                           /\ outcome = "sent" => holds'[g].notified = holds[g].notified
    <2>1. holds' = holds \/ holds' = [holds EXCEPT ![h].notified = FALSE]
      BY DEF NotifySend, Released
    <2>2. outcome = "sent" => holds' = holds
      BY DEF NotifySend
    <2>3. \A g \in HoldIds : holds[g] \in Hold
      BY DEF TypeOK
    <2>4. QED
      BY <2>1, <2>2, <2>3 DEF TypeOK, Hold
  <1>4. promos' = promos
    BY DEF NotifySend
  <1>5. \A g \in HoldIds : mails'[g] = IF g = h /\ outcome = "sent" THEN mails[g] + 1
                                       ELSE mails[g]
    BY DEF NotifySend, TypeOK
  <1>6. ReadyWasPromoted' /\ UnusedNotPromoted'
    BY <1>3, <1>4 DEF MailInv, ReadyWasPromoted, UnusedNotPromoted
  <1>7. ListedWasPromoted'
    BY <1>1, <1>2, <1>4 DEF MailInv, ListedWasPromoted
  <1>8. RightsToMail'
    <2>1. ASSUME NEW g \in HoldIds
          PROVE  mails'[g] + Cardinality(Senders(g)') + Claimable(g)' <= promos'[g]
      <3>n. /\ mails[g] \in Nat /\ promos[g] \in Nat
            /\ Cardinality(Senders(g)) \in Nat
            /\ Claimable(g) \in {0, 1} /\ Claimable(g)' \in {0, 1}
            /\ mails[g] + Cardinality(Senders(g)) + Claimable(g) <= promos[g]
        BY SendersFinite DEF TypeOK, Claimable, MailInv, RightsToMail
      <3>1. CASE g # h
        <4>1. Senders(g)' \subseteq Senders(g)
          BY <1>1, <1>2 DEF Senders
        <4>2. Claimable(g)' = Claimable(g)
          BY <1>3, <1>4, <3>1 DEF Claimable
        <4>3. QED
          <5>1. /\ Cardinality(Senders(g)') \in Nat
                /\ Cardinality(Senders(g)') <= Cardinality(Senders(g))
            BY <4>1, FewerSenders
          <5>2. mails'[g] = mails[g] /\ promos'[g] = promos[g]
            BY <1>4, <1>5, <3>1
          <5>3. QED
            BY <3>n, <4>2, <5>1, <5>2
      <3>2. CASE g = h
        <4>1. /\ Senders(g)' \subseteq Senders(g) \ {s}
              /\ s \in Senders(g)
          BY <1>1, <1>2, <3>2 DEF Senders, NotifySend
        <4>2. /\ Cardinality(Senders(g)') \in Nat
              /\ Cardinality(Senders(g)') <= Cardinality(Senders(g)) - 1
          <5>1. /\ IsFiniteSet(Senders(g) \ {s})
                /\ Cardinality(Senders(g) \ {s}) = Cardinality(Senders(g)) - 1
            BY <4>1, SendersFinite, FS_RemoveElement
          <5>2. QED
            BY <4>1, <5>1, FS_Subset, FS_CardinalityType
        <4>3. CASE outcome = "sent"
          <5>1. Claimable(g)' = Claimable(g)
            BY <1>3, <1>4, <4>3 DEF Claimable
          <5>2. QED
            BY <1>4, <1>5, <3>n, <3>2, <4>2, <4>3, <5>1
        <4>4. CASE outcome = "refused"
          BY <1>4, <1>5, <3>n, <4>2, <4>4
        <4>5. QED
          BY <4>3, <4>4
      <3>3. QED
        BY <3>1, <3>2
    <2>2. QED
      BY <2>1 DEF RightsToMail
  <1>9. QED
    BY <1>6, <1>7, <1>8 DEF MailInv

-----------------------------------------------------------------------------
(* The invariant *)

\* Every other step of a request in flight is quiet.
LEMMA QuietSteps ==
    ASSUME CirculationAssumption, TypeOK, UnusedNotPromoted, NEW s \in Procs, Step(s),
           \A h \in HoldIds : ~NotifyClaim(s, h),
           \A outcome \in {"sent", "refused", "sentThenError"} : ~NotifySend(s, outcome)
    PROVE  SessionsQuiet /\ HoldsQuiet /\ UNCHANGED mails
  <1> DEFINE q == sess[s]
  <1>q. q \in Request
    BY DEF TypeOK
  <1>1. CASE CheckoutCount(s)
    BY <1>1, DoneQuiet, GotoQuiet, HoldsUnchanged DEF CheckoutCount, db
  <1>2. CASE CheckoutReady(s)
    <2>1. ASSUME NEW h
          PROVE  /\ [q EXCEPT !.pc = "commit", !.hold = h].pc # "send"
                 /\ [q EXCEPT !.pc = "commit", !.hold = h].todo = q.todo
      BY <1>q DEF Request
    <2>2. SessionsQuiet
      BY <1>2, <2>1, DoneQuiet, EnterQuiet DEF CheckoutReady
    <2>3. QED
      BY <1>2, <2>2, HoldsUnchanged DEF CheckoutReady, db
  <1>3. CASE CheckoutCommit(s)
    <2>1. \/ UNCHANGED holds
          \/ holds' = [holds EXCEPT ![q.hold].status = "FULFILLED"]
      BY <1>3 DEF CheckoutCommit
    <2>2. HoldsQuiet
      BY <1>3, <2>1, HoldsUnchanged, HoldEnds DEF CheckoutCommit
    <2>3. QED
      BY <1>3, <2>2, DoneQuiet DEF CheckoutCommit
  <1>4. CASE ReturnNext(s)
    <2>1. ASSUME NEW h
          PROVE  /\ [q EXCEPT !.pc = "commit", !.next = h].pc # "send"
                 /\ [q EXCEPT !.pc = "commit", !.next = h].todo = q.todo
      BY <1>q DEF Request
    <2>2. SessionsQuiet
      BY <1>4, <2>1, EnterQuiet DEF ReturnNext
    <2>3. QED
      BY <1>4, <2>2, HoldsUnchanged DEF ReturnNext, db
  <1>5. CASE ReturnCommit(s)
    <2>1. SessionsQuiet
      BY <1>5, DoneQuiet, GotoQuiet DEF ReturnCommit
    <2>2. HoldsQuiet
      BY <1>5, HoldsUnchanged, HoldMadeReady DEF ReturnCommit
    <2>3. QED
      BY <1>5, <2>1, <2>2 DEF ReturnCommit
  <1>6. CASE PerteCommit(s)
    BY <1>6, DoneQuiet, HoldsUnchanged DEF PerteCommit
  <1>7. CASE RenewHolds(s)
    BY <1>7, DoneQuiet, GotoQuiet, HoldsUnchanged DEF RenewHolds, db
  <1>8. CASE RenewCommit(s)
    BY <1>8, DoneQuiet, HoldsUnchanged DEF RenewCommit
  <1>9. CASE HoldDuplicate(s)
    BY <1>9, DoneQuiet, GotoQuiet, HoldsUnchanged DEF HoldDuplicate, db
  <1>10. CASE HoldReadyCommit(s)
    <2>1. SessionsQuiet
      BY <1>10, DoneQuiet, GotoQuiet DEF HoldReadyCommit
    <2>2. PICK h \in HoldIds :
            /\ FreshHold(h)
            /\ holds' = [holds EXCEPT ![h] =
                  [status |-> "AVAILABLE", record |-> q.record, patron |-> q.patron,
                   priority |-> 0, expiry |-> q.now + PickupDaysOf(q.op),
                   notified |-> FALSE]]
            /\ promos' = Promoted(h)
      BY <1>10 DEF HoldReadyCommit
    <2>3. ASSUME NEW g \in HoldIds
          PROVE  Kept(g) \/ Raised(g)
      BY <2>2 DEF Kept, Raised, Promoted, TypeOK
    <2>4. QED
      BY <1>10, <2>1, <2>3 DEF HoldReadyCommit, HoldsQuiet
  <1>11. CASE HoldCount(s)
    <2>1. /\ [q EXCEPT !.pc = "commitPending",
                       !.num = Cardinality(ActiveHolds(q.record))].pc # "send"
          /\ [q EXCEPT !.pc = "commitPending",
                       !.num = Cardinality(ActiveHolds(q.record))].todo = q.todo
      BY <1>q DEF Request
    <2>2. SessionsQuiet
      BY <1>11, <2>1, EnterQuiet DEF HoldCount
    <2>3. QED
      BY <1>11, <2>2, HoldsUnchanged DEF HoldCount, db
  <1>12. CASE HoldPendingCommit(s)
    <2>1. PICK h \in HoldIds :
            /\ FreshHold(h)
            /\ holds' = [holds EXCEPT ![h] =
                  [status |-> "PENDING", record |-> q.record, patron |-> q.patron,
                   priority |-> q.num + 1, expiry |-> 0, notified |-> FALSE]]
      BY <1>12 DEF HoldPendingCommit
    <2>2. promos[h] = 0 /\ UNCHANGED promos
      BY <1>12, <2>1 DEF HoldPendingCommit, UnusedNotPromoted, FreshHold
    <2>3. ASSUME NEW g \in HoldIds
          PROVE  Kept(g)
      BY <2>1, <2>2 DEF Kept, TypeOK
    <2>4. QED
      BY <1>12, <2>3, DoneQuiet DEF HoldPendingCommit, HoldsQuiet
  <1>13. CASE CancelPending(s)
    <2>1. SessionsQuiet
      BY <1>13, DoneQuiet, GotoQuiet DEF CancelPending, AfterCancel
    <2>2. QED
      BY <1>13, <2>1, HoldEnds DEF CancelPending, Cancelled
  <1>14. CASE CancelLock(s)
    <2>1. ASSUME NEW i
          PROVE  /\ [q EXCEPT !.item = i, !.pc = IF i = NoItem THEN "txCommit"
                                                 ELSE "txNext"].pc # "send"
                 /\ [q EXCEPT !.item = i, !.pc = IF i = NoItem THEN "txCommit"
                                                 ELSE "txNext"].todo = q.todo
      BY <1>q DEF Request
    <2>2. SessionsQuiet
      BY <1>14, <2>1, EnterQuiet DEF CancelLock
    <2>3. QED
      BY <1>14, <2>2, HoldsUnchanged DEF CancelLock, db
  <1>15. CASE CancelNext(s)
    <2>1. ASSUME NEW h
          PROVE  /\ [q EXCEPT !.pc = "txCommit", !.next = h].pc # "send"
                 /\ [q EXCEPT !.pc = "txCommit", !.next = h].todo = q.todo
      BY <1>q DEF Request
    <2>2. SessionsQuiet
      BY <1>15, <2>1, EnterQuiet DEF CancelNext
    <2>3. QED
      BY <1>15, <2>2, HoldsUnchanged DEF CancelNext, db
  <1>16. CASE CancelCommit(s)
    <2>1. SessionsQuiet
      BY <1>16, DoneQuiet, GotoQuiet DEF CancelCommit, AfterCancel
    <2>2. /\ PassOn(q.hold, "CANCELLED", q.next, q.item, q.now + DeskPickupDays, FALSE)
          /\ q.next \in HoldIds \cup {0}
      BY <1>16, <1>q DEF CancelCommit, Request
    <2>3. QED
      BY <1>16, <2>1, <2>2, PassOnQuiet DEF CancelCommit
  <1>17. CASE ExpireHeld(s)
    <2>1. ASSUME NEW i
          PROVE  /\ [q EXCEPT !.pc = "txCommit", !.item = i].pc # "send"
                 /\ [q EXCEPT !.pc = "txCommit", !.item = i].todo = q.todo
      BY <1>q DEF Request
    <2>2. SessionsQuiet
      BY <1>17, <2>1, EnterQuiet DEF ExpireHeld
    <2>3. QED
      BY <1>17, <2>2, HoldsUnchanged DEF ExpireHeld, db
  <1>18. CASE ExpireCommit(s)
    <2> DEFINE after == [Arrive("expire", "each") EXCEPT !.now = q.now,
                                                         !.todo = q.todo \ {q.hold}]
    <2>1. after.pc = "each" /\ after.todo \subseteq q.todo
      BY DEF Arrive, Idle
    <2>2. SessionsQuiet
      BY <1>18, <2>1, EnterQuiet DEF ExpireCommit
    <2>3. /\ PassOn(q.hold, "EXPIRED", q.next, q.item, q.now + PickupDays, TRUE)
          /\ q.next \in HoldIds \cup {0}
      BY <1>18, <1>q DEF ExpireCommit, Request
    <2>4. QED
      BY <1>18, <2>2, <2>3, PassOnQuiet DEF ExpireCommit
  <1>19. CASE ExpireEnd(s)
    BY <1>19, GotoQuiet, HoldsUnchanged DEF ExpireEnd, db
  <1>20. ASSUME NEW h \in HoldIds, ExpireLock(s, h)
         PROVE  SessionsQuiet /\ HoldsQuiet /\ UNCHANGED mails
    <2>1. ASSUME NEW g
          PROVE  /\ [q EXCEPT !.pc = IF g = 0 THEN "txHeld" ELSE "txCommit", !.hold = h,
                              !.record = holds[h].record, !.next = g].pc # "send"
                 /\ [q EXCEPT !.pc = IF g = 0 THEN "txHeld" ELSE "txCommit", !.hold = h,
                              !.record = holds[h].record, !.next = g].todo = q.todo
      BY <1>q DEF Request
    <2>2. /\ [q EXCEPT !.todo = @ \ {h}].pc # "send"
          /\ [q EXCEPT !.todo = @ \ {h}].todo \subseteq q.todo
      BY <1>20, <1>q DEF ExpireLock, At, Request
    <2>3. SessionsQuiet
      BY <1>20, <2>1, <2>2, EnterQuiet DEF ExpireLock
    <2>4. QED
      BY <1>20, <2>3, HoldsUnchanged DEF ExpireLock, db
  <1>23. CASE NotifyFind(s)
    <2> DEFINE after == [Arrive(q.op, "claim") EXCEPT !.now = q.now, !.todo = ToNotify]
    <2>1. after.pc = "claim" /\ after.todo = ToNotify
      BY DEF Arrive, Idle
    <2>2. SessionsQuiet
      BY <1>23, <2>1, EnterQuiet DEF NotifyFind, ToNotify
    <2>3. QED
      BY <1>23, <2>2, HoldsUnchanged DEF NotifyFind, db
  <1>24. CASE NotifyEnd(s)
    BY <1>24, DoneQuiet, HoldsUnchanged DEF NotifyEnd, db
  <1>25. QED
    BY <1>1, <1>2, <1>3, <1>4, <1>5, <1>6, <1>7, <1>8, <1>9, <1>10, <1>11, <1>12,
       <1>13, <1>14, <1>15, <1>16, <1>17, <1>18, <1>19, <1>20, <1>23, <1>24 DEF Step

LEMMA ArrivalQuiet ==
    ASSUME CirculationAssumption, TypeOK, NEW s \in Procs, Arrivals(s) \/ ExpireFind(s)
    PROVE  SessionsQuiet /\ HoldsQuiet /\ UNCHANGED mails
  <1>1. HoldsQuiet /\ UNCHANGED mails
    BY HoldsUnchanged DEF Arrivals, ExpireFind, CheckoutRead, ReturnRead, PerteRead,
                          RenewRead, HoldRead, CancelRead, db
  <1>2. ASSUME NEW i \in Items, NEW p \in Patrons, CheckoutRead(s, i, p)
        PROVE  SessionsQuiet
    <2> DEFINE q == [Arrive("checkout", "count") EXCEPT
                       !.item = i, !.patron = p, !.seen = status[i]]
    <2>1. q.pc # "send" /\ q.todo = {}
      BY DEF Arrive, Idle
    <2>2. QED
      BY <1>2, <2>1, EnterQuiet DEF CheckoutRead
  <1>3. ASSUME NEW l \in LoanIds, ReturnRead(s, l)
        PROVE  SessionsQuiet
    <2> DEFINE q == [Arrive("return", "next") EXCEPT
                       !.loan = l, !.item = loans[l].item,
                       !.num = Fine(loans[l].due, clock)]
    <2>1. q.pc # "send" /\ q.todo = {}
      BY DEF Arrive, Idle
    <2>2. QED
      BY <1>3, <2>1, EnterQuiet DEF ReturnRead
  <1>4. ASSUME NEW l \in LoanIds, PerteRead(s, l)
        PROVE  SessionsQuiet
    <2> DEFINE q == [Arrive("perte", "commit") EXCEPT
                       !.loan = l, !.item = loans[l].item,
                       !.num = Fine(loans[l].due, clock)]
    <2>1. q.pc # "send" /\ q.todo = {}
      BY DEF Arrive, Idle
    <2>2. QED
      BY <1>4, <2>1, EnterQuiet DEF PerteRead
  <1>5. ASSUME NEW l \in LoanIds, NEW op \in {"renew", "renewOnline"}, RenewRead(s, l, op)
        PROVE  SessionsQuiet
    <2> DEFINE q == [Arrive(op, "holds") EXCEPT
                       !.loan = l, !.item = loans[l].item,
                       !.patron = loans[l].patron, !.num = loans[l].renewals]
    <2>1. q.pc # "send" /\ q.todo = {}
      BY DEF Arrive, Idle
    <2>2. QED
      BY <1>5, <2>1, EnterQuiet DEF RenewRead
  <1>6. ASSUME NEW r \in Records, NEW p \in Patrons, NEW op \in {"hold", "holdOnline"},
               HoldRead(s, r, p, op)
        PROVE  SessionsQuiet
    <2>1. PICK i : Enter(s, [Arrive(op, "duplicate") EXCEPT
                                !.record = r, !.patron = p, !.item = i])
      BY <1>6 DEF HoldRead
    <2> DEFINE q == [Arrive(op, "duplicate") EXCEPT
                       !.record = r, !.patron = p, !.item = i]
    <2>2. q.pc # "send" /\ q.todo = {}
      BY DEF Arrive, Idle
    <2>3. QED
      BY <2>1, <2>2, EnterQuiet
  <1>7. ASSUME NEW h \in HoldIds, NEW op \in {"cancel", "cancelOnline"}, CancelRead(s, h, op)
        PROVE  SessionsQuiet
    <2> DEFINE q == [Arrive(op, "cancel") EXCEPT
                       !.hold = h, !.record = holds[h].record, !.seen = holds[h].status]
    <2>1. q.pc # "send" /\ q.todo = {}
      BY DEF Arrive, Idle
    <2>2. QED
      BY <1>7, <2>1, EnterQuiet DEF CancelRead
  <1>8. CASE ExpireFind(s)
    <2> DEFINE q == [Arrive("expire", "each") EXCEPT !.todo = StaleHolds]
    <2>1. q.pc # "send" /\ q.todo = StaleHolds
      BY DEF Arrive, Idle
    <2>2. QED
      BY <1>1, <1>8, <2>1, EnterQuiet DEF ExpireFind, StaleHolds
  <1>9. QED
    BY <1>1, <1>2, <1>3, <1>4, <1>5, <1>6, <1>7, <1>8 DEF Arrivals

LEMMA MailInvInit ==
    ASSUME CirculationAssumption, Init
    PROVE  MailInv
  <1>1. ReadyWasPromoted /\ UnusedNotPromoted /\ ListedWasPromoted
    BY DEF Init, NoHold, Idle, ReadyWasPromoted, UnusedNotPromoted, ListedWasPromoted
  <1>2. ASSUME NEW h \in HoldIds
        PROVE  mails[h] + Cardinality(Senders(h)) + Claimable(h) <= promos[h]
    <2>1. Senders(h) = {}
      BY DEF Init, Senders, Idle
    <2>2. Cardinality(Senders(h)) = 0
      BY <2>1, FS_EmptySet
    <2>3. QED
      BY <2>2 DEF Init, Claimable
  <1>3. QED
    BY <1>1, <1>2 DEF MailInv, RightsToMail

LEMMA MailInvStep ==
    ASSUME CirculationAssumption, "sentThenError" \notin MailOutcomes,
           TypeOK, TypeOK', MailInv, [Next]_vars
    PROVE  MailInv'
  <1>1. ASSUME NEW s \in Procs, Arrivals(s) \/ ExpireFind(s)
        PROVE  MailInv'
    BY <1>1, ArrivalQuiet, QuietStep
  <1>2. ASSUME NEW s \in Procs, Step(s)
        PROVE  MailInv'
    <2>1. CASE \E h \in HoldIds : NotifyClaim(s, h)
      BY <2>1, ClaimStep
    <2>2. CASE \E outcome \in {"sent", "refused", "sentThenError"} : NotifySend(s, outcome)
      BY <2>2, SendStep DEF NotifySend
    <2>3. CASE /\ \A h \in HoldIds : ~NotifyClaim(s, h)
               /\ \A outcome \in {"sent", "refused", "sentThenError"} : ~NotifySend(s, outcome)
      BY <1>2, <2>3, QuietSteps, QuietStep DEF MailInv
    <2>4. QED
      BY <2>1, <2>2, <2>3
  <1>3. ASSUME NEW s \in Procs, Abort(s)
        PROVE  MailInv'
    BY <1>3, DoneQuiet, HoldsUnchanged, QuietStep DEF Abort, db
  <1>4. CASE \/ \E i \in Items, st \in ItemStatus : UpdateItem(i, st)
             \/ Tick
             \/ UNCHANGED vars
    <2>1. UNCHANGED <<holds, promos, mails, sess>>
      BY <1>4 DEF UpdateItem, Tick, vars, db
    <2>2. SessionsQuiet
      BY <2>1 DEF SessionsQuiet, Senders
    <2>3. QED
      BY <2>1, <2>2, HoldsUnchanged, QuietStep
  <1>5. QED
    BY <1>1, <1>2, <1>3, <1>4 DEF Next, Wait

\* Whatever requests, passes, expiries and crashes come together, the readers of a
\* hold get no more messages than the hold had promotions: the conditional claim is
\* what makes the send unique, provided an accepted message is reported as accepted.
THEOREM NoDoubleMail ==
    ASSUME "sentThenError" \notin MailOutcomes
    PROVE  Spec => []OneMailPerPromotion
  <1>1. Init => MailInv
    BY MailInvInit, CirculationAssumption
  <1>2. TypeOK /\ TypeOK' /\ MailInv /\ [Next]_vars => MailInv'
    BY MailInvStep, CirculationAssumption
  <1>3. TypeOK /\ MailInv => OneMailPerPromotion
    <2>1. ASSUME TypeOK, MailInv, NEW h \in HoldIds
          PROVE  mails[h] <= promos[h]
      <3>1. /\ mails[h] \in Nat /\ promos[h] \in Nat
            /\ Cardinality(Senders(h)) \in Nat
            /\ Claimable(h) \in {0, 1}
        BY <2>1, SendersFinite, CirculationAssumption DEF TypeOK, Claimable
      <3>2. QED
        BY <2>1, <3>1 DEF MailInv, RightsToMail
    <2>2. QED
      BY <2>1 DEF OneMailPerPromotion
  <1>4. QED
    BY <1>1, <1>2, <1>3, TypeCorrect, PTL DEF Spec

-----------------------------------------------------------------------------
(* A claim is kept for a message *)

\* A claim to notify is not made, and a claimed hold keeps its reader.
ClaimsKept == \A h \in HoldIds : holds'[h].notified =>
                  holds[h].notified /\ holds'[h].patron = holds[h].patron
\* The requests about to send stay where they are.
SendersKept == \A t \in Procs : sess[t].pc = "send" => sess'[t] = sess[t]

SendingInv == /\ NoLeakedClaim
              /\ \A s \in Procs : sess[s].pc = "send" => sess[s].hold \in HoldIds

LEMMA SendingKept ==
    ASSUME TypeOK, SendingInv, ClaimsKept, UNCHANGED mails, SendersKept,
           \A t \in Procs : sess'[t].pc = "send" => sess[t].pc = "send"
    PROVE  SendingInv'
  BY DEF SendingInv, NoLeakedClaim, ClaimsKept, SendersKept

\* What a step that is neither a claim nor a message leaves of requests.
Elsewhere(s) == /\ sess[s].pc # "send" /\ sess'[s].pc # "send"
                /\ \A t \in Procs : t # s => sess'[t] = sess[t]

LEMMA EnterElsewhere ==
    ASSUME TypeOK, NEW s \in Procs, NEW q, Enter(s, q), sess[s].pc # "send", q.pc # "send"
    PROVE  Elsewhere(s)
  BY DEF Elsewhere, Enter, TypeOK

LEMMA GotoElsewhere ==
    ASSUME TypeOK, NEW s \in Procs, NEW pc, Goto(s, pc), sess[s].pc # "send", pc # "send"
    PROVE  Elsewhere(s)
  <1>1. [sess[s] EXCEPT !.pc = pc].pc = pc
    BY DEF TypeOK, Request
  <1>2. QED
    BY <1>1, EnterElsewhere DEF Goto

LEMMA DoneElsewhere ==
    ASSUME TypeOK, NEW s \in Procs, Done(s), sess[s].pc # "send"
    PROVE  Elsewhere(s)
  BY EnterElsewhere DEF Done, Idle

LEMMA ElsewhereKeeps ==
    ASSUME TypeOK, SendingInv, NEW s \in Procs, Elsewhere(s), ClaimsKept, UNCHANGED mails
    PROVE  SendingInv'
  BY SendingKept DEF Elsewhere, SendersKept

\* The holds a step may write and the claims it leaves.
LEMMA EndKeepsClaims ==
    ASSUME TypeOK, NEW h, NEW st, holds' = [holds EXCEPT ![h].status = st]
    PROVE  ClaimsKept
  BY DEF TypeOK, Hold, ClaimsKept

LEMMA ReadyKeepsClaims ==
    ASSUME TypeOK, NEW h, NEW until, holds' = Ready(h, until)
    PROVE  ClaimsKept
  BY DEF TypeOK, Hold, Ready, ClaimsKept

LEMMA RowKeepsClaims ==
    ASSUME TypeOK, NEW h, NEW row, ~row.notified, holds' = [holds EXCEPT ![h] = row]
    PROVE  ClaimsKept
  BY DEF TypeOK, ClaimsKept

LEMMA PassOnKeepsClaims ==
    ASSUME TypeOK, NEW h, NEW how, NEW next, NEW item, NEW until, NEW again,
           PassOn(h, how, next, item, until, again)
    PROVE  ClaimsKept
  <1>1. ASSUME NEW g \in HoldIds, holds'[g].notified
        PROVE  holds[g].notified /\ holds'[g].patron = holds[g].patron
    <2>1. holds'[g] = IF g = next
                      THEN [holds[g] EXCEPT !.status = "AVAILABLE", !.expiry = until,
                                            !.notified = @ /\ ~again]
                      ELSE IF g = h THEN [holds[g] EXCEPT !.status = how] ELSE holds[g]
      BY DEF PassOn
    <2>2. holds[g] \in Hold
      BY DEF TypeOK
    <2>3. QED
      BY <1>1, <2>1, <2>2 DEF Hold
  <1>2. QED
    BY <1>1 DEF ClaimsKept

LEMMA SameKeepsClaims == ASSUME UNCHANGED holds PROVE ClaimsKept
  BY DEF ClaimsKept

-----------------------------------------------------------------------------
(* The pickup window: what the pass listed is still late when it takes it back *)

\* A request is in the hourly pass, and has not come to the messages.
InPass(s) == sess[s].op = "expire" /\ sess[s].pc \in {"each", "txHeld", "txCommit"}

Young == \A s \in Procs : sess[s].op # "idle" =>
             sess[s].now <= clock /\ clock <= sess[s].now + 1
\* A hold read as the next of the queue is not late while the request is there.
NextKeepsItsTime ==
    \A s \in Procs : sess[s].next # 0 =>
        /\ sess[s].op # "idle"
        /\ holds[sess[s].next].status # "unused"
        /\ holds[sess[s].next].status = "AVAILABLE" =>
              holds[sess[s].next].expiry > sess[s].now
\* A hold on the list of the pass ended or is late, and nobody may promote it.
ListedIsLate ==
    \A s \in Procs : InPass(s) =>
        \A h \in sess[s].todo :
            /\ holds[h].status \notin {"unused", "PENDING"}
            /\ holds[h].status = "AVAILABLE" => holds[h].expiry < clock
            /\ \A t \in Procs : sess[t].next # h
\* The hold the pass has locked is ready, and no other request has it.
LockedIsReady ==
    \A s \in Procs : InPass(s) /\ InTransaction(s) =>
        /\ sess[s].hold \in sess[s].todo
        /\ holds[sess[s].hold].status = "AVAILABLE"
        /\ Unlocked(s, sess[s].hold)

DueInv == Young /\ NextKeepsItsTime /\ ListedIsLate /\ LockedIsReady

\* The row of hold h is s's to write.
MayWrite(s, h) == Unlocked(s, h) \/ (InTransaction(s) /\ sess[s].hold = h)

Ended(s, h) == holds'[h].status \in {"FULFILLED", "CANCELLED"} /\ MayWrite(s, h)
Opened(s, h) == /\ holds'[h].status = "AVAILABLE" /\ holds'[h].expiry > clock
                /\ sess[s].next = h \/ holds[h].status = "unused"
Queued(h) == holds[h].status = "unused" /\ holds'[h].status = "PENDING"
TakenBack(s, h) == /\ holds'[h].status = "EXPIRED"
                   /\ InPass(s) /\ InTransaction(s) /\ sess[s].hold = h
SameWindow(h) == /\ holds'[h].status = holds[h].status
                 /\ holds'[h].expiry = holds[h].expiry

\* What a step of request s writes of the holds.
Writes(s) == \A h \in HoldIds : \/ SameWindow(h) \/ Ended(s, h) \/ Opened(s, h)
                                \/ Queued(h) \/ TakenBack(s, h)

\* What request s has read once it has taken a step.
Reads(s) ==
    /\ sess'[s].op # "idle" => sess[s].op # "idle" /\ sess'[s].now = sess[s].now
    /\ sess'[s].next # 0 =>
          /\ sess'[s].op # "idle"
          /\ \/ sess'[s].next = sess[s].next
             \/ (holds' = holds /\ holds[sess'[s].next].status = "PENDING")
    /\ InPass(s)' => InPass(s) /\ sess'[s].todo \subseteq sess[s].todo
    /\ InTransaction(s)' =>
          /\ MayWrite(s, sess'[s].hold)
          /\ holds' = holds
          /\ InPass(s)' => /\ sess'[s].hold \in sess'[s].todo
                           /\ holds[sess'[s].hold].status = "AVAILABLE"
                           /\ Unlocked(s, sess'[s].hold)
    /\ \A t \in Procs : t # s => sess'[t] = sess[t]
    /\ clock' = clock

LEMMA DueKept ==
    ASSUME CirculationAssumption, TypeOK, TypeOK', DueInv, NEW s \in Procs, Writes(s), Reads(s)
    PROVE  DueInv'
  <1>r. \A t \in Procs : /\ sess[t] \in Request /\ sess'[t] \in Request
                         /\ sess[t].now \in Int /\ sess'[t].now \in Int
                         /\ sess[t].next # 0 => sess[t].next \in HoldIds
                         /\ sess'[t].next # 0 => sess'[t].next \in HoldIds
                         /\ sess[t].todo \subseteq HoldIds /\ sess'[t].todo \subseteq HoldIds
                         /\ sess[t].hold \in HoldIds \cup {0}
    BY DEF TypeOK, Request, CirculationAssumption
  <1>h. \A h \in HoldIds : holds[h].expiry \in Int /\ holds'[h].expiry \in Int
    BY DEF TypeOK, Hold
  <1>c. clock \in Int /\ clock' = clock
    BY DEF TypeOK, Reads
  <1>o. \A t \in Procs : t # s => sess'[t] = sess[t]
    BY DEF Reads
  <1>1. Young'
    BY <1>c, <1>o DEF DueInv, Young, Reads
  <1>2. NextKeepsItsTime'
    <2>1. ASSUME NEW t \in Procs, sess'[t].next # 0
          PROVE  /\ sess'[t].op # "idle"
                 /\ holds'[sess'[t].next].status # "unused"
                 /\ holds'[sess'[t].next].status = "AVAILABLE" =>
                       holds'[sess'[t].next].expiry > sess'[t].now
      <3>h. PICK h : h = sess'[t].next
        OBVIOUS
      <3>1. h \in HoldIds /\ sess'[t].op # "idle"
        BY <1>o, <1>r, <2>1, <3>h DEF DueInv, NextKeepsItsTime, Reads
      <3>2. sess'[t].now = sess[t].now /\ sess[t].now <= clock
        BY <1>o, <3>1 DEF DueInv, Young, Reads
      <3>3. CASE h = sess[t].next
        <4>1. /\ holds[h].status # "unused"
              /\ holds[h].status = "AVAILABLE" => holds[h].expiry > sess[t].now
          BY <2>1, <3>h, <3>3 DEF DueInv, NextKeepsItsTime
        <4>2. /\ holds'[h].status # "unused"
              /\ holds'[h].status = "AVAILABLE" =>
                    SameWindow(h) \/ holds'[h].expiry > clock
          BY <3>1, <4>1 DEF Writes, SameWindow, Ended, Opened, Queued, TakenBack
        <4>3. holds'[h].status = "AVAILABLE" => holds'[h].expiry > sess'[t].now
          BY <1>c, <1>h, <1>r, <3>1, <3>2, <4>1, <4>2 DEF SameWindow
        <4>4. QED
          BY <3>h, <3>1, <4>2, <4>3
      <3>4. CASE h # sess[t].next
        <4>1. t = s /\ holds' = holds /\ holds[h].status = "PENDING"
          BY <1>o, <2>1, <3>h, <3>4 DEF Reads
        <4>2. QED
          BY <3>h, <3>1, <4>1
      <3>5. QED
        BY <3>3, <3>4
    <2>2. QED
      BY <2>1 DEF NextKeepsItsTime
  <1>3. ListedIsLate'
    <2>1. ASSUME NEW t \in Procs, InPass(t)', NEW h \in sess'[t].todo
          PROVE  /\ holds'[h].status \notin {"unused", "PENDING"}
                 /\ holds'[h].status = "AVAILABLE" => holds'[h].expiry < clock'
                 /\ \A u \in Procs : sess'[u].next # h
      <3>1. InPass(t) /\ h \in sess[t].todo /\ h \in HoldIds
        BY <1>o, <1>r, <2>1 DEF Reads, InPass
      <3>2. /\ holds[h].status \notin {"unused", "PENDING"}
            /\ holds[h].status = "AVAILABLE" => holds[h].expiry < clock
            /\ \A u \in Procs : sess[u].next # h
        BY <3>1 DEF DueInv, ListedIsLate
      <3>3. h # 0
        BY <3>1 DEF CirculationAssumption
      <3>4. \A u \in Procs : sess'[u].next # h
        BY <1>o, <3>2, <3>3 DEF Reads
      <3>5. ~Opened(s, h) /\ ~Queued(h)
        BY <3>2 DEF Opened, Queued
      <3>6. QED
        BY <1>c, <3>1, <3>2, <3>4, <3>5 DEF Writes, SameWindow, Ended, TakenBack
    <2>2. QED
      BY <2>1 DEF ListedIsLate
  <1>4. LockedIsReady'
    <2>1. ASSUME NEW t \in Procs, InPass(t)', InTransaction(t)'
          PROVE  /\ sess'[t].hold \in sess'[t].todo
                 /\ holds'[sess'[t].hold].status = "AVAILABLE"
                 /\ Unlocked(t, sess[t].hold)'
      <3>1. CASE t = s
        <4>1. PICK h : h = sess'[s].hold
          OBVIOUS
        <4>2. /\ h \in sess'[s].todo /\ holds' = holds
              /\ holds[h].status = "AVAILABLE"
              /\ Unlocked(s, h)
          BY <2>1, <3>1, <4>1 DEF Reads
        <4>3. Unlocked(s, h)'
          BY <1>o, <4>2 DEF Unlocked, InTransaction
        <4>4. QED
          BY <3>1, <4>1, <4>2, <4>3 DEF Unlocked
      <3>2. CASE t # s
        <4>h. PICK h : h = sess[t].hold
          OBVIOUS
        <4>1. InPass(t) /\ InTransaction(t) /\ sess'[t] = sess[t] /\ h = sess'[t].hold
          BY <1>o, <2>1, <3>2, <4>h DEF InPass, InTransaction
        <4>2. h \in sess[t].todo /\ holds[h].status = "AVAILABLE" /\ Unlocked(t, h)
          BY <4>1, <4>h DEF DueInv, LockedIsReady
        <4>3. h \in HoldIds /\ sess[s].next # h
          BY <1>r, <4>1, <4>2 DEF DueInv, ListedIsLate
        <4>4. InTransaction(s) => sess[s].hold # h
          BY <3>2, <4>2 DEF Unlocked
        <4>5. ~Unlocked(s, h)
          BY <3>2, <4>1 DEF Unlocked
        <4>6. ~Ended(s, h) /\ ~Opened(s, h) /\ ~Queued(h) /\ ~TakenBack(s, h)
          BY <4>2, <4>3, <4>4, <4>5 DEF Ended, Opened, Queued, TakenBack, MayWrite
        <4>7. holds'[h].status = "AVAILABLE"
          BY <4>2, <4>3, <4>6 DEF Writes, SameWindow
        <4>8. InTransaction(s)' => sess'[s].hold # h
          BY <4>4, <4>5 DEF Reads, MayWrite
        <4>9. Unlocked(t, h)'
          <5>1. ASSUME NEW u \in Procs, u # t, InTransaction(u)'
                PROVE  sess'[u].hold # h
            <6>1. CASE u = s
              BY <4>8, <5>1, <6>1
            <6>2. CASE u # s
              BY <1>o, <4>2, <5>1, <6>2 DEF Unlocked, InTransaction
            <6>3. QED
              BY <6>1, <6>2
          <5>2. QED
            BY <4>1, <5>1 DEF Unlocked
        <4>10. QED
          BY <4>1, <4>2, <4>7, <4>9 DEF Unlocked
      <3>3. QED
        BY <3>1, <3>2
    <2>2. QED
      BY <2>1 DEF LockedIsReady
  <1>5. QED
    BY <1>1, <1>2, <1>3, <1>4 DEF DueInv

\* Requests that read, and go on.
LEMMA EnterReads ==
    ASSUME TypeOK, NEW s \in Procs, NEW q, Enter(s, q), clock' = clock,
           q.op = sess[s].op, q.now = sess[s].now, sess[s].op # "idle",
           q.next = 0 \/ q.next = sess[s].next
              \/ (holds' = holds /\ holds[q.next].status = "PENDING"),
           q.pc \notin {"each", "txNext", "txHeld", "txCommit"}
    PROVE  Reads(s)
  <1>1. sess'[s] = q /\ \A t \in Procs : t # s => sess'[t] = sess[t]
    BY DEF TypeOK, Enter
  <1>2. QED
    BY <1>1 DEF Reads, InPass, InTransaction

LEMMA GotoReads ==
    ASSUME TypeOK, NEW s \in Procs, NEW pc, Goto(s, pc), clock' = clock,
           sess[s].op # "idle", pc \notin {"each", "txNext", "txHeld", "txCommit"}
    PROVE  Reads(s)
  <1>1. PICK q : q = [sess[s] EXCEPT !.pc = pc]
    OBVIOUS
  <1>2. q.pc = pc /\ q.op = sess[s].op /\ q.now = sess[s].now /\ q.next = sess[s].next
    BY <1>1 DEF TypeOK, Request
  <1>3. QED
    BY <1>1, <1>2, EnterReads DEF Goto

LEMMA DoneReads ==
    ASSUME TypeOK, NEW s \in Procs, Done(s), clock' = clock
    PROVE  Reads(s)
  <1>1. sess'[s] = Idle /\ \A t \in Procs : t # s => sess'[t] = sess[t]
    BY DEF TypeOK, Enter, Done
  <1>2. QED
    BY <1>1 DEF Reads, InPass, InTransaction, Idle

\* A request that works on a hold that it has locked, or locks now.
LEMMA LockReads ==
    ASSUME TypeOK, NEW s \in Procs, NEW q, Enter(s, q), UNCHANGED <<holds, clock>>,
           q.op = sess[s].op, q.now = sess[s].now, sess[s].op # "idle",
           q.next = sess[s].next \/ holds[q.next].status = "PENDING" \/ q.next = 0,
           q.todo = sess[s].todo, MayWrite(s, q.hold),
           q.op = "expire" => /\ InPass(s) /\ q.hold \in q.todo
                              /\ holds[q.hold].status = "AVAILABLE" /\ Unlocked(s, q.hold)
    PROVE  Reads(s)
  <1>1. sess'[s] = q /\ \A t \in Procs : t # s => sess'[t] = sess[t]
    BY DEF TypeOK, Enter
  <1>2. QED
    BY <1>1 DEF Reads, InPass

-----------------------------------------------------------------------------
(* The rows a request writes *)

LEMMA SameWrites == ASSUME UNCHANGED holds, NEW s PROVE Writes(s)
  BY DEF Writes, SameWindow

LEMMA EndWrites ==
    ASSUME TypeOK, NEW s, NEW h, NEW st \in {"FULFILLED", "CANCELLED"}, MayWrite(s, h),
           holds' = [holds EXCEPT ![h].status = st]
    PROVE  Writes(s)
  <1>1. ASSUME NEW g \in HoldIds
        PROVE  SameWindow(g) \/ Ended(s, g)
    BY DEF TypeOK, Hold, SameWindow, Ended
  <1>2. QED
    BY <1>1 DEF Writes

LEMMA NotifiedWrites ==
    ASSUME TypeOK, NEW s, NEW h, NEW told, holds' = [holds EXCEPT ![h].notified = told]
    PROVE  Writes(s)
  BY DEF TypeOK, Hold, SameWindow, Writes

LEMMA ReadyWrites ==
    ASSUME TypeOK, NEW s, NEW until, until > clock,
           holds' = Ready(sess[s].next, until)
    PROVE  Writes(s)
  <1>1. ASSUME NEW g \in HoldIds
        PROVE  SameWindow(g) \/ Opened(s, g)
    BY DEF TypeOK, Hold, SameWindow, Opened, Ready
  <1>2. QED
    BY <1>1 DEF Writes

LEMMA RowWrites ==
    ASSUME TypeOK, NEW s, NEW h, FreshHold(h), NEW row, holds' = [holds EXCEPT ![h] = row],
           row.status = "PENDING" \/ (row.status = "AVAILABLE" /\ row.expiry > clock)
    PROVE  Writes(s)
  <1>1. ASSUME NEW g \in HoldIds
        PROVE  SameWindow(g) \/ Opened(s, g) \/ Queued(g)
    BY DEF TypeOK, SameWindow, Opened, Queued, FreshHold
  <1>2. QED
    BY <1>1 DEF Writes

LEMMA PassOnWrites ==
    ASSUME CirculationAssumption, TypeOK, NEW s, NEW how, NEW item, NEW until, NEW again,
           until > clock, PassOn(sess[s].hold, how, sess[s].next, item, until, again),
           how = "CANCELLED" \/ (how = "EXPIRED" /\ InPass(s)), InTransaction(s)
    PROVE  Writes(s)
  <1>1. ASSUME NEW g \in HoldIds
        PROVE  SameWindow(g) \/ Opened(s, g) \/ Ended(s, g) \/ TakenBack(s, g)
    <2>1. holds'[g] = IF g = sess[s].next
                      THEN [holds[g] EXCEPT !.status = "AVAILABLE", !.expiry = until,
                                            !.notified = @ /\ ~again]
                      ELSE IF g = sess[s].hold THEN [holds[g] EXCEPT !.status = how]
                           ELSE holds[g]
      BY DEF PassOn
    <2>2. holds[g] \in Hold
      BY DEF TypeOK
    <2>3. CASE g = sess[s].next
      BY <2>1, <2>2, <2>3 DEF Hold, Opened
    <2>4. CASE g # sess[s].next /\ g = sess[s].hold
      BY <2>1, <2>2, <2>4 DEF Hold, Ended, TakenBack, MayWrite
    <2>5. CASE g # sess[s].next /\ g # sess[s].hold
      BY <2>1, <2>5 DEF SameWindow
    <2>6. QED
      BY <2>3, <2>4, <2>5
  <1>2. QED
    BY <1>1 DEF Writes

-----------------------------------------------------------------------------
(* Every step of a request in flight *)

LongWindows == PickupDays >= 2 /\ DeskPickupDays >= 2

LEMMA StepDue ==
    ASSUME CirculationAssumption, LongWindows, TypeOK, DueInv, NEW s \in Procs, Step(s)
    PROVE  Reads(s) /\ Writes(s)
  <1>q. PICK q \in Request : q = sess[s]
    BY DEF TypeOK
  <1>n. q.op # "idle" => /\ q.now + DeskPickupDays > clock /\ q.now + PickupDays > clock
                         /\ \A op : q.now + PickupDaysOf(op) > clock
    <2>1. q.now \in Nat /\ clock \in Nat
      BY DEF TypeOK, Request
    <2>2. q.op # "idle" => clock <= q.now + 1
      BY <1>q DEF DueInv, Young
    <2>3. QED
      BY <2>1, <2>2 DEF LongWindows, PickupDaysOf, CirculationAssumption
  <1>1. CASE CheckoutCount(s) \/ RenewHolds(s) \/ HoldDuplicate(s)
    <2>1. clock' = clock /\ UNCHANGED holds
      BY <1>1 DEF CheckoutCount, RenewHolds, HoldDuplicate, db
    <2>2. Reads(s)
      BY <1>1, <2>1, DoneReads, GotoReads DEF CheckoutCount, RenewHolds, HoldDuplicate, At
    <2>3. QED
      BY <2>1, <2>2, SameWrites
  <1>2. CASE CheckoutReady(s)
    <2>1. clock' = clock /\ UNCHANGED holds /\ q.op # "idle"
      BY <1>q, <1>2 DEF CheckoutReady, db, At
    <2>2. ASSUME NEW h, Enter(s, [sess[s] EXCEPT !.pc = "commit", !.hold = h])
          PROVE  Reads(s)
      <3>1. PICK z : z = [sess[s] EXCEPT !.pc = "commit", !.hold = h]
        OBVIOUS
      <3>2. z.pc = "commit" /\ z.op = q.op /\ z.now = q.now /\ z.next = q.next
        BY <1>q, <3>1 DEF Request
      <3>3. QED
        BY <1>q, <2>1, <2>2, <3>1, <3>2, EnterReads
    <2>3. Reads(s)
      BY <1>2, <2>1, <2>2, DoneReads DEF CheckoutReady
    <2>4. QED
      BY <2>1, <2>3, SameWrites
  <1>3. CASE CheckoutCommit(s)
    <2>1. Reads(s)
      BY <1>3, DoneReads DEF CheckoutCommit
    <2>2. UNCHANGED holds \/ holds' = [holds EXCEPT ![q.hold].status = "FULFILLED"]
      BY <1>q, <1>3 DEF CheckoutCommit
    <2>3. QED
      BY <1>q, <1>3, <2>1, <2>2, SameWrites, EndWrites DEF CheckoutCommit, MayWrite
  <1>4. CASE ReturnNext(s) \/ CancelNext(s)
    <2>1. clock' = clock /\ UNCHANGED holds /\ q.op # "idle"
      BY <1>q, <1>4 DEF ReturnNext, CancelNext, db, At
    <2>2. PICK h, pc, r : /\ h \in FindFirst(NextHolds(r), 0)
                          /\ Enter(s, [sess[s] EXCEPT !.pc = pc, !.next = h])
                          /\ \/ ReturnNext(s) /\ pc = "commit"
                             \/ CancelNext(s) /\ pc = "txCommit"
      BY <1>4 DEF ReturnNext, CancelNext
    <2>3. h = 0 \/ holds[h].status = "PENDING"
      BY <2>2 DEF FindFirst, NextHolds, HoldsIn
    <2>4. PICK z : z = [sess[s] EXCEPT !.pc = pc, !.next = h]
      OBVIOUS
    <2>5. /\ z.pc = pc /\ z.op = q.op /\ z.now = q.now /\ z.next = h
          /\ z.hold = q.hold /\ z.todo = q.todo
      BY <1>q, <2>4 DEF Request
    <2>6. CASE ReturnNext(s)
      BY <1>q, <2>1, <2>2, <2>3, <2>4, <2>5, <2>6, EnterReads, SameWrites
      DEF ReturnNext, CancelNext, At
    <2>7. CASE CancelNext(s)
      <3>1. q.op # "expire" /\ MayWrite(s, z.hold)
        BY <1>q, <2>5, <2>7 DEF CancelNext, At, MayWrite, InTransaction
      <3>2. Reads(s)
        BY <1>q, <2>1, <2>2, <2>3, <2>4, <2>5, <3>1, LockReads
      <3>3. QED
        BY <2>1, <3>2, SameWrites
    <2>8. QED
      BY <1>4, <2>6, <2>7

  <1>5. CASE ReturnCommit(s)
    <2>1. Reads(s)
      BY <1>5, DoneReads, GotoReads DEF ReturnCommit, At
    <2>2. UNCHANGED holds \/ holds' = Ready(q.next, q.now + DeskPickupDays)
      BY <1>q, <1>5 DEF ReturnCommit
    <2>3. q.now + DeskPickupDays > clock
      BY <1>q, <1>n, <1>5 DEF ReturnCommit, At
    <2>4. QED
      BY <1>q, <2>1, <2>2, <2>3, SameWrites, ReadyWrites
  <1>6. CASE PerteCommit(s) \/ RenewCommit(s) \/ NotifyEnd(s)
    <2>1. Done(s) /\ clock' = clock /\ UNCHANGED holds
      BY <1>6 DEF PerteCommit, RenewCommit, NotifyEnd, db
    <2>2. QED
      BY <2>1, DoneReads, SameWrites
  <1>7. CASE HoldReadyCommit(s)
    <2>1. Reads(s)
      BY <1>7, DoneReads, GotoReads DEF HoldReadyCommit, At
    <2>2. PICK h, row :
            /\ FreshHold(h) /\ holds' = [holds EXCEPT ![h] = row]
            /\ row = [status |-> "AVAILABLE", record |-> q.record, patron |-> q.patron,
                      priority |-> 0, expiry |-> q.now + PickupDaysOf(q.op),
                      notified |-> FALSE]
      BY <1>q, <1>7 DEF HoldReadyCommit
    <2>3. row.status = "AVAILABLE" /\ row.expiry > clock
      BY <1>q, <1>n, <1>7, <2>2 DEF HoldReadyCommit, At
    <2>4. QED
      BY <2>1, <2>2, <2>3, RowWrites
  <1>8. CASE HoldCount(s)
    <2>1. clock' = clock /\ UNCHANGED holds /\ q.op # "idle"
      BY <1>q, <1>8 DEF HoldCount, db, At
    <2>2. PICK z : z = [sess[s] EXCEPT !.pc = "commitPending",
                                       !.num = Cardinality(ActiveHolds(sess[s].record))]
      OBVIOUS
    <2>3. z.pc = "commitPending" /\ z.op = q.op /\ z.now = q.now /\ z.next = q.next
      BY <1>q, <2>2 DEF Request
    <2>4. QED
      BY <1>q, <1>8, <2>1, <2>2, <2>3, EnterReads, SameWrites DEF HoldCount
  <1>9. CASE HoldPendingCommit(s)
    <2>1. Reads(s)
      BY <1>9, DoneReads DEF HoldPendingCommit
    <2>2. PICK h, row :
            /\ FreshHold(h) /\ holds' = [holds EXCEPT ![h] = row]
            /\ row = [status |-> "PENDING", record |-> q.record, patron |-> q.patron,
                      priority |-> q.num + 1, expiry |-> 0, notified |-> FALSE]
      BY <1>q, <1>9 DEF HoldPendingCommit
    <2>3. QED
      BY <2>1, <2>2, RowWrites
  <1>10. CASE CancelPending(s)
    <2>1. Reads(s)
      BY <1>10, DoneReads, GotoReads DEF CancelPending, AfterCancel, At
    <2>2. QED
      BY <1>10, <2>1, EndWrites DEF CancelPending, Cancelled, MayWrite
  <1>11. CASE CancelLock(s)
    <2>1. UNCHANGED <<holds, clock>> /\ q.op \in {"cancel", "cancelOnline"}
          /\ Unlocked(s, q.hold)
      BY <1>q, <1>11 DEF CancelLock, db, At
    <2>2. PICK i, pc : Enter(s, [sess[s] EXCEPT !.item = i, !.pc = pc])
      BY <1>11 DEF CancelLock
    <2>3. PICK z : z = [sess[s] EXCEPT !.item = i, !.pc = pc]
      OBVIOUS
    <2>4. /\ z.op = q.op /\ z.now = q.now /\ z.next = q.next
          /\ z.hold = q.hold /\ z.todo = q.todo
      BY <1>q, <2>3 DEF Request
    <2>5. QED
      BY <1>q, <2>1, <2>2, <2>3, <2>4, LockReads, SameWrites DEF MayWrite
  <1>12. CASE CancelCommit(s)
    <2>1. Reads(s)
      BY <1>12, DoneReads, GotoReads DEF CancelCommit, AfterCancel, At
    <2>2. /\ PassOn(q.hold, "CANCELLED", q.next, q.item, q.now + DeskPickupDays, FALSE)
          /\ q.op # "idle" /\ InTransaction(s)
      BY <1>q, <1>12 DEF CancelCommit, At, InTransaction
    <2>3. QED
      BY <1>q, <1>n, <2>1, <2>2, PassOnWrites
  <1>13. CASE ExpireHeld(s)
    <2>1. /\ UNCHANGED <<holds, clock>> /\ q.op = "expire"
          /\ InPass(s) /\ InTransaction(s)
      BY <1>q, <1>13 DEF ExpireHeld, db, At, InPass, InTransaction
    <2>2. /\ q.hold \in q.todo /\ holds[q.hold].status = "AVAILABLE" /\ Unlocked(s, q.hold)
      BY <1>q, <2>1 DEF DueInv, LockedIsReady
    <2>3. PICK i : Enter(s, [sess[s] EXCEPT !.pc = "txCommit", !.item = i])
      BY <1>13 DEF ExpireHeld
    <2>4. PICK z : z = [sess[s] EXCEPT !.pc = "txCommit", !.item = i]
      OBVIOUS
    <2>5. /\ z.op = q.op /\ z.now = q.now /\ z.next = q.next
          /\ z.hold = q.hold /\ z.todo = q.todo
      BY <1>q, <2>4 DEF Request
    <2>6. QED
      BY <1>q, <2>1, <2>2, <2>3, <2>4, <2>5, LockReads, SameWrites DEF MayWrite
  <1>14. CASE ExpireCommit(s)
    <2>1. /\ PassOn(q.hold, "EXPIRED", q.next, q.item, q.now + PickupDays, TRUE)
          /\ q.op = "expire" /\ InPass(s) /\ InTransaction(s) /\ clock' = clock
      BY <1>q, <1>14 DEF ExpireCommit, At, InPass, InTransaction
    <2>2. Writes(s)
      BY <1>q, <1>n, <2>1, PassOnWrites
    <2>3. PICK z : z = [Arrive("expire", "each") EXCEPT !.now = q.now,
                                                        !.todo = q.todo \ {q.hold}]
      OBVIOUS
    <2>4. z.op = "expire" /\ z.pc = "each" /\ z.now = q.now /\ z.next = 0
          /\ z.todo = q.todo \ {q.hold}
      BY <2>3 DEF Arrive, Idle
    <2>5. sess'[s] = z /\ \A t \in Procs : t # s => sess'[t] = sess[t]
      BY <1>q, <1>14, <2>3 DEF ExpireCommit, Enter, TypeOK
    <2>6. Reads(s)
      BY <1>q, <2>1, <2>4, <2>5 DEF Reads, InPass, InTransaction
    <2>7. QED
      BY <2>2, <2>6
  <1>15. CASE ExpireEnd(s)
    <2>1. UNCHANGED <<holds, clock>> /\ Goto(s, "notify") /\ sess[s].op # "idle"
      BY <1>15 DEF ExpireEnd, db, At
    <2>2. QED
      BY <2>1, GotoReads, SameWrites

  <1>16. ASSUME NEW h \in HoldIds, ExpireLock(s, h)
         PROVE  Reads(s) /\ Writes(s)
    <2>1. /\ UNCHANGED <<holds, clock>> /\ q.op = "expire" /\ q.pc = "each"
          /\ InPass(s) /\ h \in q.todo /\ Unlocked(s, h)
      BY <1>q, <1>16 DEF ExpireLock, db, At, InPass
    <2>2. CASE StillReady(h)
      <3>1. PICK g, pc : /\ g \in FindFirst(NextHolds(holds[h].record), 0)
                         /\ Enter(s, [sess[s] EXCEPT !.pc = pc, !.hold = h,
                                          !.record = holds[h].record, !.next = g])
        BY <1>16, <2>2 DEF ExpireLock
      <3>2. g = 0 \/ holds[g].status = "PENDING"
        BY <3>1 DEF FindFirst, NextHolds, HoldsIn
      <3>3. PICK z : z = [sess[s] EXCEPT !.pc = pc, !.hold = h,
                                         !.record = holds[h].record, !.next = g]
        OBVIOUS
      <3>4. z.op = q.op /\ z.now = q.now /\ z.next = g /\ z.hold = h /\ z.todo = q.todo
        BY <1>q, <3>3 DEF Request
      <3>5. QED
        BY <1>q, <2>1, <2>2, <3>1, <3>2, <3>3, <3>4, LockReads, SameWrites
        DEF MayWrite, StillReady
    <2>3. CASE ~StillReady(h)
      <3>1. Enter(s, [sess[s] EXCEPT !.todo = @ \ {h}])
        BY <1>16, <2>3 DEF ExpireLock
      <3>2. PICK z : z = [sess[s] EXCEPT !.todo = @ \ {h}]
        OBVIOUS
      <3>3. z.op = q.op /\ z.pc = "each" /\ z.now = q.now /\ z.next = q.next
            /\ z.todo \subseteq q.todo
        BY <1>q, <2>1, <3>2 DEF Request
      <3>4. sess'[s] = z /\ \A t \in Procs : t # s => sess'[t] = sess[t]
        BY <3>1, <3>2 DEF Enter, TypeOK
      <3>5. Reads(s)
        BY <1>q, <2>1, <3>3, <3>4 DEF Reads, InPass, InTransaction
      <3>6. QED
        BY <2>1, <3>5, SameWrites
    <2>4. QED
      BY <2>2, <2>3
  <1>17. CASE NotifyFind(s)
    <2>1. UNCHANGED <<holds, clock>> /\ q.pc = "notify"
      BY <1>q, <1>17 DEF NotifyFind, db
    <2>2. PICK z : z = [Arrive(sess[s].op, "claim") EXCEPT !.now = sess[s].now,
                                                           !.todo = ToNotify]
      OBVIOUS
    <2>3. z.op = q.op /\ z.pc = "claim" /\ z.now = q.now /\ z.next = 0
      BY <1>q, <2>2 DEF Arrive, Idle
    <2>4. sess'[s] = z /\ \A t \in Procs : t # s => sess'[t] = sess[t]
      BY <1>17, <2>2 DEF NotifyFind, Enter, TypeOK
    <2>5. Reads(s)
      BY <1>q, <2>1, <2>3, <2>4 DEF Reads, InPass, InTransaction
    <2>6. QED
      BY <2>1, <2>5, SameWrites
  <1>18. ASSUME NEW h \in HoldIds, NotifyClaim(s, h)
         PROVE  Reads(s) /\ Writes(s)
    <2>1. UNCHANGED clock /\ q.pc = "claim"
      BY <1>q, <1>18 DEF NotifyClaim
    <2>2. Writes(s)
      <3>1. UNCHANGED holds \/ holds' = [holds EXCEPT ![h].notified = TRUE]
        BY <1>18 DEF NotifyClaim
      <3>2. QED
        BY <3>1, SameWrites, NotifiedWrites
    <2>3. PICK z : Enter(s, z) /\ \/ z = [sess[s] EXCEPT !.todo = @ \ {h}, !.hold = h,
                                                         !.pc = "send"]
                                  \/ z = [sess[s] EXCEPT !.todo = @ \ {h}]
      BY <1>18 DEF NotifyClaim
    <2>4. z.op = q.op /\ z.pc \in {"claim", "send"} /\ z.now = q.now /\ z.next = q.next
      BY <1>q, <2>1, <2>3 DEF Request
    <2>5. sess'[s] = z /\ \A t \in Procs : t # s => sess'[t] = sess[t]
      BY <2>3 DEF Enter, TypeOK
    <2>6. Reads(s)
      BY <1>q, <2>1, <2>4, <2>5 DEF Reads, InPass, InTransaction, DueInv, NextKeepsItsTime
    <2>7. QED
      BY <2>2, <2>6
  <1>19. ASSUME NEW outcome, NotifySend(s, outcome)
         PROVE  Reads(s) /\ Writes(s)
    <2>1. UNCHANGED clock /\ q.pc = "send"
      BY <1>q, <1>19 DEF NotifySend
    <2>2. Writes(s)
      <3>1. UNCHANGED holds \/ holds' = [holds EXCEPT ![q.hold].notified = FALSE]
        BY <1>q, <1>19 DEF NotifySend, Released
      <3>2. QED
        BY <3>1, SameWrites, NotifiedWrites
    <2>3. PICK z : Enter(s, z) /\ z = [sess[s] EXCEPT !.pc = "claim", !.hold = 0]
      BY <1>19 DEF NotifySend
    <2>4. z.op = q.op /\ z.pc = "claim" /\ z.now = q.now /\ z.next = q.next
      BY <1>q, <2>3 DEF Request
    <2>5. sess'[s] = z /\ \A t \in Procs : t # s => sess'[t] = sess[t]
      BY <2>3 DEF Enter, TypeOK
    <2>6. Reads(s)
      BY <1>q, <2>1, <2>4, <2>5 DEF Reads, InPass, InTransaction, DueInv, NextKeepsItsTime
    <2>7. QED
      BY <2>2, <2>6
  <1>20. QED
    BY <1>1, <1>2, <1>3, <1>4, <1>5, <1>6, <1>7, <1>8, <1>9, <1>10, <1>11, <1>12,
       <1>13, <1>14, <1>15, <1>16, <1>17, <1>18, <1>19 DEF Step

\* A request that arrives has read nothing; the pass that arrives lists what is late.
LEMMA ArrivalDue ==
    ASSUME CirculationAssumption, TypeOK, TypeOK', DueInv, NEW s \in Procs, NEW z, Enter(s, z),
           UNCHANGED <<holds, clock>>, z.op # "idle", z.now = clock, z.next = 0,
           z.pc \notin {"txNext", "txHeld", "txCommit"},
           z.op = "expire" => z.todo = StaleHolds
    PROVE  DueInv'
  <1>1. sess'[s] = z /\ \A t \in Procs : t # s => sess'[t] = sess[t]
    BY DEF Enter, TypeOK
  <1>2. clock \in Nat /\ clock' = clock /\ holds' = holds
    BY DEF TypeOK
  <1>3. Young'
    BY <1>1, <1>2 DEF DueInv, Young
  <1>4. NextKeepsItsTime'
    BY <1>1, <1>2 DEF DueInv, NextKeepsItsTime
  <1>5. ListedIsLate'
    <2>1. ASSUME NEW t \in Procs, InPass(t)', NEW h \in sess'[t].todo
          PROVE  /\ holds'[h].status \notin {"unused", "PENDING"}
                 /\ holds'[h].status = "AVAILABLE" => holds'[h].expiry < clock'
                 /\ \A u \in Procs : sess'[u].next # h
      <3>1. h \in HoldIds /\ h # 0
        BY <2>1 DEF TypeOK, Request, CirculationAssumption
      <3>2. CASE t # s
        BY <1>1, <1>2, <2>1, <3>1, <3>2 DEF DueInv, ListedIsLate, InPass
      <3>3. CASE t = s
        <4>1. holds[h].status = "AVAILABLE" /\ holds[h].expiry < clock
          BY <1>1, <2>1, <3>3 DEF StaleHolds, InPass
        <4>2. ASSUME NEW u \in Procs, sess[u].next = h
              PROVE  FALSE
          <5>1. holds[h].expiry > sess[u].now /\ clock <= sess[u].now + 1
            BY <3>1, <4>1, <4>2 DEF DueInv, NextKeepsItsTime, Young
          <5>2. holds[h].expiry \in Nat /\ sess[u].now \in Nat
            BY <3>1 DEF TypeOK, Hold, Request
          <5>3. QED
            BY <1>2, <4>1, <5>1, <5>2
        <4>3. QED
          BY <1>1, <1>2, <3>1, <4>1, <4>2
      <3>4. QED
        BY <3>2, <3>3
    <2>2. QED
      BY <2>1 DEF ListedIsLate
  <1>6. LockedIsReady'
    BY <1>1, <1>2 DEF DueInv, LockedIsReady, InPass, InTransaction, Unlocked
  <1>7. QED
    BY <1>3, <1>4, <1>5, <1>6 DEF DueInv

LEMMA ArrivalsDue ==
    ASSUME CirculationAssumption, TypeOK, TypeOK', DueInv, NEW s \in Procs,
           Arrivals(s) \/ ExpireFind(s)
    PROVE  DueInv'
  <1>0. UNCHANGED <<holds, clock>>
    BY DEF Arrivals, ExpireFind, CheckoutRead, ReturnRead, PerteRead, RenewRead, HoldRead,
           CancelRead, db
  <1>1. ASSUME NEW i \in Items, NEW p \in Patrons, CheckoutRead(s, i, p)
        PROVE  DueInv'
    <2>1. PICK z : z = [Arrive("checkout", "count") EXCEPT
                          !.item = i, !.patron = p, !.seen = status[i]]
      OBVIOUS
    <2>2. z.op = "checkout" /\ z.pc = "count" /\ z.now = clock /\ z.next = 0
      BY <2>1 DEF Arrive, Idle
    <2>3. QED
      BY <1>0, <1>1, <2>1, <2>2, ArrivalDue DEF CheckoutRead
  <1>2. ASSUME NEW l \in LoanIds, ReturnRead(s, l) \/ PerteRead(s, l)
        PROVE  DueInv'
    <2>1. PICK op, pc : /\ Enter(s, [Arrive(op, pc) EXCEPT !.loan = l, !.item = loans[l].item,
                                        !.num = Fine(loans[l].due, clock)])
                        /\ op \in {"return", "perte"} /\ pc \in {"next", "commit"}
      BY <1>2 DEF ReturnRead, PerteRead
    <2>2. PICK z : z = [Arrive(op, pc) EXCEPT !.loan = l, !.item = loans[l].item,
                                        !.num = Fine(loans[l].due, clock)]
      OBVIOUS
    <2>3. z.op = op /\ z.pc = pc /\ z.now = clock /\ z.next = 0
      BY <2>2 DEF Arrive, Idle
    <2>4. QED
      BY <1>0, <2>1, <2>2, <2>3, ArrivalDue
  <1>3. ASSUME NEW l \in LoanIds, NEW op \in {"renew", "renewOnline"}, RenewRead(s, l, op)
        PROVE  DueInv'
    <2>1. PICK z : z = [Arrive(op, "holds") EXCEPT
                          !.loan = l, !.item = loans[l].item, !.patron = loans[l].patron,
                          !.num = loans[l].renewals]
      OBVIOUS
    <2>2. z.op = op /\ z.pc = "holds" /\ z.now = clock /\ z.next = 0
      BY <2>1 DEF Arrive, Idle
    <2>3. QED
      BY <1>0, <1>3, <2>1, <2>2, ArrivalDue DEF RenewRead
  <1>4. ASSUME NEW r \in Records, NEW p \in Patrons, NEW op \in {"hold", "holdOnline"},
               HoldRead(s, r, p, op)
        PROVE  DueInv'
    <2>1. PICK i : Enter(s, [Arrive(op, "duplicate") EXCEPT
                                !.record = r, !.patron = p, !.item = i])
      BY <1>4 DEF HoldRead
    <2>2. PICK z : z = [Arrive(op, "duplicate") EXCEPT !.record = r, !.patron = p, !.item = i]
      OBVIOUS
    <2>3. z.op = op /\ z.pc = "duplicate" /\ z.now = clock /\ z.next = 0
      BY <2>2 DEF Arrive, Idle
    <2>4. QED
      BY <1>0, <2>1, <2>2, <2>3, ArrivalDue
  <1>5. ASSUME NEW h \in HoldIds, NEW op \in {"cancel", "cancelOnline"}, CancelRead(s, h, op)
        PROVE  DueInv'
    <2>1. PICK z : z = [Arrive(op, "cancel") EXCEPT
                          !.hold = h, !.record = holds[h].record, !.seen = holds[h].status]
      OBVIOUS
    <2>2. z.op = op /\ z.pc = "cancel" /\ z.now = clock /\ z.next = 0
      BY <2>1 DEF Arrive, Idle
    <2>3. QED
      BY <1>0, <1>5, <2>1, <2>2, ArrivalDue DEF CancelRead
  <1>6. CASE ExpireFind(s)
    <2>1. PICK z : z = [Arrive("expire", "each") EXCEPT !.todo = StaleHolds]
      OBVIOUS
    <2>2. /\ z.op = "expire" /\ z.pc = "each" /\ z.now = clock /\ z.next = 0
          /\ z.todo = StaleHolds
      BY <2>1 DEF Arrive, Idle
    <2>3. QED
      BY <1>0, <1>6, <2>1, <2>2, ArrivalDue DEF ExpireFind
  <1>7. QED
    BY <1>1, <1>2, <1>3, <1>4, <1>5, <1>6 DEF Arrivals

\* Days go by: a request in flight sees one midnight, and what is late stays late.
LEMMA TickDue ==
    ASSUME CirculationAssumption, TypeOK, DueInv, Tick
    PROVE  DueInv'
  <1>1. /\ holds' = holds /\ sess' = sess /\ clock \in Nat /\ clock' \in Nat /\ clock < clock'
        /\ \A s \in Busy : sess[s].now = clock /\ clock' = clock + 1
    BY DEF Tick, TypeOK, db, CirculationAssumption
  <1>2. \A s \in Procs : sess[s].op # "idle" => s \in Busy
    BY DEF Busy
  <1>3. Young'
    BY <1>1, <1>2 DEF Young
  <1>4. NextKeepsItsTime' /\ LockedIsReady'
    BY <1>1 DEF DueInv, NextKeepsItsTime, LockedIsReady, InPass, InTransaction, Unlocked
  <1>5. \A h \in HoldIds : holds[h].expiry \in Nat
    BY DEF TypeOK, Hold
  <1>6. \A s \in Procs : sess[s].todo \subseteq HoldIds
    BY DEF TypeOK, Request
  <1>7. ListedIsLate'
    <2>1. ASSUME NEW s \in Procs, InPass(s), NEW h \in sess[s].todo
          PROVE  /\ holds[h].status \notin {"unused", "PENDING"}
                 /\ holds[h].status = "AVAILABLE" => holds[h].expiry < clock'
                 /\ \A t \in Procs : sess[t].next # h
      <3>1. /\ holds[h].status \notin {"unused", "PENDING"}
            /\ holds[h].status = "AVAILABLE" => holds[h].expiry < clock
            /\ \A t \in Procs : sess[t].next # h
        BY <2>1 DEF DueInv, ListedIsLate
      <3>2. holds[h].expiry \in Nat
        BY <1>5, <1>6, <2>1
      <3>3. QED
        BY <1>1, <3>1, <3>2
    <2>2. QED
      BY <1>1, <2>1 DEF ListedIsLate, InPass
  <1>8. QED
    BY <1>3, <1>4, <1>7 DEF DueInv

LEMMA RestDue ==
    ASSUME DueInv, UNCHANGED <<holds, sess, clock>>
    PROVE  DueInv'
  BY DEF DueInv, Young, NextKeepsItsTime, ListedIsLate, LockedIsReady, InPass, InTransaction,
         Unlocked

LEMMA DueNext ==
    ASSUME CirculationAssumption, LongWindows, TypeOK, TypeOK', DueInv, [Next]_vars
    PROVE  DueInv'
  <1>1. ASSUME NEW s \in Procs, Arrivals(s) \/ ExpireFind(s)
        PROVE  DueInv'
    BY <1>1, ArrivalsDue
  <1>2. ASSUME NEW s \in Procs, Step(s)
        PROVE  DueInv'
    BY <1>2, StepDue, DueKept
  <1>3. ASSUME NEW s \in Procs, Abort(s)
        PROVE  DueInv'
    <2>1. Done(s) /\ UNCHANGED <<holds, clock>>
      BY <1>3 DEF Abort, db
    <2>2. QED
      BY <2>1, DoneReads, SameWrites, DueKept
  <1>4. CASE Tick
    BY <1>4, TickDue
  <1>5. CASE (\E i \in Items, st \in ItemStatus : UpdateItem(i, st)) \/ UNCHANGED vars
    BY <1>5, RestDue DEF UpdateItem, vars, db
  <1>6. QED
    BY <1>1, <1>2, <1>3, <1>4, <1>5 DEF Next, Wait

\* Only the pass writes EXPIRED, on the hold it holds locked.
LEMMA TakenBackWhenDue ==
    ASSUME CirculationAssumption, LongWindows, TypeOK, DueInv, [Next]_vars, NEW h \in HoldIds,
           holds[h].status # "EXPIRED", holds'[h].status = "EXPIRED"
    PROVE  holds[h].status = "AVAILABLE" /\ holds[h].expiry < clock
  <1>1. holds' # holds
    OBVIOUS
  <1>2. PICK s \in Procs : Step(s)
    BY <1>1 DEF Next, Wait, Arrivals, ExpireFind, CheckoutRead, ReturnRead, PerteRead, RenewRead,
       HoldRead, CancelRead, Abort, UpdateItem, Tick, vars, db
  <1>3. TakenBack(s, h)
    BY <1>2, StepDue DEF Writes, SameWindow, Ended, Opened, Queued
  <1>4. h \in sess[s].todo /\ holds[h].status = "AVAILABLE"
    BY <1>3 DEF TakenBack, DueInv, LockedIsReady
  <1>5. QED
    BY <1>3, <1>4 DEF TakenBack, DueInv, ListedIsLate

\* Whatever requests are in flight beside the hourly pass, a ready hold is taken back
\* only once its window is over: a hold promoted, or promoted again by a request that
\* read it long ago, is never on the list of the pass.  Windows of two days at least
\* outlast a request, which sees one midnight.
THEOREM TakenBackInTime == ASSUME LongWindows PROVE Spec => ExpiredOnlyWhenDue
  <1>1. Init => DueInv
    <2>1. ASSUME Init
          PROVE  \A s \in Procs : sess[s] = Idle
      BY <2>1 DEF Init
    <2>2. QED
      BY <2>1 DEF DueInv, Young, NextKeepsItsTime, ListedIsLate, LockedIsReady, InPass, Idle
  <1>2. TypeOK /\ TypeOK' /\ DueInv /\ [Next]_vars => DueInv'
    BY DueNext, CirculationAssumption
  <1>3. TypeOK /\ DueInv /\ [Next]_vars =>
            [\A h \in HoldIds : holds[h].status # "EXPIRED" /\ holds'[h].status = "EXPIRED" =>
                holds[h].status = "AVAILABLE" /\ holds[h].expiry < clock]_vars
    BY TakenBackWhenDue, CirculationAssumption
  <1>4. QED
    BY <1>1, <1>2, <1>3, TypeCorrect, PTL DEF Spec, ExpiredOnlyWhenDue

-----------------------------------------------------------------------------
(* No claim is kept for nothing *)

\* A step that neither claims nor sends leaves the senders and the claims.
LEMMA StepElsewhere ==
    ASSUME CirculationAssumption, TypeOK, NEW s \in Procs, Step(s),
           \A h \in HoldIds : ~NotifyClaim(s, h),
           \A outcome \in {"sent", "refused", "sentThenError"} : ~NotifySend(s, outcome)
    PROVE  Elsewhere(s) /\ ClaimsKept /\ UNCHANGED mails
  <1>q. PICK q \in Request : q = sess[s]
    BY DEF TypeOK
  <1>e. ASSUME NEW z, Enter(s, z), q.pc # "send", z.pc # "send"
        PROVE  Elsewhere(s)
    BY <1>e, <1>q, EnterElsewhere
  <1>1. CASE CheckoutCount(s) \/ RenewHolds(s) \/ HoldDuplicate(s) \/ NotifyEnd(s)
             \/ ExpireEnd(s)
    <2>1. UNCHANGED mails /\ UNCHANGED holds /\ sess[s].pc # "send"
      BY <1>1 DEF CheckoutCount, RenewHolds, HoldDuplicate, NotifyEnd, ExpireEnd, db, At
    <2>2. Elsewhere(s)
      BY <1>1, <2>1, DoneElsewhere, GotoElsewhere
      DEF CheckoutCount, RenewHolds, HoldDuplicate, NotifyEnd, ExpireEnd
    <2>3. QED
      BY <2>1, <2>2, SameKeepsClaims
  <1>2. CASE CheckoutReady(s) \/ ReturnNext(s) \/ HoldCount(s) \/ CancelLock(s) \/ CancelNext(s)
             \/ ExpireHeld(s)
    <2>1. UNCHANGED mails /\ UNCHANGED holds /\ sess[s].pc # "send"
      BY <1>2 DEF CheckoutReady, ReturnNext, HoldCount, CancelLock, CancelNext, ExpireHeld, db, At
    <2>2. CASE CheckoutReady(s)
      <3>1. ASSUME NEW h
            PROVE  [q EXCEPT !.pc = "commit", !.hold = h].pc # "send"
        BY DEF Request
      <3>2. PICK h : Enter(s, [q EXCEPT !.pc = "commit", !.hold = h]) \/ Done(s)
        BY <1>q, <2>2 DEF CheckoutReady
      <3>3. QED
        BY <1>q, <1>e, <2>1, <3>1, <3>2, DoneElsewhere, SameKeepsClaims
    <2>3. ASSUME NEW pc, pc # "send"
          PROVE  /\ \A h : [q EXCEPT !.pc = pc, !.next = h].pc # "send"
                 /\ \A n : [q EXCEPT !.pc = pc, !.num = n].pc # "send"
                 /\ \A i : [q EXCEPT !.item = i, !.pc = pc].pc # "send"
                 /\ \A i : [q EXCEPT !.pc = pc, !.item = i].pc # "send"
      BY <2>3 DEF Request
    <2>4. CASE ReturnNext(s) \/ CancelNext(s)
      BY <1>q, <1>e, <2>1, <2>3, <2>4, SameKeepsClaims DEF ReturnNext, CancelNext
    <2>5. CASE HoldCount(s)
      BY <1>q, <1>e, <2>1, <2>3, <2>5, SameKeepsClaims DEF HoldCount
    <2>6. CASE CancelLock(s)
      <3>1. PICK i, pc : /\ pc = (IF i = NoItem THEN "txCommit" ELSE "txNext")
                         /\ Enter(s, [sess[s] EXCEPT !.item = i, !.pc = pc])
        BY <2>6 DEF CancelLock
      <3>2. PICK z : z = [sess[s] EXCEPT !.item = i, !.pc = pc]
        OBVIOUS
      <3>3. z.pc # "send"
        BY <1>q, <3>1, <3>2 DEF Request
      <3>4. QED
        BY <1>q, <1>e, <2>1, <3>1, <3>2, <3>3, SameKeepsClaims
    <2>7. CASE ExpireHeld(s)
      <3>1. PICK i : Enter(s, [sess[s] EXCEPT !.pc = "txCommit", !.item = i])
        BY <2>7 DEF ExpireHeld
      <3>2. PICK z : z = [sess[s] EXCEPT !.pc = "txCommit", !.item = i]
        OBVIOUS
      <3>3. z.pc # "send"
        BY <1>q, <3>2 DEF Request
      <3>4. QED
        BY <1>q, <1>e, <2>1, <3>1, <3>2, <3>3, SameKeepsClaims
    <2>8. QED
      BY <1>2, <2>2, <2>4, <2>5, <2>6, <2>7

  <1>3. CASE CheckoutCommit(s)
    <2>1. UNCHANGED mails /\ Done(s) /\ sess[s].pc # "send"
      BY <1>3 DEF CheckoutCommit, At
    <2>2. UNCHANGED holds \/ holds' = [holds EXCEPT ![q.hold].status = "FULFILLED"]
      BY <1>q, <1>3 DEF CheckoutCommit
    <2>3. QED
      BY <2>1, <2>2, DoneElsewhere, SameKeepsClaims, EndKeepsClaims
  <1>4. CASE PerteCommit(s) \/ RenewCommit(s)
    <2>1. UNCHANGED mails /\ UNCHANGED holds /\ Done(s) /\ sess[s].pc # "send"
      BY <1>4 DEF PerteCommit, RenewCommit, At
    <2>2. QED
      BY <2>1, DoneElsewhere, SameKeepsClaims
  <1>5. CASE ReturnCommit(s)
    <2>1. UNCHANGED mails /\ sess[s].pc # "send"
      BY <1>5 DEF ReturnCommit, At
    <2>2. Elsewhere(s)
      BY <1>5, <2>1, DoneElsewhere, GotoElsewhere DEF ReturnCommit
    <2>3. UNCHANGED holds \/ holds' = Ready(q.next, q.now + DeskPickupDays)
      BY <1>q, <1>5 DEF ReturnCommit
    <2>4. QED
      BY <2>1, <2>2, <2>3, SameKeepsClaims, ReadyKeepsClaims
  <1>6. CASE HoldReadyCommit(s) \/ HoldPendingCommit(s)
    <2>1. UNCHANGED mails /\ sess[s].pc # "send"
      BY <1>6 DEF HoldReadyCommit, HoldPendingCommit, At
    <2>2. Elsewhere(s)
      BY <1>6, <2>1, DoneElsewhere, GotoElsewhere DEF HoldReadyCommit, HoldPendingCommit
    <2>3. PICK h, row : holds' = [holds EXCEPT ![h] = row] /\ ~row.notified
      <3>1. PICK h, st, pr, until :
              holds' = [holds EXCEPT ![h] =
                 [status |-> st, record |-> sess[s].record, patron |-> sess[s].patron,
                  priority |-> pr, expiry |-> until, notified |-> FALSE]]
        <4>1. CASE HoldReadyCommit(s)
          BY <4>1 DEF HoldReadyCommit
        <4>2. CASE HoldPendingCommit(s)
          BY <4>2 DEF HoldPendingCommit
        <4>3. QED
          BY <1>6, <4>1, <4>2
      <3>2. PICK row :
              row = [status |-> st, record |-> sess[s].record, patron |-> sess[s].patron,
                     priority |-> pr, expiry |-> until, notified |-> FALSE]
        OBVIOUS
      <3>3. ~row.notified
        BY <3>2
      <3>4. QED
        BY <3>1, <3>2, <3>3
    <2>4. QED
      BY <2>1, <2>2, <2>3, RowKeepsClaims
  <1>7. CASE CancelPending(s)
    <2>1. UNCHANGED mails /\ sess[s].pc # "send"
      BY <1>7 DEF CancelPending, At
    <2>2. Elsewhere(s)
      BY <1>7, <2>1, DoneElsewhere, GotoElsewhere DEF CancelPending, AfterCancel
    <2>3. QED
      BY <1>7, <2>1, <2>2, EndKeepsClaims DEF CancelPending, Cancelled
  <1>8. CASE CancelCommit(s)
    <2>1. UNCHANGED mails /\ sess[s].pc # "send"
      BY <1>8 DEF CancelCommit, At
    <2>2. Elsewhere(s)
      BY <1>8, <2>1, DoneElsewhere, GotoElsewhere DEF CancelCommit, AfterCancel
    <2>3. QED
      BY <1>8, <2>1, <2>2, PassOnKeepsClaims DEF CancelCommit
  <1>9. CASE ExpireCommit(s)
    <2>1. UNCHANGED mails /\ q.pc # "send"
      BY <1>q, <1>9 DEF ExpireCommit, At
    <2>2. [Arrive("expire", "each") EXCEPT !.now = q.now, !.todo = q.todo \ {q.hold}].pc
             # "send"
      BY DEF Arrive, Idle
    <2>3. QED
      BY <1>q, <1>e, <1>9, <2>1, <2>2, PassOnKeepsClaims DEF ExpireCommit
  <1>10. ASSUME NEW h \in HoldIds, ExpireLock(s, h)
         PROVE  Elsewhere(s) /\ ClaimsKept /\ UNCHANGED mails
    <2>1. UNCHANGED mails /\ UNCHANGED holds /\ q.pc = "each"
      BY <1>q, <1>10 DEF ExpireLock, At, db
    <2>2. ASSUME NEW g
          PROVE  [q EXCEPT !.pc = IF g = 0 THEN "txHeld" ELSE "txCommit", !.hold = h,
                           !.record = holds[h].record, !.next = g].pc # "send"
      BY DEF Request
    <2>3. [q EXCEPT !.todo = @ \ {h}].pc # "send"
      BY <2>1 DEF Request
    <2>4. Elsewhere(s)
      BY <1>q, <1>e, <1>10, <2>1, <2>2, <2>3 DEF ExpireLock
    <2>5. QED
      BY <2>1, <2>4, SameKeepsClaims
  <1>11. CASE NotifyFind(s)
    <2>1. UNCHANGED mails /\ UNCHANGED holds /\ q.pc # "send"
      BY <1>q, <1>11 DEF NotifyFind, db
    <2>2. [Arrive(q.op, "claim") EXCEPT !.now = q.now, !.todo = ToNotify].pc # "send"
      BY DEF Arrive, Idle
    <2>3. QED
      BY <1>q, <1>e, <1>11, <2>1, <2>2, SameKeepsClaims DEF NotifyFind
  <1>12. QED
    BY <1>1, <1>2, <1>3, <1>4, <1>5, <1>6, <1>7, <1>8, <1>9, <1>10, <1>11 DEF Step

\* A process without a request stands nowhere.
Placed == \A s \in Procs : sess[s].op = "idle" => sess[s].pc = "idle"

LEMMA StepPlaces ==
    ASSUME TypeOK, Placed, NEW s \in Procs, Step(s)
    PROVE  Placed'
  <1>q. PICK q \in Request : q = sess[s]
    BY DEF TypeOK
  <1>1. q.op # "idle"
    <2>1. ASSUME NEW ops \in SUBSET OpNames, NEW pc, At(s, ops, pc)
          PROVE  q.op # "idle"
      BY <1>q, <2>1 DEF At, OpNames
    <2>2. \/ \E ops \in SUBSET OpNames : \E pc : At(s, ops, pc)
          \/ sess[s].pc \in {"notify", "claim", "send"}
      BY DEF Step, CheckoutCount, CheckoutReady, CheckoutCommit, ReturnNext, ReturnCommit,
         PerteCommit, RenewHolds, RenewCommit, HoldDuplicate, HoldReadyCommit, HoldCount,
         HoldPendingCommit, CancelPending, CancelLock, CancelNext, CancelCommit, ExpireHeld,
         ExpireCommit, ExpireEnd, ExpireLock, NotifyFind, NotifyClaim, NotifySend, NotifyEnd,
         OpNames
    <2>3. QED
      BY <1>q, <2>1, <2>2 DEF Placed
  <1>e. ASSUME NEW z, Enter(s, z), z.op = q.op \/ z = Idle
        PROVE  Placed'
    <2>1. sess'[s] = z /\ \A t \in Procs : t # s => sess'[t] = sess[t]
      BY <1>e DEF Enter, TypeOK
    <2>2. QED
      BY <1>1, <1>e, <2>1 DEF Placed, Idle
  <1>2. ASSUME Done(s) \/ \E pc : Goto(s, pc)
        PROVE  Placed'
    <2>1. PICK z : Enter(s, z) /\ (z = Idle \/ \E pc : z = [q EXCEPT !.pc = pc])
      BY <1>q, <1>2 DEF Done, Goto
    <2>2. z = Idle \/ z.op = q.op
      BY <2>1 DEF Request
    <2>3. QED
      BY <1>e, <2>1, <2>2
  <1>3. CASE \/ CheckoutCount(s) \/ CheckoutCommit(s) \/ ReturnCommit(s) \/ PerteCommit(s)
             \/ RenewHolds(s) \/ RenewCommit(s) \/ HoldDuplicate(s) \/ HoldReadyCommit(s)
             \/ HoldPendingCommit(s) \/ CancelPending(s) \/ CancelCommit(s)
             \/ ExpireEnd(s) \/ NotifyEnd(s)
    <2>1. Done(s) \/ \E pc : Goto(s, pc)
      BY <1>3 DEF CheckoutCount, CheckoutCommit, ReturnCommit, PerteCommit, RenewHolds,
         RenewCommit, HoldDuplicate, HoldReadyCommit, HoldPendingCommit, CancelPending,
         CancelCommit, AfterCancel, ExpireEnd, NotifyEnd
    <2>2. QED
      BY <1>2, <2>1
  <1>4. CASE CheckoutReady(s)
    <2>1. PICK z, h : Enter(s, z) /\ (z = Idle \/ z = [q EXCEPT !.pc = "commit", !.hold = h])
      BY <1>q, <1>4 DEF CheckoutReady, Done
    <2>2. z = Idle \/ z.op = q.op
      BY <2>1 DEF Request
    <2>3. QED
      BY <1>e, <2>1, <2>2
  <1>5. CASE ReturnNext(s) \/ CancelNext(s)
    <2>1. PICK z, h, pc : Enter(s, z) /\ z = [q EXCEPT !.pc = pc, !.next = h]
      BY <1>q, <1>5 DEF ReturnNext, CancelNext
    <2>2. z.op = q.op
      BY <2>1 DEF Request
    <2>3. QED
      BY <1>e, <2>1, <2>2
  <1>6. CASE HoldCount(s)
    <2>1. PICK z, n : Enter(s, z) /\ z = [q EXCEPT !.pc = "commitPending", !.num = n]
      BY <1>q, <1>6 DEF HoldCount
    <2>2. z.op = q.op
      BY <2>1 DEF Request
    <2>3. QED
      BY <1>e, <2>1, <2>2
  <1>7. CASE CancelLock(s)
    <2>1. PICK z, i, pc : Enter(s, z) /\ z = [sess[s] EXCEPT !.item = i, !.pc = pc]
      BY <1>7 DEF CancelLock
    <2>2. z.op = q.op
      BY <1>q, <2>1 DEF Request
    <2>3. QED
      BY <1>e, <2>1, <2>2
  <1>h. CASE ExpireHeld(s)
    <2>1. PICK z, i : Enter(s, z) /\ z = [q EXCEPT !.pc = "txCommit", !.item = i]
      BY <1>q, <1>h DEF ExpireHeld
    <2>2. z.op = q.op
      BY <2>1 DEF Request
    <2>3. QED
      BY <1>e, <2>1, <2>2
  <1>8. CASE ExpireCommit(s)
    <2>1. PICK z, now, todo :
            Enter(s, z) /\ z = [Arrive("expire", "each") EXCEPT !.now = now, !.todo = todo]
      BY <1>8 DEF ExpireCommit
    <2>2. z.op = q.op
      BY <1>q, <1>8, <2>1 DEF Arrive, Idle, ExpireCommit, At
    <2>3. QED
      BY <1>e, <2>1, <2>2
  <1>9. ASSUME NEW h \in HoldIds, ExpireLock(s, h)
        PROVE  Placed'
    <2>1. CASE StillReady(h)
      <3>1. PICK g :
              Enter(s, [sess[s] EXCEPT !.pc = IF g = 0 THEN "txHeld" ELSE "txCommit",
                                       !.hold = h, !.record = holds[h].record, !.next = g])
        BY <1>9, <2>1 DEF ExpireLock
      <3>2. PICK z, pc, r : /\ z = [sess[s] EXCEPT !.pc = pc, !.hold = h, !.record = r, !.next = g]
                            /\ pc = IF g = 0 THEN "txHeld" ELSE "txCommit"
                            /\ r = holds[h].record
        OBVIOUS
      <3>3. Enter(s, z)
        BY <3>1, <3>2
      <3>4. z.op = q.op
        BY <1>q, <3>2 DEF Request
      <3>5. QED
        BY <1>e, <3>3, <3>4
    <2>2. CASE ~StillReady(h)
      <3>1. PICK z : Enter(s, z) /\ z = [q EXCEPT !.todo = @ \ {h}]
        BY <1>q, <1>9, <2>2 DEF ExpireLock
      <3>2. z.op = q.op
        BY <3>1 DEF Request
      <3>3. QED
        BY <1>e, <3>1, <3>2
    <2>3. QED
      BY <2>1, <2>2
  <1>10. CASE NotifyFind(s)
    <2>1. PICK z : /\ Enter(s, z)
                   /\ z = [Arrive(q.op, "claim") EXCEPT !.now = q.now, !.todo = ToNotify]
      BY <1>q, <1>10 DEF NotifyFind
    <2>2. z.op = q.op
      BY <2>1 DEF Arrive, Idle
    <2>3. QED
      BY <1>e, <2>1, <2>2
  <1>11. ASSUME NEW h \in HoldIds, NotifyClaim(s, h)
         PROVE  Placed'
    <2>1. PICK z : Enter(s, z) /\ \/ z = [q EXCEPT !.todo = @ \ {h}]
                                  \/ z = [q EXCEPT !.todo = @ \ {h}, !.hold = h, !.pc = "send"]
      BY <1>q, <1>11 DEF NotifyClaim
    <2>2. z.op = q.op
      BY <2>1 DEF Request
    <2>3. QED
      BY <1>e, <2>1, <2>2
  <1>12. ASSUME NEW outcome, NotifySend(s, outcome)
         PROVE  Placed'
    <2>1. PICK z : Enter(s, z) /\ z = [q EXCEPT !.pc = "claim", !.hold = 0]
      BY <1>q, <1>12 DEF NotifySend
    <2>2. z.op = q.op
      BY <2>1 DEF Request
    <2>3. QED
      BY <1>e, <2>1, <2>2
  <1>13. QED
    BY <1>3, <1>4, <1>5, <1>6, <1>7, <1>h, <1>8, <1>9, <1>10, <1>11, <1>12 DEF Step

\* A claim for a reader with an address makes a sender.
LEMMA ClaimSends ==
    ASSUME CirculationAssumption, TypeOK, SendingInv, NEW s \in Procs, NEW h \in HoldIds,
           NotifyClaim(s, h)
    PROVE  SendingInv'
  <1>q. PICK q \in Request : q = sess[s]
    BY DEF TypeOK
  <1>1. q.pc = "claim" /\ UNCHANGED mails
    BY <1>q DEF NotifyClaim
  <1>2. CASE ~Unclaimed(h)
    <2>1. [q EXCEPT !.todo = @ \ {h}].pc # "send"
      BY <1>1 DEF Request
    <2>2. Elsewhere(s) /\ UNCHANGED holds
      BY <1>q, <1>1, <1>2, <2>1, EnterElsewhere DEF NotifyClaim
    <2>3. QED
      BY <1>1, <2>2, SameKeepsClaims, ElsewhereKeeps
  <1>3. CASE Unclaimed(h)
    <2>1. holds' = [holds EXCEPT ![h].notified = TRUE]
      BY <1>3 DEF NotifyClaim
    <2>2. \A g \in HoldIds : /\ holds'[g].patron = holds[g].patron
                             /\ g # h => holds'[g].notified = holds[g].notified
      <3>1. holds \in [HoldIds -> Hold]
        BY DEF TypeOK
      <3>2. PICK x \in Hold : x = holds[h]
        BY <3>1
      <3>3. [x EXCEPT !.notified = TRUE].patron = x.patron
        BY DEF Hold
      <3>4. holds'[h] = [x EXCEPT !.notified = TRUE]
        BY <2>1, <3>1, <3>2
      <3>5. \A g \in HoldIds : g # h => holds'[g] = holds[g]
        BY <2>1, <3>1
      <3>6. QED
        BY <3>2, <3>3, <3>4, <3>5
    <2>3. PICK z : /\ Enter(s, z)
                   /\ z = IF holds[h].patron \in HasEmail
                          THEN [q EXCEPT !.todo = @ \ {h}, !.hold = h, !.pc = "send"]
                          ELSE [q EXCEPT !.todo = @ \ {h}]
      BY <1>q, <1>3 DEF NotifyClaim
    <2>4. /\ holds[h].patron \in HasEmail => z.pc = "send" /\ z.hold = h
          /\ holds[h].patron \notin HasEmail => z.pc = "claim"
      BY <1>1, <2>3 DEF Request
    <2>5. sess'[s] = z /\ \A t \in Procs : t # s => sess'[t] = sess[t]
      BY <2>3 DEF Enter, TypeOK
    <2>6. \A t \in Procs : sess[t].pc = "send" => sess'[t] = sess[t]
      BY <1>q, <1>1, <2>5
    <2>7. NoLeakedClaim'
      <3>1. ASSUME NEW g \in HoldIds, holds'[g].notified, holds'[g].patron \in HasEmail,
                   mails'[g] = 0
            PROVE  \E t \in Procs : sess'[t].pc = "send" /\ sess'[t].hold = g
        <4>1. CASE g = h
          BY <2>2, <2>4, <2>5, <3>1, <4>1
        <4>2. CASE g # h
          <5>1. \E t \in Procs : sess[t].pc = "send" /\ sess[t].hold = g
            BY <1>1, <2>2, <3>1, <4>2 DEF SendingInv, NoLeakedClaim
          <5>2. QED
            BY <2>6, <5>1
        <4>3. QED
          BY <4>1, <4>2
      <3>2. QED
        BY <3>1 DEF NoLeakedClaim
    <2>8. \A t \in Procs : sess'[t].pc = "send" => sess'[t].hold \in HoldIds
      BY <2>4, <2>5 DEF SendingInv
    <2>9. QED
      BY <2>7, <2>8 DEF SendingInv
  <1>4. QED
    BY <1>2, <1>3

\* A message that leaves is counted; one that does not gives the claim back.
LEMMA SendCounts ==
    ASSUME CirculationAssumption, TypeOK, SendingInv, NEW s \in Procs,
           NEW outcome \in {"sent", "refused", "sentThenError"}, NotifySend(s, outcome)
    PROVE  SendingInv'
  <1>1. PICK h \in HoldIds : h = sess[s].hold
    BY DEF NotifySend, SendingInv
  <1>2. PICK z : Enter(s, z) /\ z = [sess[s] EXCEPT !.pc = "claim", !.hold = 0]
    BY DEF NotifySend
  <1>3. z.pc = "claim"
    BY <1>2 DEF TypeOK, Request
  <1>4. sess'[s] = z /\ \A t \in Procs : t # s => sess'[t] = sess[t]
    BY <1>2 DEF Enter, TypeOK
  <1>5. \A g \in HoldIds : /\ mails[g] \in Nat
                           /\ mails'[g] = IF g = h /\ outcome # "refused" THEN mails[g] + 1
                                          ELSE mails[g]
    BY <1>1 DEF NotifySend, TypeOK
  <1>6. holds' = holds \/ holds' = [holds EXCEPT ![h].notified = FALSE]
    BY <1>1 DEF NotifySend, Released
  <1>7. outcome = "refused" => holds' = [holds EXCEPT ![h].notified = FALSE]
    BY <1>1 DEF NotifySend, Released
  <1>8. \A g \in HoldIds : /\ holds'[g].patron = holds[g].patron
                           /\ holds'[g].notified => holds[g].notified
                           /\ outcome = "refused" => ~holds'[h].notified
    BY <1>6, <1>7 DEF TypeOK, Hold
  <1>9. NoLeakedClaim'
    <2>1. ASSUME NEW g \in HoldIds, holds'[g].notified, holds'[g].patron \in HasEmail,
                 mails'[g] = 0
          PROVE  \E t \in Procs : sess'[t].pc = "send" /\ sess'[t].hold = g
      <3>1. g # h /\ mails[g] = 0
        BY <1>5, <1>8, <2>1
      <3>2. PICK t \in Procs : sess[t].pc = "send" /\ sess[t].hold = g
        BY <1>8, <2>1, <3>1 DEF SendingInv, NoLeakedClaim
      <3>3. QED
        BY <1>1, <1>4, <3>1, <3>2
    <2>2. QED
      BY <2>1 DEF NoLeakedClaim
  <1>10. \A t \in Procs : sess'[t].pc = "send" => sess'[t].hold \in HoldIds
    BY <1>3, <1>4 DEF SendingInv
  <1>11. QED
    BY <1>9, <1>10 DEF SendingInv

\* A request that arrives sends nothing.
LEMMA ArrivalPlaces ==
    ASSUME TypeOK, NEW s \in Procs, Arrivals(s) \/ ExpireFind(s)
    PROVE  /\ UNCHANGED <<holds, mails>> /\ sess[s].op = "idle"
           /\ sess'[s].op # "idle" /\ sess'[s].pc # "send"
           /\ \A t \in Procs : t # s => sess'[t] = sess[t]
  <1>1. UNCHANGED <<holds, mails>> /\ sess[s].op = "idle"
    BY DEF Arrivals, ExpireFind, CheckoutRead, ReturnRead, PerteRead, RenewRead, HoldRead,
           CancelRead, Begin, db
  <1>e. ASSUME NEW z, Enter(s, z), z.op # "idle", z.pc # "send"
        PROVE  /\ sess'[s].op # "idle" /\ sess'[s].pc # "send"
               /\ \A t \in Procs : t # s => sess'[t] = sess[t]
    BY <1>e DEF Enter, TypeOK
  <1>2. ASSUME NEW i \in Items, NEW p \in Patrons, CheckoutRead(s, i, p)
        PROVE  sess'[s].op # "idle" /\ sess'[s].pc # "send"
               /\ \A t \in Procs : t # s => sess'[t] = sess[t]
    <2>1. PICK z : Enter(s, z) /\ z = [Arrive("checkout", "count") EXCEPT
                                          !.item = i, !.patron = p, !.seen = status[i]]
      BY <1>2 DEF CheckoutRead
    <2>2. QED
      BY <1>e, <2>1 DEF Arrive, Idle
  <1>3. ASSUME NEW l \in LoanIds, ReturnRead(s, l) \/ PerteRead(s, l)
        PROVE  sess'[s].op # "idle" /\ sess'[s].pc # "send"
               /\ \A t \in Procs : t # s => sess'[t] = sess[t]
    <2>1. PICK z, op, pc :
            /\ op \in {"return", "perte"} /\ pc \in {"next", "commit"} /\ Enter(s, z)
            /\ z = [Arrive(op, pc) EXCEPT !.loan = l, !.item = loans[l].item,
                                          !.num = Fine(loans[l].due, clock)]
      BY <1>3 DEF ReturnRead, PerteRead
    <2>2. QED
      BY <1>e, <2>1 DEF Arrive, Idle
  <1>4. ASSUME NEW l \in LoanIds, NEW op \in {"renew", "renewOnline"}, RenewRead(s, l, op)
        PROVE  sess'[s].op # "idle" /\ sess'[s].pc # "send"
               /\ \A t \in Procs : t # s => sess'[t] = sess[t]
    <2>1. PICK z : Enter(s, z) /\ z = [Arrive(op, "holds") EXCEPT
                      !.loan = l, !.item = loans[l].item, !.patron = loans[l].patron,
                      !.num = loans[l].renewals]
      BY <1>4 DEF RenewRead
    <2>2. QED
      BY <1>e, <2>1 DEF Arrive, Idle
  <1>5. ASSUME NEW r \in Records, NEW p \in Patrons, NEW op \in {"hold", "holdOnline"},
               HoldRead(s, r, p, op)
        PROVE  sess'[s].op # "idle" /\ sess'[s].pc # "send"
               /\ \A t \in Procs : t # s => sess'[t] = sess[t]
    <2>1. PICK z, i : Enter(s, z) /\ z = [Arrive(op, "duplicate") EXCEPT
                                             !.record = r, !.patron = p, !.item = i]
      BY <1>5 DEF HoldRead
    <2>2. QED
      BY <1>e, <2>1 DEF Arrive, Idle
  <1>6. ASSUME NEW h \in HoldIds, NEW op \in {"cancel", "cancelOnline"}, CancelRead(s, h, op)
        PROVE  sess'[s].op # "idle" /\ sess'[s].pc # "send"
               /\ \A t \in Procs : t # s => sess'[t] = sess[t]
    <2>1. PICK z : Enter(s, z) /\ z = [Arrive(op, "cancel") EXCEPT
                      !.hold = h, !.record = holds[h].record, !.seen = holds[h].status]
      BY <1>6 DEF CancelRead
    <2>2. QED
      BY <1>e, <2>1 DEF Arrive, Idle
  <1>7. CASE ExpireFind(s)
    <2>1. PICK z : Enter(s, z) /\ z = [Arrive("expire", "each") EXCEPT !.todo = StaleHolds]
      BY <1>7 DEF ExpireFind
    <2>2. QED
      BY <1>1, <1>e, <2>1 DEF Arrive, Idle
  <1>8. QED
    BY <1>1, <1>2, <1>3, <1>4, <1>5, <1>6, <1>7 DEF Arrivals

LEMMA SendingNext ==
    ASSUME CirculationAssumption, "abort" \notin Ops, TypeOK, SendingInv, Placed, [Next]_vars
    PROVE  SendingInv' /\ Placed'
  <1>1. ASSUME NEW s \in Procs, Arrivals(s) \/ ExpireFind(s)
        PROVE  SendingInv' /\ Placed'
    <2>1. /\ UNCHANGED <<holds, mails>> /\ sess[s].op = "idle"
          /\ sess'[s].op # "idle" /\ sess'[s].pc # "send"
          /\ \A t \in Procs : t # s => sess'[t] = sess[t]
      BY <1>1, ArrivalPlaces
    <2>2. Elsewhere(s) /\ Placed'
      BY <2>1 DEF Elsewhere, Placed
    <2>3. QED
      BY <2>1, <2>2, SameKeepsClaims, ElsewhereKeeps
  <1>2. ASSUME NEW s \in Procs, Step(s)
        PROVE  SendingInv' /\ Placed'
    <2>1. Placed'
      BY <1>2, StepPlaces
    <2>2. CASE \E h \in HoldIds : NotifyClaim(s, h)
      BY <2>1, <2>2, ClaimSends
    <2>3. CASE \E outcome \in {"sent", "refused", "sentThenError"} : NotifySend(s, outcome)
      BY <2>1, <2>3, SendCounts
    <2>4. CASE /\ \A h \in HoldIds : ~NotifyClaim(s, h)
               /\ \A outcome \in {"sent", "refused", "sentThenError"} : ~NotifySend(s, outcome)
      BY <1>2, <2>1, <2>4, StepElsewhere, ElsewhereKeeps
    <2>5. QED
      BY <2>2, <2>3, <2>4
  <1>3. CASE \/ \E i \in Items, st \in ItemStatus : UpdateItem(i, st)
             \/ Tick
             \/ UNCHANGED vars
    <2>1. UNCHANGED <<holds, mails, sess>>
      BY <1>3 DEF UpdateItem, Tick, vars, db
    <2>2. QED
      BY <2>1, SameKeepsClaims, SendingKept DEF SendersKept, Placed
  <1>4. \A s \in Procs : ~Abort(s)
    BY DEF Abort
  <1>5. QED
    BY <1>1, <1>2, <1>3, <1>4 DEF Next, Wait

\* Whatever requests and passes claim the right to tell a reader, a claim is spent on a
\* message, given back, or held by a request that is about to send, as long as no
\* request dies between the two statements.
THEOREM ClaimsAreNotLeaked == ASSUME "abort" \notin Ops PROVE Spec => []NoLeakedClaim
  <1>1. Init => SendingInv /\ Placed
    BY DEF Init, SendingInv, NoLeakedClaim, Placed, Idle, NoHold
  <1>2. TypeOK /\ SendingInv /\ Placed /\ [Next]_vars => SendingInv' /\ Placed'
    BY SendingNext, CirculationAssumption
  <1>3. SendingInv => NoLeakedClaim
    BY DEF SendingInv
  <1>4. QED
    BY <1>1, <1>2, <1>3, TypeCorrect, PTL DEF Spec
=============================================================================
