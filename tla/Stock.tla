-------------------------------- MODULE Stock --------------------------------
(***************************************************************************)
(* The lending desk with the two services that use its tables: recolement, *)
(* which marks missing the copies it did not see, and the reminders, which *)
(* write to the readers of the open loans.  They share the tables items    *)
(* and checkouts, and nothing else: a request of one runs between any two  *)
(* statements of the others.                                               *)
(***************************************************************************)
EXTENDS Circulation

CONSTANTS
    Campaigns, ScopeOf, Clerks, NoCampaign,                  \* Inventory
    Morning, ByHand, AsOfDays, Configs, Stages, SendOutcomes,
    MaxReminders, MaxCrashes,                                \* Reminders
    MaxTogether     \* bound: requests and passes of all three in flight together

VARIABLES
    camp, scans, clerk,                                      \* Inventory
    actif, config, log, pass, reminded, contested, crashes   \* Reminders

Recolement == INSTANCE Inventory
Rappels == INSTANCE Reminders

ASSUME StockAssumption ==
    /\ Recolement!InventoryAssumption
    /\ Rappels!RemindersAssumption
    /\ MaxTogether \in Nat

inventory == <<camp, scans, clerk>>
reminders == <<actif, config, log, pass, reminded, contested, crashes>>
all == <<vars, inventory, reminders>>

Counting == {c \in Clerks : clerk[c] # Recolement!Idle}
Running == {p \in Rappels!Passes : pass[p] # Rappels!Resting}
Together == Cardinality(Busy) + Cardinality(Counting) + Cardinality(Running)

\* Bounds.  Recolement and reminders read and write no common table: overlapping
\* them would only reorder steps that commute.
InBounds == Together <= MaxTogether /\ (Counting = {} \/ Running = {})

StockInit == Init /\ Recolement!Init /\ Rappels!Init

Desk(A) == A /\ UNCHANGED <<inventory, reminders>> /\ InBounds'
Shelves(A) == A /\ UNCHANGED <<loans, holds, clock, sess, promos, mails, reminders>> /\ InBounds'
Mailing(A) == A /\ UNCHANGED <<vars, inventory>> /\ InBounds'

\* As in Circulation: what is in flight may see midnight, not a longer time.
StockNext ==
    /\ \/ Desk(Next) \/ Shelves(Recolement!Next) \/ Mailing(Rappels!Next)
    /\ clock' > clock + 1 => Together = 0

StockSpec == StockInit /\ [][StockNext]_all

\* Node goes on with what is in flight beside the morning pass.
Others ==
    \/ Desk(\E s \in Sessions : Step(s))
    \/ Shelves(\E c \in Clerks : Recolement!Step(c))
    \/ Mailing(\E p \in ByHand : Rappels!Step(p))

\* The timer of seven o'clock comes back, a pass goes on, and a mail server asked
\* again and again accepts.
StockFairness ==
    /\ WF_all(Others)
    /\ WF_all(Mailing(Rappels!Step(Morning)))
    /\ SF_all(Mailing(Rappels!Start(Morning, clock)))
    /\ SF_all(Mailing(Rappels!Send(Morning, "sent")))

FairStockSpec == StockSpec /\ StockFairness

-----------------------------------------------------------------------------
(* Properties *)

\* "Jamais deux fois": through any number of passes of the scheduler and of "send
\* now", each stage of a loan is told once (processReminder reserves, then sends).
OneMailPerStage == Rappels!OneMailPerStage

\* What the administration reads as sent has left: the row says SENT only of a
\* message the mail server accepted, whatever failed or died after the reservation.
SentMeansMailed == Rappels!SentMeansMailed

\* A reader with an address whose loan is late is told, by one of the daily passes,
\* although passes die, the server refuses and the stages go by; unless the copy
\* comes back, the loan is prolonged or the module is switched off.
LateReaderIsTold ==
    \A l \in LoanIds :
        OpenLoan(l) /\ loans[l].patron \in HasEmail /\ loans[l].due < clock /\ actif
            ~> \/ \E n \in Stages : reminded[<<l, "OVERDUE", n>>] > 0
               \/ ~OpenLoan(l) \/ loans[l].due >= clock \/ ~actif
=============================================================================
