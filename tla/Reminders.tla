------------------------------ MODULE Reminders ------------------------------
(***************************************************************************)
(* RemindersService and its scheduler: the messages that tell a reader a   *)
(* loan is due or late, over the table reminder_logs.                      *)
(*                                                                         *)
(* A pass reads the open loans once, then treats the reminders one by one: *)
(* look for the row of the stage, reserve it, send, write what happened.   *)
(* The scheduler lets one of its own passes run at a time; "send now" and  *)
(* the scheduler of another server do not know of each other.  The loans   *)
(* and the day belong to Circulation.                                      *)
(***************************************************************************)
EXTENDS Integers, FiniteSets

CONSTANTS
    LoanIds,        \* checkouts rows
    HasEmail,       \* patrons whose account carries a usable address
    Morning,        \* the pass of the scheduler, every day at seven
    ByHand,         \* passes started with "send now"
    AsOfDays,       \* reference days an administrator may give such a pass
    Configs,        \* tenant settings: [before, every]
    Stages,         \* bound: due dates and numbers of overdue stages
    SendOutcomes,   \* what the mail server may do with a message
    MaxReminders,   \* bound: messages delivered for one stage
    MaxCrashes      \* bound: passes that die

VARIABLES
    loans, clock,   \* Circulation's
    actif,          \* the module "rappels" is on
    config,         \* reminder_days_before and overdue_repeat_days
    log,            \* reminder_logs: the status of each stage
    pass,           \* what each pass has read, and where it stands
    reminded,       \* history: messages delivered for each stage
    contested,      \* history: stages whose row did not tell what became of a message
    crashes         \* how many passes have died

Passes == ByHand \cup {Morning}

\* checkout_id, type and stage_key: the unique key of a row.
Keys == LoanIds \X {"DUE_SOON", "OVERDUE"} \X Stages

LogStatus == {"none", "PENDING", "SENT", "FAILED", "SKIPPED_NO_EMAIL"}

RemindersAssumption ==
    /\ Morning \notin ByHand
    /\ Configs \subseteq [before : Nat, every : Nat \ {0}] /\ Configs # {}
    /\ AsOfDays \subseteq Nat /\ Stages \subseteq Nat
    /\ SendOutcomes \subseteq {"sent", "refused", "sentThenError"}
    /\ {MaxReminders, MaxCrashes} \subseteq Nat

\* A reminder to consider: its key, and what the pass read of the loan.
Reminder == [key : Keys, due : Nat, mail : BOOLEAN]
NoReminder == [key |-> <<0, "none", 0>>, due |-> 0, mail |-> FALSE]

Pass == [pc : {"idle", "loans", "each", "skip", "reserve", "send", "mark"},
         asOf : Nat, config : Configs, todo : SUBSET Reminder,
         cur : Reminder \cup {NoReminder}, seen : LogStatus]
Resting == [pc |-> "idle", asOf |-> 0, config |-> CHOOSE c \in Configs : TRUE,
            todo |-> {}, cur |-> NoReminder, seen |-> "none"]

Init ==
    /\ actif = TRUE
    /\ config \in Configs
    /\ log = [k \in Keys |-> "none"]
    /\ pass = [p \in Passes |-> Resting]
    /\ reminded = [k \in Keys |-> 0]
    /\ contested = {}
    /\ crashes = 0

-----------------------------------------------------------------------------
(* Queries *)

\* planFor: the stage of a loan on the day asOf, if it has one.  The key of an
\* overdue stage holds its number and not the due date.
Plan(due, c, asOf) ==
    IF asOf > due THEN {<<"OVERDUE", (asOf - due - 1) \div c.every>>}
    ELSE IF due - asOf <= c.before THEN {<<"DUE_SOON", due>>} ELSE {}

Planned(l, c, asOf) ==
    {[key |-> <<l, s[1], s[2]>>, due |-> loans[l].due, mail |-> loans[l].patron \in HasEmail]
        : s \in Plan(loans[l].due, c, asOf)}

\* orderBy dueDate
Earliest(S) == {t \in S : \A u \in S : t.due <= u.due}

\* Slip: a stage that was tried is taken for a stage that was told.
SlipSettled(k) == log[k] \in {"SENT", "FAILED"}
Settled(k) == log[k] = "SENT"

\* A pass that may have a message of the stage on the wire.
Sending(k) == {p \in Passes : pass[p].cur.key = k /\ pass[p].pc \in {"send", "mark"}}

\* Slip: no error means that the message left.
SlipWritten(outcome) == IF outcome = "sentThenError" THEN "FAILED" ELSE "SENT"
Written(outcome) == IF outcome = "sent" THEN "SENT" ELSE "FAILED"

-----------------------------------------------------------------------------
(* A pass *)

\* The pass goes on to the next reminder, or ends.
Enter(p, q) == pass' = [pass EXCEPT ![p] = q]
Resume(p, todo) ==
    Enter(p, IF todo = {} THEN Resting
             ELSE [pass[p] EXCEPT !.pc = "each", !.todo = todo, !.cur = NoReminder,
                                  !.seen = "none"])
Proceed(p) == Resume(p, pass[p].todo)

\* sweepAllTenants and runForTenant: a module that is off starts nothing.
Start(p, day) ==
    /\ pass[p].pc = "idle"
    /\ actif
    /\ \/ day = clock
       \/ p \in ByHand /\ day \in AsOfDays
    /\ Enter(p, [Resting EXCEPT !.pc = "loans", !.asOf = day, !.config = config])
    /\ UNCHANGED <<actif, config, log, reminded, contested, crashes>>

\* processTenant: the loans that are open now, and their plans.
ReadLoans(p) ==
    LET q == pass[p] IN
    /\ q.pc = "loans"
    /\ Resume(p, UNION {Planned(l, q.config, q.asOf) :
                           l \in {k \in LoanIds : loans[k].state = "open"}})
    /\ UNCHANGED <<actif, config, log, reminded, contested, crashes>>

\* processReminder: the row of the stage is looked for before anything else.
Look(p, t) ==
    LET q == pass[p]  k == t.key IN
    /\ q.pc = "each"
    /\ t \in Earliest(q.todo)
    /\ IF Settled(k)
       THEN Resume(p, q.todo \ {t}) /\ UNCHANGED contested
       ELSE /\ Enter(p, [q EXCEPT !.todo = @ \ {t}, !.cur = t, !.seen = log[k],
                           !.pc = IF ~t.mail THEN "skip"
                                  ELSE IF log[k] = "none" THEN "reserve" ELSE "send"])
            /\ contested' = contested \cup {j \in {k} : Sending(j) # {}}
    /\ UNCHANGED <<actif, config, log, reminded, crashes>>

\* No usable address: the row says so.  A row created meanwhile by another pass
\* is an error nothing catches, and the pass ends there.
Skip(p) ==
    LET q == pass[p]  k == q.cur.key IN
    /\ q.pc = "skip"
    /\ IF q.seen = "none" /\ log[k] # "none"
       THEN Enter(p, Resting) /\ UNCHANGED log
       ELSE Proceed(p) /\ log' = [log EXCEPT ![k] = "SKIPPED_NO_EMAIL"]
    /\ UNCHANGED <<actif, config, reminded, contested, crashes>>

\* Slip: the row of another pass is taken over.
SlipUnreserved(k) == log[k] # "SENT"
Unreserved(k) == log[k] = "none"

\* The unique key lets one pass create the row; the other gives the reminder up.
Reserve(p) ==
    LET q == pass[p]  k == q.cur.key IN
    /\ q.pc = "reserve"
    /\ IF Unreserved(k)
       THEN /\ log' = [log EXCEPT ![k] = "PENDING"]
            /\ Enter(p, [q EXCEPT !.pc = "send"])
       ELSE Proceed(p) /\ UNCHANGED log
    /\ UNCHANGED <<actif, config, reminded, contested, crashes>>

\* The server accepts, refuses (or there is none), or accepts and times out.
Send(p, outcome) ==
    LET q == pass[p]  k == q.cur.key IN
    /\ q.pc = "send"
    /\ outcome \in SendOutcomes
    /\ outcome # "refused" => reminded[k] < MaxReminders
    /\ reminded' = IF outcome = "refused" THEN reminded
                   ELSE [reminded EXCEPT ![k] = @ + 1]
    /\ Enter(p, [q EXCEPT !.pc = "mark", !.seen = Written(outcome)])
    /\ contested' = contested \cup {j \in {k} : outcome = "sentThenError"}
    /\ UNCHANGED <<actif, config, log, crashes>>

Mark(p) ==
    /\ pass[p].pc = "mark"
    /\ log' = [log EXCEPT ![pass[p].cur.key] = pass[p].seen]
    /\ Proceed(p)
    /\ UNCHANGED <<actif, config, reminded, contested, crashes>>

\* The server stops in the middle of a pass: what it wrote stays.
Crash(p) ==
    /\ pass[p].pc # "idle"
    /\ crashes < MaxCrashes
    /\ crashes' = crashes + 1
    /\ contested' = contested \cup {k \in Keys : p \in Sending(k) /\ pass[p].pc = "mark"}
    /\ Enter(p, Resting)
    /\ UNCHANGED <<actif, config, log, reminded>>

-----------------------------------------------------------------------------
(* The administrator *)

\* The modules registry: a pass that has started does not look again.
Switch ==
    /\ actif' = ~actif
    /\ UNCHANGED <<config, log, pass, reminded, contested, crashes>>

UpdateSettings(c) ==
    /\ c \in Configs
    /\ config' = c
    /\ UNCHANGED <<actif, log, pass, reminded, contested, crashes>>

-----------------------------------------------------------------------------

Step(p) ==
    \/ ReadLoans(p)
    \/ \E t \in pass[p].todo : Look(p, t)
    \/ Skip(p) \/ Reserve(p) \/ Mark(p)
    \/ \E outcome \in {"sent", "refused", "sentThenError"} : Send(p, outcome)

Next ==
    \/ \E p \in Passes : \/ \E day \in AsOfDays \cup {clock} : Start(p, day)
                         \/ Step(p) \/ Crash(p)
    \/ \E c \in Configs : UpdateSettings(c)
    \/ Switch

-----------------------------------------------------------------------------
(* Properties *)

\* Rows and passes keep the shapes of their table and of their code.
TypeOK ==
    /\ actif \in BOOLEAN /\ config \in Configs
    /\ log \in [Keys -> LogStatus]
    /\ pass \in [Passes -> Pass]
    /\ reminded \in [Keys -> Nat]
    /\ contested \subseteq Keys
    /\ crashes \in Nat

\* "Jamais deux fois": a stage is told once, through any number of passes, unless
\* two passes were on it together or a message that left was never recorded.
OneMailPerStage == \A k \in Keys \ contested : reminded[k] <= 1

\* A row says SENT only of a message the mail server accepted.
SentMeansMailed == \A k \in Keys : Settled(k) => reminded[k] > 0
=============================================================================
