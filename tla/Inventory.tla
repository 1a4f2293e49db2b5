------------------------------ MODULE Inventory ------------------------------
(***************************************************************************)
(* InventoryService (recolement): scanning what is on the shelves, closing *)
(* the session, and marking what was not found.  A request reads the       *)
(* session, then writes without looking at it again.  The status of the    *)
(* copies is the one the lending desk reads and writes.                    *)
(***************************************************************************)
EXTENDS FiniteSets

CONSTANTS
    Items,          \* items (copies)
    Campaigns,      \* inventory_sessions rows that may be created
    ScopeOf,        \* the copies a session covers: all, or those of a location
    Clerks,         \* requests that can be in flight together
    NoCampaign

VARIABLES
    status,         \* items.status, Circulation's
    camp,           \* inventory_sessions.status
    scans,          \* inventory_scans: the copies scanned in each session
    clerk           \* what each request has read, and where it stands

InventoryAssumption ==
    /\ ScopeOf \in [Campaigns -> SUBSET Items]
    /\ NoCampaign \notin Campaigns

CampStatus == {"unused", "OPEN", "CLOSED", "APPLIED"}

\* reads: the queries of classer that have not answered yet; shelf and seen: what
\* the others answered.
Request == [op : {"idle", "scan", "annuler", "close", "reopen", "mark"},
            pc : {"idle", "write", "classer", "apply"},
            n : Campaigns \cup {NoCampaign}, items : SUBSET Items,
            reads : SUBSET {"items", "scans"},
            shelf : SUBSET Items, seen : SUBSET Items]
Idle == [op |-> "idle", pc |-> "idle", n |-> NoCampaign, items |-> {},
         reads |-> {}, shelf |-> {}, seen |-> {}]

Init ==
    /\ camp = [n \in Campaigns |-> "unused"]
    /\ scans = [n \in Campaigns |-> {}]
    /\ clerk = [c \in Clerks |-> Idle]

Enter(c, q) == clerk' = [clerk EXCEPT ![c] = q]
Done(c) == Enter(c, Idle)
Writing(c, op) == clerk[c].op = op /\ clerk[c].pc = "write"

-----------------------------------------------------------------------------
(* Sessions and scans *)

CreateSession(n) ==
    /\ camp[n] = "unused"
    /\ camp' = [camp EXCEPT ![n] = "OPEN"]
    /\ UNCHANGED <<scans, clerk, status>>

\* requireSession: each operation goes on only from the status it accepts.
Accepts(op, st) ==
    CASE op \in {"scan", "annuler", "close"} -> st = "OPEN"
      [] op \in {"reopen", "mark"} -> st = "CLOSED"

Arrive(c, op, n, S) ==
    /\ clerk[c].op = "idle"
    /\ Accepts(op, camp[n])
    /\ Enter(c, [Idle EXCEPT !.op = op, !.n = n, !.items = S,
                   !.pc = IF op = "mark" THEN "classer" ELSE "write",
                   !.reads = IF op = "mark" THEN {"items", "scans"} ELSE {}])
    /\ UNCHANGED <<camp, scans, status>>

\* The unique (session, barcode) makes a second scan of a copy change nothing.
Scan(c) ==
    /\ Writing(c, "scan")
    /\ scans' = [scans EXCEPT ![clerk[c].n] = @ \cup clerk[c].items]
    /\ Done(c)
    /\ UNCHANGED <<camp, status>>

AnnulerScan(c) ==
    /\ Writing(c, "annuler")
    /\ scans' = [scans EXCEPT ![clerk[c].n] = @ \ clerk[c].items]
    /\ Done(c)
    /\ UNCHANGED <<camp, status>>

\* closeSession and reopenSession write the new status whatever it has become.
CloseSession(c) ==
    /\ Writing(c, "close")
    /\ camp' = [camp EXCEPT ![clerk[c].n] = "CLOSED"]
    /\ Done(c)
    /\ UNCHANGED <<scans, status>>

ReopenSession(c) ==
    /\ Writing(c, "reopen")
    /\ camp' = [camp EXCEPT ![clerk[c].n] = "OPEN"]
    /\ Done(c)
    /\ UNCHANGED <<scans, status>>

-----------------------------------------------------------------------------
(* markMissing *)

\* classer sends its two queries together: they answer in any order, and the
\* copies on loan are a legitimate absence.
AfterRead(q, r) == [q EXCEPT !.reads = @ \ {r},
                             !.pc = IF q.reads = {r} THEN "write" ELSE "classer"]

ReadItems(c) ==
    LET q == clerk[c] IN
    /\ "items" \in q.reads
    /\ Enter(c, [AfterRead(q, "items") EXCEPT
                   !.shelf = {i \in ScopeOf[q.n] : status[i] # "CHECKED_OUT"}])
    /\ UNCHANGED <<camp, scans, status>>

ReadScans(c) ==
    LET q == clerk[c] IN
    /\ "scans" \in q.reads
    /\ Enter(c, [AfterRead(q, "scans") EXCEPT !.seen = scans[q.n]])
    /\ UNCHANGED <<camp, scans, status>>

Missing(c) == clerk[c].shelf \ clerk[c].seen

\* Slip: the copies are updated as they were read.
SlipMarkable(i) == TRUE
\* "Ne jamais ecraser un exemplaire redevenu CHECKED_OUT entre-temps".
Markable(i) == status[i] # "CHECKED_OUT"

MarkMissing(c) ==
    /\ Writing(c, "mark")
    /\ status' = [i \in Items |-> IF i \in Missing(c) /\ Markable(i)
                                  THEN "MISSING" ELSE status[i]]
    /\ Enter(c, [clerk[c] EXCEPT !.pc = "apply"])
    /\ UNCHANGED <<camp, scans>>

\* The session is APPLIED after the marking, not before.
Apply(c) ==
    /\ clerk[c].pc = "apply"
    /\ camp' = [camp EXCEPT ![clerk[c].n] = "APPLIED"]
    /\ Done(c)
    /\ UNCHANGED <<scans, status>>

\* A request dies between two statements.
Abort(c) ==
    /\ clerk[c].op # "idle"
    /\ Done(c)
    /\ UNCHANGED <<camp, scans, status>>

-----------------------------------------------------------------------------

\* The statements of a request that has started.
Step(c) ==
    \/ Scan(c) \/ AnnulerScan(c) \/ CloseSession(c) \/ ReopenSession(c)
    \/ ReadItems(c) \/ ReadScans(c) \/ MarkMissing(c) \/ Apply(c)

Next ==
    \/ \E n \in Campaigns : CreateSession(n)
    \/ \E c \in Clerks, n \in Campaigns :
          \/ \E op \in {"close", "reopen", "mark"} : Arrive(c, op, n, {})
          \/ \E op \in {"scan", "annuler"}, i \in Items : Arrive(c, op, n, {i})
    \/ \E c \in Clerks : Step(c) \/ Abort(c)

-----------------------------------------------------------------------------

\* Rows and requests keep the shapes of their tables and of their code.
TypeOK ==
    /\ camp \in [Campaigns -> CampStatus]
    /\ scans \in [Campaigns -> SUBSET Items]
    /\ clerk \in [Clerks -> Request]
=============================================================================
