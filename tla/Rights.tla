-------------------------------- MODULE Rights --------------------------------
(***************************************************************************)
(* Collections and access rules together with the offline leases: the      *)
(* rules are edited while leases are issued and played again.              *)
(***************************************************************************)
EXTENDS Integers, FiniteSets

CONSTANTS
    Collections, Socle, Existing, Racine, Absent, Documents, Classes, AnyClass,
    ProfondeurMax, Curators, MaxMoves, MaxRows,               \* Access
    Readers, Ttl, Calls, EmbargoDays, MaxRestores, NoCall,    \* Offline
    MaxDay,         \* bound: days explored
    MaxEdits,       \* bound: what the administration does without phones
    MaxDecisions    \* bound: what it does when there are phones

VARIABLES
    parent, rules, titles, curator,                           \* Access
    clock, classOf, staff, embargo, appareils, lic, phone, call, restores,
    edits,          \* how many times the administration has acted
    lastRight,      \* history: the last day the right was held, or was in doubt
    cause           \* history: the phone may have a reason to drop its copy

Tree == INSTANCE Access
Leases == INSTANCE Offline

ASSUME RightsAssumption ==
    /\ Tree!AccessAssumption
    /\ Leases!OfflineAssumption
    /\ IsFiniteSet(Calls) /\ {MaxDay, MaxEdits, MaxDecisions} \subseteq Nat

access == <<parent, rules, titles, curator>>
offline == <<clock, classOf, staff, embargo, appareils, lic, phone, call, restores>>
vars == <<access, offline, edits, lastRight, cause>>

Pairs == Leases!Pairs

Init ==
    /\ Tree!Init /\ Leases!Init
    /\ edits = 0
    /\ lastRight = [p \in Pairs |-> 0]
    /\ cause = [p \in Pairs |-> FALSE]

-----------------------------------------------------------------------------
(* What an observer notes at each step *)

\* The right is edited while a request of the pair is between its reads: what
\* the request answers is then of no single instant.
Asking(p) == {q \in Calls : call[q].pair = p}
InDoubt(p) ==
    Asking(p) # {} /\ <<rules, titles, classOf, staff, embargo>>'
                        # <<rules, titles, classOf, staff, embargo>>

Issued(p) == \E q \in Asking(p) : call[q].pc = "upsert" /\ call'[q].pc = "answer"

Over(p) == ~Leases!Right(p) \/ lic[p].status = "revoked"

Observe ==
    /\ lastRight' = [p \in Pairs |-> IF Leases!Right(p)' \/ InDoubt(p)
                                     THEN clock' ELSE lastRight[p]]
    /\ cause' = [p \in Pairs |->
          \/ Over(p)' \/ InDoubt(p)
          \/ cause[p] /\ ~(Issued(p) /\ Cardinality(Asking(p)) = 1)]

-----------------------------------------------------------------------------

\* Bounds.  Moves and deletions touch neither rules nor titles, and a propagation
\* acts on them as rules added by hand do: the tree is explored without phones,
\* and the phones over the tree as it is provisioned.
NoPhone == appareils = {}
Edit == /\ edits < (IF NoPhone THEN MaxEdits ELSE MaxDecisions)
        /\ edits' = edits + 1

\* A request counts once, when it comes.
Continued == \E k \in Curators : curator[k] # Tree!Idle /\ curator'[k] # curator[k]

Administer ==
    \/ /\ NoPhone
       /\ Tree!Reshape /\ UNCHANGED offline
       /\ IF Continued THEN UNCHANGED edits ELSE Edit
    \/ Edit /\ Tree!Fill /\ UNCHANGED offline
    \/ Edit /\ Leases!Decide /\ UNCHANGED access

Serve ==
    /\ NoPhone => edits = 0
    /\ Leases!Serve /\ UNCHANGED <<access, edits>>
    /\ clock' <= MaxDay

Next == (Administer \/ Serve) /\ Observe

Spec == Init /\ [][Next]_vars

-----------------------------------------------------------------------------
(* Properties *)

\* A move decided by refusDeDeplacement on rows that creations and deletions change
\* until it is written leaves no cycle and no subtree deeper than the limit, as long
\* as no other move overlaps it.
TreeIsSound == Tree!TreeIsSound

\* removeCollection never takes with it a rule or a document added while it was
\* counting what the collection holds.
DecisionsSurvive == Tree!DecisionsSurvive

\* A copy that can be read without a connection outlives its right by one lease
\* at most, counted from the last day the right was held: the check and the
\* lease may be on the two sides of one midnight.
LossIsBoundedByLease ==
    \A p \in Pairs :
        phone[p].status = "active" /\ phone[p].until >= clock /\ ~Leases!Right(p)
            => clock <= lastRight[p] + Ttl + 1

\* "Inconnue du serveur n'est pas revoquee": a phone drops a copy only after its
\* right was missing, staff revoked it, or the right changed during a request;
\* never because the server lost the licence or an answer was lost.
PurgedForCause ==
    [][\A p \in Pairs : phone[p].status = "active" /\ phone'[p].status = "none"
          => cause[p]]_vars
=============================================================================
