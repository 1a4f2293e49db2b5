---------------------------- MODULE RightsProofs ----------------------------
(* Theorems about collections, access rules and offline leases, for every   *)
(* school, any number of requests of the administration and of the phones;  *)
(* the tree, for moves that do not overlap.                                *)
EXTENDS Rights, FiniteSetTheorems, TLAPS

-----------------------------------------------------------------------------
(* Collections: what a deletion may take with it *)

Rows == [Collections \X Tree!Labels -> Nat]
Parents == [Collections -> Collections \cup {Racine, Absent}]

\* A deletion is about a collection.
Curated ==
    {f \in [Curators -> Tree!Request] :
        \A k \in Curators : f[k].op = "remove" => f[k].id \in Collections}

AccessType ==
    /\ parent \in Parents
    /\ rules \in Rows
    /\ titles \subseteq Collections \X Documents
    /\ curator \in Curated

\* What no request can do: a rule or a document on a row that is not there.
Grounded == \A c \in Collections : parent[c] = Absent =>
    /\ \A d \in Documents : <<c, d>> \notin titles
    /\ \A l \in Tree!Labels : rules[<<c, l>>] = 0

LEMMA GroundedIsSurviving == ASSUME AccessType PROVE Grounded <=> DecisionsSurvive
  <1>1. \A c \in Collections, l \in Tree!Labels : rules[<<c, l>>] \in Nat
    BY DEF AccessType, Rows
  <1>2. \A c \in Collections, l \in Tree!Labels : rules[<<c, l>>] = 0 <=> ~(rules[<<c, l>>] > 0)
    <2>1. \A n \in Nat : n = 0 <=> ~(n > 0)
      OBVIOUS
    <2>2. QED
      BY <1>1, <2>1, Zenon
  <1>3. \A c \in Collections :
           /\ Tree!Blocks(c, "documents") <=> \E d \in Documents : <<c, d>> \in titles
           /\ Tree!Blocks(c, "regles") <=> \E l \in Tree!Labels : rules[<<c, l>>] > 0
    BY DEF Tree!Blocks
  <1>4. QED
    BY <1>2, <1>3 DEF Grounded, DecisionsSurvive, Tree!DecisionsSurvive

LEMMA IdleType == Tree!Idle \in Tree!Request /\ Tree!Idle.op = "idle"
  BY DEF Tree!Idle, Tree!Request

LEMMA AccessInit == ASSUME Tree!AccessAssumption, Tree!Init PROVE AccessType /\ Grounded
  <1>1. AccessType
    <2>1. curator \in Curated
      BY IdleType DEF Tree!Init, Tree!Idle, Curated
    <2>2. QED
      BY <2>1 DEF Tree!AccessAssumption, Tree!Init, AccessType, Parents, Rows, Tree!Labels
  <1>2. Grounded
    BY DEF Tree!AccessAssumption, Tree!Init, Grounded, Tree!Labels
  <1>3. QED
    BY <1>1, <1>2

\* What fills or empties one collection.
LEMMA FillStep ==
    ASSUME Tree!AccessAssumption, AccessType, Grounded, Tree!Fill
    PROVE  AccessType' /\ Grounded'
  <1>1. ASSUME NEW c \in Collections, NEW d \in Documents,
               Tree!AddRecord(c, d) \/ Tree!RemoveRecord(c, d)
        PROVE  AccessType' /\ Grounded'
    BY <1>1 DEF Tree!AddRecord, Tree!RemoveRecord, Tree!Present, AccessType, Grounded
  <1>2. ASSUME NEW c \in Collections, NEW l \in Tree!Labels, Tree!AddAccessRule(c, l)
        PROVE  AccessType' /\ Grounded'
    BY <1>2 DEF Tree!AddAccessRule, Tree!Present, AccessType, Grounded, Rows
  <1>3. ASSUME NEW c \in Collections, NEW l \in Tree!Labels, Tree!RemoveAccessRule(c, l)
        PROVE  AccessType' /\ Grounded'
    BY <1>3 DEF Tree!RemoveAccessRule, AccessType, Grounded, Rows
  <1>4. QED
    BY <1>1, <1>2, <1>3 DEF Tree!Fill

LEMMA RequestType ==
    ASSUME AccessType, NEW k \in Curators, NEW q \in Tree!Request, Tree!Enter(k, q),
           q.op = "remove" => q.id \in Collections
    PROVE  curator' \in Curated
  BY DEF AccessType, Curated, Tree!Enter

\* Moves, creations, deletions and propagations, whatever they had read.
LEMMA ReshapeStep ==
    ASSUME Tree!AccessAssumption, AccessType, Grounded, Tree!Reshape
    PROVE  AccessType' /\ Grounded'
  <1>1. ASSUME NEW c \in Collections, Tree!CreerCollection(c)
        PROVE  AccessType' /\ Grounded'
    BY <1>1 DEF Tree!AccessAssumption, Tree!CreerCollection, AccessType, Parents, Grounded
  <1>2. ASSUME NEW k \in Curators, NEW q \in Tree!Request, Tree!Enter(k, q),
               q.op = "remove" => q.id \in Collections, UNCHANGED <<parent, rules, titles>>
        PROVE  AccessType' /\ Grounded'
    BY <1>2, RequestType DEF AccessType, Grounded
  <1>3. ASSUME NEW k \in Curators, NEW id \in Collections, NEW to \in Collections \cup {Racine},
               Tree!UpdateCollection(k, id, to)
        PROVE  AccessType' /\ Grounded'
    <2>1. PICK z : z = [Tree!Idle EXCEPT !.op = "move", !.id = id, !.to = to] /\ Tree!Enter(k, z)
      BY <1>3 DEF Tree!UpdateCollection
    <2>2. z \in Tree!Request /\ z.op = "move"
      BY <2>1 DEF Tree!Idle, Tree!Request
    <2>3. QED
      BY <1>2, <1>3, <2>1, <2>2 DEF Tree!UpdateCollection
  <1>4. ASSUME NEW k \in Curators, NEW id \in Collections,
               Tree!RemoveCollection(k, id) \/ Tree!PropagerRegles(k, id)
        PROVE  AccessType' /\ Grounded'
    <2>1. PICK z : /\ \/ z = [Tree!Idle EXCEPT !.op = "remove", !.id = id,
                                 !.todo = {"documents", "regles", "enfants"}]
                      \/ z = [Tree!Idle EXCEPT !.op = "propagate", !.id = id,
                                 !.plan = Tree!Plan(id)]
                   /\ Tree!Enter(k, z)
      BY <1>4 DEF Tree!RemoveCollection, Tree!PropagerRegles
    <2>2. Tree!Plan(id) \subseteq Collections \X Tree!Labels
      BY DEF Tree!Plan, Tree!SousArbre
    <2>3. z \in Tree!Request /\ z.id = id
      BY <2>1, <2>2 DEF Tree!Idle, Tree!Request
    <2>4. QED
      BY <1>2, <1>4, <2>1, <2>3 DEF Tree!RemoveCollection, Tree!PropagerRegles
  <1>5. ASSUME NEW k \in Curators, NEW kind \in {"documents", "regles", "enfants"},
               Tree!Count(k, kind)
        PROVE  AccessType' /\ Grounded'
    <2>1. PICK q \in Tree!Request : q = curator[k] /\ (q.op = "remove" => q.id \in Collections)
      BY DEF AccessType, Curated
    <2>2. PICK z : Tree!Enter(k, z) /\ (z = Tree!Idle \/ z = [q EXCEPT !.todo = @ \ {kind}])
      BY <1>5, <2>1 DEF Tree!Count, Tree!Done
    <2>3. z \in Tree!Request /\ (z.op = "remove" => z.id \in Collections)
      BY <2>1, <2>2, IdleType DEF Tree!Request
    <2>4. QED
      BY <1>2, <1>5, <2>2, <2>3 DEF Tree!Count
  <1>6. ASSUME NEW k \in Curators, Tree!MajCollection(k) \/ Tree!TriggerClimbs(k)
        PROVE  AccessType' /\ Grounded'
    <2>1. PICK q \in Tree!Request : q = curator[k]
      BY DEF AccessType, Curated
    <2>2. ASSUME NEW z, Tree!Present(q.id),
                 z = [q EXCEPT !.op = "climb", !.at = q.to, !.seen = {q.id}]
          PROVE  z \in Tree!Request /\ z.op = "climb"
      BY <2>2 DEF Tree!Present, Tree!Request
    <2>3. ASSUME NEW z, q.at \in Collections, q.op = "climb",
                 z = [q EXCEPT !.at = parent[q.at], !.seen = @ \cup {q.at}]
          PROVE  z \in Tree!Request /\ z.op = "climb"
      BY <2>3 DEF AccessType, Parents, Tree!Request
    <2>4. PICK z \in Tree!Request : Tree!Enter(k, z) /\ z.op # "remove"
      BY <1>6, <2>1, <2>2, <2>3, IdleType DEF Tree!MajCollection, Tree!TriggerClimbs, Tree!Done
    <2>5. QED
      BY <1>2, <1>6, <2>4 DEF Tree!MajCollection, Tree!TriggerClimbs
  <1>7. ASSUME NEW k \in Curators, Tree!EndUpdate(k)
        PROVE  AccessType' /\ Grounded'
    <2>1. curator' \in Curated
      BY <1>7, RequestType, IdleType DEF Tree!EndUpdate, Tree!Done
    <2>2. /\ parent' \in Parents
          /\ \A c \in Collections : parent'[c] = Absent => parent[c] = Absent
      BY <1>7 DEF Tree!AccessAssumption, Tree!EndUpdate, Tree!Present, AccessType, Parents
    <2>3. QED
      BY <1>7, <2>1, <2>2 DEF Tree!EndUpdate, AccessType, Grounded
  <1>8. ASSUME NEW k \in Curators, Tree!Delete(k)
        PROVE  AccessType' /\ Grounded'
    <2> DEFINE id == curator[k].id
    <2>1. curator' \in Curated
      BY <1>8, RequestType, IdleType DEF Tree!Delete, Tree!Done
    <2>2. /\ parent' \in Parents
          /\ \A c \in Collections : parent'[c] = Absent =>
                parent[c] = Absent \/ (c = id /\ ~Tree!Referenced(id))
      BY <1>8 DEF Tree!AccessAssumption, Tree!Delete, AccessType, Parents
    <2>3. ASSUME id \in Collections, ~Tree!Referenced(id)
          PROVE  /\ \A d \in Documents : <<id, d>> \notin titles
                 /\ \A l \in Tree!Labels : rules[<<id, l>>] = 0
      <3>1. ~Tree!Blocks(id, "documents") /\ ~Tree!Blocks(id, "regles")
        BY <2>3 DEF Tree!Referenced
      <3>2. \A l \in Tree!Labels : ~(rules[<<id, l>>] > 0)
        BY <3>1 DEF Tree!Blocks
      <3>3. \A l \in Tree!Labels : rules[<<id, l>>] \in Nat
        BY <2>3 DEF AccessType, Rows
      <3>4. QED
        BY <3>1, <3>2, <3>3 DEF Tree!Blocks
    <2>4. QED
      BY <1>8, <2>1, <2>2, <2>3 DEF Tree!Delete, AccessType, Grounded
  <1>9. ASSUME NEW k \in Curators, Tree!Propagate(k)
        PROVE  AccessType' /\ Grounded'
    <2>1. curator' \in Curated
      BY <1>9, RequestType, IdleType DEF Tree!Propagate, Tree!Done
    <2>2. rules' \in Rows
      BY <1>9 DEF Tree!Propagate, AccessType, Rows
    <2>3. \A c \in Collections, l \in Tree!Labels :
             parent[c] = Absent => rules'[<<c, l>>] = rules[<<c, l>>]
      BY <1>9 DEF Tree!Propagate, Tree!Present, AccessType, Rows
    <2>4. QED
      BY <1>9, <2>1, <2>2, <2>3 DEF Tree!Propagate, AccessType, Grounded
  <1>10. QED
    BY <1>1, <1>3, <1>4, <1>5, <1>6, <1>7, <1>8, <1>9 DEF Tree!Reshape

LEMMA AccessInvariant == Spec => [](AccessType /\ Grounded)
  <1>a. Tree!AccessAssumption
    BY RightsAssumption
  <1>1. Init => AccessType /\ Grounded
    BY <1>a, AccessInit DEF Init
  <1>2. AccessType /\ Grounded /\ [Next]_vars => (AccessType /\ Grounded)'
    <2> SUFFICES ASSUME AccessType, Grounded, [Next]_vars
                 PROVE  AccessType' /\ Grounded'
      OBVIOUS
    <2>1. CASE UNCHANGED access
      BY <2>1 DEF access, AccessType, Grounded
    <2>2. CASE Tree!Reshape \/ Tree!Fill
      BY <1>a, <2>2, ReshapeStep, FillStep
    <2>3. QED
      BY <2>1, <2>2 DEF Next, Administer, Serve, vars, access
  <1>3. QED
    BY <1>1, <1>2, PTL DEF Spec

\* "Une cascade emporterait des regles d'acces, c'est-a-dire des decisions":
\* whatever removeCollection counted, and whatever was added or propagated since,
\* nothing that was decided goes with the row.
THEOREM NoDecisionLost == Spec => []DecisionsSurvive
  <1>1. AccessType /\ Grounded => DecisionsSurvive
    BY GroundedIsSurviving
  <1>2. QED
    BY <1>1, AccessInvariant, PTL

-----------------------------------------------------------------------------
(* Offline leases: the invariant *)

OfflineType ==
    /\ clock \in Nat
    /\ classOf \in [Readers -> Classes]
    /\ embargo \in [Documents -> Nat]
    /\ lic \in [Pairs -> Leases!Licence]
    /\ phone \in [Pairs -> Leases!Licence]
    /\ call \in [Calls -> Leases!Request]
    /\ lastRight \in [Pairs -> Nat] /\ cause \in [Pairs -> BOOLEAN]

\* A request is about a pair, and may see one midnight.
Asks(q) ==
    /\ call[q].op = "idle" => call[q].pc = "idle"
    /\ call[q].op # "idle" => /\ call[q].pair \in Pairs
                              /\ call[q].day <= clock /\ clock <= call[q].day + 1

\* What a request has read to issue a lease was true of the right when it was
\* read: the right was held since, or was edited, or what was read still holds.
Allowed(p) == p[1] \in staff \/ Leases!Reached(p[2], classOf[p[1]])
IssueInv(q) == call[q].op = "issue" =>
    LET r == call[q]  p == call[q].pair IN
    /\ r.pc # "revoke"
    /\ r.pc \in {"embargo", "regles"} => lastRight[p] >= r.day \/ r.class = classOf[p[1]]
    /\ r.pc = "embargoEncore" => lastRight[p] >= r.day \/ Allowed(p)
    /\ r.pc = "upsert" => lastRight[p] >= r.day
    /\ r.pc = "answer" => r.until <= lastRight[p] + Ttl + 1

\* What leads a replay to revoke is a cause, now or later.
ReplayInv(q) == call[q].op = "replay" =>
    LET r == call[q]  p == call[q].pair IN
    /\ r.pc # "upsert"
    /\ r.pc = "classe" => cause[p] \/ p[1] \notin staff
    /\ r.pc \in {"embargo", "regles"} =>
          cause[p] \/ (r.class = classOf[p[1]] /\ p[1] \notin staff)
    /\ r.pc = "revoke" => cause[p]
    /\ r.pc = "answer" /\ r.verdict = "revoked" => cause[p]

CallInv(q) == Asks(q) /\ IssueInv(q) /\ ReplayInv(q)

\* A lease on a phone was counted from a day of the right, or from the next.
LeaseInv(p) ==
    /\ lastRight[p] <= clock
    /\ phone[p].status = "active" => phone[p].until <= lastRight[p] + Ttl + 1

OfflineInv ==
    OfflineType /\ (\A q \in Calls : CallInv(q)) /\ (\A p \in Pairs : LeaseInv(p))

\* What the right is made of, the day apart.
rights == <<rules, titles, classOf, staff, embargo>>

-----------------------------------------------------------------------------
(* What the observer notes *)

LEMMA Observed ==
    ASSUME OfflineInv, Observe, clock' \in Nat, clock' >= clock, NEW p \in Pairs
    PROVE  /\ lastRight'[p] >= lastRight[p] /\ lastRight'[p] <= clock'
           /\ Leases!Right(p)' \/ InDoubt(p) => lastRight'[p] = clock'
           /\ ~Leases!Right(p)' \/ (lic[p].status = "revoked")' \/ InDoubt(p) => cause'[p]
  <1>1. lastRight[p] \in Nat /\ lastRight[p] <= clock /\ clock \in Nat
    BY DEF OfflineInv, OfflineType, LeaseInv
  <1>2. lastRight'[p] = IF Leases!Right(p)' \/ InDoubt(p) THEN clock' ELSE lastRight[p]
    BY DEF Observe
  <1>3. cause'[p] = \/ Over(p)' \/ InDoubt(p)
                    \/ cause[p] /\ ~(Issued(p) /\ Cardinality(Asking(p)) = 1)
    BY DEF Observe
  <1>4. lastRight'[p] >= lastRight[p] /\ lastRight'[p] <= clock'
    BY <1>1, <1>2
  <1>5. ~Leases!Right(p)' \/ (lic[p].status = "revoked")' => Over(p)'
    BY DEF Over
  <1>6. QED
    BY <1>2, <1>3, <1>4, <1>5, Zenon

LEMMA ObservedType ==
    ASSUME OfflineInv, Observe, clock' \in Nat
    PROVE  lastRight' \in [Pairs -> Nat] /\ cause' \in [Pairs -> BOOLEAN]
  <1>1. lastRight' \in [Pairs -> Nat]
    BY DEF OfflineInv, OfflineType, Observe
  <1>2. cause' \in [Pairs -> BOOLEAN]
    BY Zenon DEF Observe
  <1>3. QED
    BY <1>1, <1>2

\* A cause lasts as long as a replay of its pair is in flight: only the one
\* request of the pair may issue it away.
LEMMA CauseKept ==
    ASSUME IsFiniteSet(Calls), OfflineInv, Observe, NEW q \in Calls, call[q].op = "replay",
           call[q].pair \in Pairs, cause[call[q].pair]
    PROVE  cause'[call[q].pair]
  <1> DEFINE p == call[q].pair
  <1>1. q \in Asking(p)
    BY DEF Asking
  <1>2. ASSUME Issued(p), Cardinality(Asking(p)) = 1
        PROVE  FALSE
    <2>1. IsFiniteSet(Asking(p))
      BY FS_Subset DEF Asking
    <2>2. PICK x : Asking(p) = {x}
      BY <1>2, <2>1, FS_Singleton
    <2>3. call[q].pc = "upsert"
      BY <1>1, <1>2, <2>2 DEF Issued
    <2>4. QED
      BY <2>3 DEF OfflineInv, CallInv, ReplayInv
  <1>3. \A x \in Pairs : cause[x] /\ ~(Issued(x) /\ Cardinality(Asking(x)) = 1) => cause'[x]
    BY Zenon DEF Observe
  <1>4. QED
    BY <1>2, <1>3, Zenon

\* A request that waits while nothing of its right is edited.
LEMMA Waits ==
    ASSUME IsFiniteSet(Calls), OfflineInv, Observe, UNCHANGED rights,
           clock' \in Nat, clock' >= clock, Ttl \in Nat, NEW q \in Calls, call'[q] = call[q]
    PROVE  IssueInv(q)' /\ ReplayInv(q)'
  <1> DEFINE p == call[q].pair
  <1>1. call[q] \in Leases!Request /\ Asks(q) /\ IssueInv(q) /\ ReplayInv(q)
    BY DEF OfflineInv, OfflineType, CallInv
  <1>2. ASSUME call[q].op = "issue"
        PROVE  IssueInv(q)'
    <2>1. p \in Pairs /\ call[q].day \in Nat /\ call[q].until \in Nat
      BY <1>1, <1>2 DEF Asks, Leases!Request
    <2>2. lastRight'[p] >= lastRight[p]
      BY <2>1, Observed
    <2>3. lastRight'[p] \in Nat /\ lastRight[p] \in Nat
      BY <2>1, ObservedType DEF OfflineInv, OfflineType
    <2>4. /\ lastRight[p] >= call[q].day => lastRight'[p] >= call[q].day
          /\ call[q].until <= lastRight[p] + Ttl + 1 => call[q].until <= lastRight'[p] + Ttl + 1
      BY <2>1, <2>2, <2>3
    <2>5. QED
      BY <1>1, <2>4 DEF IssueInv, Allowed, rights, Leases!Reached, Leases!HasAccessViaRules
  <1>3. ASSUME call[q].op = "replay"
        PROVE  ReplayInv(q)'
    <2>1. p \in Pairs
      BY <1>1, <1>3 DEF Asks
    <2>2. cause[p] => cause'[p]
      BY <1>3, <2>1, CauseKept
    <2>3. QED
      BY <1>1, <2>2 DEF ReplayInv, rights
  <1>4. QED
    BY <1>2, <1>3 DEF IssueInv, ReplayInv

\* A request that waits while its right is edited: the day counts.
LEMMA Doubts ==
    ASSUME OfflineInv, Observe, UNCHANGED <<call, clock>>, rights' # rights, Ttl \in Nat,
           NEW q \in Calls
    PROVE  IssueInv(q)' /\ ReplayInv(q)'
  <1> DEFINE p == call[q].pair
  <1>1. call[q] \in Leases!Request /\ Asks(q) /\ IssueInv(q) /\ ReplayInv(q)
    BY DEF OfflineInv, OfflineType, CallInv
  <1>2. ASSUME call[q].op # "idle"
        PROVE  IssueInv(q)' /\ ReplayInv(q)'
    <2>1. p \in Pairs /\ call[q].day \in Nat /\ call[q].until \in Nat /\ clock \in Nat
      BY <1>1, <1>2 DEF Asks, Leases!Request, OfflineInv, OfflineType
    <2>2. InDoubt(p)
      <3>1. q \in Asking(p)
        BY DEF Asking
      <3>2. QED
        BY <3>1 DEF InDoubt, rights
    <2>3. lastRight'[p] = clock /\ cause'[p] /\ lastRight'[p] >= lastRight[p]
      BY <2>1, <2>2, Observed
    <2>4. lastRight[p] \in Nat
      BY <2>1 DEF OfflineInv, OfflineType
    <2>5. /\ lastRight'[p] >= call[q].day
          /\ call[q].until <= lastRight[p] + Ttl + 1 => call[q].until <= lastRight'[p] + Ttl + 1
      BY <1>1, <1>2, <2>1, <2>3, <2>4 DEF Asks
    <2>6. QED
      BY <1>1, <2>3, <2>5 DEF IssueInv, ReplayInv
  <1>3. QED
    BY <1>2 DEF IssueInv, ReplayInv

-----------------------------------------------------------------------------
(* One request moves *)

\* q becomes r, and the others stay where they are.
LEMMA Entered ==
    ASSUME OfflineType, NEW q \in Calls, NEW r \in Leases!Request, Leases!Enter(q, r)
    PROVE  /\ call' \in [Calls -> Leases!Request] /\ call'[q] = r
           /\ \A o \in Calls \ {q} : call'[o] = call[o]
  BY DEF OfflineType, Leases!Enter

LEMMA Gone ==
    ASSUME OfflineType, NEW q \in Calls, Leases!Done(q)
    PROVE  /\ call' \in [Calls -> Leases!Request]
           /\ call'[q].op = "idle" /\ call'[q].pc = "idle"
           /\ \A o \in Calls \ {q} : call'[o] = call[o]
  <1>1. Leases!Idle \in Leases!Request /\ Leases!Idle.op = "idle" /\ Leases!Idle.pc = "idle"
    BY DEF Leases!Idle, Leases!Request, Leases!Steps
  <1>2. QED
    BY <1>1, Entered DEF Leases!Done

LEMMA GoneOn ==
    ASSUME OfflineType, NEW q \in Calls, NEW pc \in Leases!Steps, Leases!Goto(q, pc)
    PROVE  /\ call' \in [Calls -> Leases!Request]
           /\ call'[q] = [call[q] EXCEPT !.pc = pc]
           /\ call'[q].pc = pc
           /\ call'[q].op = call[q].op /\ call'[q].pair = call[q].pair
           /\ call'[q].day = call[q].day /\ call'[q].class = call[q].class
           /\ call'[q].until = call[q].until /\ call'[q].verdict = call[q].verdict
           /\ \A o \in Calls \ {q} : call'[o] = call[o]
  <1>1. call[q] \in Leases!Request
    BY DEF OfflineType
  <1>2. [call[q] EXCEPT !.pc = pc] \in Leases!Request
    BY <1>1 DEF Leases!Request
  <1>3. QED
    BY <1>1, <1>2, Entered DEF Leases!Goto, Leases!Request

\* A step of a request, on what only it writes; what it puts on a phone is counted
\* from a day of the right.
LEMMA Delivers ==
    ASSUME IsFiniteSet(Calls), Ttl \in Nat, OfflineInv, Observe,
           UNCHANGED <<rights, clock>>, NEW q \in Calls,
           call' \in [Calls -> Leases!Request], \A o \in Calls \ {q} : call'[o] = call[o],
           lic' \in [Pairs -> Leases!Licence], phone' \in [Pairs -> Leases!Licence],
           \A p \in Pairs : \/ phone'[p] = phone[p] \/ phone'[p].status = "none"
                           \/ phone'[p].until <= lastRight'[p] + Ttl + 1,
           CallInv(q)'
    PROVE  OfflineInv'
  <1>1. OfflineType'
    BY ObservedType DEF OfflineInv, OfflineType, rights
  <1>2. ASSUME NEW o \in Calls \ {q}
        PROVE  CallInv(o)'
    <2>1. IssueInv(o)' /\ ReplayInv(o)'
      BY <1>2, Waits DEF OfflineInv, OfflineType
    <2>2. Asks(o)'
      BY <1>2 DEF OfflineInv, CallInv, Asks
    <2>3. QED
      BY <2>1, <2>2 DEF CallInv
  <1>3. ASSUME NEW p \in Pairs
        PROVE  LeaseInv(p)'
    <2>1. lastRight'[p] >= lastRight[p] /\ lastRight'[p] <= clock'
      BY Observed DEF OfflineInv, OfflineType
    <2>2. lastRight'[p] \in Nat /\ lastRight[p] \in Nat /\ phone[p].until \in Nat
      BY <1>1 DEF OfflineInv, OfflineType, Leases!Licence
    <2>3. QED
      BY <2>1, <2>2 DEF OfflineInv, LeaseInv
  <1>4. QED
    BY <1>1, <1>2, <1>3 DEF OfflineInv, Pairs

LEMMA Serves ==
    ASSUME IsFiniteSet(Calls), Ttl \in Nat, OfflineInv, Observe,
           UNCHANGED <<rights, clock>>, NEW q \in Calls,
           call' \in [Calls -> Leases!Request], \A o \in Calls \ {q} : call'[o] = call[o],
           lic' \in [Pairs -> Leases!Licence], phone' = phone,
           CallInv(q)'
    PROVE  OfflineInv'
  BY Delivers DEF OfflineInv, OfflineType

\* What every step of a request leaves alone, and what it may rely on.
OneStep(q) ==
    /\ IsFiniteSet(Calls) /\ Ttl \in Nat
    /\ OfflineInv /\ Observe /\ UNCHANGED <<rights, clock>> /\ q \in Calls

LEMMA Facts ==
    ASSUME NEW q \in Calls, OneStep(q), call[q].op # "idle"
    PROVE  LET r == call[q]  p == call[q].pair IN
           /\ r \in Leases!Request /\ p \in Pairs
           /\ clock \in Nat /\ r.day \in Nat /\ r.until \in Nat
           /\ lastRight[p] \in Nat /\ lastRight'[p] \in Nat /\ lastRight'[p] >= lastRight[p]
           /\ r.day <= clock /\ clock <= r.day + 1
           /\ IssueInv(q) /\ ReplayInv(q)
           /\ r.op = "replay" /\ cause[p] => cause'[p]
           /\ Leases!Right(p) => lastRight'[p] = clock
           /\ ~Leases!Right(p) => cause'[p]
  <1> DEFINE r == call[q]
             p == r.pair
  <1>1. r \in Leases!Request /\ CallInv(q)
    BY DEF OneStep, OfflineInv, OfflineType
  <1>2. p \in Pairs /\ r.day \in Nat /\ r.until \in Nat /\ clock \in Nat
    BY <1>1 DEF CallInv, Asks, Leases!Request, OneStep, OfflineInv, OfflineType
  <1>3. r.day <= clock /\ clock <= r.day + 1 /\ IssueInv(q) /\ ReplayInv(q)
    BY <1>1 DEF CallInv, Asks
  <1>4. lastRight[p] \in Nat /\ lastRight'[p] \in Nat
    BY <1>2, ObservedType DEF OneStep, OfflineInv, OfflineType
  <1>5. ASSUME NEW x \in Pairs
        PROVE  /\ lastRight'[x] >= lastRight[x]
               /\ Leases!Right(x) => lastRight'[x] = clock
               /\ ~Leases!Right(x) => cause'[x]
    <2>1. Leases!Right(x)' <=> Leases!Right(x)
      BY DEF OneStep, rights, Leases!Right, Leases!SousEmbargo, Leases!Reached,
             Leases!HasAccessViaRules
    <2>2. clock' = clock /\ clock' \in Nat /\ clock' >= clock
      BY <1>2 DEF OneStep
    <2>3. QED
      BY <2>1, <2>2, Observed DEF OneStep
  <1>6. r.op = "replay" /\ cause[p] => cause'[p]
    BY <1>2, CauseKept DEF OneStep
  <1>7. QED
    BY <1>1, <1>2, <1>3, <1>4, <1>5, <1>6

LEMMA Ends ==
    ASSUME NEW q \in Calls, OneStep(q), Leases!Done(q),
           lic' \in [Pairs -> Leases!Licence], UNCHANGED phone
    PROVE  OfflineInv'
  <1>1. CallInv(q)'
    BY Gone DEF OneStep, OfflineInv, CallInv, Asks, IssueInv, ReplayInv
  <1>2. QED
    BY <1>1, Gone, Serves DEF OneStep, OfflineInv

LEMMA Goes ==
    ASSUME NEW q \in Calls, OneStep(q), call[q].op # "idle",
           NEW pc \in Leases!Steps, Leases!Goto(q, pc), UNCHANGED <<lic, phone>>,
           (IssueInv(q) /\ ReplayInv(q))'
    PROVE  OfflineInv'
  <1>1. CallInv(q)'
    BY GoneOn DEF OneStep, OfflineInv, CallInv, Asks
  <1>2. QED
    BY <1>1, GoneOn, Serves DEF OneStep, OfflineInv, OfflineType

\* Refused: an issue ends; a replay goes on to revoke, and the right is missing.
LEMMA Refused ==
    ASSUME NEW q \in Calls, OneStep(q), call[q].op \in {"issue", "replay"},
           Leases!Refuse(q), UNCHANGED <<lic, phone>>,
           call[q].op = "replay" => cause'[call[q].pair]
    PROVE  OfflineInv'
  <1>1. CASE call[q].op = "issue"
    BY <1>1, Ends DEF Leases!Refuse, OneStep, OfflineInv, OfflineType
  <1>2. CASE call[q].op = "replay"
    <2>1. Leases!Goto(q, "revoke") /\ "revoke" \in Leases!Steps
      BY <1>2 DEF Leases!Refuse, Leases!Steps
    <2>2. /\ call'[q].pc = "revoke" /\ call'[q].op = "replay"
          /\ call'[q].pair = call[q].pair
      BY <1>2, <2>1, GoneOn DEF OneStep, OfflineInv
    <2>3. IssueInv(q)' /\ ReplayInv(q)'
      BY <1>2, <2>2 DEF IssueInv, ReplayInv
    <2>4. QED
      BY <1>2, <2>1, <2>3, Goes
  <1>3. QED
    BY <1>1, <1>2

LEMMA FonctionStep ==
    ASSUME NEW q \in Calls, OneStep(q), Leases!Fonction(q)
    PROVE  OfflineInv'
  <1>i. call[q].op # "idle"
    BY DEF OneStep, OfflineInv, CallInv, Asks, Leases!Fonction, Leases!At
  <1> DEFINE pc == IF Leases!Reader(q) \in staff THEN "embargoEncore" ELSE "classe"
  <1>1. Leases!Goto(q, pc) /\ pc \in Leases!Steps
    BY DEF Leases!Fonction, Leases!Steps
  <1>2. /\ call'[q].pc = pc /\ call'[q].op = call[q].op /\ call'[q].pair = call[q].pair
        /\ staff' = staff
    BY <1>1, GoneOn DEF OneStep, OfflineInv, rights
  <1>3. IssueInv(q)' /\ ReplayInv(q)'
    BY <1>2 DEF IssueInv, ReplayInv, Allowed, Leases!Reader
  <1>4. QED
    BY <1>i, <1>1, <1>3, Goes DEF Leases!Fonction

LEMMA ClasseStep ==
    ASSUME NEW q \in Calls, OneStep(q), Leases!Classe(q)
    PROVE  OfflineInv'
  <1>i. call[q].op # "idle" /\ call[q].pc = "classe"
    BY DEF OneStep, OfflineInv, CallInv, Asks, Leases!Classe, Leases!At
  <1> DEFINE p == call[q].pair
             r == [call[q] EXCEPT !.pc = "embargo", !.class = classOf[p[1]]]
  <1>1. r \in Leases!Request
    <2>1. p \in Pairs /\ call[q] \in Leases!Request
      BY <1>i, Facts
    <2>2. classOf[p[1]] \in Classes
      BY <2>1 DEF OneStep, OfflineInv, OfflineType, Pairs, Leases!Pairs
    <2>3. QED
      BY <2>1, <2>2 DEF Leases!Request, Leases!Steps
  <1>2. /\ call' \in [Calls -> Leases!Request] /\ call'[q] = r
        /\ \A o \in Calls \ {q} : call'[o] = call[o]
    BY <1>1, Entered DEF Leases!Classe, Leases!Reader, OneStep, OfflineInv
  <1>3. /\ call'[q].pc = "embargo" /\ call'[q].op = call[q].op /\ call'[q].pair = p
        /\ call'[q].class = classOf[p[1]] /\ call'[q].day = call[q].day
    BY <1>i, <1>2, Facts DEF Leases!Request
  <1>4. classOf' = classOf /\ staff' = staff /\ clock' = clock
    BY DEF OneStep, rights
  <1>5. ReplayInv(q)'
    BY <1>i, <1>3, <1>4, Facts DEF ReplayInv
  <1>6. CallInv(q)'
    BY <1>i, <1>3, <1>4, <1>5, Facts DEF CallInv, Asks, IssueInv
  <1>7. QED
    BY <1>2, <1>6, Serves DEF OneStep, OfflineInv, OfflineType, Leases!Classe

\* A request at one of the checks is an issue or a replay.
LEMMA Started ==
    ASSUME NEW q \in Calls, OneStep(q), call[q].pc # "idle"
    PROVE  call[q].op \in {"issue", "replay"}
  BY DEF OneStep, OfflineInv, OfflineType, CallInv, Asks, Leases!Request

LEMMA EmbargoStep ==
    ASSUME NEW q \in Calls, OneStep(q), Leases!Embargo(q)
    PROVE  OfflineInv'
  <1> DEFINE p == call[q].pair
  <1>i. call[q].op \in {"issue", "replay"} /\ call[q].pc = "embargo"
    BY Started DEF Leases!Embargo, Leases!At
  <1>1. CASE Leases!SousEmbargo(p[2])
    <2>1. ~Leases!Right(p)
      BY <1>1 DEF Leases!Right
    <2>2. cause'[p]
      BY <1>i, <2>1, Facts
    <2>3. QED
      BY <1>i, <1>1, <2>2, Refused DEF Leases!Embargo, Leases!Document
  <1>2. CASE ~Leases!SousEmbargo(p[2])
    <2>1. Leases!Goto(q, "regles") /\ "regles" \in Leases!Steps
      BY <1>2 DEF Leases!Embargo, Leases!Document, Leases!Steps
    <2>2. /\ call'[q].pc = "regles" /\ call'[q].op = call[q].op /\ call'[q].pair = p
          /\ call'[q].class = call[q].class /\ call'[q].day = call[q].day
          /\ staff' = staff /\ classOf' = classOf
      BY <2>1, GoneOn DEF OneStep, OfflineInv, rights
    <2>3. IssueInv(q)'
      <3>1. ASSUME call[q].op = "issue"
            PROVE  lastRight'[p] >= call[q].day \/ call[q].class = classOf[p[1]]
        BY <1>i, <3>1, Facts DEF IssueInv
      <3>2. QED
        BY <2>2, <3>1 DEF IssueInv
    <2>4. ReplayInv(q)'
      BY <1>i, <2>2, Facts DEF ReplayInv
    <2>5. QED
      BY <1>i, <2>1, <2>3, <2>4, Goes DEF Leases!Embargo
  <1>3. QED
    BY <1>1, <1>2

LEMMA ReglesStep ==
    ASSUME NEW q \in Calls, OneStep(q), Leases!Regles(q)
    PROVE  OfflineInv'
  <1> DEFINE p == call[q].pair
  <1>i. call[q].op \in {"issue", "replay"} /\ call[q].pc = "regles"
    BY Started DEF Leases!Regles, Leases!At
  <1>g. Leases!Granted(q) <=> Leases!Reached(p[2], call[q].class)
    BY DEF Leases!Granted, Leases!Document
  <1>1. CASE ~Leases!Granted(q)
    <2>1. ASSUME call[q].op = "replay"
          PROVE  cause'[p]
      <3>1. cause[p] \/ (call[q].class = classOf[p[1]] /\ p[1] \notin staff)
        BY <1>i, <2>1, Facts DEF ReplayInv
      <3>2. cause[p] \/ ~Leases!Right(p)
        BY <1>1, <1>g, <3>1 DEF Leases!Right
      <3>3. QED
        BY <1>i, <2>1, <3>2, Facts
    <2>2. QED
      BY <1>i, <1>1, <2>1, Refused DEF Leases!Regles
  <1>2. CASE Leases!Granted(q)
    <2>1. Leases!Goto(q, "embargoEncore") /\ "embargoEncore" \in Leases!Steps
      BY <1>2 DEF Leases!Regles, Leases!Steps
    <2>2. /\ call'[q].pc = "embargoEncore" /\ call'[q].op = call[q].op /\ call'[q].pair = p
          /\ call'[q].day = call[q].day
      BY <2>1, GoneOn DEF OneStep, OfflineInv
    <2>3. Leases!Reached(p[2], classOf[p[1]]) => Allowed(call[q].pair)'
      BY <2>2 DEF OneStep, rights, Allowed, Leases!Reached, Leases!HasAccessViaRules
    <2>4. IssueInv(q)'
      <3>1. ASSUME call[q].op = "issue"
            PROVE  lastRight'[p] >= call[q].day \/ Allowed(call[q].pair)'
        <4>1. lastRight[p] >= call[q].day \/ call[q].class = classOf[p[1]]
          BY <1>i, <3>1, Facts DEF IssueInv
        <4>2. lastRight[p] >= call[q].day => lastRight'[p] >= call[q].day
          BY <1>i, Facts
        <4>3. QED
          BY <1>2, <1>g, <2>3, <4>1, <4>2
      <3>2. QED
        BY <2>2, <3>1 DEF IssueInv
    <2>5. ReplayInv(q)'
      BY <2>2 DEF ReplayInv
    <2>6. QED
      BY <1>i, <2>1, <2>4, <2>5, Goes DEF Leases!Regles
  <1>3. QED
    BY <1>1, <1>2

LEMMA EmbargoEncoreStep ==
    ASSUME NEW q \in Calls, OneStep(q), Leases!EmbargoEncore(q)
    PROVE  OfflineInv'
  <1> DEFINE p == call[q].pair
  <1>i. call[q].op \in {"issue", "replay"} /\ call[q].pc = "embargoEncore"
    BY Started DEF Leases!EmbargoEncore, Leases!At
  <1>1. CASE Leases!SousEmbargo(p[2])
    <2>1. ~Leases!Right(p)
      BY <1>1 DEF Leases!Right
    <2>2. cause'[p]
      BY <1>i, <2>1, Facts
    <2>3. QED
      BY <1>i, <1>1, <2>2, Refused DEF Leases!EmbargoEncore, Leases!Document
  <1>2. CASE ~Leases!SousEmbargo(p[2])
    <2>g. Leases!Grant(q)
      BY <1>2 DEF Leases!EmbargoEncore, Leases!Document
    <2>1. CASE call[q].op = "issue"
      <3>1. Leases!Goto(q, "upsert") /\ "upsert" \in Leases!Steps
        BY <2>g, <2>1 DEF Leases!Grant, Leases!Steps
      <3>2. /\ call'[q].pc = "upsert" /\ call'[q].op = "issue" /\ call'[q].pair = p
            /\ call'[q].day = call[q].day
        BY <2>1, <3>1, GoneOn DEF OneStep, OfflineInv
      <3>3. lastRight'[p] >= call[q].day
        <4>1. lastRight[p] >= call[q].day \/ Allowed(p)
          BY <1>i, <2>1, Facts DEF IssueInv
        <4>2. Allowed(p) => Leases!Right(p)
          BY <1>2 DEF Allowed, Leases!Right
        <4>3. QED
          BY <1>i, <4>1, <4>2, Facts
      <3>4. IssueInv(q)' /\ ReplayInv(q)'
        BY <3>2, <3>3 DEF IssueInv, ReplayInv
      <3>5. QED
        BY <1>i, <3>1, <3>4, Goes DEF Leases!EmbargoEncore
    <2>2. CASE call[q].op = "replay"
      <3> DEFINE r == [call[q] EXCEPT !.pc = "answer", !.verdict = "active"]
      <3>0. call[q] \in Leases!Request
        BY <1>i, Facts
      <3>1. /\ r \in Leases!Request /\ r.op = "replay" /\ r.pc = "answer"
            /\ r.verdict = "active" /\ r.pair = p /\ r.day = call[q].day
        BY <2>2, <3>0 DEF Leases!Request, Leases!Steps
      <3> HIDE DEF r
      <3>2. Leases!Enter(q, r)
        BY <2>g, <2>2 DEF Leases!Grant, r
      <3>3. /\ call' \in [Calls -> Leases!Request] /\ call'[q] = r
            /\ \A o \in Calls \ {q} : call'[o] = call[o]
        BY <3>1, <3>2, Entered DEF OneStep, OfflineInv
      <3>4. Asks(q)'
        BY <1>i, <3>1, <3>3, Facts DEF Asks, OneStep
      <3>5. IssueInv(q)' /\ ReplayInv(q)'
        BY <3>1, <3>3 DEF IssueInv, ReplayInv
      <3>6. QED
        BY <3>3, <3>4, <3>5, Serves DEF CallInv, OneStep, OfflineInv, OfflineType,
                                        Leases!EmbargoEncore
    <2>3. QED
      BY <1>i, <2>1, <2>2
  <1>3. QED
    BY <1>1, <1>2

LEMMA UpsertStep ==
    ASSUME NEW q \in Calls, OneStep(q), Leases!Upsert(q)
    PROVE  OfflineInv'
  <1> DEFINE p == call[q].pair
             r == [call[q] EXCEPT !.pc = "answer", !.until = clock + Ttl, !.verdict = "active"]
  <1>i. call[q].op \in {"issue", "replay"} /\ call[q].pc = "upsert"
    BY Started DEF Leases!Upsert, Leases!At
  <1>o. call[q].op = "issue"
    BY <1>i, Facts DEF ReplayInv
  <1>0. call[q] \in Leases!Request /\ clock + Ttl \in Nat
    BY <1>i, Facts DEF OneStep
  <1>1. /\ r \in Leases!Request /\ r.op = "issue" /\ r.pc = "answer"
        /\ r.until = clock + Ttl /\ r.pair = p /\ r.day = call[q].day
    BY <1>o, <1>0 DEF Leases!Request, Leases!Steps
  <1> HIDE DEF r
  <1>2. Leases!Enter(q, r)
    BY DEF Leases!Upsert, r
  <1>3. /\ call' \in [Calls -> Leases!Request] /\ call'[q] = r
        /\ \A o \in Calls \ {q} : call'[o] = call[o]
    BY <1>1, <1>2, Entered DEF OneStep, OfflineInv
  <1>4. Asks(q)'
    BY <1>i, <1>1, <1>3, Facts DEF Asks, OneStep
  <1>5. clock + Ttl <= lastRight'[p] + Ttl + 1
    <2>1. lastRight[p] >= call[q].day
      BY <1>i, <1>o, Facts DEF IssueInv
    <2>2. QED
      BY <1>i, <2>1, Facts DEF OneStep
  <1>6. IssueInv(q)' /\ ReplayInv(q)'
    BY <1>1, <1>3, <1>5 DEF IssueInv, ReplayInv
  <1>7. lic' \in [Pairs -> Leases!Licence]
    <2>1. [status |-> "active", until |-> clock + Ttl] \in Leases!Licence
      BY <1>0 DEF Leases!Licence
    <2>2. QED
      BY <2>1 DEF Leases!Upsert, OneStep, OfflineInv, OfflineType
  <1>8. QED
    BY <1>3, <1>4, <1>6, <1>7, Serves DEF CallInv, OneStep, Leases!Upsert

LEMMA CutStep ==
    ASSUME NEW q \in Calls, OneStep(q), Leases!Cut(q)
    PROVE  OfflineInv'
  <1> DEFINE p == call[q].pair
             r == [call[q] EXCEPT !.pc = "answer", !.verdict = "revoked"]
  <1>i. call[q].op \in {"issue", "replay"} /\ call[q].pc = "revoke"
    BY Started DEF Leases!Cut, Leases!At
  <1>o. call[q].op = "replay"
    BY <1>i, Facts DEF IssueInv
  <1>0. call[q] \in Leases!Request
    BY <1>i, Facts
  <1>1. /\ r \in Leases!Request /\ r.op = "replay" /\ r.pc = "answer"
        /\ r.pair = p /\ r.day = call[q].day
    BY <1>o, <1>0 DEF Leases!Request, Leases!Steps
  <1> HIDE DEF r
  <1>2. Leases!Enter(q, r)
    BY DEF Leases!Cut, r
  <1>3. /\ call' \in [Calls -> Leases!Request] /\ call'[q] = r
        /\ \A o \in Calls \ {q} : call'[o] = call[o]
    BY <1>1, <1>2, Entered DEF OneStep, OfflineInv
  <1>4. Asks(q)'
    BY <1>i, <1>1, <1>3, Facts DEF Asks, OneStep
  <1>5. cause'[p]
    BY <1>i, <1>o, Facts DEF ReplayInv
  <1>6. IssueInv(q)' /\ ReplayInv(q)'
    BY <1>1, <1>3, <1>5 DEF IssueInv, ReplayInv
  <1>7. lic' \in [Pairs -> Leases!Licence]
    BY DEF Leases!Cut, Leases!Licence, OneStep, OfflineInv, OfflineType
  <1>8. QED
    BY <1>3, <1>4, <1>6, <1>7, Serves DEF CallInv, OneStep, Leases!Cut

LEMMA AnswerStep ==
    ASSUME NEW q \in Calls, OneStep(q), Leases!Answer(q)
    PROVE  OfflineInv'
  <1> DEFINE p == call[q].pair
  <1>i. call[q].op \in {"issue", "replay"} /\ call[q].pc = "answer"
    BY Started DEF Leases!Answer, Leases!At
  <1>c. Leases!Done(q) /\ lic' = lic
    BY DEF Leases!Answer
  <1>d. CallInv(q)'
    BY <1>c, Gone DEF OneStep, OfflineInv, CallInv, Asks, IssueInv, ReplayInv
  <1>p. phone \in [Pairs -> Leases!Licence] /\ lic \in [Pairs -> Leases!Licence] /\ p \in Pairs
    BY <1>i, Facts DEF OneStep, OfflineInv, OfflineType
  <1>1. CASE call[q].op = "issue"
    <2> DEFINE got == [status |-> "active", until |-> call[q].until]
    <2>1. phone' = [phone EXCEPT ![p] = got]
      BY <1>1 DEF Leases!Answer
    <2>2. got \in Leases!Licence /\ got.until = call[q].until
      BY <1>i, Facts DEF Leases!Licence
    <2>3. call[q].until <= lastRight'[p] + Ttl + 1
      <3>1. call[q].until <= lastRight[p] + Ttl + 1
        BY <1>i, <1>1, Facts DEF IssueInv
      <3>2. QED
        BY <1>i, <3>1, Facts DEF OneStep
    <2> HIDE DEF got
    <2>4. /\ phone' \in [Pairs -> Leases!Licence]
          /\ \A x \in Pairs : phone'[x] = phone[x] \/ phone'[x].until <= lastRight'[x] + Ttl + 1
      BY <1>p, <2>1, <2>2, <2>3
    <2>5. QED
      BY <1>c, <1>d, <1>p, <2>4, Gone, Delivers DEF OneStep, OfflineInv
  <1>2. CASE call[q].op = "replay" /\ call[q].verdict = "revoked"
    <2>1. phone' = [phone EXCEPT ![p] = Leases!NoLicence]
      BY <1>2 DEF Leases!Answer
    <2>2. Leases!NoLicence \in Leases!Licence /\ Leases!NoLicence.status = "none"
      BY DEF Leases!NoLicence, Leases!Licence
    <2>3. /\ phone' \in [Pairs -> Leases!Licence]
          /\ \A x \in Pairs : phone'[x] = phone[x] \/ phone'[x].status = "none"
      BY <1>p, <2>1, <2>2
    <2>4. QED
      BY <1>c, <1>d, <1>p, <2>3, Gone, Delivers DEF OneStep, OfflineInv
  <1>3. CASE call[q].op = "replay" /\ call[q].verdict # "revoked"
    <2>1. phone' = phone
      BY <1>3 DEF Leases!Answer
    <2>2. QED
      BY <1>c, <1>p, <2>1, Ends
  <1>4. QED
    BY <1>i, <1>1, <1>2, <1>3

\* A request that comes has read nothing, or only the row of its lease.
LEMMA ComesStep ==
    ASSUME NEW q \in Calls, OneStep(q), NEW p \in Pairs,
           Leases!Issue(q, p) \/ Leases!Replay(q, p)
    PROVE  OfflineInv'
  <1>f. clock \in Nat /\ clock' = clock /\ lic \in [Pairs -> Leases!Licence]
        /\ OfflineType /\ lic' = lic /\ phone' = phone
    BY DEF OneStep, OfflineInv, OfflineType, Leases!Issue, Leases!Replay
  <1>1. CASE Leases!Issue(q, p)
    <2> DEFINE r == [Leases!Idle EXCEPT !.op = "issue", !.pc = "fonction", !.pair = p,
                                        !.day = clock]
    <2>1. /\ r \in Leases!Request /\ r.op = "issue" /\ r.pc = "fonction" /\ r.pair = p
          /\ r.day = clock
      BY <1>f DEF Leases!Idle, Leases!Request, Leases!Steps, Pairs
    <2> HIDE DEF r
    <2>2. Leases!Enter(q, r)
      BY <1>1 DEF Leases!Issue, r
    <2>3. /\ call' \in [Calls -> Leases!Request] /\ call'[q] = r
          /\ \A o \in Calls \ {q} : call'[o] = call[o]
      BY <1>f, <2>1, <2>2, Entered
    <2>4. CallInv(q)'
      BY <1>f, <2>1, <2>3 DEF CallInv, Asks, IssueInv, ReplayInv
    <2>5. QED
      BY <1>f, <2>3, <2>4, Serves DEF OneStep
  <1>2. CASE Leases!Replay(q, p)
    <2> DEFINE r == [Leases!Idle EXCEPT !.op = "replay", !.pair = p, !.day = clock,
                       !.pc = IF Leases!Verdict(p) = "none" THEN "fonction" ELSE "answer",
                       !.verdict = Leases!Verdict(p), !.until = lic[p].until]
    <2>1. Leases!Verdict(p) \in {"none", "unknown", "revoked", "expired"}
          /\ (Leases!Verdict(p) = "revoked" => lic[p].status = "revoked")
          /\ lic[p].until \in Nat
      BY <1>f DEF Leases!Verdict, Leases!Licence
    <2>2. /\ r \in Leases!Request /\ r.op = "replay" /\ r.pc \in {"fonction", "answer"}
          /\ r.pair = p /\ r.day = clock /\ r.verdict = Leases!Verdict(p)
      BY <1>f, <2>1 DEF Leases!Idle, Leases!Request, Leases!Steps, Pairs
    <2> HIDE DEF r
    <2>3. Leases!Enter(q, r)
      BY <1>2 DEF Leases!Replay, r
    <2>4. /\ call' \in [Calls -> Leases!Request] /\ call'[q] = r
          /\ \A o \in Calls \ {q} : call'[o] = call[o]
      BY <1>f, <2>2, <2>3, Entered
    <2>5. lic[p].status = "revoked" => cause'[p]
      BY <1>f, Observed DEF OneStep
    <2>6. IssueInv(q)' /\ ReplayInv(q)'
      BY <2>1, <2>2, <2>4, <2>5 DEF IssueInv, ReplayInv
    <2>7. Asks(q)'
      BY <1>f, <2>2, <2>4 DEF Asks
    <2>8. QED
      BY <1>f, <2>4, <2>6, <2>7, Serves DEF OneStep, CallInv
  <1>3. QED
    BY <1>1, <1>2

\* Every statement of a request.
LEMMA CallStep ==
    ASSUME NEW q \in Calls, OneStep(q),
           \/ \E p \in Pairs : Leases!Issue(q, p) \/ Leases!Replay(q, p)
           \/ Leases!Step(q) \/ Leases!Lost(q)
    PROVE  OfflineInv'
  <1>1. CASE Leases!Lost(q)
    BY <1>1, Ends DEF Leases!Lost, OneStep, OfflineInv, OfflineType
  <1>2. CASE Leases!Step(q)
    BY <1>2, FonctionStep, ClasseStep, EmbargoStep, ReglesStep, EmbargoEncoreStep, UpsertStep,
       CutStep, AnswerStep DEF Leases!Step
  <1>3. CASE \E p \in Pairs : Leases!Issue(q, p) \/ Leases!Replay(q, p)
    BY <1>3, ComesStep
  <1>4. QED
    BY <1>1, <1>2, <1>3

-----------------------------------------------------------------------------
(* What happens around the requests *)

LEMMA Around ==
    ASSUME IsFiniteSet(Calls), Ttl \in Nat, OfflineInv, Observe, UNCHANGED <<call, phone>>,
           clock' \in Nat, clock' >= clock, classOf' \in [Readers -> Classes],
           embargo' \in [Documents -> Nat], lic' \in [Pairs -> Leases!Licence],
           UNCHANGED rights \/ UNCHANGED clock, \A q \in Calls : Asks(q)'
    PROVE  OfflineInv'
  <1>1. OfflineType'
    BY ObservedType DEF OfflineInv, OfflineType
  <1>2. ASSUME NEW q \in Calls
        PROVE  CallInv(q)'
    <2>1. IssueInv(q)' /\ ReplayInv(q)'
      BY Waits, Doubts
    <2>2. QED
      BY <2>1 DEF CallInv
  <1>3. ASSUME NEW p \in Pairs
        PROVE  LeaseInv(p)'
    <2>1. lastRight'[p] >= lastRight[p] /\ lastRight'[p] <= clock'
      BY Observed
    <2>2. lastRight'[p] \in Nat /\ lastRight[p] \in Nat /\ phone[p].until \in Nat
      BY <1>1 DEF OfflineInv, OfflineType, Leases!Licence
    <2>3. QED
      BY <2>1, <2>2 DEF OfflineInv, LeaseInv
  <1>4. QED
    BY <1>1, <1>2, <1>3 DEF OfflineInv, Pairs

\* What the administration does leaves requests, phones and the day alone.
LEMMA AdministerStep ==
    ASSUME RightsAssumption, OfflineInv, Observe, Administer
    PROVE  OfflineInv'
  <1>a. IsFiniteSet(Calls) /\ Ttl \in Nat /\ EmbargoDays \subseteq Nat
    BY RightsAssumption DEF RightsAssumption, Leases!OfflineAssumption
  <1>1. /\ UNCHANGED <<clock, lic, phone, call>>
        /\ classOf' \in [Readers -> Classes] /\ embargo' \in [Documents -> Nat]
    <2>1. CASE Leases!Decide
      <3>1. ASSUME NEW u \in Readers, NEW c \in Classes, Leases!ChangeClass(u, c)
            PROVE  /\ UNCHANGED <<clock, lic, phone, call>>
                   /\ classOf' \in [Readers -> Classes] /\ embargo' \in [Documents -> Nat]
        BY <3>1 DEF Leases!ChangeClass, OfflineInv, OfflineType
      <3>2. ASSUME NEW u \in Readers, Leases!ChangeRole(u)
            PROVE  /\ UNCHANGED <<clock, lic, phone, call>>
                   /\ classOf' \in [Readers -> Classes] /\ embargo' \in [Documents -> Nat]
        BY <3>2 DEF Leases!ChangeRole, OfflineInv, OfflineType
      <3>3. ASSUME NEW d \in Documents, NEW day \in EmbargoDays, Leases!SetEmbargo(d, day)
            PROVE  /\ UNCHANGED <<clock, lic, phone, call>>
                   /\ classOf' \in [Readers -> Classes] /\ embargo' \in [Documents -> Nat]
        BY <1>a, <3>3 DEF Leases!SetEmbargo, OfflineInv, OfflineType
      <3>4. QED
        BY <2>1, <3>1, <3>2, <3>3 DEF Leases!Decide
    <2>2. CASE UNCHANGED offline
      BY <2>2 DEF offline, OfflineInv, OfflineType
    <2>3. QED
      BY <2>1, <2>2 DEF Administer
  <1>2. \A q \in Calls : Asks(q)'
    BY <1>1 DEF OfflineInv, CallInv, Asks
  <1>3. clock' \in Nat /\ clock' >= clock /\ lic' \in [Pairs -> Leases!Licence]
    BY <1>1 DEF OfflineInv, OfflineType
  <1>4. QED
    BY <1>a, <1>1, <1>2, <1>3, Around

LEMMA ServeStep ==
    ASSUME RightsAssumption, OfflineInv, Observe, Serve
    PROVE  OfflineInv'
  <1>a. IsFiniteSet(Calls) /\ Ttl \in Nat
    BY RightsAssumption DEF RightsAssumption, Leases!OfflineAssumption
  <1>t. OfflineType
    BY DEF OfflineInv
  <1>1. ASSUME NEW q \in Calls,
               \/ \E p \in Pairs : Leases!Issue(q, p) \/ Leases!Replay(q, p)
               \/ Leases!Step(q) \/ Leases!Lost(q)
        PROVE  OfflineInv'
    <2>1. UNCHANGED <<classOf, staff, embargo, clock>>
      BY <1>1 DEF Leases!Quiet, Leases!Step, Leases!Issue, Leases!Replay, Leases!Lost,
        Leases!Fonction, Leases!Classe, Leases!Embargo, Leases!Regles, Leases!EmbargoEncore,
        Leases!Upsert, Leases!Cut, Leases!Answer
    <2>2. OneStep(q)
      BY <1>a, <2>1 DEF Serve, access, rights, OneStep
    <2>3. QED
      BY <1>1, <2>2, CallStep
  <1>2. CASE Leases!Tick
    <2>1. /\ clock' = clock + 1 /\ UNCHANGED <<classOf, staff, embargo, lic, phone, call>>
          /\ \A q \in Calls : call[q].op # "idle" => call[q].day = clock
      BY <1>2 DEF Leases!Tick
    <2>2. UNCHANGED rights
      BY <2>1 DEF Serve, access, rights
    <2>3. \A q \in Calls : Asks(q)'
      <3>1. ASSUME NEW q \in Calls
            PROVE  Asks(q)'
        BY <1>t, <2>1 DEF OfflineInv, OfflineType, CallInv, Asks, Leases!Request
      <3>2. QED
        BY <3>1
    <2>4. clock' \in Nat /\ clock' >= clock
      BY <1>t, <2>1 DEF OfflineType
    <2>5. QED
      BY <1>a, <1>t, <2>1, <2>2, <2>3, <2>4, Around DEF OfflineType
  <1>3. ASSUME \/ \E u \in Readers : Leases!Register(u)
               \/ \E p \in Pairs : Leases!Revoke(p) \/ Leases!Restore(p)
        PROVE  OfflineInv'
    <2>1. UNCHANGED <<clock, classOf, staff, embargo, phone, call>>
      BY <1>3 DEF Leases!Register, Leases!Revoke, Leases!Restore, Leases!Quiet
    <2>2. lic' \in [Pairs -> Leases!Licence]
      <3>1. ASSUME NEW p \in Pairs, Leases!Revoke(p)
            PROVE  lic' \in [Pairs -> Leases!Licence]
        BY <1>t, <3>1 DEF Leases!Revoke, OfflineType, Leases!Licence
      <3>2. ASSUME NEW p \in Pairs, Leases!Restore(p)
            PROVE  lic' \in [Pairs -> Leases!Licence]
        BY <1>t, <3>2 DEF Leases!Restore, Leases!NoLicence, OfflineType, Leases!Licence
      <3>3. ASSUME NEW u \in Readers, Leases!Register(u)
            PROVE  lic' \in [Pairs -> Leases!Licence]
        BY <1>t, <3>3 DEF Leases!Register, OfflineType
      <3>4. QED
        BY <1>3, <3>1, <3>2, <3>3
    <2>3. UNCHANGED rights
      BY <2>1 DEF Serve, access, rights
    <2>4. \A q \in Calls : Asks(q)'
      BY <2>1 DEF OfflineInv, CallInv, Asks
    <2>5. clock' \in Nat /\ clock' >= clock
      BY <1>t, <2>1 DEF OfflineType
    <2>6. QED
      BY <1>a, <1>t, <2>1, <2>2, <2>3, <2>4, <2>5, Around DEF OfflineType
  <1>4. QED
    BY <1>1, <1>2, <1>3 DEF Serve, Leases!Serve, Pairs

LEMMA OfflineInit == ASSUME RightsAssumption, Init PROVE OfflineInv
  <1>1. Leases!Idle \in Leases!Request /\ Leases!Idle.op = "idle" /\ Leases!Idle.pc = "idle"
    BY DEF Leases!Idle, Leases!Request, Leases!Steps
  <1>2. Leases!NoLicence \in Leases!Licence /\ Leases!NoLicence.status = "none"
    BY DEF Leases!NoLicence, Leases!Licence
  <1>3. OfflineType
    BY <1>1, <1>2 DEF Init, Leases!Init, OfflineType, Pairs
  <1>4. \A q \in Calls : CallInv(q)
    BY <1>1 DEF Init, Leases!Init, CallInv, Asks, IssueInv, ReplayInv
  <1>5. \A p \in Pairs : LeaseInv(p)
    BY <1>2 DEF Init, Leases!Init, LeaseInv, Pairs
  <1>6. QED
    BY <1>3, <1>4, <1>5 DEF OfflineInv

LEMMA OfflineInvariant == Spec => []OfflineInv
  <1>1. Init => OfflineInv
    BY OfflineInit, RightsAssumption
  <1>2. OfflineInv /\ [Next]_vars => OfflineInv'
    <2> SUFFICES ASSUME OfflineInv, [Next]_vars PROVE OfflineInv'
      OBVIOUS
    <2>1. CASE Next
      BY <2>1, AdministerStep, ServeStep, RightsAssumption DEF Next
    <2>2. CASE UNCHANGED vars
      <3>1. UNCHANGED <<clock, classOf, staff, embargo, lic, phone, call, lastRight, cause,
                        rules, titles>>
        BY <2>2 DEF vars, access, offline
      <3>2. OfflineType' /\ \A p \in Pairs : LeaseInv(p)'
        BY <3>1 DEF OfflineInv, OfflineType, LeaseInv
      <3>3. \A q \in Calls : CallInv(q)'
        BY <3>1 DEF OfflineInv, CallInv, Asks, IssueInv, ReplayInv, Allowed, Leases!Reached,
                    Leases!HasAccessViaRules
      <3>4. QED
        BY <3>2, <3>3 DEF OfflineInv, Pairs
    <2>3. QED
      BY <2>1, <2>2
  <1>3. QED
    BY <1>1, <1>2, PTL DEF Spec

-----------------------------------------------------------------------------
(* Offline leases: what the school and the reader may count on *)

\* A copy that can be read without a connection outlives its right by one lease
\* at most (droitHorsLigne checks, then issue writes): for any number of phones,
\* of requests and of edits between two reads of a check.
THEOREM LossBounded == Spec => []LossIsBoundedByLease
  <1>1. OfflineInv => LossIsBoundedByLease
    <2> SUFFICES ASSUME OfflineInv, NEW p \in Pairs, phone[p].status = "active",
                        phone[p].until >= clock
                 PROVE  clock <= lastRight[p] + Ttl + 1
      BY DEF LossIsBoundedByLease
    <2>1. phone[p].until <= lastRight[p] + Ttl + 1
      BY DEF OfflineInv, LeaseInv
    <2>2. phone[p].until \in Nat /\ clock \in Nat /\ lastRight[p] \in Nat /\ Ttl \in Nat
      BY RightsAssumption DEF OfflineInv, OfflineType, Leases!Licence, RightsAssumption,
                              Leases!OfflineAssumption
    <2>3. QED
      BY <2>1, <2>2
  <1>2. QED
    BY <1>1, OfflineInvariant, PTL

\* Only an answer that says "revoked" to a phone takes its copy away.
LEMMA OnlyAnswersPurge ==
    ASSUME OfflineInv, Next, NEW p \in Pairs, phone[p].status = "active",
           phone'[p].status = "none"
    PROVE  cause[p]
  <1>1. phone' # phone
    OBVIOUS
  <1>2. PICK q \in Calls : Leases!Answer(q)
    BY <1>1 DEF Next, Administer, Serve, offline, Leases!Decide, Leases!ChangeClass,
      Leases!ChangeRole, Leases!SetEmbargo, Leases!Serve, Leases!Register, Leases!Issue,
      Leases!Replay, Leases!Step, Leases!Fonction, Leases!Classe, Leases!Embargo,
      Leases!Regles, Leases!EmbargoEncore, Leases!Upsert, Leases!Cut, Leases!Lost,
      Leases!Revoke, Leases!Restore, Leases!Tick, Leases!Quiet
  <1>3. call[q].pc = "answer" /\ call[q] \in Leases!Request /\ CallInv(q)
        /\ phone \in [Pairs -> Leases!Licence]
    BY <1>2 DEF Leases!Answer, Leases!At, OfflineInv, OfflineType
  <1>4. call[q].op \in {"issue", "replay"} /\ call[q].pair \in Pairs
    BY <1>3 DEF CallInv, Asks, Leases!Request
  <1>5. CASE call[q].op = "issue"
    <2>1. phone' = [phone EXCEPT ![call[q].pair] =
                       [status |-> "active", until |-> call[q].until]]
      BY <1>2, <1>5 DEF Leases!Answer
    <2>2. QED
      BY <1>3, <1>4, <2>1
  <1>6. CASE call[q].op = "replay" /\ call[q].verdict = "revoked"
    <2>1. phone' = [phone EXCEPT ![call[q].pair] = Leases!NoLicence]
      BY <1>2, <1>6 DEF Leases!Answer
    <2>2. p = call[q].pair
      BY <1>3, <2>1
    <2>3. QED
      BY <1>3, <1>6, <2>2 DEF CallInv, ReplayInv
  <1>7. CASE call[q].op = "replay" /\ call[q].verdict # "revoked"
    BY <1>1, <1>2, <1>7 DEF Leases!Answer
  <1>8. QED
    BY <1>4, <1>5, <1>6, <1>7

\* "Inconnue du serveur n'est pas revoquee": no lost row, lost answer or
\* interleaving of requests makes a phone drop a copy without a cause.
THEOREM NoPurgeWithoutCause == Spec => PurgedForCause
  <1>1. OfflineInv /\ [Next]_vars =>
            [\A p \in Pairs : phone[p].status = "active" /\ phone'[p].status = "none"
                => cause[p]]_vars
    BY OnlyAnswersPurge
  <1>2. QED
    BY <1>1, OfflineInvariant, PTL DEF Spec, PurgedForCause

-----------------------------------------------------------------------------
(* The tree: chains of ancestors *)

\* The parent of a collection is there, and no collection is its own ancestor.
Linked(t) == \A c \in Collections : t[c] \notin {Racine, Absent} =>
    /\ t[t[c]] # Absent
    /\ c \notin Tree!Chain(t, t[c])

\* A chain holds what it starts from and goes on to the root; it is the least such set.
LEMMA ChainClimbs ==
    ASSUME NEW t \in Parents, NEW c \in Collections
    PROVE  /\ Tree!Chain(t, c) \subseteq Collections
           /\ c \in Tree!Chain(t, c)
           /\ Tree!Climbs(t, Tree!Chain(t, c))
  BY DEF Tree!Chain, Tree!Climbs

LEMMA ChainIsLeast ==
    ASSUME NEW t, NEW c, NEW S \in SUBSET Collections, c \in S, Tree!Climbs(t, S)
    PROVE  Tree!Chain(t, c) \subseteq S
  BY DEF Tree!Chain

\* The ancestors of an ancestor are ancestors.
LEMMA ChainOfAncestor ==
    ASSUME NEW t \in Parents, NEW c \in Collections, NEW d \in Tree!Chain(t, c)
    PROVE  Tree!Chain(t, d) \subseteq Tree!Chain(t, c)
  BY ChainClimbs, ChainIsLeast

\* One step up.
LEMMA ChainStep ==
    ASSUME NEW t \in Parents, NEW c \in Collections
    PROVE  /\ t[c] \in Collections => Tree!Chain(t, c) = {c} \cup Tree!Chain(t, t[c])
           /\ t[c] \notin Collections => Tree!Chain(t, c) = {c}
  <1>1. ASSUME t[c] \in Collections PROVE Tree!Chain(t, c) = {c} \cup Tree!Chain(t, t[c])
    <2> DEFINE S == {c} \cup Tree!Chain(t, t[c])
    <2>1. S \in SUBSET Collections /\ t[c] \in S
      BY <1>1, ChainClimbs
    <2>2. Tree!Climbs(t, Tree!Chain(t, t[c]))
      BY <1>1, ChainClimbs
    <2>3. Tree!Climbs(t, S)
      BY <2>1, <2>2 DEF Tree!Climbs
    <2>4. Tree!Chain(t, c) \subseteq S
      BY <2>1, <2>3, ChainIsLeast
    <2>5. c \in Tree!Chain(t, c) /\ t[c] \in Tree!Chain(t, c)
      BY <1>1, ChainClimbs DEF Tree!Climbs
    <2>6. Tree!Chain(t, t[c]) \subseteq Tree!Chain(t, c)
      BY <2>5, ChainOfAncestor
    <2>7. QED
      BY <2>4, <2>5, <2>6
  <1>2. ASSUME t[c] \notin Collections PROVE Tree!Chain(t, c) = {c}
    <2>1. Tree!Climbs(t, {c})
      BY <1>2 DEF Tree!Climbs
    <2>2. QED
      BY <2>1, ChainClimbs, ChainIsLeast
  <1>3. QED
    BY <1>1, <1>2

\* Of two ancestors of one collection, one is above the other.
LEMMA ChainIsALine ==
    ASSUME NEW t \in Parents, NEW d \in Collections,
           NEW x \in Tree!Chain(t, d), NEW y \in Tree!Chain(t, d)
    PROVE  x \in Tree!Chain(t, y) \/ y \in Tree!Chain(t, x)
  <1> DEFINE C == Tree!Chain(t, d)
             S == {a \in C : \A b \in C : a \in Tree!Chain(t, b) \/ b \in Tree!Chain(t, a)}
  <1>1. C \subseteq Collections /\ d \in C /\ Tree!Climbs(t, C)
    BY ChainClimbs
  <1>2. d \in S
    BY <1>1
  <1>3. ASSUME NEW a \in S, t[a] \in Collections, NEW b \in C
        PROVE  t[a] \in Tree!Chain(t, b) \/ b \in Tree!Chain(t, t[a])
    <2>1. a \in Collections /\ b \in Collections
      BY <1>1
    <2>2. CASE a \in Tree!Chain(t, b)
      BY <2>1, <2>2, <1>3, ChainClimbs DEF Tree!Climbs
    <2>3. CASE b \in Tree!Chain(t, a)
      <3>1. b = a \/ b \in Tree!Chain(t, t[a])
        BY <2>1, <2>3, <1>3, ChainStep
      <3>2. t[a] \in Tree!Chain(t, a)
        BY <2>1, <1>3, ChainClimbs DEF Tree!Climbs
      <3>3. QED
        BY <3>1, <3>2
    <2>4. QED
      BY <2>2, <2>3, <1>3
  <1>4. Tree!Climbs(t, S)
    <2>1. ASSUME NEW a \in S, t[a] \in Collections PROVE t[a] \in S
      <3>1. t[a] \in C
        BY <1>1, <2>1 DEF Tree!Climbs
      <3>2. QED
        BY <3>1, <2>1, <1>3
    <2>2. QED
      BY <2>1 DEF Tree!Climbs
  <1>5. C \subseteq S
    BY <1>1, <1>2, <1>4, ChainIsLeast
  <1>6. QED
    BY <1>5

\* Without a cycle, two collections that are each above the other are one.
LEMMA ChainHasOneEnd ==
    ASSUME Tree!AccessAssumption, NEW t \in Parents, Linked(t),
           NEW x \in Collections, NEW y \in Collections,
           x \in Tree!Chain(t, y), y \in Tree!Chain(t, x)
    PROVE  x = y
  <1> SUFFICES ASSUME x # y PROVE FALSE
    OBVIOUS
  <1>1. t[y] \in Collections /\ x \in Tree!Chain(t, t[y])
    BY ChainStep
  <1>2. y \in Tree!Chain(t, t[y])
    BY <1>1, ChainOfAncestor
  <1>3. t[y] \notin {Racine, Absent}
    BY <1>1 DEF Tree!AccessAssumption
  <1>4. QED
    BY <1>2, <1>3 DEF Linked

\* Links taken away make chains shorter.
LEMMA ShorterChain ==
    ASSUME NEW t \in Parents, NEW u \in Parents,
           \A x \in Collections : u[x] \in Collections => u[x] = t[x],
           NEW c \in Collections
    PROVE  Tree!Chain(u, c) \subseteq Tree!Chain(t, c)
  <1>1. Tree!Climbs(u, Tree!Chain(t, c))
    BY ChainClimbs DEF Tree!Climbs
  <1>2. QED
    BY <1>1, ChainClimbs, ChainIsLeast

\* The depth counts the chain.
LEMMA DepthCounts ==
    ASSUME NEW t, NEW c
    PROVE  Tree!ProfondeurDe(t, c) = Cardinality(Tree!Chain(t, c))
  <1> DEFINE S == Tree!Chain(t, c)
  <1>1. Tree!ProfondeurDe(t, c) = Tree!Cardinality(S)
    BY DEF Tree!ProfondeurDe
  <1>2. Tree!Cardinality(S) = Cardinality(S)
    BY DEF Tree!Cardinality, Cardinality
  <1>3. QED
    BY <1>1, <1>2

LEMMA DepthType ==
    ASSUME Tree!AccessAssumption, NEW t \in Parents, NEW c \in Collections
    PROVE  IsFiniteSet(Tree!Chain(t, c)) /\ Tree!ProfondeurDe(t, c) \in Nat
  <1>1. IsFiniteSet(Collections)
    <2>1. Tree!IsFiniteSet(Collections)
      BY DEF Tree!AccessAssumption
    <2>2. QED
      BY <2>1 DEF Tree!IsFiniteSet, IsFiniteSet
  <1>2. IsFiniteSet(Tree!Chain(t, c))
    BY <1>1, ChainClimbs, FS_Subset
  <1>3. QED
    BY <1>2, FS_CardinalityType, DepthCounts

\* A move of id under `to`.
Moved(t, id, to) == [t EXCEPT ![id] = to]

\* A chain the moved collection is not on stays as it is.
LEMMA ElsewhereChain ==
    ASSUME NEW t \in Parents, NEW id \in Collections, NEW to \in Collections,
           NEW c \in Collections, id \notin Tree!Chain(t, c)
    PROVE  Tree!Chain(Moved(t, id, to), c) = Tree!Chain(t, c)
  <1> DEFINE u == Moved(t, id, to)
  <1>1. u \in Parents /\ \A x \in Collections : x # id => u[x] = t[x]
    BY DEF Parents, Moved
  <1>2. Tree!Climbs(u, Tree!Chain(t, c))
    BY <1>1, ChainClimbs DEF Tree!Climbs
  <1>3. Tree!Chain(u, c) \subseteq Tree!Chain(t, c)
    BY <1>2, ChainClimbs, ChainIsLeast
  <1>4. Tree!Climbs(t, Tree!Chain(u, c))
    BY <1>1, <1>3, ChainClimbs DEF Tree!Climbs
  <1>5. Tree!Chain(t, c) \subseteq Tree!Chain(u, c)
    BY <1>1, <1>4, ChainClimbs, ChainIsLeast
  <1>6. QED
    BY <1>3, <1>5

\* Any other chain loses what was above the moved collection and goes on with its
\* new ancestors.
LEMMA MovedChain ==
    ASSUME Tree!AccessAssumption, NEW t \in Parents, Linked(t),
           NEW id \in Collections, NEW to \in Collections, id \notin Tree!Chain(t, to),
           NEW c \in Collections, id \in Tree!Chain(t, c)
    PROVE  Tree!Chain(Moved(t, id, to), c)
              \subseteq (Tree!Chain(t, c) \ Tree!Chain(t, id)) \cup {id} \cup Tree!Chain(t, to)
  <1> DEFINE u == Moved(t, id, to)
             Below == Tree!Chain(t, c) \ Tree!Chain(t, id)
             S == Below \cup {id} \cup Tree!Chain(t, to)
  <1>1. /\ u \in Parents /\ u[id] = to
        /\ \A x \in Collections : x # id => u[x] = t[x]
    BY DEF Parents, Moved
  <1>2. /\ S \in SUBSET Collections
        /\ id \in Tree!Chain(t, id) /\ to \in Tree!Chain(t, to)
        /\ Tree!Climbs(t, Tree!Chain(t, to)) /\ Tree!Climbs(t, Tree!Chain(t, c))
    BY ChainClimbs
  <1>3. c \in S
    <2>1. CASE c \in Tree!Chain(t, id)
      BY <2>1, ChainHasOneEnd
    <2>2. CASE c \notin Tree!Chain(t, id)
      BY <2>2, ChainClimbs
    <2>3. QED
      BY <2>1, <2>2
  <1>4. ASSUME NEW x \in Below, t[x] \in Collections PROVE t[x] \in Below \cup {id}
    <2>1. x \in Collections /\ t[x] \in Tree!Chain(t, c)
      BY <1>2, <1>4, ChainClimbs DEF Tree!Climbs
    <2>2. id \in Tree!Chain(t, x)
      BY <1>4, ChainIsALine
    <2>3. x # id
      BY <1>2, <1>4
    <2>4. id \in Tree!Chain(t, t[x])
      BY <2>1, <2>2, <2>3, <1>4, ChainStep
    <2>5. ASSUME t[x] \in Tree!Chain(t, id) PROVE t[x] = id
      BY <2>4, <2>5, <1>4, ChainHasOneEnd
    <2>6. QED
      BY <2>1, <2>5
  <1>5. Tree!Climbs(u, S)
    <2>1. ASSUME NEW x \in S, u[x] \in Collections PROVE u[x] \in S
      <3>1. CASE x = id
        BY <3>1, <1>1, <1>2
      <3>2. CASE x # id
        <4>1. x \in Collections /\ u[x] = t[x]
          BY <3>2, <1>1, <1>2
        <4>2. CASE x \in Below
          BY <4>1, <4>2, <2>1, <1>4
        <4>3. CASE x \in Tree!Chain(t, to)
          BY <4>1, <4>3, <2>1, <1>2 DEF Tree!Climbs
        <4>4. QED
          BY <3>2, <4>2, <4>3
      <3>3. QED
        BY <3>1, <3>2
    <2>2. QED
      BY <2>1 DEF Tree!Climbs
  <1>6. QED
    BY <1>2, <1>3, <1>5, ChainIsLeast

\* The depth a move gives to what lies under the moved collection.
LEMMA MovedDepth ==
    ASSUME Tree!AccessAssumption, NEW t \in Parents, Linked(t),
           NEW id \in Collections, NEW to \in Collections, id \notin Tree!Chain(t, to),
           NEW c \in Collections, id \in Tree!Chain(t, c)
    PROVE  Tree!ProfondeurDe(Moved(t, id, to), c)
              <= Tree!ProfondeurDe(t, to) + 1 + Tree!ProfondeurDe(t, c)
                    - Tree!ProfondeurDe(t, id)
  <1> DEFINE A == Tree!Chain(t, c)
             B == Tree!Chain(t, id)
             T == Tree!Chain(t, to)
  <1>1. IsFiniteSet(A) /\ IsFiniteSet(B) /\ IsFiniteSet(T) /\ B \subseteq A
    BY DepthType, ChainOfAncestor
  <1>2. /\ IsFiniteSet(A \ B)
        /\ Cardinality(A \ B) = Cardinality(A) - Cardinality(B)
    <2>1. A \cap B = B
      BY <1>1
    <2>2. QED
      BY <1>1, <2>1, FS_Difference
  <1>3. IsFiniteSet({id}) /\ Cardinality({id}) = 1
    BY FS_Singleton
  <1>4. /\ IsFiniteSet((A \ B) \cup {id})
        /\ Cardinality((A \ B) \cup {id}) <= Cardinality(A \ B) + 1
    <2> DEFINE I == (A \ B) \cap {id}
    <2>1. IsFiniteSet(I) /\ Cardinality(I) \in Nat
      BY <1>2, FS_Subset, FS_CardinalityType
    <2>2. Cardinality(A \ B) \in Nat
      BY <1>2, FS_CardinalityType
    <2>3. /\ IsFiniteSet((A \ B) \cup {id})
          /\ Cardinality((A \ B) \cup {id})
                = Cardinality(A \ B) + Cardinality({id}) - Cardinality(I)
      BY <1>2, <1>3, FS_Union
    <2>4. QED
      BY <1>3, <2>1, <2>2, <2>3
  <1>5. /\ IsFiniteSet((A \ B) \cup {id} \cup T)
        /\ Cardinality((A \ B) \cup {id} \cup T)
              <= Cardinality((A \ B) \cup {id}) + Cardinality(T)
    <2> DEFINE I == ((A \ B) \cup {id}) \cap T
    <2>1. IsFiniteSet(I) /\ Cardinality(I) \in Nat
      BY <1>1, FS_Subset, FS_CardinalityType
    <2>2. Cardinality((A \ B) \cup {id}) \in Nat /\ Cardinality(T) \in Nat
      BY <1>1, <1>4, FS_CardinalityType
    <2>3. /\ IsFiniteSet((A \ B) \cup {id} \cup T)
          /\ Cardinality((A \ B) \cup {id} \cup T)
                = Cardinality((A \ B) \cup {id}) + Cardinality(T) - Cardinality(I)
      BY <1>1, <1>4, FS_Union
    <2>4. QED
      BY <2>1, <2>2, <2>3
  <1>6. Cardinality(Tree!Chain(Moved(t, id, to), c)) <= Cardinality((A \ B) \cup {id} \cup T)
    BY <1>5, MovedChain, FS_Subset
  <1>7. /\ Cardinality(A) \in Nat /\ Cardinality(B) \in Nat /\ Cardinality(T) \in Nat
        /\ Cardinality(A \ B) \in Nat /\ Cardinality((A \ B) \cup {id}) \in Nat
        /\ Cardinality((A \ B) \cup {id} \cup T) \in Nat
    BY <1>1, <1>2, <1>4, <1>5, FS_CardinalityType
  <1>8. Moved(t, id, to) \in Parents
    BY DEF Parents, Moved
  <1>9. Cardinality(Tree!Chain(Moved(t, id, to), c)) \in Nat
    BY <1>8, DepthType, DepthCounts
  <1>10. QED
    BY <1>2, <1>4, <1>5, <1>6, <1>7, <1>9, DepthCounts

-----------------------------------------------------------------------------
(* What a write does to the tree *)

\* A row that is not there has no ancestor: its chain is as short as a root's.
Sound(t) ==
    /\ Linked(t)
    /\ \A c \in Collections : Tree!ProfondeurDe(t, c) <= ProfondeurMax

\* Rows lose their parent, or go.
Pruned(t, u) == \A x \in Collections : u[x] \in Collections => u[x] = t[x] /\ u[u[x]] # Absent

\* A row that becomes a root.
LEMMA RootPrunes ==
    ASSUME Tree!AccessAssumption, NEW t \in Parents, Linked(t), NEW c \in Collections
    PROVE  Pruned(t, [t EXCEPT ![c] = Racine])
  <1> DEFINE u == [t EXCEPT ![c] = Racine]
  <1>1. SUFFICES ASSUME NEW x \in Collections, u[x] \in Collections
                 PROVE  u[x] = t[x] /\ u[u[x]] # Absent
    BY DEF Pruned
  <1>2. x # c /\ u[x] = t[x]
    BY <1>1 DEF Parents, Tree!AccessAssumption
  <1>3. t[t[x]] # Absent
    BY <1>1, <1>2 DEF Linked, Tree!AccessAssumption
  <1>4. QED
    BY <1>1, <1>2, <1>3 DEF Parents, Tree!AccessAssumption

\* A row that goes, its children becoming roots.
LEMMA DeletePrunes ==
    ASSUME Tree!AccessAssumption, AccessType, Linked(parent), NEW k \in Curators, Tree!Delete(k)
    PROVE  parent' = parent \/ Pruned(parent, parent')
  <1> DEFINE id == curator[k].id
  <1>1. CASE Tree!Referenced(id)
    BY <1>1 DEF Tree!Delete
  <1>2. CASE ~Tree!Referenced(id)
    <2>1. \A c \in Collections : parent'[c] = IF c = id THEN Absent
                                              ELSE IF parent[c] = id THEN Racine ELSE parent[c]
      BY <1>2 DEF Tree!Delete
    <2>2. ASSUME NEW x \in Collections, parent'[x] \in Collections
          PROVE  parent'[x] = parent[x] /\ parent'[parent'[x]] # Absent
      <3>1. parent'[x] = parent[x] /\ parent[x] # id
        BY <2>1, <2>2 DEF Tree!AccessAssumption
      <3>2. parent[parent[x]] # Absent
        BY <2>2, <3>1 DEF Linked, Tree!AccessAssumption
      <3>3. QED
        BY <2>1, <2>2, <3>1, <3>2 DEF Tree!AccessAssumption
    <2>3. QED
      BY <2>2 DEF Pruned
  <1>3. QED
    BY <1>1, <1>2

\* Links taken away leave no cycle.
LEMMA PrunedIsLinked ==
    ASSUME Tree!AccessAssumption, NEW t \in Parents, NEW u \in Parents, Linked(t),
           Pruned(t, u)
    PROVE  Linked(u)
  <1>1. \A c \in Collections : Tree!Chain(u, c) \subseteq Tree!Chain(t, c)
    BY ShorterChain DEF Pruned
  <1>2. \A c \in Collections : u[c] \in Collections \cup {Racine, Absent}
    BY DEF Parents
  <1>3. QED
    BY <1>1, <1>2 DEF Pruned, Linked, Tree!AccessAssumption

\* Nor do they make a chain longer.
LEMMA PrunedIsSound ==
    ASSUME Tree!AccessAssumption, NEW t \in Parents, NEW u \in Parents, Sound(t), Pruned(t, u)
    PROVE  Sound(u)
  <1>1. Linked(u)
    BY PrunedIsLinked DEF Sound
  <1>2. ASSUME NEW c \in Collections PROVE Tree!ProfondeurDe(u, c) <= ProfondeurMax
    <2>1. Tree!Chain(u, c) \subseteq Tree!Chain(t, c)
      BY ShorterChain DEF Pruned
    <2>2. Cardinality(Tree!Chain(u, c)) <= Cardinality(Tree!Chain(t, c))
      BY <2>1, DepthType, FS_Subset
    <2>3. Tree!ProfondeurDe(t, c) <= ProfondeurMax
      BY DEF Sound
    <2>4. /\ Tree!ProfondeurDe(t, c) \in Nat /\ Tree!ProfondeurDe(u, c) \in Nat
          /\ ProfondeurMax \in Nat
      BY DepthType DEF Tree!AccessAssumption
    <2>5. QED
      BY <2>2, <2>3, <2>4, DepthCounts
  <1>3. QED
    BY <1>1, <1>2 DEF Sound

\* A move under a collection that is not below leaves a tree without a cycle.
LEMMA MovedIsLinked ==
    ASSUME Tree!AccessAssumption, NEW t \in Parents, Linked(t),
           NEW id \in Collections, NEW to \in Collections,
           t[to] # Absent, id \notin Tree!Chain(t, to)
    PROVE  Linked(Moved(t, id, to))
  <1> DEFINE u == Moved(t, id, to)
  <1>1. /\ u \in Parents /\ u[id] = to
        /\ \A x \in Collections : x # id => u[x] = t[x]
    BY DEF Parents, Moved
  <1>2. to # id
    BY ChainClimbs
  <1>3. ASSUME NEW c \in Collections, u[c] \notin {Racine, Absent}
        PROVE  u[u[c]] # Absent /\ c \notin Tree!Chain(u, u[c])
    <2>1. CASE c = id
      BY <2>1, <1>1, <1>2, ElsewhereChain
    <2>2. CASE c # id
      <3> DEFINE p == t[c]
      <3>1. u[c] = p /\ p \in Collections
        BY <2>2, <1>1, <1>3 DEF Parents
      <3>2. t[p] # Absent /\ c \notin Tree!Chain(t, p)
        BY <3>1, <2>2, <1>1, <1>3 DEF Linked
      <3>3. u[p] # Absent
        BY <3>1, <3>2, <1>1 DEF Tree!AccessAssumption
      <3>4. CASE id \notin Tree!Chain(t, p)
        <4>1. Tree!Chain(u, p) = Tree!Chain(t, p)
          BY <3>1, <3>4, ElsewhereChain
        <4>2. QED
          BY <3>1, <3>2, <3>3, <4>1
      <3>5. CASE id \in Tree!Chain(t, p)
        <4>1. Tree!Chain(u, p)
                 \subseteq (Tree!Chain(t, p) \ Tree!Chain(t, id)) \cup {id} \cup Tree!Chain(t, to)
          BY <3>1, <3>5, MovedChain
        <4>2. id \in Tree!Chain(t, c)
          BY <3>1, <3>5, ChainStep
        <4>3. c \notin Tree!Chain(t, to)
          BY <4>2, ChainOfAncestor
        <4>4. QED
          BY <2>2, <3>1, <3>2, <3>3, <4>1, <4>3
      <3>6. QED
        BY <3>4, <3>5
    <2>3. QED
      BY <2>1, <2>2
  <1>4. QED
    BY <1>3 DEF Linked

\* What refusDeDeplacement lets through leaves a sound tree, the subtree included.
LEMMA MovedIsSound ==
    ASSUME Tree!AccessAssumption, NEW t \in Parents, Sound(t),
           NEW id \in Collections, t[id] # Absent, NEW to \in Collections,
           ~Tree!RefusDeDeplacement(t, id, to)
    PROVE  Sound(Moved(t, id, to))
  <1> DEFINE u == Moved(t, id, to)
  <1>1. /\ u \in Parents /\ u[id] = to
        /\ \A x \in Collections : x # id => u[x] = t[x]
    BY DEF Parents, Moved
  <1>2. t[to] # Absent /\ to \notin Tree!SousArbre(t, id) /\ ~Tree!TooDeep(t, id, to)
    BY DEF Tree!RefusDeDeplacement, Tree!AccessAssumption
  <1>3. id \notin Tree!Chain(t, to)
    BY <1>2 DEF Tree!SousArbre
  <1>4. Linked(t) /\ to # id
    BY <1>3, ChainClimbs DEF Sound
  <1>5. Linked(u)
    BY <1>2, <1>3, <1>4, MovedIsLinked
  <1>6. ASSUME NEW c \in Collections PROVE Tree!ProfondeurDe(u, c) <= ProfondeurMax
    <2>1. CASE id \notin Tree!Chain(t, c)
      BY <2>1, ElsewhereChain DEF Sound, Tree!ProfondeurDe
    <2>2. CASE id \in Tree!Chain(t, c)
      <3>1. t[c] # Absent
        BY <2>2, ChainStep DEF Tree!AccessAssumption
      <3>2. c \in Tree!SousArbre(t, id)
        BY <2>2, <3>1 DEF Tree!SousArbre
      <3>3. ~(Tree!ProfondeurDe(t, to) + 1 + Tree!ProfondeurDe(t, c)
                - Tree!ProfondeurDe(t, id) > ProfondeurMax)
        BY <3>2, <1>2 DEF Tree!TooDeep
      <3>4. Tree!ProfondeurDe(u, c) <= Tree!ProfondeurDe(t, to) + 1 + Tree!ProfondeurDe(t, c)
                                         - Tree!ProfondeurDe(t, id)
        BY <2>2, <1>3, <1>4, MovedDepth
      <3>5. /\ Tree!ProfondeurDe(u, c) \in Nat /\ Tree!ProfondeurDe(t, to) \in Nat
            /\ Tree!ProfondeurDe(t, c) \in Nat /\ Tree!ProfondeurDe(t, id) \in Nat
            /\ ProfondeurMax \in Nat
        BY <1>1, DepthType DEF Tree!AccessAssumption
      <3>6. QED
        BY <3>3, <3>4, <3>5
    <2>3. QED
      BY <2>1, <2>2
  <1>7. QED
    BY <1>5, <1>6 DEF Sound

\* A root created between the read and the write of a move changes nothing for it.
LEMMA RootsDoNotMatter ==
    ASSUME Tree!AccessAssumption, NEW t \in Parents, NEW c \in Collections, t[c] = Absent,
           NEW id \in Collections, NEW to \in Collections \cup {Racine}, c # id, c # to,
           ~Tree!RefusDeDeplacement(t, id, to)
    PROVE  ~Tree!RefusDeDeplacement([t EXCEPT ![c] = Racine], id, to)
  <1> DEFINE u == [t EXCEPT ![c] = Racine]
  <1>1. /\ u \in Parents /\ u[c] = Racine
        /\ \A x \in Collections : x # c => u[x] = t[x]
    BY DEF Parents
  <1>2. /\ \A x \in Collections : u[x] \in Collections => u[x] = t[x]
        /\ \A x \in Collections : t[x] \in Collections => t[x] = u[x]
    BY <1>1 DEF Tree!AccessAssumption
  <1>3. \A x \in Collections : Tree!Chain(u, x) = Tree!Chain(t, x)
    <2> SUFFICES ASSUME NEW x \in Collections PROVE Tree!Chain(u, x) = Tree!Chain(t, x)
      OBVIOUS
    <2>1. Tree!Chain(u, x) \subseteq Tree!Chain(t, x)
      BY <1>1, <1>2, ShorterChain
    <2>2. Tree!Chain(t, x) \subseteq Tree!Chain(u, x)
      BY <1>1, <1>2, ShorterChain
    <2>3. QED
      BY <2>1, <2>2
  <1>4. Tree!Chain(t, c) = {c}
    BY ChainStep DEF Tree!AccessAssumption
  <1>5. Tree!SousArbre(u, id) = Tree!SousArbre(t, id)
    BY <1>1, <1>3, <1>4 DEF Tree!SousArbre
  <1>6. \A x \in Collections : Tree!ProfondeurDe(u, x) = Tree!ProfondeurDe(t, x)
    BY <1>3 DEF Tree!ProfondeurDe
  <1>7. Tree!SousArbre(t, id) \subseteq Collections
    BY DEF Tree!SousArbre
  <1>8. CASE to = Racine
    BY <1>8 DEF Tree!RefusDeDeplacement
  <1>9. CASE to # Racine
    <2>1. to \in Collections /\ u[to] = t[to]
      BY <1>1, <1>9
    <2>2. ASSUME Tree!TooDeep(u, id, to) PROVE Tree!TooDeep(t, id, to)
      <3>1. PICK d \in Tree!SousArbre(t, id) :
               Tree!ProfondeurDe(u, to) + 1 + Tree!ProfondeurDe(u, d) - Tree!ProfondeurDe(u, id)
                  > ProfondeurMax
        BY <2>2, <1>5 DEF Tree!TooDeep
      <3>2. /\ Tree!ProfondeurDe(u, to) = Tree!ProfondeurDe(t, to)
            /\ Tree!ProfondeurDe(u, d) = Tree!ProfondeurDe(t, d)
            /\ Tree!ProfondeurDe(u, id) = Tree!ProfondeurDe(t, id)
        BY <2>1, <1>6, <1>7
      <3>3. QED
        BY <3>1, <3>2 DEF Tree!TooDeep
    <2>3. QED
      BY <2>1, <2>2, <1>5 DEF Tree!RefusDeDeplacement
  <1>10. QED
    BY <1>8, <1>9


\* What lies above id is what lay above it, less what was cut: so is the height of
\* what lies below, and a move that was good stays good.
LEMMA PrunedKeepsGood ==
    ASSUME Tree!AccessAssumption, NEW t \in Parents, NEW u \in Parents, Linked(t), Pruned(t, u),
           \A x \in Collections : u[x] # Absent => t[x] # Absent,
           NEW id \in Collections, NEW to \in Collections, u[to] # Absent,
           ~Tree!RefusDeDeplacement(t, id, to)
    PROVE  ~Tree!RefusDeDeplacement(u, id, to)
  <1>1. \A c \in Collections : Tree!Chain(u, c) \subseteq Tree!Chain(t, c)
    BY ShorterChain DEF Pruned
  <1>2. Tree!SousArbre(u, id) \subseteq Tree!SousArbre(t, id)
    BY <1>1 DEF Tree!SousArbre
  <1>3. to \notin Tree!SousArbre(t, id) /\ ~Tree!TooDeep(t, id, to) /\ to # Racine
    BY DEF Tree!RefusDeDeplacement, Tree!AccessAssumption
  <1>4. ASSUME NEW d \in Tree!SousArbre(u, id),
               Tree!ProfondeurDe(u, to) + 1 + Tree!ProfondeurDe(u, d) - Tree!ProfondeurDe(u, id)
                  > ProfondeurMax
        PROVE  FALSE
    <2> DEFINE D == Tree!Chain(u, d) \ Tree!Chain(u, id)
               E == Tree!Chain(t, d) \ Tree!Chain(t, id)
    <2>1. d \in Collections /\ id \in Tree!Chain(u, d) /\ id \in Tree!Chain(t, d)
      BY <1>1 DEF Tree!SousArbre
    <2>2. ASSUME NEW x \in D PROVE x \notin Tree!Chain(t, id)
      <3>1. id \in Tree!Chain(u, x) /\ x \in Collections
        BY <2>1, <2>2, ChainIsALine, ChainClimbs
      <3>2. x # id
        BY <2>2, ChainClimbs
      <3>3. QED
        BY <3>1, <3>2, <1>1, ChainHasOneEnd
    <2>3. D \subseteq E
      BY <2>1, <2>2, <1>1
    <2>4. Cardinality(D) <= Cardinality(E) /\ Cardinality(D) \in Nat /\ Cardinality(E) \in Nat
      <3>1. IsFiniteSet(E) /\ IsFiniteSet(D)
        BY <2>1, DepthType, FS_Difference
      <3>2. QED
        BY <3>1, <2>3, FS_Subset, FS_CardinalityType
    <2>5. ASSUME NEW s \in Parents, id \in Tree!Chain(s, d)
          PROVE  Cardinality(Tree!Chain(s, d) \ Tree!Chain(s, id))
                    = Tree!ProfondeurDe(s, d) - Tree!ProfondeurDe(s, id)
      <3>1. /\ IsFiniteSet(Tree!Chain(s, d)) /\ IsFiniteSet(Tree!Chain(s, id))
            /\ Tree!Chain(s, id) \subseteq Tree!Chain(s, d)
        BY <2>1, <2>5, DepthType, ChainOfAncestor
      <3>2. Tree!Chain(s, d) \cap Tree!Chain(s, id) = Tree!Chain(s, id)
        BY <3>1
      <3>3. Cardinality(Tree!Chain(s, d) \ Tree!Chain(s, id))
               = Cardinality(Tree!Chain(s, d)) - Cardinality(Tree!Chain(s, id))
        BY <3>1, <3>2, FS_Difference
      <3>4. QED
        BY <3>3, DepthCounts
    <2>6. /\ Cardinality(D) = Tree!ProfondeurDe(u, d) - Tree!ProfondeurDe(u, id)
          /\ Cardinality(E) = Tree!ProfondeurDe(t, d) - Tree!ProfondeurDe(t, id)
      BY <2>1, <2>5
    <2>7. Tree!ProfondeurDe(u, to) <= Tree!ProfondeurDe(t, to)
      <3>1. IsFiniteSet(Tree!Chain(t, to)) /\ Tree!Chain(u, to) \subseteq Tree!Chain(t, to)
        BY <1>1, DepthType
      <3>2. Cardinality(Tree!Chain(u, to)) <= Cardinality(Tree!Chain(t, to))
        BY <3>1, FS_Subset
      <3>3. QED
        BY <3>2, DepthCounts
    <2>8. ~(Tree!ProfondeurDe(t, to) + 1 + Tree!ProfondeurDe(t, d) - Tree!ProfondeurDe(t, id)
              > ProfondeurMax)
      BY <1>2, <1>3 DEF Tree!TooDeep
    <2>9. /\ \A x \in {to, d, id} : /\ Tree!ProfondeurDe(t, x) \in Nat
                                    /\ Tree!ProfondeurDe(u, x) \in Nat
          /\ ProfondeurMax \in Nat
      BY <2>1, DepthType DEF Tree!AccessAssumption
    <2>10. QED
      BY <2>4, <2>6, <2>7, <2>8, <2>9, <1>4
  <1>5. QED
    BY <1>2, <1>3, <1>4 DEF Tree!RefusDeDeplacement, Tree!TooDeep

-----------------------------------------------------------------------------
(* What a request does to the tree *)

InFlight(q) == q.op \in {"move", "climb"}
AboutRows(q) == q.id \in Collections /\ q.to \in Collections \cup {Racine}

\* Four ways to go on without writing a parent: no move is in flight any more, a
\* move was decided, its row is locked, the trigger went up one ancestor.
Decides(r) == r.op = "move" /\ AboutRows(r) /\ ~Tree!RefusDeDeplacement(parent, r.id, r.to)
Locks(q, r) ==
    /\ q.op = "move" /\ r.op = "climb" /\ r.id = q.id /\ r.to = q.to
    /\ parent[q.id] # Absent /\ r.at = q.to /\ r.seen = {q.id}
GoesUp(q, r) ==
    /\ q.op = "climb" /\ r.op = "climb" /\ r.id = q.id /\ r.to = q.to
    /\ q.at \in Collections \ q.seen /\ r.at = parent[q.at] /\ r.seen = q.seen \cup {q.at}
Reads(k) ==
    /\ parent' = parent /\ \A j \in Curators \ {k} : curator'[j] = curator[j]
    /\ \/ ~InFlight(curator'[k]) \/ Decides(curator'[k])
       \/ Locks(curator[k], curator'[k]) \/ GoesUp(curator[k], curator'[k])

\* Every step either creates a row, ends an update, deletes a row, or reads.
LEMMA ReshapeCases ==
    ASSUME AccessType, Tree!Reshape
    PROVE  \/ \E c \in Collections : Tree!CreerCollection(c)
           \/ \E k \in Curators : Tree!EndUpdate(k) \/ Tree!Delete(k) \/ Reads(k)
  <1>1. ASSUME NEW k \in Curators, NEW z, Tree!Enter(k, z)
        PROVE  curator'[k] = z /\ \A j \in Curators \ {k} : curator'[j] = curator[j]
    BY <1>1 DEF Tree!Enter, AccessType, Curated
  <1>2. ASSUME NEW k \in Curators, NEW z, Tree!Enter(k, z), ~InFlight(z), parent' = parent
        PROVE  Reads(k)
    BY <1>1, <1>2 DEF Reads
  <1>3. ASSUME NEW k \in Curators, NEW id \in Collections, NEW to \in Collections \cup {Racine},
               Tree!UpdateCollection(k, id, to)
        PROVE  Reads(k)
    <2>1. PICK z : z = [Tree!Idle EXCEPT !.op = "move", !.id = id, !.to = to] /\ Tree!Enter(k, z)
      BY <1>3 DEF Tree!UpdateCollection
    <2>2. z.op = "move" /\ z.id = id /\ z.to = to
      BY <2>1 DEF Tree!Idle
    <2>3. Decides(z)
      BY <1>3, <2>2 DEF Decides, AboutRows, Tree!UpdateCollection
    <2>4. QED
      BY <1>1, <1>3, <2>1, <2>3 DEF Reads, Tree!UpdateCollection
  <1>4. ASSUME NEW k \in Curators, NEW id \in Collections,
               Tree!RemoveCollection(k, id) \/ Tree!PropagerRegles(k, id)
        PROVE  Reads(k)
    <2>1. PICK z : /\ \/ z = [Tree!Idle EXCEPT !.op = "remove", !.id = id,
                                 !.todo = {"documents", "regles", "enfants"}]
                      \/ z = [Tree!Idle EXCEPT !.op = "propagate", !.id = id,
                                 !.plan = Tree!Plan(id)]
                   /\ Tree!Enter(k, z)
      BY <1>4 DEF Tree!RemoveCollection, Tree!PropagerRegles
    <2>2. ~InFlight(z)
      BY <2>1 DEF Tree!Idle, InFlight
    <2>3. QED
      BY <1>2, <1>4, <2>1, <2>2 DEF Tree!RemoveCollection, Tree!PropagerRegles
  <1>5. ASSUME NEW k \in Curators, NEW kind \in {"documents", "regles", "enfants"},
               Tree!Count(k, kind)
        PROVE  Reads(k)
    <2>1. PICK q \in Tree!Request : q = curator[k]
      BY DEF AccessType, Curated
    <2>2. PICK z : Tree!Enter(k, z) /\ (z = Tree!Idle \/ z = [q EXCEPT !.todo = @ \ {kind}])
      BY <1>5, <2>1 DEF Tree!Count, Tree!Done
    <2>3. ~InFlight(z)
      BY <1>5, <2>1, <2>2 DEF Tree!Count, Tree!Idle, Tree!Request, InFlight
    <2>4. QED
      BY <1>2, <1>5, <2>2, <2>3 DEF Tree!Count
  <1>6. ~InFlight(Tree!Idle)
    BY DEF Tree!Idle, InFlight
  <1>7. ASSUME NEW k \in Curators, Tree!MajCollection(k)
        PROVE  Reads(k)
    <2>1. PICK q \in Tree!Request : q = curator[k]
      BY DEF AccessType, Curated
    <2>2. CASE Tree!Present(q.id)
      <3>1. PICK z : /\ z = [q EXCEPT !.op = "climb", !.at = q.to, !.seen = {q.id}]
                     /\ Tree!Enter(k, z)
        BY <1>7, <2>1, <2>2 DEF Tree!MajCollection
      <3>2. Locks(q, z)
        BY <1>7, <2>1, <2>2, <3>1 DEF Locks, Tree!MajCollection, Tree!Present, Tree!Request
      <3>3. QED
        BY <1>1, <1>7, <2>1, <3>1, <3>2 DEF Reads, Tree!MajCollection
    <2>3. CASE ~Tree!Present(q.id)
      BY <1>2, <1>6, <1>7, <2>1, <2>3 DEF Tree!MajCollection, Tree!Done
    <2>4. QED
      BY <2>2, <2>3
  <1>8. ASSUME NEW k \in Curators, Tree!TriggerClimbs(k)
        PROVE  Reads(k)
    <2>1. PICK q \in Tree!Request : q = curator[k]
      BY DEF AccessType, Curated
    <2>2. CASE ~Tree!TriggerRefuses(q)
      <3>1. PICK z : /\ z = [q EXCEPT !.at = parent[q.at], !.seen = @ \cup {q.at}]
                     /\ Tree!Enter(k, z)
        BY <1>8, <2>1, <2>2 DEF Tree!TriggerClimbs
      <3>2. GoesUp(q, z)
        BY <1>8, <2>1, <2>2, <3>1 DEF GoesUp, Tree!TriggerClimbs, Tree!TriggerRefuses, Tree!Request
      <3>3. QED
        BY <1>1, <1>8, <2>1, <3>1, <3>2 DEF Reads, Tree!TriggerClimbs
    <2>3. CASE Tree!TriggerRefuses(q)
      BY <1>2, <1>6, <1>8, <2>1, <2>3 DEF Tree!TriggerClimbs, Tree!Done
    <2>4. QED
      BY <2>2, <2>3
  <1>9. ASSUME NEW k \in Curators, Tree!Propagate(k)
        PROVE  Reads(k)
    BY <1>2, <1>6, <1>9 DEF Tree!Propagate, Tree!Done
  <1>10. QED
    BY <1>3, <1>4, <1>5, <1>7, <1>8, <1>9 DEF Tree!Reshape

\* What a deletion leaves to the other requests: no row comes back, and the rows
\* that are being written are still there.
LEMMA DeleteLeaves ==
    ASSUME Tree!AccessAssumption, AccessType, NEW k \in Curators, Tree!Delete(k)
    PROVE  /\ \A c \in Collections : parent'[c] # Absent => parent[c] # Absent
           /\ \A j \in Curators :
                 curator[j].op = "climb" /\ curator[j].id \in Collections
                    /\ parent[curator[j].id] # Absent => parent'[curator[j].id] # Absent
           /\ ~InFlight(curator'[k])
           /\ \A j \in Curators \ {k} : curator'[j] = curator[j]
  <1> DEFINE id == curator[k].id
  <1>1. parent' = parent \/ \A c \in Collections : parent'[c] = IF c = id THEN Absent
                               ELSE IF parent[c] = id THEN Racine ELSE parent[c]
    BY DEF Tree!Delete
  <1>2. \A c \in Collections : parent'[c] # Absent => parent[c] # Absent
    <2>1. id \in Collections
      BY DEF Tree!Delete, AccessType, Curated
    <2>2. QED
      BY <1>1, <2>1 DEF Tree!AccessAssumption
  <1>3. \A j \in Curators : curator[j].op = "climb" => curator[j].id # id
    BY DEF Tree!Delete, Tree!Locked
  <1>4. ~InFlight(curator'[k]) /\ \A j \in Curators \ {k} : curator'[j] = curator[j]
    BY DEF Tree!Delete, Tree!Done, Tree!Enter, Tree!Idle, AccessType, Curated, InFlight
  <1>5. QED
    BY <1>1, <1>2, <1>3, <1>4 DEF Tree!AccessAssumption

LEMMA EndUpdateLeaves ==
    ASSUME AccessType, NEW k \in Curators, Tree!EndUpdate(k)
    PROVE  /\ ~InFlight(curator'[k])
           /\ \A j \in Curators \ {k} : curator'[j] = curator[j]
  BY DEF Tree!EndUpdate, Tree!Done, Tree!Enter, Tree!Idle, AccessType, Curated, InFlight

-----------------------------------------------------------------------------
(* The tree, for moves that do not overlap *)

\* From its decision to its write, a move is alone of its kind: creations,
\* deletions, propagations and the contents of collections change meanwhile.
OneMove == \A j, k \in Curators : InFlight(curator[j]) /\ InFlight(curator[k]) => j = k

\* What refusDeDeplacement found still holds as long as both rows are there, and a
\* row that is being written is.
StillGood(t, q) == InFlight(q) =>
    /\ AboutRows(q)
    /\ q.op = "climb" => t[q.id] # Absent
    /\ t[q.id] # Absent /\ (q.to = Racine \/ t[q.to] # Absent)
          => ~Tree!RefusDeDeplacement(t, q.id, q.to)

TreeInv ==
    /\ AccessType
    /\ Sound(parent)
    /\ \A k \in Curators : StillGood(parent, curator[k])

LEMMA SoundIsTreeIsSound ==
    ASSUME Tree!AccessAssumption, TreeInv
    PROVE  TreeIsSound
  <1>1. \A c \in Collections : parent[c] \in Collections \cup {Racine, Absent}
    BY DEF TreeInv, AccessType, Parents
  <1>2. QED
    BY <1>1 DEF TreeInv, Sound, Linked, TreeIsSound, Tree!TreeIsSound, Tree!Present

LEMMA TreeInit == ASSUME Tree!AccessAssumption, Tree!Init PROVE TreeInv
  <1>1. AccessType
    BY AccessInit
  <1>2. \A c \in Collections : parent[c] \in {Racine, Absent}
    BY DEF Tree!Init
  <1>3. Linked(parent)
    BY <1>2 DEF Linked
  <1>4. ASSUME NEW c \in Collections PROVE Tree!ProfondeurDe(parent, c) <= ProfondeurMax
    <2>1. Tree!Chain(parent, c) = {c}
      BY <1>1, <1>2, ChainStep DEF AccessType, Tree!AccessAssumption
    <2>2. Tree!ProfondeurDe(parent, c) = 1
      BY <2>1, DepthCounts, FS_Singleton
    <2>3. QED
      BY <2>2 DEF Tree!AccessAssumption
  <1>5. \A k \in Curators : curator[k].op = "idle"
    BY DEF Tree!Init, Tree!Idle
  <1>6. QED
    BY <1>1, <1>3, <1>4, <1>5 DEF TreeInv, Sound, StillGood, InFlight

\* A request that only reads keeps what was decided.
LEMMA ReadsKeepsGood ==
    ASSUME TreeInv, NEW k \in Curators, Reads(k), NEW j \in Curators
    PROVE  StillGood(parent', curator'[j])
  <1>1. StillGood(parent, curator[j]) /\ parent' = parent
    BY DEF TreeInv, Reads
  <1>2. CASE j # k
    BY <1>1, <1>2 DEF Reads
  <1>3. CASE j = k /\ ~InFlight(curator'[k])
    BY <1>3 DEF StillGood
  <1>4. CASE j = k /\ Decides(curator'[k])
    BY <1>1, <1>4 DEF Decides, StillGood
  <1>5. CASE j = k /\ Locks(curator[k], curator'[k])
    BY <1>1, <1>5 DEF Locks, StillGood, InFlight, AboutRows
  <1>6. CASE j = k /\ GoesUp(curator[k], curator'[k])
    BY <1>1, <1>6 DEF GoesUp, StillGood, InFlight, AboutRows
  <1>7. QED
    BY <1>2, <1>3, <1>4, <1>5, <1>6 DEF Reads

\* So does a new root.
LEMMA CreationKeepsGood ==
    ASSUME Tree!AccessAssumption, TreeInv, NEW c \in Collections, Tree!CreerCollection(c),
           NEW j \in Curators
    PROVE  StillGood(parent', curator'[j])
  <1> DEFINE q == curator[j]
  <1>1. /\ parent \in Parents /\ parent' = [parent EXCEPT ![c] = Racine] /\ curator' = curator
        /\ parent[c] = Absent /\ c # q.id /\ c # q.to
    BY DEF Tree!CreerCollection, Tree!Named, TreeInv, AccessType
  <1>2. SUFFICES ASSUME InFlight(q) PROVE StillGood(parent', q)
    BY <1>1 DEF StillGood
  <1>3. StillGood(parent, q)
    BY DEF TreeInv
  <1>4. q.id \in Collections /\ q.to \in Collections \cup {Racine}
    BY <1>2, <1>3 DEF StillGood, AboutRows
  <1>5. /\ parent'[q.id] = parent[q.id]
        /\ q.to # Racine => parent'[q.to] = parent[q.to]
    BY <1>1, <1>4 DEF Parents
  <1>6. ~Tree!RefusDeDeplacement(parent, q.id, q.to)
           => ~Tree!RefusDeDeplacement(parent', q.id, q.to)
    BY <1>1, <1>4, RootsDoNotMatter
  <1>7. QED
    BY <1>2, <1>3, <1>5, <1>6 DEF StillGood

\* And a deletion.
LEMMA DeleteKeepsGood ==
    ASSUME Tree!AccessAssumption, TreeInv, AccessType', NEW k \in Curators, Tree!Delete(k),
           NEW j \in Curators
    PROVE  StillGood(parent', curator'[j])
  <1> DEFINE q == curator[j]
  <1>1. /\ AccessType /\ parent \in Parents /\ parent' \in Parents /\ Linked(parent)
        /\ StillGood(parent, q)
    BY DEF TreeInv, AccessType, Sound
  <1>2. CASE j = k
    BY <1>1, <1>2, DeleteLeaves DEF StillGood
  <1>3. CASE j # k
    <2>1. curator'[j] = q
      BY <1>1, <1>3, DeleteLeaves
    <2>2. SUFFICES ASSUME InFlight(q) PROVE StillGood(parent', q)
      BY <2>1 DEF StillGood
    <2>3. AboutRows(q) /\ (q.op = "climb" => parent'[q.id] # Absent)
      BY <1>1, <2>2, DeleteLeaves DEF StillGood, AboutRows
    <2>4. ASSUME parent'[q.id] # Absent, q.to = Racine \/ parent'[q.to] # Absent
          PROVE  ~Tree!RefusDeDeplacement(parent', q.id, q.to)
      <3>1. CASE q.to = Racine
        BY <3>1 DEF Tree!RefusDeDeplacement
      <3>2. CASE q.to # Racine
        <4>1. q.id \in Collections /\ q.to \in Collections /\ parent'[q.to] # Absent
          BY <2>3, <2>4, <3>2 DEF AboutRows
        <4>2. \A c \in Collections : parent'[c] # Absent => parent[c] # Absent
          BY <1>1, DeleteLeaves
        <4>3. ~Tree!RefusDeDeplacement(parent, q.id, q.to)
          BY <1>1, <2>2, <2>4, <4>1, <4>2 DEF StillGood
        <4>4. CASE parent' = parent
          BY <4>3, <4>4
        <4>5. CASE Pruned(parent, parent')
          BY <1>1, <4>1, <4>2, <4>3, <4>5, PrunedKeepsGood
        <4>6. QED
          BY <1>1, <4>4, <4>5, DeletePrunes
      <3>3. QED
        BY <3>1, <3>2
    <2>5. QED
      BY <2>3, <2>4 DEF StillGood
  <1>4. QED
    BY <1>2, <1>3

\* The end of the only move in flight.
LEMMA EndUpdateIsSound ==
    ASSUME Tree!AccessAssumption, TreeInv, NEW k \in Curators, Tree!EndUpdate(k)
    PROVE  Sound(parent')
  <1> DEFINE q == curator[k]
  <1>1. parent \in Parents /\ Sound(parent) /\ Linked(parent)
    BY DEF TreeInv, AccessType, Sound
  <1>2. /\ q.op = "climb"
        /\ parent' = IF q.to = Racine \/ Tree!Present(q.to)
                     THEN [parent EXCEPT ![q.id] = q.to] ELSE parent
    BY DEF Tree!EndUpdate
  <1>3. StillGood(parent, q)
    BY DEF TreeInv
  <1>4. /\ q.id \in Collections /\ q.to \in Collections \cup {Racine} /\ parent[q.id] # Absent
        /\ q.to = Racine \/ parent[q.to] # Absent => ~Tree!RefusDeDeplacement(parent, q.id, q.to)
    BY <1>2, <1>3 DEF StillGood, AboutRows, InFlight
  <1>5. CASE parent' = parent
    BY <1>1, <1>5
  <1>6. CASE q.to = Racine /\ parent' = [parent EXCEPT ![q.id] = Racine]
    <2>1. parent' \in Parents
      BY <1>1, <1>4, <1>6 DEF Parents
    <2>2. QED
      BY <1>1, <1>4, <1>6, <2>1, RootPrunes, PrunedIsSound
  <1>7. CASE q.to # Racine /\ Tree!Present(q.to) /\ parent' = Moved(parent, q.id, q.to)
    BY <1>1, <1>4, <1>7, MovedIsSound DEF Tree!Present
  <1>8. QED
    BY <1>2, <1>5, <1>6, <1>7 DEF Moved

LEMMA TreeStep ==
    ASSUME Tree!AccessAssumption, OneMove, TreeInv, Grounded, Tree!Reshape
    PROVE  TreeInv'
  <1>a. AccessType /\ AccessType'
    BY ReshapeStep DEF TreeInv
  <1>p. parent \in Parents /\ parent' \in Parents /\ Sound(parent)
    BY <1>a DEF AccessType, TreeInv
  <1>1. ASSUME NEW c \in Collections, Tree!CreerCollection(c)
        PROVE  TreeInv'
    <2>1. Sound(parent')
      BY <1>p, <1>1, RootPrunes, PrunedIsSound DEF Sound, Tree!CreerCollection
    <2>2. QED
      BY <1>a, <1>1, <2>1, CreationKeepsGood DEF TreeInv
  <1>2. ASSUME NEW k \in Curators, Tree!EndUpdate(k)
        PROVE  TreeInv'
    <2>1. \A j \in Curators \ {k} : ~InFlight(curator[j])
      BY <1>2 DEF OneMove, Tree!EndUpdate, InFlight
    <2>2. \A j \in Curators : ~InFlight(curator'[j])
      BY <1>a, <1>2, <2>1, EndUpdateLeaves
    <2>3. QED
      BY <1>a, <1>2, <2>2, EndUpdateIsSound DEF TreeInv, StillGood
  <1>3. ASSUME NEW k \in Curators, Tree!Delete(k)
        PROVE  TreeInv'
    <2>1. Sound(parent')
      BY <1>a, <1>p, <1>3, DeletePrunes, PrunedIsSound DEF Sound
    <2>2. QED
      BY <1>a, <1>3, <2>1, DeleteKeepsGood DEF TreeInv
  <1>4. ASSUME NEW k \in Curators, Reads(k)
        PROVE  TreeInv'
    BY <1>a, <1>p, <1>4, ReadsKeepsGood DEF TreeInv, Reads, Sound, Linked
  <1>5. QED
    BY <1>a, <1>1, <1>2, <1>3, <1>4, ReshapeCases

\* What leaves parents and requests alone.
LEMMA TreeRests ==
    ASSUME Tree!AccessAssumption, AccessType, Grounded, UNCHANGED access \/ Tree!Fill
    PROVE  UNCHANGED <<parent, curator>> /\ AccessType' /\ Grounded'
  <1>1. CASE UNCHANGED access
    BY <1>1 DEF access, AccessType, Grounded
  <1>2. CASE Tree!Fill
    BY <1>2, FillStep DEF Tree!Fill, Tree!AddRecord, Tree!RemoveRecord, Tree!AddAccessRule,
                          Tree!RemoveAccessRule
  <1>3. QED
    BY <1>1, <1>2

LEMMA TreeOrRest ==
    ASSUME [Next]_vars
    PROVE  Tree!Reshape \/ UNCHANGED access \/ Tree!Fill
  BY DEF Next, Administer, Serve, vars, access

\* refusDeDeplacement reads the tree, then the row is written.  For a move that no
\* other move overlaps, and any number of creations, deletions, propagations, rules
\* and documents around it: no collection becomes its own ancestor and none lies
\* deeper than PROFONDEUR_MAX, the subtree that moves included.
THEOREM TreeStaysSound == Spec /\ []OneMove => []TreeIsSound
  <1>a. Tree!AccessAssumption
    BY RightsAssumption
  <1>1. Init => TreeInv /\ Grounded
    BY <1>a, TreeInit, AccessInit DEF Init
  <1>2. TreeInv /\ Grounded /\ OneMove /\ [Next]_vars => (TreeInv /\ Grounded)'
    <2> SUFFICES ASSUME TreeInv, Grounded, OneMove, [Next]_vars
                 PROVE  TreeInv' /\ Grounded'
      OBVIOUS
    <2>a. AccessType
      BY DEF TreeInv
    <2>1. CASE Tree!Reshape
      BY <1>a, <2>a, <2>1, ReshapeStep, TreeStep
    <2>2. CASE UNCHANGED access \/ Tree!Fill
      <3>1. UNCHANGED <<parent, curator>> /\ AccessType' /\ Grounded'
        BY <1>a, <2>a, <2>2, TreeRests
      <3>2. QED
        BY <3>1 DEF TreeInv, Sound, Linked, StillGood
    <2>3. QED
      BY <2>1, <2>2, TreeOrRest
  <1>3. TreeInv => TreeIsSound
    BY <1>a, SoundIsTreeIsSound
  <1>4. QED
    BY <1>1, <1>2, <1>3, PTL DEF Spec

-----------------------------------------------------------------------------
(* The tree, for moves decided together and written one by one *)

\* Two updates of parent_id are not in progress together: while the trigger of one
\* goes up, no other has locked its row.
OneUpdate ==
    \A j, k \in Curators : curator[j].op = "climb" /\ curator[k].op = "climb" => j = k

\* The ancestors the trigger has seen, the row that moves apart, lead to one
\* another or to where it stands, and begin with the new parent.
HasClimbed(t, q) ==
    /\ InFlight(q) => AboutRows(q)
    /\ q.op = "climb" =>
          LET above == q.seen \ {q.id} IN
          /\ q.id \in q.seen /\ t[q.id] # Absent
          /\ q.to \in above \cup {q.at}
          /\ \A x \in above : t[x] \in Collections => t[x] \in above \cup {q.at}

LinkedInv ==
    /\ AccessType
    /\ Linked(parent)
    /\ \A k \in Curators : HasClimbed(parent, curator[k])

LEMMA ReadsKeepsClimb ==
    ASSUME LinkedInv, NEW k \in Curators, Reads(k), NEW j \in Curators
    PROVE  HasClimbed(parent', curator'[j])
  <1>1. HasClimbed(parent, curator[j]) /\ parent' = parent
    BY DEF LinkedInv, Reads
  <1>2. CASE j # k
    BY <1>1, <1>2 DEF Reads
  <1>3. CASE j = k /\ ~InFlight(curator'[k])
    BY <1>3 DEF HasClimbed, InFlight
  <1>4. CASE j = k /\ Decides(curator'[k])
    BY <1>1, <1>4 DEF Decides, HasClimbed
  <1>5. CASE j = k /\ Locks(curator[k], curator'[k])
    BY <1>1, <1>5 DEF Locks, HasClimbed, InFlight, AboutRows
  <1>6. CASE j = k /\ GoesUp(curator[k], curator'[k])
    <2> DEFINE q == curator[k]
               r == curator'[k]
    <2>1. /\ q.op = "climb" /\ AboutRows(q) /\ q.id \in q.seen /\ parent[q.id] # Absent
          /\ q.to \in (q.seen \ {q.id}) \cup {q.at}
          /\ \A x \in q.seen \ {q.id} :
                parent[x] \in Collections => parent[x] \in (q.seen \ {q.id}) \cup {q.at}
      BY <1>1, <1>6 DEF GoesUp, HasClimbed, InFlight
    <2>2. /\ r.id = q.id /\ r.to = q.to /\ r.at = parent[q.at] /\ r.seen = q.seen \cup {q.at}
          /\ q.at \notin q.seen
      BY <1>6 DEF GoesUp
    <2>3. r.seen \ {r.id} = (q.seen \ {q.id}) \cup {q.at}
      BY <2>1, <2>2
    <2>4. /\ r.id \in r.seen /\ parent'[r.id] # Absent /\ r.to \in (r.seen \ {r.id}) \cup {r.at}
          /\ \A x \in r.seen \ {r.id} :
                parent'[x] \in Collections => parent'[x] \in (r.seen \ {r.id}) \cup {r.at}
      BY <1>1, <2>1, <2>2, <2>3
    <2>5. AboutRows(r)
      BY <2>1, <2>2 DEF AboutRows
    <2>6. QED
      BY <1>6, <2>4, <2>5 DEF HasClimbed
  <1>7. QED
    BY <1>2, <1>3, <1>4, <1>5, <1>6 DEF Reads

\* Rows created or deleted while a trigger goes up.
LEMMA CutKeepsClimb ==
    ASSUME NEW t \in Parents, NEW u \in Parents, NEW q \in Tree!Request, HasClimbed(t, q),
           \A x \in Collections : u[x] \in Collections => u[x] = t[x],
           q.op = "climb" => u[q.id] # Absent
    PROVE  HasClimbed(u, q)
  <1>1. q.seen \subseteq Collections
    BY DEF Tree!Request
  <1>2. QED
    BY <1>1 DEF HasClimbed

\* Where the trigger has come to the top, the new parent is not below the row.
LEMMA TriggerKeepsLinked ==
    ASSUME Tree!AccessAssumption, LinkedInv, NEW k \in Curators, Tree!EndUpdate(k)
    PROVE  Linked(parent')
  <1> DEFINE q == curator[k]
             above == q.seen \ {q.id}
  <1>1. parent \in Parents /\ Linked(parent) /\ q \in Tree!Request
    BY DEF LinkedInv, AccessType, Curated
  <1>2. /\ q.op = "climb" /\ q.at \notin Collections
        /\ parent' = IF q.to = Racine \/ Tree!Present(q.to)
                     THEN [parent EXCEPT ![q.id] = q.to] ELSE parent
    BY DEF Tree!EndUpdate
  <1>3. /\ q.id \in Collections /\ q.to \in Collections \cup {Racine}
        /\ q.to \in above \cup {q.at}
        /\ \A x \in above : parent[x] \in Collections => parent[x] \in above \cup {q.at}
    BY <1>2 DEF LinkedInv, HasClimbed, AboutRows, InFlight
  <1>4. CASE parent' = parent
    BY <1>1, <1>4
  <1>5. CASE q.to = Racine /\ parent' = [parent EXCEPT ![q.id] = Racine]
    <2>1. parent' \in Parents
      BY <1>1, <1>3, <1>5 DEF Parents
    <2>2. QED
      BY <1>1, <1>3, <1>5, <2>1, RootPrunes, PrunedIsLinked
  <1>6. CASE Tree!Present(q.to) /\ parent' = Moved(parent, q.id, q.to)
    <2>1. q.to \in Collections /\ q.to \in above
      BY <1>2, <1>3, <1>6 DEF Tree!Present
    <2>2. above \in SUBSET Collections
      BY <1>1 DEF Tree!Request
    <2>3. Tree!Climbs(parent, above)
      BY <1>2, <1>3 DEF Tree!Climbs
    <2>4. q.id \notin Tree!Chain(parent, q.to)
      BY <2>1, <2>2, <2>3, ChainIsLeast
    <2>5. QED
      BY <1>1, <1>3, <1>6, <2>1, <2>4, MovedIsLinked DEF Tree!Present
  <1>7. QED
    BY <1>2, <1>4, <1>5, <1>6 DEF Moved

LEMMA LinkedStep ==
    ASSUME Tree!AccessAssumption, OneUpdate, LinkedInv, Grounded, Tree!Reshape
    PROVE  LinkedInv'
  <1>a. AccessType /\ AccessType'
    BY ReshapeStep DEF LinkedInv
  <1>p. parent \in Parents /\ parent' \in Parents /\ Linked(parent)
    BY <1>a DEF AccessType, LinkedInv
  <1>q. \A j \in Curators : curator[j] \in Tree!Request /\ HasClimbed(parent, curator[j])
    BY <1>a DEF AccessType, Curated, LinkedInv
  <1>1. ASSUME NEW c \in Collections, Tree!CreerCollection(c)
        PROVE  LinkedInv'
    <2>1. parent' = [parent EXCEPT ![c] = Racine] /\ curator' = curator
      BY <1>1 DEF Tree!CreerCollection
    <2>2. Linked(parent')
      BY <1>p, <2>1, RootPrunes, PrunedIsLinked
    <2>3. ASSUME NEW j \in Curators PROVE HasClimbed(parent', curator[j])
      <3>1. c # curator[j].id
        BY <1>1 DEF Tree!CreerCollection, Tree!Named
      <3>2. curator[j].op = "climb" => parent'[curator[j].id] # Absent
        BY <1>p, <1>q, <2>1, <3>1 DEF HasClimbed, AboutRows, InFlight, Parents
      <3>3. \A x \in Collections : parent'[x] \in Collections => parent'[x] = parent[x]
        BY <1>p, <2>1 DEF Parents, Tree!AccessAssumption
      <3>4. QED
        BY <1>p, <1>q, <3>2, <3>3, CutKeepsClimb
    <2>4. QED
      BY <1>a, <2>1, <2>2, <2>3 DEF LinkedInv
  <1>2. ASSUME NEW k \in Curators, Tree!EndUpdate(k)
        PROVE  LinkedInv'
    <2>1. Linked(parent')
      BY <1>2, TriggerKeepsLinked
    <2>2. ASSUME NEW j \in Curators PROVE HasClimbed(parent', curator'[j])
      <3>1. CASE j = k
        BY <1>a, <1>2, <3>1, EndUpdateLeaves DEF HasClimbed, InFlight
      <3>2. CASE j # k
        <4>1. curator'[j] = curator[j] /\ curator[j].op # "climb"
          BY <1>a, <1>2, <3>2, EndUpdateLeaves DEF OneUpdate, Tree!EndUpdate
        <4>2. QED
          BY <1>q, <4>1 DEF HasClimbed
      <3>3. QED
        BY <3>1, <3>2
    <2>3. QED
      BY <1>a, <2>1, <2>2 DEF LinkedInv
  <1>3. ASSUME NEW k \in Curators, Tree!Delete(k)
        PROVE  LinkedInv'
    <2>1. parent' = parent \/ Pruned(parent, parent')
      BY <1>a, <1>p, <1>3, DeletePrunes
    <2>2. Linked(parent')
      BY <1>p, <2>1, PrunedIsLinked
    <2>3. ASSUME NEW j \in Curators PROVE HasClimbed(parent', curator'[j])
      <3>1. CASE j = k
        BY <1>a, <1>3, <3>1, DeleteLeaves DEF HasClimbed, InFlight
      <3>2. CASE j # k
        <4>1. curator'[j] = curator[j]
          BY <1>a, <1>3, <3>2, DeleteLeaves
        <4>2. curator[j].op = "climb" => parent'[curator[j].id] # Absent
          BY <1>a, <1>3, <1>q, DeleteLeaves DEF HasClimbed, AboutRows, InFlight
        <4>3. \A x \in Collections : parent'[x] \in Collections => parent'[x] = parent[x]
          BY <2>1 DEF Pruned
        <4>4. QED
          BY <1>p, <1>q, <4>1, <4>2, <4>3, CutKeepsClimb
      <3>3. QED
        BY <3>1, <3>2
    <2>4. QED
      BY <1>a, <2>2, <2>3 DEF LinkedInv
  <1>4. ASSUME NEW k \in Curators, Reads(k)
        PROVE  LinkedInv'
    BY <1>a, <1>p, <1>4, ReadsKeepsClimb DEF LinkedInv, Reads, Linked
  <1>5. QED
    BY <1>a, <1>1, <1>2, <1>3, <1>4, ReshapeCases

\* collections_hierarchie_valide goes up from the written row, one ancestor at a time,
\* on rows that change: however many moves were accepted on what the tree was, and
\* whatever is created or deleted while the trigger climbs, no collection becomes its
\* own ancestor and none hangs from a row that is gone, as long as two updates of
\* parent_id are not in progress together.
THEOREM NeverACycle == Spec /\ []OneUpdate => []Linked(parent)
  <1>a. Tree!AccessAssumption
    BY RightsAssumption
  <1>1. Init => LinkedInv /\ Grounded
    <2>1. ASSUME Tree!Init PROVE \A k \in Curators : HasClimbed(parent, curator[k])
      BY <2>1 DEF Tree!Init, Tree!Idle, HasClimbed, InFlight
    <2>2. QED
      BY <1>a, <2>1, TreeInit, AccessInit DEF Init, TreeInv, Sound, LinkedInv
  <1>2. LinkedInv /\ Grounded /\ OneUpdate /\ [Next]_vars => (LinkedInv /\ Grounded)'
    <2> SUFFICES ASSUME LinkedInv, Grounded, OneUpdate, [Next]_vars
                 PROVE  LinkedInv' /\ Grounded'
      OBVIOUS
    <2>a. AccessType
      BY DEF LinkedInv
    <2>1. CASE Tree!Reshape
      BY <1>a, <2>a, <2>1, ReshapeStep, LinkedStep
    <2>2. CASE UNCHANGED access \/ Tree!Fill
      <3>1. UNCHANGED <<parent, curator>> /\ AccessType' /\ Grounded'
        BY <1>a, <2>a, <2>2, TreeRests
      <3>2. QED
        BY <3>1 DEF LinkedInv, Linked, HasClimbed
    <2>3. QED
      BY <2>1, <2>2, TreeOrRest
  <1>3. LinkedInv => Linked(parent)
    BY DEF LinkedInv
  <1>4. QED
    BY <1>1, <1>2, <1>3, PTL DEF Spec
=============================================================================
