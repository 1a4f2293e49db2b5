-------------------------------- MODULE Access --------------------------------
(***************************************************************************)
(* AccessControlService for one school: the tree of collections, the       *)
(* documents they hold and the access rules they carry.  Rules are not     *)
(* inherited; a propagation writes them down the tree, once.               *)
(*                                                                         *)
(* A request reads, decides, then writes: what it decided on may have      *)
(* changed.  The database keeps its own guards: foreign keys, which see    *)
(* the rows as they are when the write happens, and a trigger on           *)
(* parent_id, which reads committed rows one by one before it does.        *)
(***************************************************************************)
EXTENDS Integers, FiniteSets

CONSTANTS
    Collections,    \* collections rows
    Socle,          \* the default collection of the school
    Existing,       \* the collections that are there from the start
    Racine, Absent, \* no parent, no row
    Documents,      \* biblio_records with a digital copy
    Classes,        \* school classes
    AnyClass,       \* a rule without a class
    ProfondeurMax,  \* PROFONDEUR_MAX
    Curators,       \* requests that can be in flight together
    MaxMoves,       \* bound: moves in flight together
    MaxRows         \* bound: identical rules added by hand

VARIABLES
    parent,         \* collections.parent_id
    rules,          \* access_rules: the number of rows of a collection for a class
    titles,         \* collection_titles
    curator         \* what each request has decided, and where it stands

Labels == Classes \cup {AnyClass}

AccessAssumption ==
    /\ IsFiniteSet(Collections) /\ Existing \subseteq Collections /\ Socle \in Existing
    /\ {Racine, Absent} \cap Collections = {} /\ Racine # Absent
    /\ AnyClass \notin Classes
    /\ IsFiniteSet(Curators)
    /\ ProfondeurMax \in Nat \ {0} /\ {MaxMoves, MaxRows} \subseteq Nat

\* at, seen: the row the trigger goes up to next (courant) and those it has seen
\* (vus); todo: the counts a deletion still waits for; plan: the rules a
\* propagation will write.
Request == [op : {"idle", "move", "climb", "remove", "propagate"},
            id : Collections \cup {Absent}, to : Collections \cup {Racine, Absent},
            at : Collections \cup {Racine, Absent}, seen : SUBSET Collections,
            todo : SUBSET {"documents", "regles", "enfants"},
            plan : SUBSET (Collections \X Labels)]
Idle == [op |-> "idle", id |-> Absent, to |-> Absent, at |-> Absent, seen |-> {},
         todo |-> {}, plan |-> {}]

\* A school as it is provisioned: its default collection is open to all; the
\* other collections that exist are roots.
Init ==
    /\ parent = [c \in Collections |-> IF c \in Existing THEN Racine ELSE Absent]
    /\ rules = [x \in Collections \X Labels |-> IF x = <<Socle, AnyClass>> THEN 1 ELSE 0]
    /\ titles = {Socle} \X Documents
    /\ curator = [k \in Curators |-> Idle]

Present(c) == c \in Collections /\ parent[c] # Absent
Enter(k, q) == curator' = [curator EXCEPT ![k] = q]
Done(k) == Enter(k, Idle)

-----------------------------------------------------------------------------
(* The tree *)

\* A set of collections that holds the parent of each of its members.
Climbs(t, S) == \A x \in S : t[x] \in Collections => t[x] \in S

\* c and its ancestors in the tree t, a cycle going round once.
Chain(t, c) ==
    {x \in Collections : \A S \in SUBSET Collections : c \in S /\ Climbs(t, S) => x \in S}

SousArbre(t, c) == {d \in Collections : t[d] # Absent /\ c \in Chain(t, d)}
ProfondeurDe(t, c) == Cardinality(Chain(t, c))

\* Slip: the children of the collection that moves are forgotten.
SlipTooDeep(t, id, to) == ProfondeurDe(t, to) + 1 > ProfondeurMax
\* profondeurFuture + hauteur - 1 > PROFONDEUR_MAX, the height being that of the
\* deepest descendant.
TooDeep(t, id, to) ==
    \E d \in SousArbre(t, id) :
        ProfondeurDe(t, to) + 1 + ProfondeurDe(t, d) - ProfondeurDe(t, id) > ProfondeurMax

\* refusDeDeplacement, on the rows that were read.
RefusDeDeplacement(t, id, to) ==
    /\ to # Racine
    /\ \/ t[to] = Absent
       \/ to \in SousArbre(t, id)
       \/ TooDeep(t, id, to)

\* The trigger's two refusals: a cycle, or a written row that lies too deep.
TriggerRefuses(q) == q.at \in q.seen \/ Cardinality(q.seen) + 1 > ProfondeurMax

\* Identifiers are never used again: none that a request in flight still names.
Named(q) == {q.id, q.to, q.at} \cup q.seen \cup {x[1] : x \in q.plan}

Moving == {k \in Curators : curator[k].op \in {"move", "climb"}}

CreerCollection(c) ==
    /\ parent[c] = Absent
    /\ \A k \in Curators : c \notin Named(curator[k])
    /\ parent' = [parent EXCEPT ![c] = Racine]
    /\ UNCHANGED <<rules, titles, curator>>

UpdateCollection(k, id, to) ==
    /\ curator[k].op = "idle" /\ Cardinality(Moving) < MaxMoves
    /\ Present(id)
    /\ ~RefusDeDeplacement(parent, id, to)
    /\ Enter(k, [Idle EXCEPT !.op = "move", !.id = id, !.to = to])
    /\ UNCHANGED <<parent, rules, titles>>

\* The rows an update has locked, from its trigger to its end.
Locked == {curator[k].id : k \in {j \in Curators : curator[j].op = "climb"}}

\* The update finds its row, which may be gone, and locks it for its trigger.
MajCollection(k) ==
    LET q == curator[k] IN
    /\ q.op = "move" /\ q.id \notin Locked
    /\ IF Present(q.id) THEN Enter(k, [q EXCEPT !.op = "climb", !.at = q.to, !.seen = {q.id}])
       ELSE Done(k)
    /\ UNCHANGED <<parent, rules, titles>>

\* collections_hierarchie_valide goes up from the written row, one ancestor a
\* statement.  It locks none: each is read as it is committed at that moment.
TriggerClimbs(k) ==
    LET q == curator[k] IN
    /\ q.op = "climb" /\ q.at \in Collections
    /\ IF TriggerRefuses(q) THEN Done(k)
       ELSE Enter(k, [q EXCEPT !.at = parent[q.at], !.seen = @ \cup {q.at}])
    /\ UNCHANGED <<parent, rules, titles>>

\* The row is written, unless its new parent is gone.
EndUpdate(k) ==
    LET q == curator[k] IN
    /\ q.op = "climb" /\ q.at \notin Collections
    /\ parent' = IF q.to = Racine \/ Present(q.to)
                 THEN [parent EXCEPT ![q.id] = q.to] ELSE parent
    /\ Done(k)
    /\ UNCHANGED <<rules, titles>>

-----------------------------------------------------------------------------
(* Deletion *)

\* What keeps a collection from being deleted, by kind.
Blocks(id, kind) ==
    CASE kind = "documents" -> \E d \in Documents : <<id, d>> \in titles
      [] kind = "regles"    -> \E l \in Labels : rules[<<id, l>>] > 0
      [] kind = "enfants"   -> \E c \in Collections : parent[c] = id

RemoveCollection(k, id) ==
    /\ curator[k].op = "idle"
    /\ Present(id) /\ id # Socle
    /\ Enter(k, [Idle EXCEPT !.op = "remove", !.id = id,
                   !.todo = {"documents", "regles", "enfants"}])
    /\ UNCHANGED <<parent, rules, titles>>

\* Three counts are asked for together and answer in any order.
Count(k, kind) ==
    LET q == curator[k] IN
    /\ q.op = "remove"
    /\ kind \in q.todo
    /\ IF Blocks(q.id, kind) THEN Done(k)
       ELSE Enter(k, [q EXCEPT !.todo = @ \ {kind}])
    /\ UNCHANGED <<parent, rules, titles>>

\* Slip: the foreign keys cascade.
SlipReferenced(id) == FALSE
\* access_rules and collection_titles: ON DELETE RESTRICT.
Referenced(id) == Blocks(id, "documents") \/ Blocks(id, "regles")

\* Children read after the count become roots: ON DELETE SET NULL.  The rows it
\* writes, its own and these, must not be locked.
Delete(k) ==
    LET q == curator[k] IN
    /\ q.op = "remove" /\ q.todo = {}
    /\ \A c \in Locked : c # q.id /\ parent[c] # q.id
    /\ parent' = IF Referenced(q.id) THEN parent
                 ELSE [c \in Collections |-> IF c = q.id THEN Absent
                                             ELSE IF parent[c] = q.id THEN Racine
                                             ELSE parent[c]]
    /\ Done(k)
    /\ UNCHANGED <<rules, titles>>

-----------------------------------------------------------------------------
(* Rules and documents *)

AddRecord(c, d) ==
    /\ Present(c)
    /\ titles' = titles \cup {<<c, d>>}
    /\ UNCHANGED <<parent, rules, curator>>

RemoveRecord(c, d) ==
    /\ Present(c)
    /\ titles' = titles \ {<<c, d>>}
    /\ UNCHANGED <<parent, rules, curator>>

AddAccessRule(c, l) ==
    /\ Present(c)
    /\ rules[<<c, l>>] < MaxRows
    /\ rules' = [rules EXCEPT ![<<c, l>>] = @ + 1]
    /\ UNCHANGED <<parent, titles, curator>>

RemoveAccessRule(c, l) ==
    /\ rules[<<c, l>>] > 0
    /\ rules' = [rules EXCEPT ![<<c, l>>] = @ - 1]
    /\ UNCHANGED <<parent, titles, curator>>

\* planifierPropagation: the rules of the source for every descendant that has
\* none of its own.
Plan(src) ==
    {c \in SousArbre(parent, src) \ {src} : ~Blocks(c, "regles")}
        \X {l \in Labels : rules[<<src, l>>] > 0}

PropagerRegles(k, src) ==
    /\ curator[k].op = "idle"
    /\ Present(src)
    /\ Plan(src) # {}
    /\ Enter(k, [Idle EXCEPT !.op = "propagate", !.id = src, !.plan = Plan(src)])
    /\ UNCHANGED <<parent, rules, titles>>

\* One transaction with its trace: a destination that is gone undoes it all.
Propagate(k) ==
    LET q == curator[k] IN
    /\ q.op = "propagate"
    /\ rules' = IF \A x \in q.plan : Present(x[1])
                THEN [x \in DOMAIN rules |-> IF x \in q.plan THEN rules[x] + 1 ELSE rules[x]]
                ELSE rules
    /\ Done(k)
    /\ UNCHANGED <<parent, titles>>

-----------------------------------------------------------------------------

\* What changes the tree, and propagations.
Reshape ==
    \/ \E c \in Collections : CreerCollection(c)
    \/ \E k \in Curators :
          \/ \E id \in Collections, to \in Collections \cup {Racine} : UpdateCollection(k, id, to)
          \/ \E id \in Collections : RemoveCollection(k, id) \/ PropagerRegles(k, id)
          \/ \E kind \in {"documents", "regles", "enfants"} : Count(k, kind)
          \/ MajCollection(k) \/ TriggerClimbs(k) \/ EndUpdate(k)
          \/ Delete(k) \/ Propagate(k)

\* What changes the contents of one collection.
Fill ==
    \/ \E c \in Collections, d \in Documents : AddRecord(c, d) \/ RemoveRecord(c, d)
    \/ \E c \in Collections, l \in Labels : AddAccessRule(c, l) \/ RemoveAccessRule(c, l)

Next == Reshape \/ Fill

-----------------------------------------------------------------------------
(* Properties *)

\* "Profondeur maximale de 3 niveaux ; aucun cycle": no collection is its own
\* ancestor or lies too deep, although a move is judged on rows that creations and
\* deletions change.  False of two moves that overlap (MaxMoves > 1).
TreeIsSound ==
    \A c \in Collections : Present(c) =>
        /\ ProfondeurDe(parent, c) <= ProfondeurMax
        /\ parent[c] # Racine => Present(parent[c]) /\ c \notin Chain(parent, parent[c])

\* "Une cascade emporterait des regles d'acces, c'est-a-dire des decisions": what
\* a deleted collection carried is gone before it, in any order of requests.
DecisionsSurvive ==
    \A c \in Collections : parent[c] = Absent =>
        ~Blocks(c, "documents") /\ ~Blocks(c, "regles")
=============================================================================
