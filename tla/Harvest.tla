------------------------------- MODULE Harvest -------------------------------
(***************************************************************************)
(* The OAI-PMH harvest of one source by one school: MoissonnageService,    *)
(* MoissonnageScheduler and the client ClientOai.                          *)
(*                                                                         *)
(* An execution reads the source and the token of an earlier run, asks the *)
(* repository for its pages, then writes what it got one statement after   *)
(* the other, without a transaction: the memory of what was harvested, the *)
(* records of the catalogue, the cursor of the source, the report.         *)
(*                                                                         *)
(* The repositories are external.  One page holds one record; a token is a *)
(* snapshot of what was left to give.                                      *)
(*                                                                         *)
(* An operator named Slip... is a plausible slip in the code of the        *)
(* definition that follows it; the specification does not use it.          *)
(***************************************************************************)
EXTENDS Integers, Sequences, FiniteSets

CONSTANTS
    Slots,         \* bound: executions that can be in flight together
    Night,         \* the slot where the nightly pass, one at a time, may run
    Ids,           \* OAI identifiers
    Targets,       \* repositories: a base URL, a prefix and a set
    Periods,       \* days between two nightly harvests; 0 is "manuelle"
    Failures,      \* how the walk of the pages may fail
    MaxPages,      \* pages the client accepts to follow
    TokenLives,    \* days a token lives when the repository announces it; 0: it
                   \* announces nothing
    MaxRuns,       \* bound: runs of one source
    MaxChanges,    \* bound: publications of the repositories, and settings changed
    MaxForgets,    \* bound: executions stopped, and sources deleted
    MaxDay         \* bound: the days explored

ASSUME HarvestAssumption ==
    /\ Night \in Slots
    /\ IsFiniteSet(Ids) /\ Targets # {} /\ Periods \subseteq Nat
    /\ Failures \subseteq {"injoignable", "erreur_protocole"}
    /\ MaxPages \in Nat /\ TokenLives \subseteq Nat
    /\ {MaxRuns, MaxChanges, MaxForgets, MaxDay} \subseteq Nat

VARIABLES
    repo,      \* external: the current version of each record
    changes,   \* publications and settings changed so far
    source,    \* harvest_sources
    runs,      \* harvest_runs of the source, by started_at
    harv,      \* harvested_records of the source, by OAI identifier
    local,     \* biblio_records created by harvests, in creation order
    module,    \* the module "moissonnage" is on
    clock,     \* the day
    sess,      \* what each execution in flight has read and counted
    rejected,  \* history: tokens a repository answered badResumptionToken to
    stops,     \* history: executions stopped half-way
    removed    \* sources deleted so far

world == <<repo, changes>>
db == <<source, runs, harv, local, module>>
past == <<stops, removed>>
vars == <<world, db, clock, sess, rejected, past>>

Unannounced == -1      \* a token whose expirationDate is not given

Statuses == {"importee", "collision", "ignoree", "supprimee_a_la_source"}
Outcomes == {"en_cours", "moisson", "vide", "injoignable", "erreur_protocole"}

\* A record as the repository gives it; stamp 0: not published yet.
Version == [id : Ids, stamp : Nat, gone : BOOLEAN, titled : BOOLEAN]
Token == [target : Targets, run : Nat, left : SUBSET Version,
          until : Nat \cup {Unannounced}]
NoToken == [target |-> CHOOSE t \in Targets : TRUE, run |-> 0, left |-> {},
            until |-> Unannounced]

\* harvested_records: record is the position of record_id in local, 0 for null.
HarvestedRecord == [status : Statuses \cup {"none"}, stamp : Nat, record : Nat]
Unknown == [status |-> "none", stamp |-> 0, record |-> 0]

Counts == [received : Nat, created : Nat, ignored : Nat, collided : Nat, deletions : Nat]
Zero == [received |-> 0, created |-> 0, ignored |-> 0, collided |-> 0, deletions |-> 0]
HarvestRun == [day : Nat, outcome : Outcomes, token : Token,
               counts : Counts]

\* harvest_sources: id is 0 between a deletion and the next declaration.
HarvestSource == [id : Nat, target : Targets, cursor : Nat, active : BOOLEAN,
                  period : Periods \cup {0}]
NoSource == [id |-> 0, target |-> NoToken.target, cursor |-> 0, active |-> FALSE,
             period |-> 0]

Labels == {"idle", "due", "source", "token", "run", "ask", "known", "notices",
           "import", "remember", "deletions", "cursor", "close"}
\* An execution in flight: what it has read, what is left of the answer, what it
\* counted.  Once answered it keeps no more of the source than its id.
Execution == [pc : Labels, now : Nat, source : HarvestSource, token : Token, run : Nat,
              etat : Outcomes, next : Token, got : SUBSET Version,
              known : [Ids -> HarvestedRecord], toCreate : Seq(Version), ids : Seq(Nat),
              top : Nat, counts : Counts]
Idle == [pc |-> "idle", now |-> 0, source |-> NoSource, token |-> NoToken, run |-> 0,
         etat |-> "en_cours", next |-> NoToken, got |-> {},
         known |-> [i \in Ids |-> Unknown], toCreate |-> <<>>, ids |-> <<>>,
         top |-> 0, counts |-> Zero]

Init ==
    /\ repo = [t \in Targets |-> [i \in Ids |->
                 [id |-> i, stamp |-> 0, gone |-> FALSE, titled |-> TRUE]]]
    /\ changes = 0
    /\ source = NoSource /\ runs = <<>> /\ local = <<>>
    /\ harv = [i \in Ids |-> Unknown]
    /\ module = TRUE
    /\ clock = 1
    /\ sess = [s \in Slots |-> Idle]
    /\ rejected = {} /\ stops = 0 /\ removed = 0

-----------------------------------------------------------------------------
(* Decisions *)

Latest(S) == CHOOSE m \in S : \A k \in S : k <= m
Notices(S) == {v \in S : ~v.gone}
Stamps(S) == {v.stamp : v \in S}

\* The latest run that left a token, if its window is open or unknown.
RepriseUtilisable(rows, now) ==
    LET withToken == {r \in DOMAIN rows : rows[r].token # NoToken}
        precedent == rows[Latest(withToken)].token
    IN  IF withToken = {} THEN NoToken
        ELSE IF precedent.until # Unannounced /\ precedent.until <= now THEN NoToken
        ELSE precedent

\* Slip: the cursor moves whenever something was received.
SlipAvancerLaSource(etat, next) == TRUE
AvancerLaSource(etat, next) == etat = "moisson" /\ next = NoToken

\* Slip: every record received is taken for a new one.
SlipSort(row, v) == IF v.titled THEN "new" ELSE "untitled"
\* What the first loop of appliquer makes of a notice, from the row it read.
Sort(row, v) ==
    CASE row.status # "none" /\ row.stamp = v.stamp -> "same"
      [] row.status # "none" /\ row.stamp # v.stamp -> "changed"
      [] row.status = "none" /\ v.titled            -> "new"
      [] OTHER                                      -> "untitled"

\* Slip: the deletion of a record never taken enters no count.
SlipCountDeletion(counts, row) ==
    IF row.status = "none" THEN counts ELSE [counts EXCEPT !.deletions = @ + 1]
CountDeletion(counts, row) ==
    IF row.status = "none" THEN [counts EXCEPT !.ignored = @ + 1]
    ELSE [counts EXCEPT !.deletions = @ + 1]

\* Slip: the version is noted, the status is left.
SlipCollision(row, v) == [row EXCEPT !.stamp = v.stamp]
Collision(row, v) == [row EXCEPT !.status = "collision", !.stamp = v.stamp]

\* Slip: a status the screens do not know, which is a text and no enumeration.
SlipDeleted(row, v) == [row EXCEPT !.status = "supprimee", !.stamp = v.stamp]
Deleted(row, v) == [row EXCEPT !.status = "supprimee_a_la_source", !.stamp = v.stamp]

-----------------------------------------------------------------------------
(* Sources *)

CreerSource(t, period, active) ==
    /\ source.id = 0
    /\ source' = [id |-> removed + 1, target |-> t, cursor |-> 0,
                  active |-> active, period |-> period]
    /\ UNCHANGED <<world, runs, harv, local, module, clock, sess, rejected, past>>

\* Only the fields that were sent are written: the cursor and the tokens stay.
ModifierSource(t, period, active) ==
    /\ source.id # 0 /\ changes < MaxChanges
    /\ source' = [source EXCEPT !.target = t, !.period = period, !.active = active]
    /\ source' # source /\ changes' = changes + 1
    /\ UNCHANGED <<repo, runs, harv, local, module, clock, sess, rejected, past>>

\* The runs and the memory go in cascade, the records of the catalogue stay.
SupprimerSource ==
    /\ source.id # 0 /\ stops + removed < MaxForgets
    /\ source' = NoSource
    /\ runs' = <<>>
    /\ harv' = [i \in Ids |-> Unknown]
    /\ removed' = removed + 1
    /\ UNCHANGED <<world, local, module, clock, sess, rejected, stops>>

SwitchModule ==
    /\ changes < MaxChanges
    /\ module' = ~module /\ changes' = changes + 1
    /\ UNCHANGED <<repo, source, runs, harv, local, clock, sess, rejected, past>>

-----------------------------------------------------------------------------
(* An execution: until the answer of the repository *)

Busy == {s \in Slots : sess[s].pc # "idle"}
Goto(s, pc) == sess' = [sess EXCEPT ![s].pc = pc]
Throw(s) == sess' = [sess EXCEPT ![s] = Idle]

\* The rows of the source this execution read are still there.
Alive(s) == source.id # 0 /\ source.id = sess[s].source.id

Start(s, pc, src) ==
    /\ sess[s].pc = "idle"
    /\ module
    /\ sess' = [sess EXCEPT ![s].pc = pc, ![s].now = clock, ![s].source = src]
    /\ UNCHANGED <<world, db, clock, rejected, past>>

\* exigerSource: the request ends there when the source does not exist.
Manual(s) == source.id # 0 /\ Start(s, "token", source)

\* One pass at a time; it looks at the active sources that have a periodicity.
NightlyPass ==
    /\ source.id # 0 /\ source.active /\ source.period # 0
    /\ Start(Night, "due", source)

\* Days since the last finished run of the source, as the pass reads it.
Finished == IF Alive(Night) THEN {r \in DOMAIN runs : runs[r].outcome # "en_cours"} ELSE {}
Elapsed == sess[Night].now - runs[Latest(Finished)].day

\* cestLHeure, in days: its margin of twelve hours lets a run of exactly one period
\* ago be on either side.
Due == IF Finished = {} THEN TRUE ELSE sess[Night].source.period <= Elapsed
NotDue == IF Finished = {} THEN FALSE ELSE Elapsed <= sess[Night].source.period

CestLHeure ==
    /\ sess[Night].pc = "due"
    /\ \/ Due /\ Goto(Night, "source")
       \/ NotDue /\ Throw(Night)
    /\ UNCHANGED <<world, db, clock, rejected, past>>

\* The nightly pass listed the source some statements ago: it is read again.
ExigerSource ==
    /\ sess[Night].pc = "source"
    /\ IF Alive(Night) THEN sess' = [sess EXCEPT ![Night].pc = "token", ![Night].source = source]
       ELSE Throw(Night)
    /\ UNCHANGED <<world, db, clock, rejected, past>>

LireReprise(s) ==
    /\ sess[s].pc = "token"
    /\ sess' = [sess EXCEPT ![s].pc = "run",
                            ![s].token = IF Alive(s) THEN RepriseUtilisable(runs, sess[s].now)
                                         ELSE NoToken]
    /\ UNCHANGED <<world, db, clock, rejected, past>>

CreerRun(s) ==
    /\ sess[s].pc = "run"
    /\ Len(runs) < MaxRuns
    /\ IF Alive(s)
       THEN /\ runs' = Append(runs, [day |-> clock, outcome |-> "en_cours",
                                     token |-> NoToken, counts |-> Zero])
            /\ sess' = [sess EXCEPT ![s].pc = "ask", ![s].run = Len(runs) + 1]
       ELSE Throw(s) /\ UNCHANGED runs
    /\ UNCHANGED <<world, source, harv, local, module, clock, rejected, past>>

\* What the repository still has to give: the rest of a token, or every record
\* whose version is not older than the cursor.
Snapshot(q) ==
    IF q.token # NoToken THEN q.token.left
    ELSE {v \in {repo[q.source.target][i] : i \in Ids} :
            v.stamp # 0 /\ q.source.cursor <= v.stamp}

\* An announced token is good until its date; any other one may be forgotten.
Refused(q) ==
    /\ q.token # NoToken
    /\ \/ q.token.until = Unannounced
       \/ q.token.until <= clock
       \/ q.token.target # q.source.target
Accepted(q) ==
    q.token = NoToken \/
        (q.token.target = q.source.target /\
            (q.token.until = Unannounced \/ clock < q.token.until))

\* ClientOai.moissonner: how the walk of the pages ends, what it got and the token
\* it would go on with.  Nothing at all is "vide", or a failure without a rest.
Issues(s) ==
    LET q == sess[s]  S == Snapshot(q)
        rest(R, l) == [target |-> q.source.target, run |-> q.run, left |-> S \ R,
                       until |-> IF l = 0 THEN Unannounced ELSE clock + l]
        issue(etat, got, next) == [etat |-> etat, got |-> got, next |-> next]
    IN  {issue(e, {}, NoToken) : e \in Failures}
        \cup (IF S = {} THEN {issue("vide", {}, NoToken)} ELSE {})
        \cup {issue("moisson", R, NoToken) :
                R \in {R \in {S} : R # {} /\ Cardinality(R) <= MaxPages}}
        \cup {issue(e, R, rest(R, l)) : e \in Failures, l \in TokenLives,
                R \in {R \in SUBSET S : R \notin {{}, S} /\ Cardinality(R) <= MaxPages}}
        \* the same token twice: it is dropped
        \cup {issue("erreur_protocole", R, NoToken) :
                R \in {R \in SUBSET S : Cardinality(R) \in 2..MaxPages}}

\* What the execution keeps of all it read and was given.
Answer(s, issue) ==
    sess' = [sess EXCEPT ![s] = [Idle EXCEPT
        !.pc = IF issue.got = {} THEN "close" ELSE "known",
        !.source.id = sess[s].source.id, !.run = sess[s].run,
        !.etat = issue.etat, !.got = issue.got, !.next = issue.next,
        !.top = IF issue.got = {} THEN 0 ELSE Latest(Stamps(issue.got)),
        !.counts.received = Cardinality(issue.got)]]

Moissonner(s) ==
    /\ sess[s].pc = "ask"
    /\ Accepted(sess[s])
    /\ \E issue \in Issues(s) : Answer(s, issue)
    /\ UNCHANGED <<world, db, clock, rejected, past>>

\* badResumptionToken on the first request.
JetonRefuse(s) ==
    /\ sess[s].pc = "ask"
    /\ Refused(sess[s])
    /\ Answer(s, [etat |-> "erreur_protocole", got |-> {}, next |-> NoToken])
    /\ rejected' = rejected \cup {sess[s].token}
    /\ UNCHANGED <<world, db, clock, past>>

-----------------------------------------------------------------------------
(* An execution: appliquer and clore *)

\* Where the execution stands once it has gone past what it had to do.
Forward(q) ==
    [q EXCEPT !.pc =
        IF Notices(q.got) # {} THEN "notices"
        ELSE IF Len(q.ids) < Len(q.toCreate) THEN "import"
        ELSE IF q.toCreate # <<>> THEN "remember"
        ELSE IF q.got # {} THEN "deletions"
        ELSE IF AvancerLaSource(q.etat, q.next) THEN "cursor" ELSE "close"]
Continue(s, q) == sess' = [sess EXCEPT ![s] = Forward(q)]

LireConnues(s) ==
    /\ sess[s].pc = "known"
    /\ Continue(s, [sess[s] EXCEPT !.known =
           [i \in Ids |-> IF Alive(s) /\ \E v \in sess[s].got : v.id = i
                          THEN harv[i] ELSE Unknown]])
    /\ UNCHANGED <<world, db, clock, rejected, past>>

\* One turn of the first loop, in the order of the pages, which is any order.
Notice(s, v) ==
    LET q == sess[s]
        kind == Sort(q.known[v.id], v)
        rest == [q EXCEPT !.got = @ \ {v}]
    IN  /\ q.pc = "notices" /\ v \in Notices(q.got)
        /\ CASE kind = "same" ->
                  /\ IF Alive(s) THEN Continue(s, [rest EXCEPT !.counts.ignored = @ + 1])
                     ELSE Throw(s)
                  /\ UNCHANGED harv
             [] kind = "changed" ->
                  IF Alive(s)
                  THEN /\ harv' = [harv EXCEPT ![v.id] = Collision(@, v)]
                       /\ Continue(s, [rest EXCEPT !.counts.collided = @ + 1])
                  ELSE Throw(s) /\ UNCHANGED harv
             [] kind = "new" ->
                  Continue(s, [rest EXCEPT !.toCreate = Append(@, v)]) /\ UNCHANGED harv
             [] kind = "untitled" ->
                  IF Alive(s) /\ harv[v.id] = Unknown
                  THEN /\ harv' = [harv EXCEPT ![v.id] =
                             [status |-> "ignoree", stamp |-> v.stamp, record |-> 0]]
                       /\ Continue(s, [rest EXCEPT !.counts.ignored = @ + 1])
                  ELSE Throw(s) /\ UNCHANGED harv
        /\ UNCHANGED <<world, source, runs, local, module, clock, rejected, past>>

\* importerNoticesMoissonnees: the records, one after the other.
Importer(s) ==
    LET q == sess[s]  v == q.toCreate[Len(q.ids) + 1] IN
    /\ q.pc = "import"
    /\ local' = Append(local, [id |-> v.id, stamp |-> v.stamp])
    /\ Continue(s, [q EXCEPT !.ids = Append(@, Len(local) + 1)])
    /\ UNCHANGED <<world, source, runs, harv, module, clock, rejected, past>>

\* Then their identity; the pair of a source and an identifier is unique.
Remember(s) ==
    LET q == sess[s]  v == Head(q.toCreate) IN
    /\ q.pc = "remember"
    /\ IF Alive(s) /\ harv[v.id] = Unknown
       THEN /\ harv' = [harv EXCEPT ![v.id] =
                  [status |-> "importee", stamp |-> v.stamp, record |-> Head(q.ids)]]
            /\ Continue(s, [q EXCEPT !.toCreate = Tail(@), !.ids = Tail(@),
                                     !.counts.created = @ + 1])
       ELSE Throw(s) /\ UNCHANGED harv
    /\ UNCHANGED <<world, source, runs, local, module, clock, rejected, past>>

Suppression(s, v) ==
    LET q == sess[s]  row == q.known[v.id]
        rest == [q EXCEPT !.got = @ \ {v}, !.counts = CountDeletion(@, row)]
    IN  /\ q.pc = "deletions" /\ v \in q.got
        /\ IF row = Unknown THEN Continue(s, rest) /\ UNCHANGED harv
           ELSE IF Alive(s)
           THEN harv' = [harv EXCEPT ![v.id] = Deleted(@, v)] /\ Continue(s, rest)
           ELSE Throw(s) /\ UNCHANGED harv
        /\ UNCHANGED <<world, source, runs, local, module, clock, rejected, past>>

\* clore: the cursor of the source, then the report.
EcrireCurseur(s) ==
    /\ sess[s].pc = "cursor"
    /\ IF Alive(s)
       THEN source' = [source EXCEPT !.cursor = sess[s].top] /\ Goto(s, "close")
       ELSE Throw(s) /\ UNCHANGED source
    /\ UNCHANGED <<world, runs, harv, local, module, clock, rejected, past>>

Clore(s) ==
    LET q == sess[s] IN
    /\ q.pc = "close"
    /\ runs' = IF Alive(s)
               THEN [runs EXCEPT ![q.run].outcome = q.etat, ![q.run].token = q.next,
                                 ![q.run].counts = q.counts]
               ELSE runs
    /\ Throw(s)
    /\ UNCHANGED <<world, source, harv, local, module, clock, rejected, past>>

\* The server stops, or a statement fails and its execution ends there.
Stop(S) ==
    /\ stops + removed < MaxForgets /\ S \cap Busy # {}
    /\ sess' = [s \in Slots |-> IF s \in S THEN Idle ELSE sess[s]]
    /\ stops' = stops + 1
    /\ UNCHANGED <<world, db, clock, rejected, removed>>

-----------------------------------------------------------------------------
(* The world *)

\* External: a repository publishes a version, or a deletion, once a day at most
\* for one record.
Publish(t, i, gone, titled) ==
    /\ changes < MaxChanges
    /\ repo[t][i].stamp < clock
    /\ gone => repo[t][i].stamp # 0 /\ ~repo[t][i].gone /\ titled
    /\ repo' = [repo EXCEPT ![t][i] =
                  [id |-> i, stamp |-> clock, gone |-> gone, titled |-> titled]]
    /\ changes' = changes + 1
    /\ UNCHANGED <<db, clock, sess, rejected, past>>

Tick ==
    /\ clock < MaxDay
    /\ clock' = clock + 1
    /\ UNCHANGED <<world, db, sess, rejected, past>>

Step(s) ==
    \/ LireReprise(s) \/ CreerRun(s)
    \/ Moissonner(s) \/ JetonRefuse(s) \/ LireConnues(s)
    \/ \E v \in sess[s].got : Notice(s, v) \/ Suppression(s, v)
    \/ Importer(s) \/ Remember(s) \/ EcrireCurseur(s) \/ Clore(s)

Next ==
    \/ \E t \in Targets, p \in Periods, a \in BOOLEAN :
         CreerSource(t, p, a) \/ ModifierSource(t, p, a)
    \/ SupprimerSource \/ SwitchModule
    \/ \E s \in Slots : Manual(s)
    \/ NightlyPass \/ CestLHeure \/ ExigerSource
    \/ \E s \in Slots : Step(s) \/ Stop({s})
    \/ Stop(Slots)
    \/ \E t \in Targets, i \in Ids, gone, titled \in BOOLEAN : Publish(t, i, gone, titled)
    \/ Tick

Spec == Init /\ [][Next]_vars

-----------------------------------------------------------------------------
(* Properties *)

\* Every variable keeps its type and its bound.
TypeOK ==
    /\ repo \in [Targets -> [Ids -> Version]] /\ changes \in 0..MaxChanges
    /\ source \in HarvestSource
    /\ runs \in Seq(HarvestRun) /\ Len(runs) <= MaxRuns
    /\ harv \in [Ids -> HarvestedRecord]
    /\ local \in Seq([id : Ids, stamp : Nat])
    /\ module \in BOOLEAN /\ clock \in Nat
    /\ {stops, removed} \subseteq Nat /\ stops + removed <= MaxForgets
    /\ rejected \subseteq Token
    /\ sess \in [Slots -> Execution]

\* "Le curseur n'avance qu'a l'ABOUTISSEMENT": whatever was interrupted, resumed,
\* refused or stopped, each version older than the cursor is in the memory of the
\* source: taken, set apart or ignored if it is alive, marked if it is deleted.
NothingBehindTheCursor ==
    source.id # 0 => \A i \in Ids :
        LET v == repo[source.target][i] IN
        v.stamp # 0 /\ v.stamp < source.cursor =>
            \/ v.gone /\ harv[i].status = "none"
            \/ /\ harv[i].stamp = v.stamp
               /\ harv[i].status # "none"
               /\ v.gone <=> harv[i].status = "supprimee_a_la_source"

\* "recues = creees + ignorees + collisions + suppressions", in every report.
ReportAddsUp ==
    \A r \in DOMAIN runs :
        LET c == runs[r].counts IN
        c.received = c.created + c.ignored + c.collided + c.deletions

\* A row says "importee" of the very version that its record of the catalogue was
\* made from; whatever its status, its record is one made from its identifier.
MemoryPointsAtItsRecord ==
    \A i \in Ids :
        LET r == harv[i].record IN
        /\ harv[i].status = "importee" => r # 0
        /\ r # 0 => /\ r \in DOMAIN local /\ local[r].id = i
                    /\ harv[i].status = "importee" => local[r].stamp = harv[i].stamp

\* "Elle empeche un second moissonnage de tout dupliquer": a record is imported
\* once; once more at most for each execution stopped half-way, and twice for a
\* deletion of the source: the execution it cuts goes on importing, the source
\* that is declared again starts from nothing.
ImportedOnce ==
    \A i \in Ids :
        Cardinality({r \in DOMAIN local : local[r].id = i}) <= 1 + stops + 2 * removed

\* "Le pire cas est un badResumptionToken que la prochaine execution corrigera":
\* no execution started after the refusal sends the refused token again.
\* The code does not keep this: no run lists it (README, disagreements).
RefusedTokenIsDropped ==
    [][\A s \in Slots : LireReprise(s) => sess'[s].token \notin rejected]_vars
=============================================================================
