----------------------------- MODULE HarvestProofs -----------------------------
(***************************************************************************)
(* The memory and the reports of a harvest, for any number of executions   *)
(* that overlap, stop or lose their source, of records and of pages; what  *)
(* the cursor passes over and how often a record enters the catalogue, for *)
(* executions of one source that follow one another.                       *)
(***************************************************************************)
EXTENDS Harvest, TLAPS, FiniteSetTheorems, SequenceTheorems, WellFoundedInduction

\* What a repository can have given so far.
Given(S) == IsFiniteSet(S) /\ \A v \in S : v.stamp <= clock

\* The notices an execution received are counted, left to deal with or to create.
Sum(e) == e.counts.received = e.counts.created + e.counts.ignored + e.counts.collided
                              + e.counts.deletions + Cardinality(e.got) + Len(e.toCreate)
Applying == {"known", "notices", "import", "remember", "deletions", "cursor", "close"}
Early == {"due", "source", "token", "run", "ask"}

Balanced(e) ==
    /\ Len(e.ids) <= Len(e.toCreate)
    /\ e.pc = "import" => Len(e.ids) < Len(e.toCreate)
    /\ e.pc = "remember" => Len(e.ids) = Len(e.toCreate) /\ e.toCreate # <<>>
    /\ e.pc \in {"cursor", "close"} => e.got = {} /\ e.toCreate = <<>>
    /\ e.pc \in Applying => Sum(e)

\* The records an execution created are those of its notices, in their order.
PointedIn(records, e) ==
    \A k \in 1..Len(e.ids) :
        /\ e.ids[k] \in DOMAIN records
        /\ records[e.ids[k]].id = e.toCreate[k].id
        /\ records[e.ids[k]].stamp = e.toCreate[k].stamp
Pointed(e) == PointedIn(local, e)

AllGivenTo(e) == Given(e.token.left) /\ Given(e.next.left) /\ Given(e.got)
Fit(e) == e \in Execution /\ AllGivenTo(e) /\ Balanced(e) /\ Pointed(e)

\* What the code hands over to Forward.
Carried(e) == /\ e \in Execution /\ AllGivenTo(e) /\ Pointed(e)
              /\ Len(e.ids) <= Len(e.toCreate) /\ Sum(e)

\* Whatever is kept of the repositories was given by them.
AllGiven ==
    /\ \A t \in Targets, i \in Ids : repo[t][i].stamp <= clock
    /\ \A r \in DOMAIN runs : Given(runs[r].token.left)
    /\ \A s \in Slots : Fit(sess[s])

TypeInv == TypeOK /\ AllGiven

-----------------------------------------------------------------------------
(* Operators *)

\* A set of naturals that is not empty has a least element.
LEMMA LeastExists ==
    ASSUME NEW T, T \subseteq Nat, T # {}
    PROVE  \E x \in T : \A y \in T : x <= y
  <1>1. \E x \in T : \A y \in T : ~ (<<y, x>> \in OpToRel(<, Nat))
    BY NatLessThanWellFounded, WFMin
  <1>2. \A x, y \in Nat : ~ (<<y, x>> \in OpToRel(<, Nat)) => ~ (y < x)
    BY Zenon DEF OpToRel
  <1>3. \E x \in T : \A y \in T : ~ (y < x)
    BY <1>1, <1>2, Zenon
  <1>4. \A x, y \in Nat : ~ (y < x) => x <= y
    OBVIOUS
  <1>5. QED
    BY <1>3, <1>4, Zenon

\* Latest is the greatest element of a bounded set of naturals that is not empty.
LEMMA LatestIsGreatest ==
    ASSUME NEW n \in Nat, NEW S, S \subseteq 0..n, S # {}
    PROVE  Latest(S) \in S /\ \A k \in S : k <= Latest(S)
  <1>1. PICK e \in S : TRUE
    OBVIOUS
  <1>2. {n - k : k \in S} # {} /\ {n - k : k \in S} \subseteq Nat
    <2>1. n - e \in {n - k : k \in S}
      BY <1>1
    <2>2. ASSUME NEW k \in S PROVE n - k \in Nat
      BY k \in 0..n
    <2>3. QED
      BY <2>1, <2>2
  <1>3. PICK x \in {n - k : k \in S} : \A y \in {n - k : k \in S} : x <= y
    BY <1>2, LeastExists
  <1>4. PICK m \in S : x = n - m
    BY <1>3
  <1>5. ASSUME NEW k \in S PROVE k <= m
    <2>1. n - m <= n - k
      BY <1>3, <1>4
    <2>2. k \in 0..n /\ m \in 0..n
      OBVIOUS
    <2>3. QED
      BY <2>1, <2>2
  <1>6. QED
    BY <1>5 DEF Latest

LEMMA CountDeletionType ==
    ASSUME NEW c \in Counts, NEW row
    PROVE  CountDeletion(c, row) \in Counts
  BY DEF CountDeletion, Counts

LEMMA RowTypes ==
    ASSUME NEW row \in HarvestedRecord, NEW v \in Version
    PROVE  Collision(row, v) \in HarvestedRecord /\ Deleted(row, v) \in HarvestedRecord
  BY DEF Collision, Deleted, HarvestedRecord, Version, Statuses

LEMMA ForwardType ==
    ASSUME NEW q \in Execution
    PROVE  Forward(q) \in Execution
  BY DEF Forward, Execution, Labels

\* Forward moves the label only.
LEMMA ForwardKeeps ==
    ASSUME NEW q \in Execution
    PROVE  /\ Forward(q).got = q.got /\ Forward(q).toCreate = q.toCreate
           /\ Forward(q).ids = q.ids /\ Forward(q).counts = q.counts
           /\ Forward(q).token = q.token /\ Forward(q).next = q.next
           /\ Forward(q).source = q.source /\ Forward(q).run = q.run
           /\ Forward(q).etat = q.etat /\ Forward(q).known = q.known
           /\ Forward(q).top = q.top /\ Forward(q).now = q.now
  BY DEF Forward, Execution

\* Forward goes to the end only when nothing is left to do.
LEMMA ForwardBalanced ==
    ASSUME NEW q \in Execution, Len(q.ids) <= Len(q.toCreate), Sum(q)
    PROVE  Balanced(Forward(q))
  <1>1. q \in Execution /\ Len(q.ids) \in Nat /\ Len(q.toCreate) \in Nat
    BY DEF Execution
  <1>2. /\ Forward(q).pc = "import" => Len(q.ids) < Len(q.toCreate)
        /\ Forward(q).pc = "remember" => ~(Len(q.ids) < Len(q.toCreate)) /\ q.toCreate # <<>>
        /\ Forward(q).pc \in {"cursor", "close"} => q.got = {} /\ q.toCreate = <<>>
    <2>1. Forward(q).pc =
            IF Notices(q.got) # {} THEN "notices"
            ELSE IF Len(q.ids) < Len(q.toCreate) THEN "import"
            ELSE IF q.toCreate # <<>> THEN "remember"
            ELSE IF q.got # {} THEN "deletions"
            ELSE IF AvancerLaSource(q.etat, q.next) THEN "cursor" ELSE "close"
      BY <1>1 DEF Forward, Execution
    <2>2. QED
      BY <2>1
  <1>3. Sum(Forward(q))
    BY <1>1, ForwardKeeps DEF Sum
  <1>4. QED
    BY <1>1, <1>2, <1>3, ForwardKeeps DEF Balanced

LEMMA NoTokenType == ASSUME HarvestAssumption PROVE NoToken \in Token
  BY DEF HarvestAssumption, NoToken, Token, Unannounced

LEMMA IdleType ==
    ASSUME HarvestAssumption
    PROVE  Fit(Idle)
  <1>1. NoSource \in HarvestSource
    BY DEF HarvestAssumption, NoSource, NoToken, HarvestSource
  <1>2. Zero \in Counts /\ Unknown \in HarvestedRecord
    BY DEF Zero, Counts, Unknown, HarvestedRecord
  <1>3. Idle \in Execution
    BY <1>1, <1>2, NoTokenType DEF Idle, Execution, Labels, Outcomes
  <1>4. NoToken.left = {} /\ Given({})
    BY FS_EmptySet DEF NoToken, Given
  <1>5. Idle.ids = <<>> /\ Idle.toCreate = <<>> /\ Idle.pc = "idle"
    BY DEF Idle
  <1>6. Balanced(Idle) /\ Pointed(Idle)
    BY <1>5 DEF Balanced, Pointed, PointedIn, Applying
  <1>7. AllGivenTo(Idle)
    BY <1>4 DEF Idle, AllGivenTo
  <1>8. QED
    BY <1>3, <1>6, <1>7 DEF Fit

\* An execution that has not asked yet keeps what it had of an answer: nothing.
LEMMA EarlyFit ==
    ASSUME NEW x, Fit(x), NEW e \in Execution, e.pc \in Early, Given(e.token.left),
           e.ids = x.ids, e.toCreate = x.toCreate, e.got = x.got, e.next = x.next
    PROVE  Fit(e)
  BY DEF Fit, AllGivenTo, Balanced, Pointed, PointedIn, Early, Applying

-----------------------------------------------------------------------------
(* Types *)

\* What an execution becomes when it takes a step of its own.
LEMMA SessFit ==
    ASSUME TypeInv, NEW s \in Slots, NEW e, Fit(e),
           sess' = [sess EXCEPT ![s] = e], clock' = clock, local' = local
    PROVE  sess' \in [Slots -> Execution] /\ \A t \in Slots : Fit(sess[t])'
  <1>1. sess' \in [Slots -> Execution] /\ \A t \in Slots : sess'[t] = IF t = s THEN e ELSE sess[t]
    BY DEF TypeInv, TypeOK, Fit
  <1>2. \A t \in Slots : Fit(sess[t])
    BY DEF TypeInv, AllGiven
  <1>3. QED
    BY <1>1, <1>2 DEF Fit, AllGivenTo, Given, Balanced, Sum, Pointed, PointedIn

\* The rest of the invariant when a step changes nothing but an execution.
LEMMA OnlySess ==
    ASSUME TypeInv, sess' \in [Slots -> Execution], \A t \in Slots : Fit(sess[t])',
           UNCHANGED <<world, db, clock, past>>, rejected' \subseteq Token
    PROVE  TypeInv'
  BY DEF TypeInv, TypeOK, AllGiven, Given, world, db, past

LEMMA ForwardFit ==
    ASSUME NEW q, Carried(q) PROVE Fit(Forward(q))
  <1>1. q \in Execution
    BY DEF Carried
  <1>2. AllGivenTo(Forward(q)) /\ Pointed(Forward(q))
    BY <1>1, ForwardKeeps DEF Carried, AllGivenTo, Pointed, PointedIn
  <1>3. QED
    BY <1>1, <1>2, ForwardType, ForwardBalanced DEF Fit, Carried

LEMMA GivenLess ==
    ASSUME NEW S, Given(S), NEW R, R \subseteq S
    PROVE  Given(R)
  <1>1. IsFiniteSet(R)
    BY FS_Subset DEF Given
  <1>2. QED
    BY <1>1 DEF Given

\* What a repository answers was given.
LEMMA SnapshotGiven ==
    ASSUME HarvestAssumption, TypeInv, NEW s \in Slots
    PROVE  Given(Snapshot(sess[s])) /\ Snapshot(sess[s]) \subseteq Version
  <1> DEFINE q == sess[s]
             f == repo[q.source.target]
             All == {f[i] : i \in Ids}
  <1>1. q \in Execution /\ Given(q.token.left) /\ q.source.target \in Targets
        /\ q.token.left \subseteq Version
    BY DEF TypeInv, TypeOK, AllGiven, Fit, AllGivenTo, Execution, HarvestSource, Token
  <1>2. f \in [Ids -> Version] /\ \A i \in Ids : f[i].stamp <= clock
    BY <1>1 DEF TypeInv, TypeOK, AllGiven
  <1>3. Given(All) /\ All \subseteq Version
    <2>1. f \in Surjection(Ids, All)
      BY <1>2 DEF Surjection
    <2>2. IsFiniteSet(All)
      BY <2>1, FS_Surjection DEF HarvestAssumption
    <2>3. QED
      BY <1>2, <2>2 DEF Given
  <1>4. CASE q.token # NoToken
    BY <1>1, <1>4 DEF Snapshot
  <1>5. CASE q.token = NoToken
    <2>1. Snapshot(q) \subseteq All
      BY <1>5 DEF Snapshot
    <2>2. QED
      BY <1>3, <2>1, GivenLess
  <1>6. QED
    BY <1>4, <1>5

\* Throw ends an execution, Goto moves its label.
LEMMA ThrowFit ==
    ASSUME HarvestAssumption, TypeInv, NEW s \in Slots, Throw(s), clock' = clock, local' = local
    PROVE  sess' \in [Slots -> Execution] /\ \A t \in Slots : Fit(sess[t])'
  BY IdleType, SessFit DEF Throw

LEMMA GotoFit ==
    ASSUME TypeInv, NEW s \in Slots, NEW l \in Early, Goto(s, l), clock' = clock, local' = local
    PROVE  sess' \in [Slots -> Execution] /\ \A t \in Slots : Fit(sess[t])'
  <1> DEFINE e == [sess[s] EXCEPT !.pc = l]
  <1>1. Fit(sess[s])
    BY DEF TypeInv, AllGiven
  <1>2. Fit(e)
    <2>1. e \in Execution /\ e.pc = l /\ e.token = sess[s].token
          /\ e.ids = sess[s].ids /\ e.toCreate = sess[s].toCreate
          /\ e.got = sess[s].got /\ e.next = sess[s].next
      BY <1>1 DEF Fit, Execution, Labels, Early
    <2> HIDE DEF e
    <2>2. QED
      BY <1>1, <2>1, EarlyFit DEF Fit, AllGivenTo
  <1>3. sess' = [sess EXCEPT ![s] = e]
    BY DEF Goto
  <1> HIDE DEF e
  <1>4. QED
    BY <1>2, <1>3, SessFit

LEMMA SourcesType ==
    ASSUME HarvestAssumption, TypeInv,
           NEW t \in Targets, NEW p \in Periods, NEW a \in BOOLEAN,
           CreerSource(t, p, a) \/ ModifierSource(t, p, a)
    PROVE  TypeInv'
  <1>1. CASE CreerSource(t, p, a)
    <2>1. source' \in HarvestSource
      BY <1>1 DEF CreerSource, TypeInv, TypeOK, HarvestSource
    <2>2. QED
      BY <1>1, <2>1 DEF CreerSource, TypeInv, TypeOK, AllGiven, Fit, AllGivenTo,
        Balanced, Sum, Pointed, PointedIn, Given, world, past
  <1>2. CASE ModifierSource(t, p, a)
    <2>1. source' \in HarvestSource
      BY <1>2 DEF ModifierSource, TypeInv, TypeOK, HarvestSource
    <2>2. changes' \in 0..MaxChanges
      BY <1>2 DEF ModifierSource, TypeInv, TypeOK, HarvestAssumption
    <2>3. QED
      BY SMTT(30), <1>2, <2>1, <2>2 DEF ModifierSource, TypeInv, TypeOK, AllGiven, Fit, AllGivenTo,
        Balanced, Sum, Pointed, PointedIn, Given, past
  <1>3. QED
    BY <1>1, <1>2

LEMMA SwitchType ==
    ASSUME HarvestAssumption, TypeInv, SwitchModule
    PROVE  TypeInv'
  <1>1. changes' \in 0..MaxChanges /\ module' \in BOOLEAN
    BY DEF SwitchModule, TypeInv, TypeOK, HarvestAssumption
  <1>2. \A s \in Slots : Fit(sess[s])'
    BY SMTT(30) DEF SwitchModule, TypeInv, AllGiven, Fit, AllGivenTo, Balanced, Sum, Pointed,
           PointedIn, Given
  <1>3. QED
    BY <1>1, <1>2 DEF SwitchModule, TypeInv, TypeOK, AllGiven, Given, past

LEMMA SupprimerType ==
    ASSUME HarvestAssumption, TypeInv, SupprimerSource
    PROVE  TypeInv'
  <1>1. source' \in HarvestSource
    BY DEF SupprimerSource, NoSource, NoToken, HarvestSource, HarvestAssumption
  <1>2. runs' \in Seq(HarvestRun) /\ Len(runs') <= MaxRuns /\ runs' = <<>> /\ DOMAIN runs' = {}
    BY DEF SupprimerSource, HarvestAssumption
  <1>3. harv' \in [Ids -> HarvestedRecord]
    BY DEF SupprimerSource, Unknown, HarvestedRecord
  <1>4. {stops', removed'} \subseteq Nat /\ stops' + removed' <= MaxForgets
    BY DEF SupprimerSource, TypeInv, TypeOK, HarvestAssumption
  <1>5. QED
    BY SMTT(30), <1>1, <1>2, <1>3, <1>4 DEF SupprimerSource, TypeInv, TypeOK, AllGiven, Fit, AllGivenTo,
        Balanced, Sum, Pointed, PointedIn, Given, world

LEMMA PublishType ==
    ASSUME HarvestAssumption, TypeInv,
           NEW t \in Targets, NEW i \in Ids, NEW gone \in BOOLEAN, NEW titled \in BOOLEAN,
           Publish(t, i, gone, titled)
    PROVE  TypeInv'
  <1> DEFINE v == [id |-> i, stamp |-> clock, gone |-> gone, titled |-> titled]
  <1>1. v \in Version
    BY DEF Version, TypeInv, TypeOK
  <1>2. /\ repo' \in [Targets -> [Ids -> Version]]
        /\ \A u \in Targets, j \in Ids :
              repo'[u][j] = IF u = t /\ j = i THEN v ELSE repo[u][j]
    BY <1>1 DEF Publish, TypeInv, TypeOK
  <1>3. \A u \in Targets, j \in Ids : repo'[u][j].stamp <= clock
    <2>1. v.stamp <= clock
      BY DEF TypeInv, TypeOK
    <2>2. \A u \in Targets, j \in Ids : repo[u][j].stamp <= clock
      BY DEF TypeInv, AllGiven
    <2> HIDE DEF v
    <2>3. QED
      BY <1>2, <2>1, <2>2
  <1>4. changes' \in 0..MaxChanges
    BY DEF Publish, TypeInv, TypeOK, HarvestAssumption
  <1>5. \A s \in Slots : Fit(sess[s])'
    BY DEF Publish, TypeInv, AllGiven, Fit, AllGivenTo, Balanced, Sum, Pointed, PointedIn, Given, db
  <1> HIDE DEF v
  <1>6. QED
    BY <1>2, <1>3, <1>4, <1>5 DEF Publish, TypeInv, TypeOK, AllGiven, Given, db, past

LEMMA TickType ==
    ASSUME HarvestAssumption, TypeInv, Tick
    PROVE  TypeInv'
  <1>1. clock \in Nat /\ clock' \in Nat /\ clock' = clock + 1
    BY DEF Tick, TypeInv, TypeOK
  <1>2. \A S : Given(S) /\ S \subseteq Version => Given(S)'
    BY <1>1 DEF Given, Version
  <1>3. TypeOK'
    BY <1>1 DEF Tick, TypeInv, TypeOK, world, db, past
  <1>4. \A t \in Targets, i \in Ids : repo'[t][i].stamp <= clock'
    <2>1. \A t \in Targets, i \in Ids : repo[t][i] \in Version /\ repo[t][i].stamp <= clock
      BY DEF TypeInv, TypeOK, AllGiven
    <2>2. QED
      BY <1>1, <2>1 DEF Tick, world, Version
  <1>5. ASSUME NEW r \in DOMAIN runs PROVE Given(runs[r].token.left)'
    <2>1. runs[r] \in HarvestRun /\ Given(runs[r].token.left)
      BY DEF TypeInv, TypeOK, AllGiven
    <2>2. runs[r].token.left \subseteq Version /\ runs' = runs
      BY <2>1 DEF HarvestRun, Token, Tick, db
    <2>3. QED
      BY <1>2, <2>1, <2>2 DEF Given
  <1>6. ASSUME NEW s \in Slots PROVE Fit(sess[s])'
    <2>1. Fit(sess[s]) /\ sess' = sess
      BY DEF TypeInv, AllGiven, Tick
    <2>2. /\ sess[s].token.left \subseteq Version /\ sess[s].next.left \subseteq Version
          /\ sess[s].got \subseteq Version
      BY <2>1 DEF Fit, AllGivenTo, Execution, Token
    <2>3. QED
      BY <1>2, <2>1, <2>2 DEF Fit, AllGivenTo, Balanced, Sum, Pointed, PointedIn, Tick, db
  <1>7. runs' = runs
    BY DEF Tick, db
  <1>8. QED
    BY <1>3, <1>4, <1>5, <1>6, <1>7 DEF TypeInv, AllGiven

-----------------------------------------------------------------------------
(* Types: an execution, until the answer *)

LEMMA StartType ==
    ASSUME HarvestAssumption, TypeInv, NEW s \in Slots, NEW pc \in Early,
           NEW src \in HarvestSource, Start(s, pc, src)
    PROVE  TypeInv'
  <1> DEFINE e == [sess[s] EXCEPT !.pc = pc, !.now = clock, !.source = src]
  <1>1. Fit(e)
    <2>1. Fit(sess[s]) /\ clock \in Nat
      BY DEF TypeInv, TypeOK, AllGiven
    <2>2. e \in Execution /\ e.pc = pc /\ e.token = sess[s].token
          /\ e.ids = sess[s].ids /\ e.toCreate = sess[s].toCreate
          /\ e.got = sess[s].got /\ e.next = sess[s].next
      BY <2>1 DEF Fit, Execution, Labels, Early
    <2> HIDE DEF e
    <2>3. QED
      BY <2>1, <2>2, EarlyFit DEF Fit, AllGivenTo
  <1>2. sess' = [sess EXCEPT ![s] = e]
    BY DEF Start
  <1> HIDE DEF e
  <1>3. sess' \in [Slots -> Execution] /\ \A t \in Slots : Fit(sess[t])'
    BY <1>1, <1>2, SessFit DEF Start, db
  <1>4. rejected' \subseteq Token
    BY DEF Start, TypeInv, TypeOK
  <1>5. QED
    BY <1>3, <1>4, OnlySess DEF Start

LEMMA NightType ==
    ASSUME HarvestAssumption, TypeInv, NightlyPass \/ CestLHeure \/ ExigerSource
    PROVE  TypeInv'
  <1>s. source \in HarvestSource /\ Night \in Slots /\ Fit(sess[Night]) /\ rejected \subseteq Token
    BY DEF TypeInv, TypeOK, AllGiven, HarvestAssumption
  <1>1. CASE NightlyPass
    BY <1>1, <1>s, StartType DEF NightlyPass, Early
  <1>2. CASE CestLHeure
    <2>1. sess' \in [Slots -> Execution] /\ \A t \in Slots : Fit(sess[t])'
      BY <1>2, <1>s, GotoFit, ThrowFit DEF CestLHeure, Early, db
    <2>2. QED
      BY <1>2, <1>s, <2>1, OnlySess DEF CestLHeure
  <1>3. CASE ExigerSource
    <2> DEFINE e == [sess[Night] EXCEPT !.pc = "token", !.source = source]
    <2>1. Fit(e)
      <3>1. e \in Execution /\ e.pc = "token" /\ e.token = sess[Night].token
            /\ e.ids = sess[Night].ids /\ e.toCreate = sess[Night].toCreate
            /\ e.got = sess[Night].got /\ e.next = sess[Night].next
        BY <1>s DEF Fit, Execution, Labels
      <3> HIDE DEF e
      <3>2. QED
        BY <1>s, <3>1, EarlyFit DEF Fit, AllGivenTo, Early
    <2>2. sess' = [sess EXCEPT ![Night] = e] \/ Throw(Night)
      BY <1>3 DEF ExigerSource
    <2> HIDE DEF e
    <2>3. sess' \in [Slots -> Execution] /\ \A t \in Slots : Fit(sess[t])'
      BY <1>3, <1>s, <2>1, <2>2, SessFit, ThrowFit DEF ExigerSource, db
    <2>4. QED
      BY <1>3, <1>s, <2>3, OnlySess DEF ExigerSource
  <1>4. QED
    BY <1>1, <1>2, <1>3

\* The token sent comes from a run of the source.
LEMMA RepriseGiven ==
    ASSUME HarvestAssumption, TypeInv, NEW now
    PROVE  RepriseUtilisable(runs, now) \in Token /\ Given(RepriseUtilisable(runs, now).left)
  <1> DEFINE withToken == {r \in DOMAIN runs : runs[r].token # NoToken}
  <1>1. NoToken \in Token /\ Given(NoToken.left)
    BY NoTokenType, FS_EmptySet DEF NoToken, Given
  <1>2. CASE withToken = {}
    BY <1>1, <1>2 DEF RepriseUtilisable
  <1>3. CASE withToken # {}
    <2>1. Len(runs) \in Nat /\ withToken \subseteq 0..Len(runs)
      BY DEF TypeInv, TypeOK
    <2>2. Latest(withToken) \in withToken
      <3> HIDE DEF withToken
      <3>1. QED
        BY <1>3, <2>1, LatestIsGreatest
    <2>3. Latest(withToken) \in DOMAIN runs
      BY <2>2
    <2>4. runs[Latest(withToken)] \in HarvestRun /\ Given(runs[Latest(withToken)].token.left)
      BY <2>3 DEF TypeInv, TypeOK, AllGiven
    <2>5. runs[Latest(withToken)].token \in Token
      BY <2>4 DEF HarvestRun
    <2>6. RepriseUtilisable(runs, now) \in {NoToken, runs[Latest(withToken)].token}
      BY DEF RepriseUtilisable
    <2> HIDE DEF withToken
    <2>7. QED
      BY <1>1, <2>4, <2>5, <2>6
  <1>4. QED
    BY <1>2, <1>3

LEMMA LireRepriseType ==
    ASSUME HarvestAssumption, TypeInv, NEW s \in Slots, LireReprise(s)
    PROVE  TypeInv'
  <1> DEFINE k == IF Alive(s) THEN RepriseUtilisable(runs, sess[s].now) ELSE NoToken
             e == [sess[s] EXCEPT !.pc = "run", !.token = k]
  <1>1. k \in Token /\ Given(k.left)
    BY RepriseGiven, NoTokenType, FS_EmptySet DEF NoToken, Given
  <1>2. sess' = [sess EXCEPT ![s] = e]
    BY DEF LireReprise
  <1>3. Fit(e)
    <2>1. Fit(sess[s])
      BY DEF TypeInv, AllGiven
    <2> HIDE DEF k
    <2>2. QED
      <3>1. e \in Execution /\ e.pc = "run" /\ e.token = k
            /\ e.ids = sess[s].ids /\ e.toCreate = sess[s].toCreate
            /\ e.got = sess[s].got /\ e.next = sess[s].next
        BY <1>1, <2>1 DEF Fit, Execution, Labels
      <3> HIDE DEF e
      <3>2. QED
        BY <1>1, <2>1, <3>1, EarlyFit DEF Early
  <1> HIDE DEF e
  <1>4. sess' \in [Slots -> Execution] /\ \A t \in Slots : Fit(sess[t])'
    BY <1>2, <1>3, SessFit DEF LireReprise, db
  <1>5. rejected' \subseteq Token
    BY DEF LireReprise, TypeInv, TypeOK
  <1>6. QED
    BY <1>4, <1>5, OnlySess DEF LireReprise

\* An answer is a part of the snapshot; what is left of it makes the next token.
LEMMA IssueGiven ==
    ASSUME HarvestAssumption, TypeInv, NEW s \in Slots, NEW issue \in Issues(s)
    PROVE  /\ issue.etat \in Outcomes /\ issue.got \subseteq Snapshot(sess[s])
           /\ issue.next \in Token /\ Given(issue.next.left)
  <1> DEFINE q == sess[s]
             S == Snapshot(q)
             tok(R, l) == [target |-> q.source.target, run |-> q.run, left |-> S \ R,
                           until |-> IF l = 0 THEN Unannounced ELSE clock + l]
  <1>1. NoToken \in Token /\ Given(NoToken.left)
    BY NoTokenType, FS_EmptySet DEF NoToken, Given
  <1>2. ASSUME NEW R, NEW l \in TokenLives
        PROVE  tok(R, l) \in Token /\ Given(tok(R, l).left)
    <2>1. S \ R \subseteq Version /\ Given(S \ R)
      BY SnapshotGiven, GivenLess
    <2>2. q.source.target \in Targets /\ q.run \in Nat /\ clock \in Nat
      BY DEF TypeInv, TypeOK, Execution, HarvestSource
    <2>3. (IF l = 0 THEN Unannounced ELSE clock + l) \in Nat \cup {Unannounced}
      BY <2>2 DEF HarvestAssumption
    <2> HIDE DEF S
    <2>4. QED
      BY <2>1, <2>2, <2>3 DEF Token
  <1> DEFINE iss(etat, got, next) == [etat |-> etat, got |-> got, next |-> next]
             Nothing == {iss(e, {}, NoToken) : e \in Failures}
             Empty == IF S = {} THEN {iss("vide", {}, NoToken)} ELSE {}
             All == {iss("moisson", R, NoToken) :
                       R \in {R \in {S} : R # {} /\ Cardinality(R) <= MaxPages}}
             Parts == {R \in SUBSET S : R \notin {{}, S} /\ Cardinality(R) <= MaxPages}
             Part == {iss(e, R, tok(R, l)) : e \in Failures, l \in TokenLives, R \in Parts}
             Twice == {iss("erreur_protocole", R, NoToken) :
                         R \in {R \in SUBSET S : Cardinality(R) \in 2..MaxPages}}
  <1>3. issue \in Nothing \cup Empty \cup All \cup Part \cup Twice
    BY DEF Issues
  <1>o. Failures \subseteq Outcomes /\ {"vide", "moisson", "erreur_protocole"} \subseteq Outcomes
    BY DEF HarvestAssumption, Outcomes
  <1>4. CASE issue \in Nothing
    BY <1>1, <1>4, <1>o
  <1>5. CASE issue \in Empty
    BY <1>1, <1>5, <1>o
  <1>6. CASE issue \in All
    BY <1>1, <1>6, <1>o
  <1>7. CASE issue \in Twice
    BY <1>1, <1>7, <1>o
  <1>8. CASE issue \in Part
    <2>1. PICK e \in Failures, l \in TokenLives, R \in Parts : issue = iss(e, R, tok(R, l))
      BY <1>8
    <2>2. R \subseteq S
      OBVIOUS
    <2> HIDE DEF tok
    <2>3. issue.etat = e /\ issue.got = R /\ issue.next = tok(R, l)
      BY <2>1
    <2>4. QED
      BY <1>2, <2>2, <2>3, <1>o
  <1>9. QED
    <2> HIDE DEF Nothing, Empty, All, Part, Twice
    <2>1. QED
      BY <1>3, <1>4, <1>5, <1>6, <1>7, <1>8

\* The stamp the cursor may move to.
LEMMA TopType ==
    ASSUME TypeInv, NEW R, R # {}, Given(R), R \subseteq Version
    PROVE  Latest(Stamps(R)) \in Nat
  <1>1. clock \in Nat
    BY DEF TypeInv, TypeOK
  <1>2. Stamps(R) \subseteq 0..clock /\ Stamps(R) # {}
    BY <1>1 DEF Stamps, Given, Version
  <1>3. QED
    BY <1>1, <1>2, LatestIsGreatest

LEMMA AnswerFit ==
    ASSUME HarvestAssumption, TypeInv, NEW s \in Slots, NEW issue,
           issue.etat \in Outcomes, issue.got \subseteq Snapshot(sess[s]),
           issue.next \in Token, Given(issue.next.left), Answer(s, issue),
           clock' = clock, local' = local
    PROVE  sess' \in [Slots -> Execution] /\ \A t \in Slots : Fit(sess[t])'
  <1> DEFINE top == IF issue.got = {} THEN 0 ELSE Latest(Stamps(issue.got))
             n == Cardinality(issue.got)
             id == sess[s].source.id
             run == sess[s].run
             pc == IF issue.got = {} THEN "close" ELSE "known"
             e == [Idle EXCEPT !.pc = pc, !.source.id = id, !.run = run,
                               !.etat = issue.etat, !.got = issue.got, !.next = issue.next,
                               !.top = top, !.counts.received = n]
  <1>1. issue.got \subseteq Version /\ Given(issue.got)
    BY SnapshotGiven, GivenLess
  <1>2. top \in Nat
    BY <1>1, TopType
  <1>3. n \in Nat
    BY <1>1, FS_CardinalityType DEF Given
  <1>4. id \in Nat /\ run \in Nat
    BY DEF TypeInv, TypeOK, Execution, HarvestSource
  <1>5. sess' = [sess EXCEPT ![s] = e]
    BY DEF Answer
  <1>p. pc \in Labels
    BY DEF Labels
  <1>6. Fit(e)
    <2>1. Fit(Idle)
      BY IdleType
    <2> HIDE DEF top, n, id, run, pc
    <2>2. [Idle.source EXCEPT !.id = id] \in HarvestSource
      BY <1>4, <2>1 DEF Fit, Execution, HarvestSource
    <2>3. [Idle.counts EXCEPT !.received = n] \in Counts
      BY <1>3, <2>1 DEF Fit, Execution, Counts
    <2>4. QED
      <3>1. e \in Execution
        BY <1>1, <1>2, <1>4, <1>p, <2>1, <2>2, <2>3 DEF Fit, Execution
      <3>2. /\ e.pc = pc /\ e.token = Idle.token /\ e.next = issue.next /\ e.got = issue.got
            /\ e.ids = <<>> /\ e.toCreate = <<>> /\ e.counts = [Idle.counts EXCEPT !.received = n]
        BY DEF Idle
      <3>3. AllGivenTo(e)
        BY <1>1, <2>1, <3>2 DEF Fit, AllGivenTo
      <3>4. Sum(e)
        <4>1. /\ e.counts.received = n /\ e.counts.created = 0 /\ e.counts.ignored = 0
              /\ e.counts.collided = 0 /\ e.counts.deletions = 0
          BY <3>2 DEF Idle, Zero
        <4>2. Cardinality(e.got) = n /\ Len(e.toCreate) = 0
          BY <3>2 DEF n
        <4> HIDE DEF e
        <4>3. QED
          BY <1>3, <4>1, <4>2 DEF Sum
      <3>5. Balanced(e) /\ Pointed(e)
        <4>1. pc \in {"close", "known"} /\ (pc = "close" => issue.got = {})
          BY DEF pc
        <4> HIDE DEF e
        <4>2. QED
          BY <3>2, <3>4, <4>1 DEF Balanced, Pointed, PointedIn
      <3> HIDE DEF e
      <3>6. QED
        BY <3>1, <3>3, <3>5 DEF Fit
  <1> HIDE DEF e
  <1>7. QED
    BY <1>5, <1>6, SessFit

LEMMA AskType ==
    ASSUME HarvestAssumption, TypeInv, NEW s \in Slots, Moissonner(s) \/ JetonRefuse(s)
    PROVE  TypeInv'
  <1>r. rejected \subseteq Token /\ sess[s].token \in Token
    BY DEF TypeInv, TypeOK, Execution
  <1>1. CASE Moissonner(s)
    <2>1. PICK issue \in Issues(s) : Answer(s, issue)
      BY <1>1 DEF Moissonner
    <2>2. sess' \in [Slots -> Execution] /\ \A t \in Slots : Fit(sess[t])'
      BY <1>1, <2>1, IssueGiven, AnswerFit DEF Moissonner, db
    <2>3. QED
      BY <1>1, <1>r, <2>2, OnlySess DEF Moissonner
  <1>2. CASE JetonRefuse(s)
    <2> DEFINE issue == [etat |-> "erreur_protocole", got |-> {}, next |-> NoToken]
    <2>1. Answer(s, issue)
      BY <1>2 DEF JetonRefuse
    <2>2. /\ issue.etat \in Outcomes /\ issue.got \subseteq Snapshot(sess[s])
          /\ issue.next \in Token /\ Given(issue.next.left)
      BY NoTokenType, FS_EmptySet DEF NoToken, Given, Outcomes
    <2> HIDE DEF issue
    <2>3. sess' \in [Slots -> Execution] /\ \A t \in Slots : Fit(sess[t])'
      BY <1>2, <2>1, <2>2, AnswerFit DEF JetonRefuse, db
    <2>4. rejected' \subseteq Token
      BY <1>2, <1>r DEF JetonRefuse
    <2>5. QED
      BY <1>2, <2>3, <2>4, OnlySess DEF JetonRefuse
  <1>3. QED
    BY <1>1, <1>2

-----------------------------------------------------------------------------
(* Types: an execution, after the answer *)

LEMMA ContinueFit ==
    ASSUME TypeInv, NEW s \in Slots, NEW q, Carried(q), Continue(s, q),
           clock' = clock, local' = local
    PROVE  sess' \in [Slots -> Execution] /\ \A t \in Slots : Fit(sess[t])'
  BY ForwardFit, SessFit DEF Continue

\* The rest of the invariant when an execution writes in the catalogue, in the
\* memory or in its source.
LEMMA OnlyRows ==
    ASSUME TypeInv, sess' \in [Slots -> Execution], \A t \in Slots : Fit(sess[t])',
           harv' \in [Ids -> HarvestedRecord], source' \in HarvestSource,
           local' \in Seq([id : Ids, stamp : Nat]),
           UNCHANGED <<world, runs, module, clock, rejected, past>>
    PROVE  TypeInv'
  BY DEF TypeInv, TypeOK, AllGiven, Given, world, past

LEMMA CreerRunType ==
    ASSUME HarvestAssumption, TypeInv, NEW s \in Slots, CreerRun(s)
    PROVE  TypeInv'
  <1> DEFINE r == [day |-> clock, outcome |-> "en_cours", token |-> NoToken, counts |-> Zero]
             e == [sess[s] EXCEPT !.pc = "ask", !.run = Len(runs) + 1]
  <1>s. runs \in Seq(HarvestRun) /\ Fit(sess[s]) /\ clock \in Nat /\ Len(runs) \in Nat
    BY DEF TypeInv, TypeOK, AllGiven
  <1>1. CASE Alive(s)
    <2>1. r \in HarvestRun /\ Given(r.token.left)
      BY <1>s, NoTokenType, FS_EmptySet DEF HarvestRun, Outcomes, Zero, Counts, NoToken, Given
    <2>2. Fit(e)
      <3>1. Len(runs) + 1 \in Nat /\ "ask" \in Labels
        BY <1>s DEF Labels
      <3>2. QED
        <4>1. e \in Execution /\ e.pc = "ask" /\ e.token = sess[s].token
              /\ e.ids = sess[s].ids /\ e.toCreate = sess[s].toCreate
              /\ e.got = sess[s].got /\ e.next = sess[s].next
          BY <1>s, <3>1 DEF Fit, Execution
        <4> HIDE DEF e
        <4>2. QED
          BY <1>s, <4>1, EarlyFit DEF Early, Fit, AllGivenTo
    <2>3. runs' = Append(runs, r) /\ sess' = [sess EXCEPT ![s] = e]
      BY <1>1 DEF CreerRun
    <2> HIDE DEF r, e
    <2>4. sess' \in [Slots -> Execution] /\ \A t \in Slots : Fit(sess[t])'
      BY <2>2, <2>3, SessFit DEF CreerRun
    <2>5. runs' \in Seq(HarvestRun) /\ Len(runs') <= MaxRuns
      BY <1>s, <2>1, <2>3 DEF CreerRun, HarvestAssumption
    <2>6. \A k \in DOMAIN runs' : runs'[k] = r \/ (k \in DOMAIN runs /\ runs'[k] = runs[k])
      BY <1>s, <2>1, <2>3
    <2>7. \A k \in DOMAIN runs' : Given(runs'[k].token.left)
      BY <2>1, <2>6 DEF TypeInv, AllGiven
    <2>8. QED
      BY <2>4, <2>5, <2>7 DEF CreerRun, TypeInv, TypeOK, AllGiven, Given, world, past
  <1>2. CASE ~Alive(s)
    <2>1. sess' \in [Slots -> Execution] /\ \A t \in Slots : Fit(sess[t])'
      BY <1>2, ThrowFit DEF CreerRun
    <2>2. rejected' \subseteq Token
      BY DEF CreerRun, TypeInv, TypeOK
    <2>3. QED
      BY <1>2, <2>1, <2>2, OnlySess DEF CreerRun, db
  <1>3. QED
    BY <1>1, <1>2

LEMMA LireConnuesType ==
    ASSUME HarvestAssumption, TypeInv, NEW s \in Slots, LireConnues(s)
    PROVE  TypeInv'
  <1> DEFINE known == [i \in Ids |-> IF Alive(s) /\ \E v \in sess[s].got : v.id = i
                                     THEN harv[i] ELSE Unknown]
             e == [sess[s] EXCEPT !.known = known]
  <1>1. known \in [Ids -> HarvestedRecord]
    BY DEF TypeInv, TypeOK, Unknown, HarvestedRecord
  <1>2. Carried(e)
    <2>1. Fit(sess[s]) /\ sess[s].pc = "known"
      BY DEF TypeInv, AllGiven, LireConnues
    <2> HIDE DEF known
    <2>2. /\ e \in Execution /\ e.token = sess[s].token /\ e.next = sess[s].next
          /\ e.got = sess[s].got /\ e.counts = sess[s].counts
          /\ e.ids = sess[s].ids /\ e.toCreate = sess[s].toCreate
      BY <1>1, <2>1 DEF Fit, Execution
    <2> HIDE DEF e
    <2>3. QED
      BY <2>1, <2>2 DEF Fit, Carried, AllGivenTo, Pointed, PointedIn, Balanced, Sum, Applying
  <1>3. Continue(s, e)
    BY DEF LireConnues
  <1> HIDE DEF e
  <1>4. sess' \in [Slots -> Execution] /\ \A t \in Slots : Fit(sess[t])'
    BY <1>2, <1>3, ContinueFit DEF LireConnues, db
  <1>5. QED
    BY <1>4, OnlySess DEF LireConnues, TypeInv, TypeOK

Total(c) == c.created + c.ignored + c.collided + c.deletions

LEMMA TotalType ==
    ASSUME NEW c \in Counts
    PROVE  Total(c) \in Nat /\ c.received \in Nat
  BY DEF Total, Counts

\* A version that is dealt with is counted, or waits to be created.
LEMMA RestCarried ==
    ASSUME NEW q, Fit(q), q.pc \in Applying, NEW v \in q.got, NEW c \in Counts,
           NEW new \in Seq(Version), c.received = q.counts.received,
           Len(q.ids) <= Len(new), \A k \in 1..Len(q.ids) : new[k] = q.toCreate[k],
           Total(c) + Len(new) = Total(q.counts) + Len(q.toCreate) + 1
    PROVE  Carried([q EXCEPT !.got = @ \ {v}, !.counts = c, !.toCreate = new])
  <1> DEFINE e == [q EXCEPT !.got = @ \ {v}, !.counts = c, !.toCreate = new]
  <1>1. q \in Execution /\ AllGivenTo(q) /\ Pointed(q) /\ Sum(q)
    BY DEF Fit, Balanced
  <1>2. Given(q.got \ {v})
    BY <1>1, GivenLess DEF AllGivenTo
  <1>3. Cardinality(q.got) \in Nat /\ Cardinality(q.got \ {v}) = Cardinality(q.got) - 1
    BY <1>1, FS_CardinalityType, FS_RemoveElement DEF AllGivenTo, Given
  <1>4. /\ e \in Execution /\ e.token = q.token /\ e.next = q.next /\ e.got = q.got \ {v}
        /\ e.ids = q.ids /\ e.toCreate = new /\ e.counts = c
    BY <1>1 DEF Execution
  <1> HIDE DEF e
  <1>5. AllGivenTo(e) /\ Pointed(e)
    BY <1>1, <1>2, <1>4 DEF AllGivenTo, Pointed, PointedIn
  <1>6. Sum(e)
    <2>1. q.counts \in Counts /\ Len(q.toCreate) \in Nat
      BY <1>1 DEF Execution
    <2>2. q.counts.received = Total(q.counts) + Cardinality(q.got) + Len(q.toCreate)
      BY <1>1 DEF Sum, Total
    <2>3. Total(c) \in Nat /\ Total(q.counts) \in Nat
      BY <2>1, TotalType
    <2>4. c.received = Total(c) + Cardinality(q.got \ {v}) + Len(new)
      <3> DEFINE a == Total(q.counts)  b == Total(c)  n == Cardinality(q.got)
                 l == Len(q.toCreate)  m == Len(new)  x == c.received
                 k == Cardinality(q.got \ {v})
      <3>1. a \in Nat /\ b \in Nat /\ n \in Nat /\ l \in Nat /\ m \in Nat
        BY <1>3, <2>1, <2>3
      <3>2. x = a + n + l /\ b + m = a + l + 1 /\ k = n - 1
        BY <1>3, <2>2
      <3> HIDE DEF a, b, n, l, m, x, k
      <3>3. x = b + k + m
        BY <3>1, <3>2
      <3>4. QED
        BY <3>3 DEF b, k, m, x
    <2>5. QED
      BY <1>4, <2>4 DEF Sum, Total
  <1>7. Carried(e)
    BY <1>4, <1>5, <1>6 DEF Carried
  <1>8. QED
    BY <1>7 DEF e

LEMMA NoticeType ==
    ASSUME HarvestAssumption, TypeInv, NEW s \in Slots, NEW v \in sess[s].got, Notice(s, v)
    PROVE  TypeInv'
  <1> DEFINE q == sess[s]
             kind == Sort(q.known[v.id], v)
             rest(c, new) == [q EXCEPT !.got = @ \ {v}, !.counts = c, !.toCreate = new]
             ignored == [q.counts EXCEPT !.ignored = @ + 1]
             collided == [q.counts EXCEPT !.collided = @ + 1]
             row == [status |-> "ignoree", stamp |-> v.stamp, record |-> 0]
             Good == sess' \in [Slots -> Execution] /\ \A t \in Slots : Fit(sess[t])'
             Kept == harv' \in [Ids -> HarvestedRecord]
  <1>1. /\ Fit(q) /\ q.pc = "notices" /\ q.pc \in Applying
        /\ v \in q.got /\ v \in Version /\ q.counts \in Counts /\ q.toCreate \in Seq(Version)
        /\ Len(q.ids) \in Nat /\ Len(q.ids) <= Len(q.toCreate)
    BY DEF TypeInv, AllGiven, Fit, Balanced, Execution, Notice, Applying
  <1>2. /\ ignored \in Counts /\ collided \in Counts
        /\ ignored.received = q.counts.received /\ collided.received = q.counts.received
        /\ Total(ignored) = Total(q.counts) + 1 /\ Total(collided) = Total(q.counts) + 1
    <2>1. q.counts \in Counts
      BY <1>1
    <2> HIDE DEF q
    <2>2. QED
      BY <2>1 DEF Counts, Total
  <1>3. Carried(rest(ignored, q.toCreate)) /\ Carried(rest(collided, q.toCreate))
    <2>1. Total(q.counts) \in Nat /\ Len(q.toCreate) \in Nat
      BY <1>1, TotalType
    <2>2. ASSUME NEW c \in Counts, c.received = q.counts.received, Total(c) = Total(q.counts) + 1
          PROVE  Carried(rest(c, q.toCreate))
      <3>1. Total(c) + Len(q.toCreate) = Total(q.counts) + Len(q.toCreate) + 1
        BY <2>1, <2>2
      <3> HIDE DEF q
      <3>2. QED
        BY <1>1, <2>2, <3>1, RestCarried
    <2> HIDE DEF q, ignored, collided, rest
    <2>3. QED
      BY <1>2, <2>2
  <1>4. harv \in [Ids -> HarvestedRecord] /\ clock' = clock /\ local' = local
    BY DEF Notice, TypeInv, TypeOK
  <1>5. kind \in {"same", "changed", "new", "untitled"}
    BY DEF Sort
  <1>6. CASE kind = "same"
    <2>1. Throw(s) \/ Continue(s, rest(ignored, q.toCreate))
      BY <1>1, <1>6 DEF Notice, Fit, Execution
    <2>3. Good
      BY <1>3, <1>4, <2>1, ThrowFit, ContinueFit
    <2>4. harv' = harv
      BY <1>6 DEF Notice
    <2>5. QED
      BY <1>4, <2>3, <2>4, OnlyRows DEF Notice, TypeInv, TypeOK
  <1>7. CASE kind = "changed"
    <2>1. Throw(s) \/ Continue(s, rest(collided, q.toCreate))
      BY <1>1, <1>7 DEF Notice, Fit, Execution
    <2>3. Good
      BY <1>3, <1>4, <2>1, ThrowFit, ContinueFit
    <2>4. harv' = harv \/ harv' = [harv EXCEPT ![v.id] = Collision(@, v)]
      BY <1>7 DEF Notice
    <2>5. Kept
      BY <1>1, <1>4, <2>4, RowTypes DEF Version
    <2>6. QED
      BY <1>4, <2>3, <2>5, OnlyRows DEF Notice, TypeInv, TypeOK
  <1>8. CASE kind = "new"
    <2>1. Continue(s, rest(q.counts, Append(q.toCreate, v)))
      BY <1>1, <1>8 DEF Notice, Fit, Execution
    <2>2. Carried(rest(q.counts, Append(q.toCreate, v)))
      <3> DEFINE new == Append(q.toCreate, v)
      <3>1. /\ new \in Seq(Version) /\ Len(new) = Len(q.toCreate) + 1
            /\ \A k \in 1..Len(q.ids) : new[k] = q.toCreate[k]
        BY <1>1
      <3>2. Total(q.counts) \in Nat /\ Len(q.toCreate) \in Nat
        BY <1>1, TotalType
      <3> HIDE DEF new, q
      <3>3. Len(q.ids) <= Len(new)
            /\ Total(q.counts) + Len(new) = Total(q.counts) + Len(q.toCreate) + 1
        BY SMTT(30), <1>1, <3>1, <3>2
      <3>4. Carried(rest(q.counts, new))
        BY <1>1, <3>1, <3>3, RestCarried
      <3>5. QED
        BY <3>4 DEF new
    <2>3. Good
      BY <1>4, <2>1, <2>2, ContinueFit
    <2>4. harv' = harv
      BY <1>8 DEF Notice
    <2>5. QED
      BY <1>4, <2>3, <2>4, OnlyRows DEF Notice, TypeInv, TypeOK
  <1>9. CASE kind = "untitled"
    <2>1. Throw(s) \/ Continue(s, rest(ignored, q.toCreate))
      BY <1>1, <1>9 DEF Notice, Fit, Execution
    <2>3. Good
      BY <1>3, <1>4, <2>1, ThrowFit, ContinueFit
    <2>4. harv' = harv \/ harv' = [harv EXCEPT ![v.id] = row]
      BY <1>9 DEF Notice
    <2>5. Kept
      <3>1. row \in HarvestedRecord /\ v.id \in Ids
        BY <1>1 DEF Version, HarvestedRecord, Statuses
      <3> HIDE DEF row
      <3>2. QED
        BY <1>4, <2>4, <3>1
    <2>6. QED
      BY <1>4, <2>3, <2>5, OnlyRows DEF Notice, TypeInv, TypeOK
  <1>10. QED
    BY <1>5, <1>6, <1>7, <1>8, <1>9

\* Creating a record moves none of the others.
LEMMA PointedExtends ==
    ASSUME TypeInv, NEW x \in [id : Ids, stamp : Nat], local' = Append(local, x)
    PROVE  /\ local' \in Seq([id : Ids, stamp : Nat])
           /\ Len(local) + 1 \in DOMAIN local' /\ local'[Len(local) + 1] = x
           /\ \A k \in DOMAIN local : k \in DOMAIN local' /\ local'[k] = local[k]
           /\ \A e : Pointed(e) => PointedIn(local', e)
  <1>1. local \in Seq([id : Ids, stamp : Nat])
    BY DEF TypeInv, TypeOK
  <1>2. local' \in Seq([id : Ids, stamp : Nat])
    BY <1>1
  <1>3. Len(local) + 1 \in DOMAIN local' /\ local'[Len(local) + 1] = x
    BY <1>1
  <1>4. \A k \in DOMAIN local : k \in DOMAIN local' /\ local'[k] = local[k]
    BY <1>1
  <1>5. \A e : Pointed(e) => PointedIn(local', e)
    BY <1>4, Zenon DEF Pointed, PointedIn
  <1>6. QED
    BY <1>2, <1>3, <1>4, <1>5

LEMMA SessExtends ==
    ASSUME TypeInv, NEW s \in Slots, NEW x \in [id : Ids, stamp : Nat], local' = Append(local, x),
           NEW e \in Execution, AllGivenTo(e), Balanced(e), PointedIn(local', e),
           sess' = [sess EXCEPT ![s] = e], clock' = clock
    PROVE  sess' \in [Slots -> Execution] /\ \A t \in Slots : Fit(sess[t])'
  <1>1. sess' \in [Slots -> Execution] /\ \A t \in Slots : sess'[t] = IF t = s THEN e ELSE sess[t]
    BY DEF TypeInv, TypeOK
  <1>2. ASSUME NEW t \in Slots
        PROVE  /\ sess'[t] \in Execution /\ AllGivenTo(sess'[t]) /\ Balanced(sess'[t])
               /\ PointedIn(local', sess'[t])
    <2>1. CASE t = s
      BY <1>1, <2>1
    <2>2. CASE t # s
      <3>1. Fit(sess[t]) /\ sess'[t] = sess[t]
        BY <1>1, <2>2 DEF TypeInv, AllGiven
      <3>2. PointedIn(local', sess[t])
        BY <3>1, PointedExtends DEF Fit
      <3>3. QED
        BY <3>1, <3>2 DEF Fit
    <2>3. QED
      BY <2>1, <2>2
  <1>3. QED
    BY <1>1, <1>2 DEF Fit, AllGivenTo, Given, Balanced, Sum, Pointed, PointedIn

LEMMA ImporterType ==
    ASSUME HarvestAssumption, TypeInv, NEW s \in Slots, Importer(s)
    PROVE  TypeInv'
  <1> DEFINE q == sess[s]
             v == q.toCreate[Len(q.ids) + 1]
             x == [id |-> v.id, stamp |-> v.stamp]
             e == [q EXCEPT !.ids = Append(@, Len(local) + 1)]
  <1>1. q \in Execution /\ AllGivenTo(q) /\ Pointed(q) /\ Sum(q) /\ Len(q.ids) < Len(q.toCreate)
    BY DEF TypeInv, AllGiven, Fit, Balanced, Importer, Applying
  <1>2. q.ids \in Seq(Nat) /\ q.toCreate \in Seq(Version) /\ Len(local) + 1 \in Nat
    BY <1>1 DEF Execution, TypeInv, TypeOK
  <1>3. v \in Version
    BY <1>1, <1>2
  <1>4. x \in [id : Ids, stamp : Nat] /\ local' = Append(local, x)
    BY <1>3 DEF Version, Importer
  <1> HIDE DEF x
  <1>5. /\ e \in Execution /\ e.ids = Append(q.ids, Len(local) + 1) /\ e.toCreate = q.toCreate
        /\ e.got = q.got /\ e.next = q.next /\ e.token = q.token /\ e.counts = q.counts
    <2>1. Append(q.ids, Len(local) + 1) \in Seq(Nat)
      BY <1>2
    <2> HIDE DEF q
    <2>2. QED
      BY <1>1, <2>1 DEF Execution
  <1>6. Len(e.ids) = Len(q.ids) + 1 /\ Len(e.ids) <= Len(e.toCreate)
    BY <1>1, <1>2, <1>5
  <1>7. PointedIn(local', e)
    <2> SUFFICES ASSUME NEW k \in 1..Len(e.ids)
                 PROVE  /\ e.ids[k] \in DOMAIN local'
                        /\ local'[e.ids[k]].id = e.toCreate[k].id
                        /\ local'[e.ids[k]].stamp = e.toCreate[k].stamp
      BY DEF PointedIn
    <2>1. CASE k = Len(q.ids) + 1
      <3>1. e.ids[k] = Len(local) + 1 /\ e.toCreate[k] = v
        BY <1>2, <1>5, <2>1
      <3>2. local'[Len(local) + 1] = x /\ Len(local) + 1 \in DOMAIN local'
        BY <1>4, PointedExtends
      <3>3. x.id = v.id /\ x.stamp = v.stamp
        BY DEF x
      <3>4. QED
        BY <3>1, <3>2, <3>3
    <2>2. CASE k # Len(q.ids) + 1
      <3>1. k \in 1..Len(q.ids) /\ e.ids[k] = q.ids[k] /\ e.toCreate[k] = q.toCreate[k]
        BY SMTT(30), <1>2, <1>5, <1>6, <2>2
      <3>2. PointedIn(local', q)
        BY <1>1, <1>4, PointedExtends
      <3>3. QED
        BY <3>1, <3>2 DEF PointedIn
    <2>3. QED
      BY <2>1, <2>2
  <1>8. sess' = [sess EXCEPT ![s] = Forward(e)] /\ clock' = clock
    BY DEF Importer, Continue
  <1> HIDE DEF e, q
  <1>9. Forward(e) \in Execution /\ Balanced(Forward(e))
    BY <1>1, <1>5, <1>6, ForwardType, ForwardBalanced DEF Sum
  <1>10. AllGivenTo(Forward(e)) /\ PointedIn(local', Forward(e))
    BY ZenonT(60), <1>1, <1>5, <1>7, ForwardKeeps DEF AllGivenTo, PointedIn
  <1>11. sess' \in [Slots -> Execution] /\ \A t \in Slots : Fit(sess[t])'
    BY <1>4, <1>8, <1>9, <1>10, SessExtends
  <1>12. QED
    BY <1>4, <1>11, OnlyRows, PointedExtends DEF Importer, TypeInv, TypeOK

LEMMA RememberType ==
    ASSUME HarvestAssumption, TypeInv, NEW s \in Slots, Remember(s)
    PROVE  TypeInv'
  <1> DEFINE q == sess[s]
             v == Head(q.toCreate)
             c == [q.counts EXCEPT !.created = @ + 1]
             e == [q EXCEPT !.toCreate = Tail(@), !.ids = Tail(@), !.counts = c]
             row == [status |-> "importee", stamp |-> v.stamp, record |-> Head(q.ids)]
  <1>1. /\ q \in Execution /\ AllGivenTo(q) /\ Pointed(q) /\ Sum(q)
        /\ Len(q.ids) = Len(q.toCreate) /\ q.toCreate # <<>>
    BY DEF TypeInv, AllGiven, Fit, Balanced, Remember, Applying
  <1>2. q.ids \in Seq(Nat) /\ q.toCreate \in Seq(Version) /\ q.counts \in Counts
    BY <1>1 DEF Execution
  <1>3. q.ids # <<>>
    BY <1>1, <1>2
  <1>4. /\ v \in Version /\ Tail(q.toCreate) \in Seq(Version)
        /\ Len(Tail(q.toCreate)) = Len(q.toCreate) - 1
        /\ \A k \in 1..Len(Tail(q.toCreate)) : Tail(q.toCreate)[k] = q.toCreate[k + 1]
    BY <1>1, <1>2, HeadTailProperties
  <1>5. /\ Head(q.ids) \in Nat /\ Tail(q.ids) \in Seq(Nat)
        /\ Len(Tail(q.ids)) = Len(q.ids) - 1
        /\ \A k \in 1..Len(Tail(q.ids)) : Tail(q.ids)[k] = q.ids[k + 1]
    BY <1>2, <1>3, HeadTailProperties
  <1>6. row \in HarvestedRecord /\ v.id \in Ids
    BY <1>4, <1>5 DEF Version, HarvestedRecord, Statuses
  <1>7. c \in Counts /\ c.received = q.counts.received /\ Total(c) = Total(q.counts) + 1
    <2>1. q.counts \in Counts
      BY <1>2
    <2> HIDE DEF q
    <2>2. QED
      BY <2>1 DEF Counts, Total
  <1> HIDE DEF c, row
  <1>8. /\ e \in Execution /\ e.ids = Tail(q.ids) /\ e.toCreate = Tail(q.toCreate)
        /\ e.got = q.got /\ e.next = q.next /\ e.token = q.token /\ e.counts = c
    BY <1>1, <1>4, <1>5, <1>7 DEF Execution
  <1>9. Throw(s) \/ Continue(s, e)
    BY DEF Remember, c
  <1>10. harv' = harv \/ harv' = [harv EXCEPT ![v.id] = row]
    BY DEF Remember, row
  <1> HIDE DEF e, q
  <1>11. AllGivenTo(e) /\ Pointed(e) /\ Len(e.ids) <= Len(e.toCreate)
    <2>1. AllGivenTo(e) /\ Len(e.ids) <= Len(e.toCreate)
      BY <1>1, <1>2, <1>4, <1>5, <1>8 DEF AllGivenTo
    <2>2. ASSUME NEW k \in 1..Len(e.ids)
          PROVE  k + 1 \in 1..Len(q.ids) /\ e.ids[k] = q.ids[k + 1]
                 /\ e.toCreate[k] = q.toCreate[k + 1]
      BY <1>1, <1>2, <1>4, <1>5, <1>8
    <2>3. QED
      BY <1>1, <2>1, <2>2 DEF Pointed, PointedIn
  <1>12. Sum(e)
    <2>1. q.counts.received = Total(q.counts) + Cardinality(q.got) + Len(q.toCreate)
      BY <1>1 DEF Sum, Total
    <2>2. Cardinality(q.got) \in Nat
      BY <1>1, FS_CardinalityType DEF AllGivenTo, Given
    <2> DEFINE a == Total(q.counts)  b == Total(c)  n == Cardinality(q.got)
               l == Len(q.toCreate)  m == Len(e.toCreate)  x == c.received
    <2>3. a \in Nat /\ n \in Nat /\ l \in Nat
      BY <1>2, <2>2, TotalType
    <2>4. x = a + n + l /\ b = a + 1 /\ m = l - 1
      BY <1>4, <1>7, <1>8, <2>1
    <2> HIDE DEF a, b, n, l, m, x
    <2>5. x = b + n + m
      BY <2>3, <2>4
    <2>6. QED
      BY <1>8, <2>5 DEF b, n, m, x, Sum, Total
  <1>13. Carried(e)
    BY <1>8, <1>11, <1>12 DEF Carried
  <1>14. sess' \in [Slots -> Execution] /\ \A t \in Slots : Fit(sess[t])'
    BY <1>9, <1>13, ThrowFit, ContinueFit DEF Remember
  <1>15. harv' \in [Ids -> HarvestedRecord]
    BY <1>6, <1>10 DEF TypeInv, TypeOK
  <1>16. QED
    BY <1>14, <1>15, OnlyRows DEF Remember, TypeInv, TypeOK

LEMMA SuppressionType ==
    ASSUME HarvestAssumption, TypeInv, NEW s \in Slots, NEW v \in sess[s].got, Suppression(s, v)
    PROVE  TypeInv'
  <1> DEFINE q == sess[s]
             row == q.known[v.id]
             c == CountDeletion(q.counts, row)
             e == [q EXCEPT !.got = @ \ {v}, !.counts = c, !.toCreate = q.toCreate]
  <1>1. /\ Fit(q) /\ q \in Execution /\ q.pc = "deletions" /\ q.pc \in Applying
        /\ v \in q.got /\ v \in Version /\ q.counts \in Counts /\ q.toCreate \in Seq(Version)
        /\ Len(q.ids) \in Nat /\ Len(q.ids) <= Len(q.toCreate)
    BY DEF TypeInv, AllGiven, Fit, Balanced, Execution, Suppression, Applying
  <1>2. c \in Counts /\ c.received = q.counts.received /\ Total(c) = Total(q.counts) + 1
    <2>1. q.counts \in Counts
      BY <1>1
    <2> HIDE DEF q, row
    <2>2. QED
      BY <2>1 DEF CountDeletion, Counts, Total
  <1>3. Throw(s) \/ Continue(s, e)
    BY <1>1 DEF Suppression, Execution
  <1>4. harv' = harv \/ harv' = [harv EXCEPT ![v.id] = Deleted(@, v)]
    BY DEF Suppression
  <1>5. Carried(e)
    <2>1. Total(c) + Len(q.toCreate) = Total(q.counts) + Len(q.toCreate) + 1
      <3>1. Total(q.counts) \in Nat /\ Len(q.toCreate) \in Nat
        BY <1>1, TotalType
      <3>2. QED
        BY SMTT(30), <1>2, <3>1
    <2> HIDE DEF q, c
    <2>2. QED
      BY <1>1, <1>2, <2>1, RestCarried
  <1> HIDE DEF e
  <1>6. sess' \in [Slots -> Execution] /\ \A t \in Slots : Fit(sess[t])'
    BY <1>3, <1>5, ThrowFit, ContinueFit DEF Suppression
  <1>7. harv' \in [Ids -> HarvestedRecord]
    <2>1. harv \in [Ids -> HarvestedRecord] /\ v \in Version /\ v.id \in Ids
      BY <1>1 DEF TypeInv, TypeOK, Version
    <2>2. Deleted(harv[v.id], v) \in HarvestedRecord
      BY <2>1, RowTypes
    <2>3. QED
      BY <1>4, <2>1, <2>2
  <1>8. QED
    BY <1>6, <1>7, OnlyRows DEF Suppression, TypeInv, TypeOK

LEMMA EcrireCurseurType ==
    ASSUME HarvestAssumption, TypeInv, NEW s \in Slots, EcrireCurseur(s)
    PROVE  TypeInv'
  <1> DEFINE e == [sess[s] EXCEPT !.pc = "close"]
  <1>1. Fit(sess[s]) /\ sess[s].pc = "cursor" /\ sess[s].top \in Nat
    BY DEF TypeInv, AllGiven, EcrireCurseur, Fit, Execution
  <1>2. /\ e \in Execution /\ e.pc = "close" /\ e.token = sess[s].token /\ e.next = sess[s].next
        /\ e.got = sess[s].got /\ e.counts = sess[s].counts
        /\ e.ids = sess[s].ids /\ e.toCreate = sess[s].toCreate
    BY <1>1 DEF Fit, Execution, Labels
  <1>3. Throw(s) \/ sess' = [sess EXCEPT ![s] = e]
    BY DEF EcrireCurseur, Goto
  <1> HIDE DEF e
  <1>4. Fit(e)
    BY <1>1, <1>2 DEF Fit, AllGivenTo, Balanced, Sum, Pointed, PointedIn, Applying
  <1>5. sess' \in [Slots -> Execution] /\ \A t \in Slots : Fit(sess[t])'
    BY <1>3, <1>4, SessFit, ThrowFit DEF EcrireCurseur
  <1>6. source' \in HarvestSource
    BY <1>1 DEF EcrireCurseur, TypeInv, TypeOK, HarvestSource
  <1>7. QED
    BY <1>5, <1>6, OnlyRows DEF EcrireCurseur, TypeInv, TypeOK

\* The report of an execution, and what the next one may resume from.
LEMMA CloreRuns ==
    ASSUME TypeInv, NEW s \in Slots, Clore(s)
    PROVE  /\ runs' \in Seq(HarvestRun) /\ Len(runs') = Len(runs) /\ DOMAIN runs' = DOMAIN runs
           /\ \A k \in DOMAIN runs :
                \/ runs'[k].token = runs[k].token /\ runs'[k].counts = runs[k].counts
                \/ runs'[k].token = sess[s].next /\ runs'[k].counts = sess[s].counts
  <1> DEFINE q == sess[s]
             new(r) == [r EXCEPT !.outcome = q.etat, !.token = q.next, !.counts = q.counts]
  <1>1. runs \in Seq(HarvestRun) /\ q \in Execution
    BY DEF TypeInv, TypeOK
  <1>2. ASSUME NEW r \in HarvestRun
        PROVE  new(r) \in HarvestRun /\ new(r).token = q.next /\ new(r).counts = q.counts
    BY <1>1 DEF Execution, HarvestRun
  <1>3. \/ runs' = runs
        \/ runs' = [k \in DOMAIN runs |-> IF k = q.run THEN new(runs[k]) ELSE runs[k]]
    BY <1>1 DEF Clore, HarvestRun
  <1> HIDE DEF new, q
  <1>4. \A k \in DOMAIN runs : runs[k] \in HarvestRun
    BY <1>1
  <1>5. DOMAIN runs' = DOMAIN runs
    BY <1>3
  <1>6. \A k \in DOMAIN runs : runs'[k] = runs[k] \/ runs'[k] = new(runs[k])
    BY <1>3
  <1>7. runs' \in [1..Len(runs) -> HarvestRun] /\ Len(runs) \in Nat
    BY <1>1, <1>2, <1>3, <1>4
  <1>8. runs' \in Seq(HarvestRun) /\ Len(runs') = Len(runs)
    BY <1>7
  <1>9. QED
    BY <1>2, <1>4, <1>5, <1>6, <1>8 DEF q

LEMMA CloreType ==
    ASSUME HarvestAssumption, TypeInv, NEW s \in Slots, Clore(s)
    PROVE  TypeInv'
  <1>1. sess' \in [Slots -> Execution] /\ \A t \in Slots : Fit(sess[t])'
    BY ThrowFit DEF Clore
  <1>2. runs' \in Seq(HarvestRun) /\ Len(runs') <= MaxRuns
    BY CloreRuns DEF TypeInv, TypeOK
  <1>3. \A k \in DOMAIN runs' : Given(runs'[k].token.left)
    BY CloreRuns DEF TypeInv, AllGiven, Fit, AllGivenTo
  <1>4. QED
    BY <1>1, <1>2, <1>3 DEF Clore, TypeInv, TypeOK, AllGiven, Given, world, past

LEMMA StopType ==
    ASSUME HarvestAssumption, TypeInv, NEW S, Stop(S)
    PROVE  TypeInv'
  <1>1. \A t \in Slots : sess'[t] \in {Idle, sess[t]} /\ DOMAIN sess' = Slots
    BY DEF Stop
  <1>2. Fit(Idle) /\ \A t \in Slots : Fit(sess[t])
    BY IdleType DEF TypeInv, AllGiven
  <1>3. sess' \in [Slots -> Execution]
    BY <1>2 DEF Stop, Fit
  <1>4. \A t \in Slots : Fit(sess[t])'
    <2>1. \A t \in Slots : Fit(sess'[t])
      BY <1>1, <1>2, Zenon
    <2>2. QED
      BY <2>1 DEF Stop, db, Fit, AllGivenTo, Given, Balanced, Sum, Pointed, PointedIn
  <1>5. {stops', removed'} \subseteq Nat /\ stops' + removed' <= MaxForgets
    BY DEF Stop, TypeInv, TypeOK, HarvestAssumption
  <1>6. QED
    BY <1>3, <1>4, <1>5 DEF Stop, TypeInv, TypeOK, AllGiven, Given, world, db

-----------------------------------------------------------------------------
(* The types, for the whole specification *)

LEMMA InitType == ASSUME HarvestAssumption, Init PROVE TypeInv
  <1>1. Fit(Idle) /\ NoSource \in HarvestSource
    BY IdleType DEF Fit, Execution, Idle, NoSource, NoToken, HarvestSource, HarvestAssumption
  <1>2. /\ repo \in [Targets -> [Ids -> Version]]
        /\ \A t \in Targets, i \in Ids : repo[t][i].stamp <= clock
    BY DEF Init, Version
  <1>3. sess \in [Slots -> Execution] /\ \A s \in Slots : Fit(sess[s])
    BY <1>1 DEF Init, Fit
  <1>4. harv \in [Ids -> HarvestedRecord]
    BY DEF Init, Unknown, HarvestedRecord
  <1>5. runs \in Seq(HarvestRun) /\ Len(runs) <= MaxRuns /\ DOMAIN runs = {}
        /\ local \in Seq([id : Ids, stamp : Nat])
    BY DEF Init, HarvestAssumption
  <1>6. changes \in 0..MaxChanges /\ module \in BOOLEAN /\ clock \in Nat /\ rejected \subseteq Token
        /\ {stops, removed} \subseteq Nat /\ stops + removed <= MaxForgets
    BY DEF Init, HarvestAssumption
  <1>7. QED
    BY <1>1, <1>2, <1>3, <1>4, <1>5, <1>6 DEF Init, TypeInv, TypeOK, AllGiven

LEMMA StepType ==
    ASSUME HarvestAssumption, TypeInv, NEW s \in Slots, Step(s)
    PROVE  TypeInv'
  BY LireRepriseType, CreerRunType, AskType, LireConnuesType, NoticeType, SuppressionType,
     ImporterType, RememberType, EcrireCurseurType, CloreType, Zenon DEF Step

LEMMA NextType ==
    ASSUME HarvestAssumption, TypeInv, [Next]_vars
    PROVE  TypeInv'
  <1>1. CASE \E t \in Targets, p \in Periods, a \in BOOLEAN :
                CreerSource(t, p, a) \/ ModifierSource(t, p, a)
    BY <1>1, SourcesType, Zenon
  <1>2. CASE SwitchModule
    BY <1>2, SwitchType
  <1>3. CASE SupprimerSource
    BY <1>3, SupprimerType
  <1>4. CASE \E s \in Slots : Manual(s)
    <2>1. PICK s \in Slots : Manual(s)
      BY <1>4
    <2>2. source \in HarvestSource /\ "token" \in Early
      BY DEF TypeInv, TypeOK, Early
    <2>3. QED
      BY <2>1, <2>2, StartType DEF Manual
  <1>5. CASE NightlyPass \/ CestLHeure \/ ExigerSource
    BY <1>5, NightType
  <1>6. CASE \E s \in Slots : Step(s) \/ Stop({s})
    BY <1>6, StepType, StopType, Zenon
  <1>7. CASE Stop(Slots)
    BY <1>7, StopType, Zenon
  <1>8. CASE \E t \in Targets, i \in Ids, gone, titled \in BOOLEAN : Publish(t, i, gone, titled)
    BY <1>8, PublishType, Zenon
  <1>9. CASE Tick
    BY <1>9, TickType
  <1>10. CASE UNCHANGED vars
    BY SMTT(30), <1>10 DEF vars, world, db, past, TypeInv, TypeOK, AllGiven, Fit, AllGivenTo, Given,
                 Balanced, Sum, Pointed, PointedIn
  <1>11. QED
    BY <1>1, <1>2, <1>3, <1>4, <1>5, <1>6, <1>7, <1>8, <1>9, <1>10, Zenon DEF Next

\* Whatever overlaps, stops or is deleted, every variable keeps its type: above
\* all, the memory of the source and its reports hold statuses the screens know.
THEOREM TypeCorrect == Spec => []TypeOK
  <1>1. Init => TypeInv
    BY InitType, HarvestAssumption
  <1>2. TypeInv /\ [Next]_vars => TypeInv'
    BY NextType, HarvestAssumption
  <1>3. TypeInv => TypeOK
    BY DEF TypeInv
  <1>4. QED
    BY <1>1, <1>2, <1>3, PTL DEF Spec

-----------------------------------------------------------------------------
(* The reports *)

\* A report is written when everything received is counted.
LEMMA CloreReport ==
    ASSUME TypeInv, ReportAddsUp, NEW s \in Slots, Clore(s)
    PROVE  ReportAddsUp'
  <1> DEFINE Adds(c) == c.received = c.created + c.ignored + c.collided + c.deletions
  <1>1. Fit(sess[s]) /\ sess[s].pc = "close" /\ sess[s].counts \in Counts
    BY DEF TypeInv, AllGiven, Fit, Execution, Clore
  <1>2. Sum(sess[s]) /\ sess[s].got = {} /\ sess[s].toCreate = <<>>
    BY <1>1 DEF Fit, Balanced, Applying
  <1>3. Adds(sess[s].counts)
    <2>1. Cardinality({}) = 0
      BY FS_EmptySet
    <2>2. QED
      BY <1>1, <1>2, <2>1 DEF Sum, Counts
  <1>4. \A k \in DOMAIN runs : Adds(runs[k].counts)
    BY DEF ReportAddsUp
  <1>5. DOMAIN runs' = DOMAIN runs /\ \A k \in DOMAIN runs : Adds(runs'[k].counts)
    BY <1>3, <1>4, CloreRuns
  <1>6. QED
    BY <1>5 DEF ReportAddsUp

\* The steps that write the runs, and those that write the catalogue or the memory.
LEMMA Writers ==
    ASSUME [Next]_vars
    PROVE  /\ \/ \E s \in Slots : CreerRun(s) \/ Clore(s)
              \/ SupprimerSource
              \/ UNCHANGED runs
           /\ \/ \E s \in Slots : \/ Importer(s) \/ Remember(s)
                                 \/ \E v \in sess[s].got : Notice(s, v) \/ Suppression(s, v)
              \/ SupprimerSource
              \/ UNCHANGED <<harv, local>>
  <1>1. CASE \E t \in Targets, p \in Periods, a \in BOOLEAN :
                CreerSource(t, p, a) \/ ModifierSource(t, p, a)
    BY <1>1 DEF CreerSource, ModifierSource
  <1>2. CASE SwitchModule
    BY <1>2 DEF SwitchModule
  <1>3. CASE \/ \E s \in Slots : Manual(s)
             \/ NightlyPass \/ CestLHeure \/ ExigerSource
    BY <1>3 DEF Manual, NightlyPass, CestLHeure, ExigerSource, Start, db
  <1>4. CASE \E s \in Slots : Step(s)
    <2>1. PICK s \in Slots : Step(s)
      BY <1>4
    <2>2. CASE LireReprise(s) \/ Moissonner(s) \/ JetonRefuse(s) \/ LireConnues(s)
      BY <2>2 DEF LireReprise, Moissonner, JetonRefuse, LireConnues, db
    <2>3. CASE CreerRun(s) \/ Clore(s) \/ EcrireCurseur(s)
      BY <2>3 DEF CreerRun, Clore, EcrireCurseur
    <2>4. CASE \/ Importer(s) \/ Remember(s)
               \/ \E v \in sess[s].got : Notice(s, v) \/ Suppression(s, v)
      BY <2>4 DEF Importer, Remember, Notice, Suppression
    <2>5. QED
      BY <2>1, <2>2, <2>3, <2>4, Zenon DEF Step
  <1>5. CASE (\E s \in Slots : Stop({s})) \/ Stop(Slots)
    BY <1>5 DEF Stop, db
  <1>6. CASE \E t \in Targets, i \in Ids, gone, titled \in BOOLEAN : Publish(t, i, gone, titled)
    BY <1>6 DEF Publish, db
  <1>7. CASE Tick \/ UNCHANGED vars
    BY <1>7 DEF Tick, vars, db
  <1>8. QED
    BY <1>1, <1>2, <1>3, <1>4, <1>5, <1>6, <1>7, Zenon DEF Next

LEMMA ReportStep ==
    ASSUME HarvestAssumption, TypeInv, ReportAddsUp, [Next]_vars
    PROVE  ReportAddsUp'
  <1>1. CASE \E s \in Slots : Clore(s)
    BY <1>1, CloreReport
  <1>2. CASE \E s \in Slots : CreerRun(s)
    <2>1. PICK s \in Slots : CreerRun(s)
      BY <1>2
    <2> DEFINE r == [day |-> clock, outcome |-> "en_cours", token |-> NoToken, counts |-> Zero]
    <2>2. runs \in Seq(HarvestRun)
      BY DEF TypeInv, TypeOK
    <2>3. runs' = runs \/ runs' = Append(runs, r)
      BY <2>1 DEF CreerRun
    <2>4. r.counts = Zero
      OBVIOUS
    <2> HIDE DEF r
    <2>5. \A k \in DOMAIN runs' : (k \in DOMAIN runs /\ runs'[k] = runs[k]) \/ runs'[k] = r
      BY <2>2, <2>3
    <2>6. QED
      BY <2>4, <2>5 DEF ReportAddsUp, Zero
  <1>3. CASE SupprimerSource
    BY <1>3 DEF SupprimerSource, ReportAddsUp
  <1>4. CASE UNCHANGED runs
    BY <1>4 DEF ReportAddsUp
  <1>5. QED
    BY <1>1, <1>2, <1>3, <1>4, Writers, Zenon

\* "recues = creees + ignorees + collisions + suppressions", in every report of
\* every source, however many executions of it overlap and wherever they stop.
THEOREM ReportsAddUp == Spec => []ReportAddsUp
  <1>1. Init => TypeInv /\ ReportAddsUp
    BY InitType, HarvestAssumption DEF Init, ReportAddsUp
  <1>2. TypeInv /\ ReportAddsUp /\ [Next]_vars => (TypeInv /\ ReportAddsUp)'
    BY NextType, ReportStep, HarvestAssumption
  <1>3. QED
    BY <1>1, <1>2, PTL DEF Spec

-----------------------------------------------------------------------------
(* The memory *)

\* What a row of the memory says of its record.
RowPoints(i, row, records) ==
    /\ row.status = "importee" => row.record # 0
    /\ row.record # 0 => /\ row.record \in DOMAIN records /\ records[row.record].id = i
                         /\ row.status = "importee" => records[row.record].stamp = row.stamp

\* It is enough that the row that was written points at its record.
LEMMA OneRow ==
    ASSUME TypeInv, MemoryPointsAtItsRecord, NEW i \in Ids, NEW row, RowPoints(i, row, local),
           harv' = [harv EXCEPT ![i] = row], local' = local
    PROVE  MemoryPointsAtItsRecord'
  <1>1. \A j \in Ids : harv'[j] = IF j = i THEN row ELSE harv[j]
    BY DEF TypeInv, TypeOK
  <1>2. \A j \in Ids : RowPoints(j, harv[j], local)
    BY DEF MemoryPointsAtItsRecord, RowPoints
  <1>3. \A j \in Ids : RowPoints(j, harv'[j], local')
    BY <1>1, <1>2, Zenon
  <1>4. QED
    BY <1>3 DEF MemoryPointsAtItsRecord, RowPoints

LEMMA MemoryStep ==
    ASSUME HarvestAssumption, TypeInv, MemoryPointsAtItsRecord, [Next]_vars
    PROVE  MemoryPointsAtItsRecord'
  <1>r. \A i \in Ids : harv[i] \in HarvestedRecord /\ RowPoints(i, harv[i], local)
    BY DEF TypeInv, TypeOK, MemoryPointsAtItsRecord, RowPoints
  <1>1. ASSUME NEW s \in Slots, NEW v \in sess[s].got, Notice(s, v) \/ Suppression(s, v)
        PROVE  MemoryPointsAtItsRecord'
    <2>1. v.id \in Ids /\ local' = local
      <3>1. v \in Version
        BY DEF TypeInv, TypeOK, Execution
      <3>2. QED
        BY <1>1, <3>1 DEF Notice, Suppression, Version
    <2>2. \/ harv' = harv
          \/ harv' = [harv EXCEPT ![v.id] = Collision(@, v)]
          \/ harv' = [harv EXCEPT ![v.id] = Deleted(@, v)]
          \/ harv' = [harv EXCEPT ![v.id] = [status |-> "ignoree", stamp |-> v.stamp, record |-> 0]]
      BY <1>1 DEF Notice, Suppression, Sort
    <2>3. RowPoints(v.id, Collision(harv[v.id], v), local)
      BY <1>r, <2>1 DEF RowPoints, Collision, HarvestedRecord
    <2>4. RowPoints(v.id, Deleted(harv[v.id], v), local)
      BY <1>r, <2>1 DEF RowPoints, Deleted, HarvestedRecord
    <2>5. RowPoints(v.id, [status |-> "ignoree", stamp |-> v.stamp, record |-> 0], local)
      BY DEF RowPoints
    <2>6. CASE harv' = harv
      BY <2>1, <2>6 DEF MemoryPointsAtItsRecord
    <2>7. QED
      BY <2>1, <2>2, <2>3, <2>4, <2>5, <2>6, OneRow
  <1>2. ASSUME NEW s \in Slots, Remember(s)
        PROVE  MemoryPointsAtItsRecord'
    <2> DEFINE q == sess[s]
               v == Head(q.toCreate)
               row == [status |-> "importee", stamp |-> v.stamp, record |-> Head(q.ids)]
    <2>1. /\ Pointed(q) /\ Len(q.ids) = Len(q.toCreate) /\ q.toCreate # <<>>
          /\ q.ids \in Seq(Nat) /\ q.toCreate \in Seq(Version)
          /\ local \in Seq([id : Ids, stamp : Nat])
      BY <1>2 DEF Remember, TypeInv, TypeOK, AllGiven, Fit, Balanced, Execution
    <2>2. Len(q.ids) \in Nat /\ 1 \in 1..Len(q.ids) /\ Head(q.ids) = q.ids[1] /\ v = q.toCreate[1]
      BY <2>1
    <2>3. v.id \in Ids
      <3>1. q.toCreate[1] \in Version
        BY <2>1, <2>2
      <3>2. QED
        BY <2>2, <3>1 DEF Version
    <2>4. /\ Head(q.ids) \in DOMAIN local /\ local[Head(q.ids)].id = v.id
          /\ local[Head(q.ids)].stamp = v.stamp
      BY <2>1, <2>2, Zenon DEF Pointed, PointedIn
    <2>5. Head(q.ids) # 0
      BY <2>1, <2>4
    <2>6. RowPoints(v.id, row, local)
      BY <2>4, <2>5 DEF RowPoints
    <2>7. (harv' = harv \/ harv' = [harv EXCEPT ![v.id] = row]) /\ local' = local
      BY <1>2 DEF Remember
    <2>8. CASE harv' = harv
      BY <2>7, <2>8 DEF MemoryPointsAtItsRecord
    <2> HIDE DEF row, v, q
    <2>9. QED
      BY <2>3, <2>6, <2>7, <2>8, OneRow
  <1>3. ASSUME NEW s \in Slots, Importer(s)
        PROVE  MemoryPointsAtItsRecord'
    <2> DEFINE q == sess[s]
               v == q.toCreate[Len(q.ids) + 1]
               x == [id |-> v.id, stamp |-> v.stamp]
    <2>1. v \in Version
      <3>1. Len(q.ids) < Len(q.toCreate) /\ q.ids \in Seq(Nat) /\ q.toCreate \in Seq(Version)
        BY <1>3 DEF Importer, TypeInv, AllGiven, Fit, Balanced, Execution
      <3>2. Len(q.ids) + 1 \in 1..Len(q.toCreate)
        BY <3>1
      <3> HIDE DEF q
      <3>3. QED
        BY <3>1, <3>2
    <2>2. x \in [id : Ids, stamp : Nat] /\ local' = Append(local, x) /\ harv' = harv
      BY <1>3, <2>1 DEF Importer, Version
    <2> HIDE DEF x
    <2>3. \A k \in DOMAIN local : k \in DOMAIN local' /\ local'[k] = local[k]
      BY <2>2, PointedExtends
    <2>4. \A i \in Ids : RowPoints(i, harv[i], local')
      BY <1>r, <2>3 DEF RowPoints
    <2>5. QED
      BY <2>2, <2>4 DEF MemoryPointsAtItsRecord, RowPoints
  <1>4. CASE SupprimerSource
    BY <1>4 DEF SupprimerSource, MemoryPointsAtItsRecord, Unknown
  <1>5. CASE UNCHANGED <<harv, local>>
    BY <1>5 DEF MemoryPointsAtItsRecord
  <1>6. QED
    BY <1>1, <1>2, <1>3, <1>4, <1>5, Writers, Zenon

\* A row of the memory never says "importee" of another record, or of another
\* version, than the record of the catalogue it points at, even when executions
\* of the source overlap, one of them stops half-way or the source is deleted.
THEOREM MemoryIsRight == Spec => []MemoryPointsAtItsRecord
  <1>1. Init => TypeInv /\ MemoryPointsAtItsRecord
    BY InitType, HarvestAssumption DEF Init, MemoryPointsAtItsRecord, Unknown
  <1>2. TypeInv /\ MemoryPointsAtItsRecord /\ [Next]_vars
          => (TypeInv /\ MemoryPointsAtItsRecord)'
    BY NextType, MemoryStep, HarvestAssumption
  <1>3. QED
    BY <1>1, <1>2, PTL DEF Spec

-----------------------------------------------------------------------------
(* The cursor *)

\* Executions follow one another, and the source keeps its repository.
Alone == Slots = {Night} /\ \A t, u \in Targets : t = u

\* The one repository; what the memory says of the current version of a record.
Current(i) == repo[NoToken.target][i]
Taken(i) ==
    \/ Current(i).gone /\ harv[i].status = "none"
    \/ /\ harv[i].stamp = Current(i).stamp
       /\ harv[i].status # "none"
       /\ Current(i).gone <=> harv[i].status = "supprimee_a_la_source"

\* What was given is the current version or an earlier one, one of a record.
Seen(v) == /\ v.stamp <= Current(v.id).stamp
           /\ v.stamp = Current(v.id).stamp => v = Current(v.id)
Genuine(L) == (\A v, w \in L : v.id = w.id => v = w) /\ \A v \in L : Seen(v)

\* The token the next execution would send, and what it would be given for it.
WithToken(rows) == {r \in DOMAIN rows : rows[r].token # NoToken}
LastToken(rows) == IF WithToken(rows) = {} THEN NoToken ELSE rows[Latest(WithToken(rows))].token
Open(token, day) == token.until = Unannounced \/ day < token.until
Resumable == IF Open(LastToken(runs), clock) THEN LastToken(runs).left ELSE {}

\* What an execution has still to deal with or to leave to the next one, and the
\* stamps it will have gone past when it closes.
Pending(e) == e.got \cup {e.toCreate[k] : k \in DOMAIN e.toCreate} \cup e.next.left
Aim(e) == Stamps(e.next.left) \cup (IF AvancerLaSource(e.etat, e.next) THEN {e.top} ELSE {})

\* A current version older than a stamp of B is in M, or in the memory.
Cover(B, M) == \A i \in Ids :
    Current(i).stamp # 0 /\ (\E n \in B : Current(i).stamp < n) => Current(i) \in M \/ Taken(i)
\* A version of L that is no longer current gave way to one no older than B.
Outdated(L, B) == \A w \in L : w # Current(w.id) => \A n \in B : n <= Current(w.id).stamp

SourceInv ==
    /\ \A i \in Ids :
          /\ Current(i).id = i
          /\ harv[i].status # "none" =>
                /\ harv[i].stamp <= Current(i).stamp
                /\ harv[i].stamp = Current(i).stamp =>
                      (Current(i).gone <=> harv[i].status = "supprimee_a_la_source")
    /\ \A r \in DOMAIN runs : Genuine(runs[r].token.left)
    /\ source.id \in {0, removed + 1} /\ source.cursor <= clock
    /\ source.id = 0 => runs = <<>>
    /\ source.id # 0 => Cover({source.cursor}, {})
    /\ Cover(Stamps(Resumable), Resumable)
    /\ Outdated(Resumable, {source.cursor} \cup Stamps(Resumable))

\* What an execution holds, whatever became of its source.
Held(e) ==
    /\ Genuine(e.token.left) /\ Genuine(e.next.left) /\ Genuine(e.got)
    /\ \A k \in DOMAIN e.toCreate : /\ Seen(e.toCreate[k]) /\ ~e.toCreate[k].gone
                                    /\ \A v \in e.got : v.id # e.toCreate[k].id
    /\ e.top <= clock /\ e.now <= clock
Blank(e) == e.got = {} /\ e.toCreate = <<>> /\ e.next = NoToken /\ e.etat = "en_cours"
Placed(e) ==
    /\ e.pc \in Early \cup {"idle"} => Blank(e)
    /\ e.pc = "deletions" => Notices(e.got) = {}
    /\ e.pc = "cursor" => AvancerLaSource(e.etat, e.next)

\* What it read of a source that is still there.
Its(e) == source.id # 0 /\ e.source.id = source.id
InRun(e) == e.run \in DOMAIN runs /\ e.run = Len(runs) /\ runs[e.run].token = NoToken
Matches(e) == \A v \in e.got : e.known[v.id] = harv[v.id]
Follows(e) ==
    /\ e.pc \in Early => e.source.cursor = source.cursor
    /\ e.pc \in {"run", "ask"} => e.token = RepriseUtilisable(runs, e.now)
    /\ e.pc \in {"ask"} \cup Applying => InRun(e)
    /\ e.pc \in Applying \ {"known"} => Matches(e)
\* What it owes to the source.
Bounds(e) == {source.cursor} \cup Stamps(Resumable) \cup Aim(e)
Claims(e) == Cover(Aim(e), Pending(e)) /\ Outdated(Pending(e) \cup Resumable, Bounds(e))

ExecInv(e) ==
    /\ Held(e) /\ Placed(e)
    /\ Its(e) \/ e.source.id <= removed
    /\ Its(e) => Follows(e) /\ Claims(e)

CursorInv == SourceInv /\ ExecInv(sess[Night])

LEMMA SourceFrame ==
    ASSUME SourceInv, UNCHANGED <<repo, source.id, source.cursor, runs, harv, clock, removed>>
    PROVE  SourceInv'
  <1>1. Resumable' = Resumable
    BY DEF Resumable, Open, LastToken, WithToken
  <1>2. \A i : Current(i)' = Current(i) /\ Taken(i)' = Taken(i)
    BY DEF Current, Taken
  <1>3. \A L : Genuine(L)' = Genuine(L)
    BY <1>2 DEF Genuine, Seen
  <1>4. \A B, M : Cover(B, M)' = Cover(B, M) /\ Outdated(M, B)' = Outdated(M, B)
    BY <1>2 DEF Cover, Outdated
  <1>5. Stamps(Resumable)' = Stamps(Resumable)
    BY <1>1 DEF Stamps
  <1>6. QED
    BY <1>1, <1>2, <1>3, <1>4, <1>5 DEF SourceInv

LEMMA ExecFrame ==
    ASSUME NEW e, ExecInv(e), UNCHANGED <<repo, source.id, source.cursor, runs, harv, clock, removed>>
    PROVE  ExecInv(e)'
  <1>1. Resumable' = Resumable /\ Stamps(Resumable)' = Stamps(Resumable)
    BY DEF Resumable, Open, LastToken, WithToken, Stamps
  <1>2. Held(e)'
    BY DEF Held, Genuine, Seen, Current, ExecInv
  <1>3. Its(e)' = Its(e) /\ (e.source.id <= removed)' = (e.source.id <= removed)
    BY DEF Its
  <1>4. Follows(e) => Follows(e)'
    BY DEF Follows, InRun, Matches
  <1>5. Claims(e) => Claims(e)'
    BY <1>1 DEF Claims, Cover, Outdated, Bounds, Current, Taken
  <1>6. QED
    BY <1>2, <1>3, <1>4, <1>5 DEF ExecInv

\* Fewer stamps, fewer versions, more of them pending.
LEMMA CoverLess ==
    ASSUME NEW B, NEW M, Cover(B, M), NEW C, C \subseteq B, NEW N, M \subseteq N
    PROVE  Cover(C, N)
  BY DEF Cover

LEMMA OutdatedLess ==
    ASSUME NEW L, NEW B, Outdated(L, B), NEW M, M \subseteq L, NEW C, C \subseteq B
    PROVE  Outdated(M, C)
  BY DEF Outdated

LEMMA GenuineLess ==
    ASSUME NEW L, Genuine(L), NEW M, M \subseteq L
    PROVE  Genuine(M)
  BY DEF Genuine

LEMMA CursorTypes ==
    ASSUME HarvestAssumption, TypeInv
    PROVE  /\ NoToken.target \in Targets /\ Night \in Slots /\ sess[Night] \in Execution
           /\ \A i \in Ids : Current(i) \in Version /\ harv[i] \in HarvestedRecord
           /\ \A i \in Ids : Current(i).stamp \in Nat /\ Current(i).stamp <= clock
           /\ source.id \in Nat /\ source.cursor \in Nat /\ removed \in Nat /\ clock \in Nat
           /\ \A r \in DOMAIN runs : runs[r].token \in Token /\ Given(runs[r].token.left)
  <1>1. NoToken.target \in Targets /\ Night \in Slots
    BY DEF HarvestAssumption, NoToken
  <1>2. sess[Night] \in Execution /\ source.id \in Nat /\ source.cursor \in Nat
        /\ removed \in Nat /\ clock \in Nat
    BY <1>1 DEF TypeInv, TypeOK, HarvestSource
  <1>3. \A i \in Ids : Current(i) \in Version /\ harv[i] \in HarvestedRecord
                       /\ Current(i).stamp <= clock
    BY <1>1 DEF TypeInv, TypeOK, AllGiven, Current
  <1>4. \A v \in Version : v.stamp \in Nat
    BY DEF Version
  <1>5. ASSUME NEW r \in DOMAIN runs PROVE runs[r].token \in Token /\ Given(runs[r].token.left)
    <2>1. runs[r] \in HarvestRun
      BY DEF TypeInv, TypeOK
    <2>2. QED
      BY <2>1 DEF TypeInv, AllGiven, HarvestRun
  <1>6. QED
    BY <1>1, <1>2, <1>3, <1>4, <1>5

\* The last token is that of a run, or none.
LEMMA LastTokenType ==
    ASSUME HarvestAssumption, TypeInv
    PROVE  /\ LastToken(runs) \in Token /\ Given(LastToken(runs).left)
           /\ \/ LastToken(runs) = NoToken
              \/ \E r \in DOMAIN runs : LastToken(runs) = runs[r].token
  <1>1. NoToken \in Token /\ Given(NoToken.left)
    BY NoTokenType, FS_EmptySet DEF NoToken, Given
  <1>2. CASE WithToken(runs) = {}
    BY <1>1, <1>2 DEF LastToken
  <1>3. CASE WithToken(runs) # {}
    <2>1. Len(runs) \in Nat /\ WithToken(runs) \subseteq 0..Len(runs)
      BY DEF TypeInv, TypeOK, WithToken
    <2>2. Latest(WithToken(runs)) \in WithToken(runs)
      BY <1>3, <2>1, LatestIsGreatest
    <2>3. Latest(WithToken(runs)) \in DOMAIN runs
      BY <2>2 DEF WithToken
    <2>4. QED
      BY <1>3, <2>3, CursorTypes DEF LastToken
  <1>4. QED
    BY <1>2, <1>3

LEMMA RepriseIsLast ==
    ASSUME NEW rows, LastToken(rows) \in Token, NEW now \in Nat
    PROVE  RepriseUtilisable(rows, now) = IF Open(LastToken(rows), now) THEN LastToken(rows)
                                          ELSE NoToken
  <1>2. LastToken(rows).until \in Int
    BY DEF Token, Unannounced
  <1>3. Open(LastToken(rows), now)
          <=> ~(LastToken(rows).until # Unannounced /\ LastToken(rows).until <= now)
    BY <1>2 DEF Open
  <1>4. CASE WithToken(rows) = {}
    BY <1>4 DEF RepriseUtilisable, LastToken, WithToken
  <1>5. CASE WithToken(rows) # {}
    BY <1>3, <1>5 DEF RepriseUtilisable, LastToken, WithToken
  <1>6. QED
    BY <1>4, <1>5

LEMMA SessStep ==
    ASSUME HarvestAssumption, TypeInv, CursorInv,
           UNCHANGED <<repo, source.id, source.cursor, runs, harv, clock, removed>>,
           NEW e, ExecInv(e), sess'[Night] = e
    PROVE  CursorInv'
  <1>1. SourceInv' /\ ExecInv(e)'
    BY SourceFrame, ExecFrame DEF CursorInv
  <1>2. ExecInv(sess[Night])'
    BY <1>1
  <1>3. QED
    BY <1>1, <1>2 DEF CursorInv

LEMMA IdleExec ==
    ASSUME HarvestAssumption, TypeInv
    PROVE  ExecInv(Idle)
  <1>1. /\ Idle.pc = "idle" /\ Idle.got = {} /\ Idle.toCreate = <<>> /\ Idle.next = NoToken
        /\ Idle.etat = "en_cours" /\ Idle.token.left = {} /\ Idle.next.left = {}
        /\ Idle.top = 0 /\ Idle.now = 0 /\ Idle.source.id = 0
    BY DEF Idle, NoToken, NoSource
  <1>2. Held(Idle) /\ Placed(Idle)
    <2>1. Genuine({}) /\ DOMAIN Idle.toCreate = {} /\ clock \in Nat
      BY <1>1, CursorTypes DEF Genuine
    <2>2. QED
      BY <1>1, <2>1 DEF Held, Placed, Blank
  <1>3. QED
    BY <1>1, <1>2, CursorTypes DEF ExecInv, Its

\* An execution that ends owes nothing more.
LEMMA ThrowCursor ==
    ASSUME HarvestAssumption, TypeInv, CursorInv, Throw(Night),
           UNCHANGED <<repo, source, runs, harv, clock, removed>>
    PROVE  CursorInv'
  <1>1. sess'[Night] = Idle
    BY CursorTypes DEF Throw, TypeInv, TypeOK
  <1>2. QED
    BY <1>1, IdleExec, SessStep

\* Before the answer there is nothing to deal with.
LEMMA BlankOwes ==
    ASSUME NEW e, Blank(e)
    PROVE  Pending(e) = {} /\ Aim(e) = {}
  BY DEF Blank, NoToken, Stamps, AvancerLaSource, Pending, Aim

LEMMA BlankExec ==
    ASSUME HarvestAssumption, TypeInv, SourceInv, NEW e, e.pc \in Early, Blank(e),
           Genuine(e.token.left), e.top <= clock, e.now <= clock,
           Its(e) \/ e.source.id <= removed, Its(e) => Follows(e)
    PROVE  ExecInv(e)
  <1>1. e.next.left = {} /\ Stamps(e.next.left) = {} /\ ~AvancerLaSource(e.etat, e.next)
    BY DEF Blank, NoToken, Stamps, AvancerLaSource
  <1>3. Claims(e)
    BY BlankOwes DEF Claims, Cover, Bounds, SourceInv
  <1>4. Held(e) /\ Placed(e)
    BY <1>1 DEF Held, Placed, Blank, Genuine, Early
  <1>5. QED
    BY <1>3, <1>4 DEF ExecInv

\* The steps of an execution that change nothing but what it has read.
LEMMA StartCursor ==
    ASSUME HarvestAssumption, TypeInv, CursorInv, NEW pc \in {"due", "token"}, source.id # 0,
           Start(Night, pc, source)
    PROVE  CursorInv'
  <1> DEFINE q == sess[Night]
             e == [q EXCEPT !.pc = pc, !.now = clock, !.source = source]
  <1>1. q \in Execution /\ q.pc = "idle" /\ Blank(q) /\ Held(q)
    BY CursorTypes DEF Start, CursorInv, ExecInv, Placed
  <1>2. /\ e.pc = pc /\ e.token = q.token /\ e.top = q.top /\ e.now = clock /\ e.source = source
        /\ e.got = q.got /\ e.toCreate = q.toCreate /\ e.next = q.next /\ e.etat = q.etat
    BY <1>1 DEF Execution
  <1>3. sess'[Night] = e
    BY CursorTypes DEF Start, TypeInv, TypeOK
  <1> HIDE DEF e
  <1>4. Its(e) /\ Follows(e)
    BY <1>2 DEF Its, Follows, Applying
  <1>5. Blank(e) /\ e.pc \in Early /\ Genuine(e.token.left) /\ e.top <= clock /\ e.now <= clock
    BY <1>1, <1>2, CursorTypes DEF Blank, Early, Held
  <1>6. ExecInv(e)
    BY <1>4, <1>5, BlankExec DEF CursorInv
  <1>7. QED
    BY <1>3, <1>6, SessStep DEF Start, world, db, past

LEMMA NightCursor ==
    ASSUME HarvestAssumption, TypeInv, CursorInv, NightlyPass \/ CestLHeure \/ ExigerSource
    PROVE  CursorInv'
  <1> DEFINE q == sess[Night]
             e == [q EXCEPT !.pc = "source"]
             f == [q EXCEPT !.pc = "token", !.source = source]
  <1>1. CASE NightlyPass
    BY <1>1, StartCursor DEF NightlyPass
  <1>s. q \in Execution /\ ExecInv(q) /\ SourceInv /\ sess \in [Slots -> Execution]
        /\ Night \in Slots
    BY CursorTypes DEF CursorInv, TypeInv, TypeOK
  <1>2. CASE CestLHeure /\ Goto(Night, "source")
    <2>1. q.pc = "due" /\ Blank(q) /\ Held(q)
      BY <1>s, <1>2 DEF CestLHeure, ExecInv, Placed, Early
    <2>2. /\ e.pc = "source" /\ e.token = q.token /\ e.top = q.top /\ e.now = q.now
          /\ e.source = q.source /\ e.got = q.got /\ e.toCreate = q.toCreate
          /\ e.next = q.next /\ e.etat = q.etat
      BY <1>s DEF Execution
    <2>3. sess'[Night] = e
      BY <1>2, <1>s DEF Goto
    <2> HIDE DEF e
    <2>4. (Its(e) <=> Its(q)) /\ (Follows(q) => Follows(e))
      BY <2>1, <2>2 DEF Its, Follows, Early, Applying
    <2>5. ExecInv(e)
      <3>1. Blank(e) /\ Genuine(e.token.left) /\ e.pc \in Early
            /\ e.top <= clock /\ e.now <= clock
        BY <2>1, <2>2 DEF Blank, Held, Early
      <3>2. (Its(e) \/ e.source.id <= removed) /\ (Its(e) => Follows(e))
        BY <1>s, <2>2, <2>4 DEF ExecInv
      <3>3. QED
        BY <1>s, <3>1, <3>2, BlankExec
    <2>6. QED
      BY <1>2, <2>3, <2>5, SessStep DEF CestLHeure, world, db, past
  <1>3. CASE CestLHeure /\ Throw(Night)
    BY <1>3, ThrowCursor DEF CestLHeure, world, db, past
  <1>4. CASE ExigerSource /\ Alive(Night)
    <2>1. q.pc = "source" /\ Blank(q) /\ Held(q)
      BY <1>s, <1>4 DEF ExigerSource, ExecInv, Placed, Early
    <2>2. /\ f.pc = "token" /\ f.token = q.token /\ f.top = q.top /\ f.now = q.now
          /\ f.source = source /\ f.got = q.got /\ f.toCreate = q.toCreate
          /\ f.next = q.next /\ f.etat = q.etat
      BY <1>s DEF Execution
    <2>3. sess'[Night] = f
      BY <1>4, <1>s DEF ExigerSource
    <2> HIDE DEF f
    <2>4. Its(f) /\ Follows(f)
      BY <1>4, <2>1, <2>2 DEF Its, Follows, Early, Applying, Alive
    <2>5. ExecInv(f)
      <3>1. Blank(f) /\ Genuine(f.token.left) /\ f.pc \in Early
            /\ f.top <= clock /\ f.now <= clock
        BY <2>1, <2>2 DEF Blank, Held, Early
      <3>2. QED
        BY <1>s, <2>4, <3>1, BlankExec
    <2>6. QED
      BY <1>4, <2>3, <2>5, SessStep DEF ExigerSource, world, db, past
  <1>5. CASE ExigerSource /\ ~Alive(Night)
    BY <1>5, ThrowCursor DEF ExigerSource, world, db, past
  <1>6. QED
    BY <1>1, <1>2, <1>3, <1>4, <1>5 DEF CestLHeure

LEMMA LireRepriseCursor ==
    ASSUME HarvestAssumption, TypeInv, CursorInv, LireReprise(Night)
    PROVE  CursorInv'
  <1> DEFINE q == sess[Night]
             k == IF Alive(Night) THEN RepriseUtilisable(runs, q.now) ELSE NoToken
             e == [q EXCEPT !.pc = "run", !.token = k]
  <1>1. q \in Execution /\ ExecInv(q) /\ SourceInv /\ q.now \in Nat /\ q.pc = "token"
        /\ Blank(q) /\ Held(q)
    BY CursorTypes DEF CursorInv, LireReprise, ExecInv, Placed, Early, Execution
  <1>2. Genuine(k.left)
    <2>1. Genuine(NoToken.left)
      BY DEF NoToken, Genuine
    <2>2. Genuine(LastToken(runs).left)
      BY <1>1, <2>1, LastTokenType DEF SourceInv
    <2>3. RepriseUtilisable(runs, q.now) \in {NoToken, LastToken(runs)}
      BY <1>1, RepriseIsLast, LastTokenType
    <2>4. QED
      BY <2>1, <2>2, <2>3
  <1>3. sess'[Night] = e
    BY CursorTypes DEF LireReprise, TypeInv, TypeOK
  <1>4. Alive(Night) => k = RepriseUtilisable(runs, q.now)
    OBVIOUS
  <1> HIDE DEF k
  <1>5. /\ e.pc = "run" /\ e.token = k /\ e.top = q.top /\ e.now = q.now
        /\ e.source = q.source /\ e.got = q.got /\ e.toCreate = q.toCreate
        /\ e.next = q.next /\ e.etat = q.etat
    BY <1>1 DEF Execution
  <1> HIDE DEF e
  <1>6. (Its(e) <=> Its(q)) /\ (Its(e) /\ Follows(q) => Follows(e))
    BY <1>1, <1>4, <1>5 DEF Its, Follows, Early, Applying, Alive
  <1>7. ExecInv(e)
    <2>1. Blank(e) /\ Genuine(e.token.left) /\ e.pc \in Early
          /\ e.top <= clock /\ e.now <= clock
      BY <1>1, <1>2, <1>5 DEF Blank, Held, Early
    <2>2. (Its(e) \/ e.source.id <= removed) /\ (Its(e) => Follows(e))
      BY <1>1, <1>5, <1>6 DEF ExecInv
    <2>3. QED
      BY <1>1, <2>1, <2>2, BlankExec
  <1>8. QED
    BY <1>3, <1>7, SessStep DEF LireReprise, world, db, past

\* A run that starts leaves no token yet.
LEMMA AppendLast ==
    ASSUME HarvestAssumption, TypeInv, NEW r \in HarvestRun, r.token = NoToken
    PROVE  LastToken(Append(runs, r)) = LastToken(runs)
  <1> DEFINE more == Append(runs, r)
  <1>1. runs \in Seq(HarvestRun) /\ Len(runs) \in Nat
    BY DEF TypeInv, TypeOK
  <1>2. /\ DOMAIN more = 1..Len(runs) + 1 /\ more[Len(runs) + 1] = r
        /\ \A k \in DOMAIN runs : more[k] = runs[k]
    BY <1>1
  <1>3. WithToken(more) = WithToken(runs)
    <2> HIDE DEF more
    <2>1. DOMAIN runs = 1..Len(runs)
      BY <1>1
    <2>2. QED
      BY <1>1, <1>2, <2>1 DEF WithToken
  <1>4. CASE WithToken(runs) = {}
    BY <1>3, <1>4 DEF LastToken
  <1>5. CASE WithToken(runs) # {}
    <2>1. WithToken(runs) \subseteq 0..Len(runs)
      BY <1>1 DEF WithToken
    <2>2. Latest(WithToken(runs)) \in WithToken(runs)
      BY <1>1, <1>5, <2>1, LatestIsGreatest
    <2>3. Latest(WithToken(runs)) \in DOMAIN runs
      BY <2>2 DEF WithToken
    <2> HIDE DEF more
    <2>4. LastToken(more) = more[Latest(WithToken(runs))].token
          /\ LastToken(runs) = runs[Latest(WithToken(runs))].token
      BY <1>3, <1>5 DEF LastToken
    <2>5. more[Latest(WithToken(runs))] = runs[Latest(WithToken(runs))]
      BY <1>2, <2>3
    <2>6. QED
      BY <2>4, <2>5 DEF more
  <1>6. QED
    BY <1>4, <1>5

LEMMA CreerRunCursor ==
    ASSUME HarvestAssumption, TypeInv, TypeInv', CursorInv, CreerRun(Night)
    PROVE  CursorInv'
  <1> DEFINE q == sess[Night]
             r == [day |-> clock, outcome |-> "en_cours", token |-> NoToken, counts |-> Zero]
  <1>0. PICK e : e = [q EXCEPT !.pc = "ask", !.run = Len(runs) + 1]
    OBVIOUS
  <1>1. q \in Execution /\ ExecInv(q) /\ SourceInv /\ q.now \in Nat /\ q.pc = "run"
        /\ Blank(q) /\ Held(q) /\ runs \in Seq(HarvestRun) /\ Len(runs) \in Nat
    <2>1. q \in Execution /\ q.pc = "run" /\ runs \in Seq(HarvestRun) /\ Len(runs) \in Nat
      BY CursorTypes DEF CreerRun, TypeInv, TypeOK
    <2>2. ExecInv(q) /\ SourceInv /\ q.now \in Nat
      BY <2>1 DEF CursorInv, Execution
    <2>3. QED
      BY <2>1, <2>2 DEF ExecInv, Placed, Early
  <1>2. CASE ~Alive(Night)
    BY <1>2, ThrowCursor DEF CreerRun, world, past
  <1>3. CASE Alive(Night)
    <2>1. r \in HarvestRun /\ r.token = NoToken
      BY CursorTypes, NoTokenType DEF HarvestRun, Outcomes, Zero, Counts
    <2>2. runs' = Append(runs, r) /\ sess'[Night] = e
      BY <1>0, <1>3, CursorTypes DEF CreerRun, TypeInv, TypeOK
    <2>3. /\ e.pc = "ask" /\ e.token = q.token /\ e.top = q.top /\ e.now = q.now
          /\ e.source = q.source /\ e.got = q.got /\ e.toCreate = q.toCreate
          /\ e.next = q.next /\ e.etat = q.etat /\ e.run = Len(runs) + 1
      BY <1>0, <1>1 DEF Execution
    <2> HIDE DEF r
    <2>4. /\ DOMAIN runs' = 1..Len(runs) + 1 /\ Len(runs') = Len(runs) + 1
          /\ runs'[Len(runs) + 1] = r
          /\ \A k \in DOMAIN runs' : runs'[k] = r \/ (k \in DOMAIN runs /\ runs'[k] = runs[k])
      BY <1>1, <2>1, <2>2
    <2>5. UNCHANGED <<repo, source, harv, clock, removed>>
      BY DEF CreerRun, world, past
    <2>6. LastToken(runs)' = LastToken(runs) /\ Resumable' = Resumable
      <3>1. LastToken(runs)' = LastToken(runs')
        BY DEF LastToken, WithToken
      <3>2. LastToken(runs') = LastToken(runs)
        BY <2>1, <2>2, AppendLast
      <3>3. QED
        BY <2>5, <3>1, <3>2 DEF Resumable, Open
    <2>7. SourceInv'
      <3>1. \A i : Current(i)' = Current(i) /\ Taken(i)' = Taken(i)
        BY <2>5 DEF Current, Taken
      <3>2. \A L : Genuine(L)' = Genuine(L)
        BY <3>1 DEF Genuine, Seen
      <3>3. \A B, M : Cover(B, M)' = Cover(B, M) /\ Outdated(M, B)' = Outdated(M, B)
        BY <3>1 DEF Cover, Outdated
      <3>4. Genuine(r.token.left)
        BY <2>1 DEF Genuine, NoToken
      <3>5. \A k \in DOMAIN runs' : Genuine(runs'[k].token.left)
        BY <1>1, <2>4, <3>4 DEF SourceInv
      <3>6. source.id # 0
        BY <1>3 DEF Alive
      <3>7. QED
        BY <1>1, <2>5, <2>6, <3>1, <3>2, <3>3, <3>5, <3>6 DEF SourceInv, Stamps
    <2>8. Follows(e)'
      <3>1. Follows(q)
        BY <1>1, <1>3 DEF ExecInv, Its, Alive
      <3>2. e.token = RepriseUtilisable(runs, e.now)
        BY <1>1, <2>3, <3>1 DEF Follows
      <3>3. RepriseUtilisable(runs, e.now)' = RepriseUtilisable(runs', e.now)
        BY DEF RepriseUtilisable
      <3>4. RepriseUtilisable(runs, e.now)' = RepriseUtilisable(runs, e.now)
        <4>1. LastToken(runs') = LastToken(runs) /\ LastToken(runs) \in Token
          BY <2>1, <2>2, AppendLast, LastTokenType
        <4>2. QED
          BY <1>1, <2>3, <3>3, <4>1, RepriseIsLast
      <3>5. InRun(e)'
        BY <2>1, <2>3, <2>4, <1>1 DEF InRun
      <3>6. QED
        BY <1>1, <2>3, <2>5, <3>1, <3>2, <3>4, <3>5 DEF Follows, Early, Applying
    <2>9. ExecInv(e)'
      <3>1. (Blank(e) /\ Genuine(e.token.left) /\ e.pc \in Early
            /\ e.top <= clock /\ e.now <= clock)'
        BY <1>1, <2>3, <2>5 DEF Blank, Held, Early, Genuine, Seen, Current
      <3>2. (Its(e) \/ e.source.id <= removed)'
        BY <1>1, <2>3, <2>5 DEF ExecInv, Its
      <3>3. Claims(e)'
        BY <2>7, <3>1, BlankOwes DEF Claims, Cover, Bounds, SourceInv
      <3>4. (Held(e) /\ Placed(e))'
        BY <2>5, <3>1 DEF Held, Placed, Blank, Genuine, NoToken, Early
      <3>5. QED
        BY <2>8, <3>2, <3>3, <3>4 DEF ExecInv
    <2>10. QED
      BY <2>2, <2>7, <2>9 DEF CursorInv
  <1>4. QED
    BY <1>2, <1>3

\* The answer of the repository is made of versions that are or were current.
LEMMA SnapshotGenuine ==
    ASSUME HarvestAssumption, Alone, TypeInv, CursorInv
    PROVE  Genuine(Snapshot(sess[Night]))
  <1> DEFINE q == sess[Night]
  <1>1. q \in Execution /\ q.source.target = NoToken.target /\ Held(q)
    BY CursorTypes DEF Execution, HarvestSource, Alone, CursorInv, ExecInv
  <1>2. CASE q.token # NoToken
    BY <1>1, <1>2 DEF Snapshot, Held
  <1>3. CASE q.token = NoToken
    <2>1. \A i \in Ids : Current(i).id = i /\ Seen(Current(i))
      BY CursorTypes DEF CursorInv, SourceInv, Seen
    <2>2. \A v \in Snapshot(q) : \E i \in Ids : v = Current(i)
      BY <1>1, <1>3 DEF Snapshot, Current
    <2>3. QED
      BY <2>1, <2>2, Zenon DEF Genuine
  <1>4. QED
    BY <1>2, <1>3

\* What is older than something that was given is given too, or in the memory:
\* the token that is sent is the last one, a walk without token starts at the cursor.
LEMMA SnapshotClaims ==
    ASSUME HarvestAssumption, Alone, TypeInv, CursorInv, sess[Night].pc = "ask",
           Its(sess[Night]), Accepted(sess[Night]), NEW S, S = Snapshot(sess[Night])
    PROVE  /\ Cover(Stamps(S), S)
           /\ Outdated(S \cup Resumable, {source.cursor} \cup Stamps(Resumable) \cup Stamps(S))
  <1> DEFINE q == sess[Night]
             last == LastToken(runs)
  <1>1. q \in Execution /\ q.source.target = NoToken.target /\ q.now \in Nat /\ q.now <= clock
        /\ clock \in Nat /\ SourceInv /\ q.source.cursor = source.cursor
    BY CursorTypes DEF Execution, HarvestSource, Alone, CursorInv, ExecInv, Held, Follows, Early
  <1>2. last \in Token /\ last.until \in Int
    BY LastTokenType DEF Token, Unannounced
  <1>3. q.token = IF Open(last, q.now) THEN last ELSE NoToken
    BY <1>1, <1>2, RepriseIsLast DEF CursorInv, ExecInv, Follows
  <1>4. CASE q.token # NoToken
    <2>1. q.token = last /\ Open(last, clock) /\ S = last.left
      BY <1>3, <1>4 DEF Accepted, Open, Snapshot
    <2>2. Resumable = S
      BY <2>1 DEF Resumable
    <2>3. QED
      BY <1>1, <2>2 DEF SourceInv, Outdated
  <1>5. CASE q.token = NoToken
    <2>1. Resumable = {}
      <3>1. CASE last = NoToken
        BY <3>1 DEF Resumable, NoToken
      <3>2. CASE ~Open(last, q.now)
        <4>1. ~Open(last, clock)
          BY <1>1, <1>2, <3>2 DEF Open
        <4>2. QED
          BY <4>1 DEF Resumable
      <3>3. QED
        BY <1>3, <1>5, <3>1, <3>2
    <2>2. S = {v \in {Current(i) : i \in Ids} : v.stamp # 0 /\ source.cursor <= v.stamp}
      BY <1>1, <1>5 DEF Snapshot, Current
    <2>3. \A v \in S : v = Current(v.id)
      BY <1>1, <2>2 DEF SourceInv
    <2>4. Outdated(S \cup Resumable, {source.cursor} \cup Stamps(Resumable) \cup Stamps(S))
      BY <2>1, <2>3 DEF Outdated
    <2>5. Cover(Stamps(S), S)
      <3> SUFFICES ASSUME NEW i \in Ids, Current(i).stamp # 0, Current(i) \notin S
                   PROVE  Taken(i)
        BY DEF Cover
      <3>1. Current(i).stamp \in Nat /\ source.cursor \in Nat
        BY CursorTypes
      <3>2. Current(i).stamp < source.cursor
        BY <2>2, <3>1
      <3>3. Cover({source.cursor}, {})
        BY <1>1 DEF SourceInv, Its
      <3>4. QED
        BY <3>2, <3>3 DEF Cover
    <2>6. QED
      BY <2>4, <2>5
  <1>6. QED
    BY <1>4, <1>5

\* An answer claims nothing, or what it gives and what it leaves are the snapshot.
LEMMA IssueShape ==
    ASSUME HarvestAssumption, NEW s \in Slots, NEW issue \in Issues(s), NEW S,
           S = Snapshot(sess[s])
    PROVE  /\ issue.got \subseteq S /\ issue.next.left \subseteq S
           /\ \/ issue.next.left = {} /\ ~AvancerLaSource(issue.etat, issue.next)
              \/ /\ issue.got \cup issue.next.left = S /\ issue.got # {}
  <1> DEFINE q == sess[s]
             tok(R, l) == [target |-> q.source.target, run |-> q.run, left |-> S \ R,
                           until |-> IF l = 0 THEN Unannounced ELSE clock + l]
             iss(etat, got, next) == [etat |-> etat, got |-> got, next |-> next]
             Nothing == {iss(e, {}, NoToken) : e \in Failures}
             Empty == IF S = {} THEN {iss("vide", {}, NoToken)} ELSE {}
             All == {iss("moisson", R, NoToken) :
                       R \in {R \in {S} : R # {} /\ Cardinality(R) <= MaxPages}}
             Parts == {R \in SUBSET S : R \notin {{}, S} /\ Cardinality(R) <= MaxPages}
             Part == {iss(e, R, tok(R, l)) : e \in Failures, l \in TokenLives, R \in Parts}
             Twice == {iss("erreur_protocole", R, NoToken) :
                         R \in {R \in SUBSET S : Cardinality(R) \in 2..MaxPages}}
  <1>1. issue \in Nothing \cup Empty \cup All \cup Part \cup Twice
    BY DEF Issues
  <1>2. NoToken.left = {} /\ "moisson" \notin Failures
    BY DEF NoToken, HarvestAssumption
  <1>3. CASE issue \in Nothing
    BY <1>2, <1>3 DEF AvancerLaSource
  <1>4. CASE issue \in Empty
    BY <1>2, <1>4 DEF AvancerLaSource
  <1>5. CASE issue \in All
    BY <1>2, <1>5
  <1>6. CASE issue \in Twice
    BY <1>2, <1>6 DEF AvancerLaSource
  <1>7. CASE issue \in Part
    <2>1. PICK e \in Failures, l \in TokenLives, R \in Parts : issue = iss(e, R, tok(R, l))
      BY <1>7
    <2>2. R \subseteq S /\ R # {} /\ tok(R, l).left = S \ R
      OBVIOUS
    <2> HIDE DEF tok
    <2>3. issue.etat = e /\ issue.got = R /\ issue.next = tok(R, l)
      BY <2>1
    <2>4. QED
      BY <2>2, <2>3
  <1>8. QED
    <2> HIDE DEF Nothing, Empty, All, Part, Twice
    <2>1. QED
      BY <1>1, <1>3, <1>4, <1>5, <1>6, <1>7

LEMMA AnswerCursor ==
    ASSUME HarvestAssumption, Alone, TypeInv, CursorInv, sess[Night].pc = "ask",
           NEW issue, NEW S, S = Snapshot(sess[Night]),
           issue.got \subseteq S, issue.next.left \subseteq S, Answer(Night, issue),
           \/ issue.next.left = {} /\ ~AvancerLaSource(issue.etat, issue.next)
           \/ /\ issue.got \cup issue.next.left = S /\ issue.got # {} /\ Accepted(sess[Night]),
           issue.got # {} => Accepted(sess[Night]),
           UNCHANGED <<repo, source, runs, harv, clock, removed>>
    PROVE  CursorInv'
  <1> DEFINE q == sess[Night]
             top == IF issue.got = {} THEN 0 ELSE Latest(Stamps(issue.got))
  <1>1. PICK e : e = [Idle EXCEPT
            !.pc = IF issue.got = {} THEN "close" ELSE "known",
            !.source.id = q.source.id, !.run = q.run, !.etat = issue.etat, !.got = issue.got,
            !.next = issue.next, !.top = top, !.counts.received = Cardinality(issue.got)]
    OBVIOUS
  <1>2. sess'[Night] = e
    BY <1>1, CursorTypes DEF Answer, TypeInv, TypeOK
  <1>3. /\ e.pc \in {"close", "known"} /\ e.got = issue.got /\ e.next = issue.next
        /\ e.etat = issue.etat /\ e.top = top /\ e.toCreate = <<>> /\ e.run = q.run
        /\ e.source.id = q.source.id /\ e.now = 0 /\ e.token = NoToken
        /\ (e.pc = "close" => e.got = {})
    BY <1>1 DEF Idle, NoSource
  <1>4. DOMAIN e.toCreate = {} /\ NoToken.left = {} /\ clock \in Nat
    BY <1>3, CursorTypes DEF NoToken
  <1>5. ExecInv(q) /\ SourceInv /\ Genuine(S) /\ Given(S) /\ S \subseteq Version
    BY SnapshotGenuine, SnapshotGiven, CursorTypes DEF CursorInv
  <1>6. top <= clock /\ (issue.got # {} => top \in Stamps(issue.got))
    <2>1. CASE issue.got = {}
      BY <1>4, <2>1
    <2>2. CASE issue.got # {}
      <3>1. Stamps(issue.got) \subseteq 0..clock /\ Stamps(issue.got) # {}
        BY <1>4, <1>5, <2>2 DEF Stamps, Given, Version
      <3>2. Latest(Stamps(issue.got)) \in Stamps(issue.got)
        BY <1>4, <3>1, LatestIsGreatest
      <3>3. QED
        BY <1>4, <2>2, <3>1, <3>2
    <2>3. QED
      BY <2>1, <2>2
  <1> HIDE DEF top
  <1>7. Held(e) /\ Placed(e)
    <2>1. Genuine(e.next.left) /\ Genuine(e.got) /\ Genuine(e.token.left)
      BY <1>3, <1>4, <1>5, GenuineLess
    <2>2. QED
      BY <1>3, <1>4, <1>6, <2>1 DEF Held, Placed, Early
  <1>8. Pending(e) = issue.got \cup issue.next.left
    BY <1>3, <1>4 DEF Pending
  <1>9. ASSUME Its(q) PROVE Follows(e) /\ Claims(e)
    <2>1. Follows(q)
      BY <1>5, <1>9 DEF ExecInv
    <2>2. Follows(e)
      <3>1. InRun(e)
        BY <1>3, <2>1 DEF Follows, InRun
      <3>2. e.pc = "close" => Matches(e)
        BY <1>3 DEF Matches
      <3>3. QED
        BY <1>3, <3>1, <3>2 DEF Follows, Early, Applying
    <2>3. CASE issue.next.left = {} /\ ~AvancerLaSource(issue.etat, issue.next)
      <3>1. Aim(e) = {}
        BY <1>3, <2>3 DEF Aim, Stamps
      <3>2. Cover(Aim(e), Pending(e))
        BY <3>1 DEF Cover
      <3>3. Outdated(Pending(e) \cup Resumable, Bounds(e))
        <4>1. CASE issue.got = {}
          BY <1>5, <1>8, <2>3, <3>1, <4>1 DEF SourceInv, Outdated, Bounds
        <4>2. CASE issue.got # {}
          <5>1. Outdated(S \cup Resumable,
                         {source.cursor} \cup Stamps(Resumable) \cup Stamps(S))
            BY <1>9, <4>2, SnapshotClaims
          <5>2. Pending(e) \cup Resumable \subseteq S \cup Resumable
            BY <1>8, <2>3
          <5>3. Bounds(e) \subseteq {source.cursor} \cup Stamps(Resumable) \cup Stamps(S)
            BY <3>1 DEF Bounds
          <5>4. QED
            BY <5>1, <5>2, <5>3, OutdatedLess
        <4>3. QED
          BY <4>1, <4>2
      <3>4. QED
        BY <2>2, <3>2, <3>3 DEF Claims
    <2>4. CASE issue.got \cup issue.next.left = S /\ issue.got # {} /\ Accepted(sess[Night])
      <3>1. /\ Cover(Stamps(S), S)
            /\ Outdated(S \cup Resumable, {source.cursor} \cup Stamps(Resumable) \cup Stamps(S))
        BY <1>9, <2>4, SnapshotClaims
      <3>2. Pending(e) = S
        BY <1>8, <2>4
      <3>3. Aim(e) \subseteq Stamps(S)
        BY <1>3, <1>6, <2>4 DEF Aim, Stamps
      <3>4. Cover(Aim(e), Pending(e))
        BY <3>1, <3>2, <3>3, CoverLess
      <3>5. Bounds(e) \subseteq {source.cursor} \cup Stamps(Resumable) \cup Stamps(S)
        BY <3>3 DEF Bounds
      <3>6. Outdated(Pending(e) \cup Resumable, Bounds(e))
        BY <3>1, <3>2, <3>5, OutdatedLess
      <3>7. QED
        BY <2>2, <3>4, <3>6 DEF Claims
    <2>5. QED
      BY <2>3, <2>4
  <1>10. ExecInv(e)
    BY <1>3, <1>5, <1>7, <1>9 DEF ExecInv, Its
  <1>11. QED
    BY <1>2, <1>10, SessStep

LEMMA AskCursor ==
    ASSUME HarvestAssumption, Alone, TypeInv, CursorInv, Moissonner(Night) \/ JetonRefuse(Night)
    PROVE  CursorInv'
  <1>f. UNCHANGED <<repo, source, runs, harv, clock, removed>> /\ sess[Night].pc = "ask"
    BY DEF Moissonner, JetonRefuse, world, db, past
  <1>1. CASE Moissonner(Night)
    <2>1. PICK issue \in Issues(Night) : Answer(Night, issue)
      BY <1>1 DEF Moissonner
    <2>2. Accepted(sess[Night]) /\ Night \in Slots
      BY <1>1, CursorTypes DEF Moissonner
    <2>3. PICK S : S = Snapshot(sess[Night])
      OBVIOUS
    <2>4. QED
      BY <1>f, <2>1, <2>2, <2>3, IssueShape, AnswerCursor
  <1>2. CASE JetonRefuse(Night)
    <2>1. PICK issue : issue = [etat |-> "erreur_protocole", got |-> {}, next |-> NoToken]
      OBVIOUS
    <2>2. Answer(Night, issue)
      BY <1>2, <2>1 DEF JetonRefuse
    <2>3. issue.got = {} /\ issue.next.left = {} /\ ~AvancerLaSource(issue.etat, issue.next)
      BY <2>1 DEF NoToken, AvancerLaSource
    <2>4. PICK S : S = Snapshot(sess[Night])
      OBVIOUS
    <2>5. QED
      BY <1>f, <2>2, <2>3, <2>4, AnswerCursor
  <1>3. QED
    BY <1>1, <1>2

\* Forward changes nothing to what an execution owes.
LEMMA ForwardPlaced ==
    ASSUME NEW q \in Execution
    PROVE  /\ Placed(Forward(q)) /\ Forward(q).pc \in Applying \ {"known"}
           /\ Pending(Forward(q)) = Pending(q) /\ Aim(Forward(q)) = Aim(q)
  <1>1. Forward(q).pc =
            IF Notices(q.got) # {} THEN "notices"
            ELSE IF Len(q.ids) < Len(q.toCreate) THEN "import"
            ELSE IF q.toCreate # <<>> THEN "remember"
            ELSE IF q.got # {} THEN "deletions"
            ELSE IF AvancerLaSource(q.etat, q.next) THEN "cursor" ELSE "close"
    BY DEF Forward, Execution
  <1>2. Forward(q).pc \in Applying \ {"known"}
    BY <1>1 DEF Applying
  <1>3. /\ Forward(q).pc = "deletions" => Notices(q.got) = {}
        /\ Forward(q).pc = "cursor" => AvancerLaSource(q.etat, q.next)
    BY <1>1
  <1>4. Forward(q).pc \notin Early \cup {"idle"}
    BY <1>2 DEF Applying, Early
  <1>5. QED
    BY <1>2, <1>3, <1>4, ForwardKeeps DEF Placed, Pending, Aim

LEMMA ForwardExec ==
    ASSUME NEW q \in Execution, Held(q), Its(q) \/ q.source.id <= removed,
           Its(q) => InRun(q) /\ Matches(q) /\ Claims(q)
    PROVE  ExecInv(Forward(q))
  <1> DEFINE f == Forward(q)
  <1>1. /\ f.got = q.got /\ f.toCreate = q.toCreate /\ f.token = q.token /\ f.next = q.next
        /\ f.source = q.source /\ f.run = q.run /\ f.known = q.known /\ f.top = q.top
        /\ f.now = q.now
        /\ Placed(f) /\ f.pc \in Applying \ {"known"} /\ Pending(f) = Pending(q) /\ Aim(f) = Aim(q)
    BY ForwardKeeps, ForwardPlaced
  <1> HIDE DEF f
  <1>2. Held(f) /\ (Its(f) <=> Its(q)) /\ f.source.id = q.source.id
    BY <1>1 DEF Held, Its
  <1>3. ASSUME Its(q) PROVE Follows(f) /\ Claims(f)
    BY <1>1, <1>3 DEF Follows, InRun, Matches, Claims, Bounds, Early, Applying
  <1>4. ExecInv(f)
    BY <1>1, <1>2, <1>3 DEF ExecInv
  <1>5. QED
    BY <1>4 DEF f

\* The same where the memory has changed.
LEMMA ForwardExecNext ==
    ASSUME NEW q \in Execution, Held(q)', Its(q)', InRun(q)', Matches(q)', Claims(q)'
    PROVE  ExecInv(Forward(q))'
  <1> DEFINE f == Forward(q)
  <1>0. PICK g : g = f
    OBVIOUS
  <1>1. /\ g.got = q.got /\ g.toCreate = q.toCreate /\ g.token = q.token /\ g.next = q.next
        /\ g.source = q.source /\ g.run = q.run /\ g.known = q.known /\ g.top = q.top
        /\ g.now = q.now
        /\ Placed(g) /\ g.pc \in Applying \ {"known"} /\ Pending(g) = Pending(q) /\ Aim(g) = Aim(q)
    BY <1>0, ForwardKeeps, ForwardPlaced
  <1>2. Held(g)' /\ Its(g)'
    BY <1>1 DEF Held, Its
  <1>3. Follows(g)' /\ Claims(g)'
    BY <1>1 DEF Follows, InRun, Matches, Claims, Bounds, Early, Applying
  <1>4. ExecInv(g)'
    BY <1>1, <1>2, <1>3 DEF ExecInv
  <1>5. QED
    BY <1>0, <1>4

LEMMA BoundsType ==
    ASSUME HarvestAssumption, TypeInv, NEW e \in Execution
    PROVE  Bounds(e) \subseteq Nat
  <1>1. source.cursor \in Nat /\ e.top \in Nat /\ e.next.left \subseteq Version
    BY CursorTypes DEF Execution, Token
  <1>2. Resumable \subseteq Version
    BY LastTokenType DEF Resumable, Token
  <1>3. \A L : L \subseteq Version => Stamps(L) \subseteq Nat
    BY DEF Stamps, Version
  <1>4. QED
    BY <1>1, <1>2, <1>3 DEF Bounds, Aim

\* Dealing with a version writes it in the memory, or one that is no longer current:
\* the version that replaced it is younger than all that is covered.
LEMMA DealCover ==
    ASSUME HarvestAssumption, TypeInv, SourceInv, NEW q \in Execution, Claims(q),
           NEW v \in Pending(q), v.id \in Ids, UNCHANGED repo,
           \A j \in Ids : j # v.id => harv'[j] = harv[j],
           v = Current(v.id) => Taken(v.id)',
           NEW B, B \subseteq Bounds(q), NEW M, Cover(B, M \cup {v})
    PROVE  Cover(B, M)'
  <1>1. \A i : Current(i)' = Current(i)
    BY DEF Current
  <1>2. \A i \in Ids : i # v.id => (Taken(i)' <=> Taken(i))
    BY DEF Taken, Current
  <1>3. SUFFICES ASSUME NEW i \in Ids, Current(i).stamp # 0,
                        NEW n \in B, Current(i).stamp < n, ~ Taken(i)'
                 PROVE  Current(i) \in M
    BY <1>1 DEF Cover
  <1>4. Current(i) \in M \cup {v} \/ Taken(i)
    BY <1>3 DEF Cover
  <1>5. Current(i).id = i
    BY DEF SourceInv
  <1>6. CASE i # v.id
    BY <1>2, <1>3, <1>4, <1>5, <1>6
  <1>7. CASE i = v.id
    <2>1. v # Current(v.id)
      BY <1>3, <1>7
    <2>2. n <= Current(v.id).stamp
      BY <2>1 DEF Claims, Outdated
    <2>3. n \in Nat /\ Current(i).stamp \in Nat
      BY BoundsType, CursorTypes
    <2>4. QED
      BY <1>3, <1>7, <2>2, <2>3
  <1>8. QED
    BY <1>6, <1>7

LEMMA Deal ==
    ASSUME HarvestAssumption, TypeInv, CursorInv, Its(sess[Night]), InRun(sess[Night]),
           NEW v \in Pending(sess[Night]), v.id \in Ids,
           UNCHANGED <<repo, source, runs, clock, removed>>,
           \A j \in Ids : j # v.id => harv'[j] = harv[j],
           harv'[v.id].status # "none" =>
               /\ harv'[v.id].stamp <= Current(v.id).stamp
               /\ harv'[v.id].stamp = Current(v.id).stamp =>
                     (Current(v.id).gone <=> harv'[v.id].status = "supprimee_a_la_source"),
           v = Current(v.id) => Taken(v.id)',
           NEW e \in Execution, Held(e), e.source.id = sess[Night].source.id,
           e.run = sess[Night].run, e.next = sess[Night].next, e.etat = sess[Night].etat,
           e.top = sess[Night].top,
           Pending(e) \subseteq Pending(sess[Night]), Pending(sess[Night]) \subseteq Pending(e) \cup {v},
           Matches(e)', sess'[Night] = Forward(e)
    PROVE  CursorInv'
  <1>0. PICK q : q = sess[Night]
    OBVIOUS
  <1>1. q \in Execution /\ SourceInv /\ Claims(q) /\ v \in Pending(q)
    BY <1>0, CursorTypes DEF CursorInv, ExecInv
  <1>2. \A i : Current(i)' = Current(i)
    BY DEF Current
  <1>3. (\A L : Genuine(L)' = Genuine(L)) /\ (\A L, B : Outdated(L, B)' = Outdated(L, B))
    BY <1>2 DEF Genuine, Seen, Outdated
  <1>4. Resumable' = Resumable /\ Stamps(Resumable)' = Stamps(Resumable)
    BY DEF Resumable, Open, LastToken, WithToken, Stamps
  <1>5. \A B, M : B \subseteq Bounds(q) /\ Cover(B, M \cup {v}) => Cover(B, M)'
    BY <1>1, DealCover, Zenon
  <1>6. SourceInv'
    <2>1. source.id # 0 => Cover({source.cursor}, {})'
      <3>1. source.id # 0 => Cover({source.cursor}, {} \cup {v})
        BY <1>1 DEF SourceInv, Cover
      <3>2. {source.cursor} \subseteq Bounds(q)
        BY DEF Bounds
      <3>3. QED
        BY <1>5, <3>1, <3>2, Zenon
    <2>2. Cover(Stamps(Resumable), Resumable)'
      <3>1. Cover(Stamps(Resumable), Resumable \cup {v})
        BY <1>1 DEF SourceInv, Cover
      <3>2. Stamps(Resumable) \subseteq Bounds(q)
        BY DEF Bounds
      <3>3. PICK B, M : B = Stamps(Resumable) /\ M = Resumable
        OBVIOUS
      <3>4. Cover(B, M)'
        BY <1>5, <3>1, <3>2, <3>3, Zenon
      <3>5. QED
        BY <1>4, <3>3, <3>4
    <2>3. \A i \in Ids :
             /\ (Current(i).id = i)'
             /\ harv'[i].status # "none" =>
                   /\ harv'[i].stamp <= Current(i)'.stamp
                   /\ harv'[i].stamp = Current(i)'.stamp =>
                         (Current(i)'.gone <=> harv'[i].status = "supprimee_a_la_source")
      BY <1>1, <1>2 DEF SourceInv
    <2>4. QED
      BY <1>1, <1>3, <1>4, <2>1, <2>2, <2>3 DEF SourceInv
  <1>7. Claims(e)'
    <2>1. Aim(e) = Aim(q) /\ Bounds(e) = Bounds(q)
      BY <1>0 DEF Aim, Bounds
    <2>2. Cover(Aim(e), Pending(e) \cup {v})
      BY <1>0, <1>1, <2>1, CoverLess DEF Claims
    <2>3. Cover(Aim(e), Pending(e))'
      <3>1. Aim(e) \subseteq Bounds(q)
        BY <2>1 DEF Bounds
      <3>2. QED
        BY <1>5, <2>2, <3>1, Zenon
    <2>4. Outdated(Pending(e) \cup Resumable, Bounds(e))
      BY <1>0, <1>1, <2>1, OutdatedLess DEF Claims
    <2>5. (Bounds(e) = Bounds(e))' /\ Bounds(e)' = Bounds(e)
      BY <1>4 DEF Bounds
    <2>6. QED
      BY <1>3, <1>4, <2>3, <2>4, <2>5 DEF Claims
  <1>8. Held(e)' /\ Its(e)' /\ InRun(e)'
    BY <1>3, <1>2 DEF Held, Its, InRun, Seen
  <1>9. ExecInv(Forward(e))'
    BY <1>7, <1>8, ForwardExecNext
  <1>10. QED
    BY <1>6, <1>9 DEF CursorInv

\* A version less to deal with.
LEMMA HeldLess ==
    ASSUME NEW q \in Execution, Held(q), NEW e \in Execution, NEW v, e.got = q.got \ {v},
           e.toCreate = q.toCreate, e.next = q.next, e.token = q.token, e.top = q.top, e.now = q.now
    PROVE  /\ Held(e) /\ Pending(e) \subseteq Pending(q) /\ Pending(q) \subseteq Pending(e) \cup {v}
  <1>1. Genuine(e.got)
    BY GenuineLess DEF Held
  <1>2. QED
    BY <1>1 DEF Held, Pending

\* What an execution that is there knows, at the steps that follow the answer.
LEMMA AfterAnswer ==
    ASSUME HarvestAssumption, TypeInv, CursorInv, sess[Night].pc \in Applying
    PROVE  /\ sess[Night] \in Execution /\ Held(sess[Night])
           /\ Its(sess[Night]) \/ sess[Night].source.id <= removed
           /\ Its(sess[Night]) <=> Alive(Night)
           /\ Its(sess[Night]) => InRun(sess[Night]) /\ Claims(sess[Night])
           /\ Its(sess[Night]) /\ sess[Night].pc # "known" => Matches(sess[Night])
           /\ sess \in [Slots -> Execution] /\ harv \in [Ids -> HarvestedRecord]
           /\ \A v \in sess[Night].got : v \in Version /\ v.id \in Ids /\ Seen(v)
  <1>1. PICK q : q = sess[Night]
    OBVIOUS
  <1>2. q \in Execution /\ ExecInv(q) /\ q.pc \in Applying
        /\ sess \in [Slots -> Execution] /\ harv \in [Ids -> HarvestedRecord]
    BY <1>1, CursorTypes DEF CursorInv, TypeInv, TypeOK
  <1>3. \A v \in q.got : v \in Version /\ v.id \in Ids /\ Seen(v)
    BY <1>2 DEF Execution, Version, ExecInv, Held, Genuine
  <1>4. Its(q) <=> Alive(Night)
    BY <1>1 DEF Its, Alive
  <1>5. QED
    BY <1>1, <1>2, <1>3, <1>4 DEF ExecInv, Follows

LEMMA LireConnuesCursor ==
    ASSUME HarvestAssumption, TypeInv, CursorInv, LireConnues(Night)
    PROVE  CursorInv'
  <1> DEFINE q == sess[Night]
             known == [i \in Ids |-> IF Alive(Night) /\ \E v \in q.got : v.id = i
                                     THEN harv[i] ELSE Unknown]
  <1>1. PICK e : e = [q EXCEPT !.known = known]
    OBVIOUS
  <1>2. q.pc \in Applying
    BY DEF LireConnues, Applying
  <1>3. known \in [Ids -> HarvestedRecord]
    BY DEF TypeInv, TypeOK, Unknown, HarvestedRecord
  <1>4. ASSUME Its(q), NEW v \in q.got PROVE known[v.id] = harv[v.id]
    BY <1>2, <1>4, AfterAnswer
  <1>5. Continue(Night, e)
    BY <1>1 DEF LireConnues
  <1> HIDE DEF known
  <1>6. /\ e \in Execution /\ e.got = q.got /\ e.toCreate = q.toCreate /\ e.next = q.next
        /\ e.token = q.token /\ e.top = q.top /\ e.now = q.now /\ e.source = q.source
        /\ e.run = q.run /\ e.etat = q.etat /\ e.known = known
    BY <1>1, <1>2, <1>3, AfterAnswer DEF Execution
  <1>7. sess'[Night] = Forward(e)
    BY <1>2, <1>5, AfterAnswer, CursorTypes DEF Continue
  <1>8. Held(e) /\ (Its(e) <=> Its(q))
    BY <1>2, <1>6, AfterAnswer DEF Held, Its
  <1>9. ASSUME Its(q) PROVE InRun(e) /\ Matches(e) /\ Claims(e)
    BY <1>2, <1>4, <1>6, <1>9, AfterAnswer DEF InRun, Matches, Claims, Bounds, Aim, Pending
  <1>10. ExecInv(Forward(e))
    BY <1>2, <1>6, <1>8, <1>9, AfterAnswer, ForwardExec
  <1>11. QED
    BY <1>7, <1>10, SessStep DEF LireConnues, world, db, past

LEMMA ImporterCursor ==
    ASSUME HarvestAssumption, TypeInv, CursorInv, Importer(Night)
    PROVE  CursorInv'
  <1> DEFINE q == sess[Night]
  <1>1. PICK e : e = [q EXCEPT !.ids = Append(@, Len(local) + 1)]
    OBVIOUS
  <1>2. q.pc \in Applying /\ q.pc # "known"
    BY DEF Importer, Applying
  <1>3. Append(q.ids, Len(local) + 1) \in Seq(Nat)
    <2>1. q.ids \in Seq(Nat)
      BY CursorTypes DEF Execution
    <2>2. Len(local) + 1 \in Nat
      BY DEF TypeInv, TypeOK
    <2>3. QED
      BY <2>1, <2>2
  <1>5. Continue(Night, e)
    BY <1>1 DEF Importer
  <1>6. /\ e \in Execution /\ e.got = q.got /\ e.toCreate = q.toCreate /\ e.next = q.next
        /\ e.token = q.token /\ e.top = q.top /\ e.now = q.now /\ e.source = q.source
        /\ e.run = q.run /\ e.etat = q.etat /\ e.known = q.known
    BY <1>1, <1>2, <1>3, AfterAnswer DEF Execution
  <1>7. sess'[Night] = Forward(e)
    BY <1>2, <1>5, AfterAnswer, CursorTypes DEF Continue
  <1>8. Held(e) /\ (Its(e) <=> Its(q))
    BY <1>2, <1>6, AfterAnswer DEF Held, Its
  <1>9. ASSUME Its(q) PROVE InRun(e) /\ Matches(e) /\ Claims(e)
    BY <1>2, <1>6, <1>9, AfterAnswer DEF InRun, Matches, Claims, Bounds, Aim, Pending
  <1>10. ExecInv(Forward(e))
    BY <1>2, <1>6, <1>8, <1>9, AfterAnswer, ForwardExec
  <1>11. QED
    BY <1>7, <1>10, SessStep DEF Importer, world, past

\* What a row becomes when a version is written in it.
Wrote(row, v) == /\ row.stamp = v.stamp /\ row.status # "none"
                 /\ v.gone <=> row.status = "supprimee_a_la_source"

\* An execution writes a version it was given in the memory, or finds it there.
LEMMA WriteCursor ==
    ASSUME HarvestAssumption, TypeInv, CursorInv, sess[Night].pc \in Applying \ {"known"},
           Alive(Night), NEW v \in Pending(sess[Night]), v \in Version, Seen(v),
           UNCHANGED <<repo, source, runs, clock, removed>>,
           \/ harv' = harv /\ (v = Current(v.id) => Taken(v.id))
           \/ \E row : Wrote(row, v) /\ harv' = [harv EXCEPT ![v.id] = row],
           NEW e \in Execution, Held(e), e.source.id = sess[Night].source.id,
           e.run = sess[Night].run, e.next = sess[Night].next, e.etat = sess[Night].etat,
           e.top = sess[Night].top, e.known = sess[Night].known, e.got \subseteq sess[Night].got,
           \A w \in e.got : w.id # v.id,
           Pending(e) \subseteq Pending(sess[Night]), Pending(sess[Night]) \subseteq Pending(e) \cup {v},
           Continue(Night, e)
    PROVE  CursorInv'
  <1>1. v.id \in Ids /\ sess'[Night] = Forward(e)
    BY AfterAnswer, CursorTypes DEF Version, Continue
  <1>2. \A j \in Ids : j # v.id => harv'[j] = harv[j]
    BY AfterAnswer
  <1>3. Taken(v.id)' <=> \/ Current(v.id).gone /\ harv'[v.id].status = "none"
                         \/ Wrote(harv'[v.id], Current(v.id))
    BY DEF Taken, Current, Wrote
  <1>4. v = Current(v.id) => Taken(v.id)'
    <2>1. CASE harv' = harv /\ (v = Current(v.id) => Taken(v.id))
      BY <2>1 DEF Taken, Current
    <2>2. CASE \E row : Wrote(row, v) /\ harv' = [harv EXCEPT ![v.id] = row]
      <3>1. Wrote(harv'[v.id], v)
        BY <1>1, <2>2, AfterAnswer
      <3>2. QED
        BY <1>3, <3>1
    <2>3. QED
      BY <2>1, <2>2
  <1>5. harv'[v.id].status # "none" =>
               /\ harv'[v.id].stamp <= Current(v.id).stamp
               /\ harv'[v.id].stamp = Current(v.id).stamp =>
                     (Current(v.id).gone <=> harv'[v.id].status = "supprimee_a_la_source")
    <2>1. CASE harv' = harv
      BY <1>1, <2>1 DEF CursorInv, SourceInv
    <2>2. CASE \E row : Wrote(row, v) /\ harv' = [harv EXCEPT ![v.id] = row]
      <3>1. Wrote(harv'[v.id], v)
        BY <1>1, <2>2, AfterAnswer
      <3>2. QED
        BY <3>1 DEF Seen, Wrote
    <2>3. QED
      BY <2>1, <2>2
  <1>6. Matches(e)'
    <2>1. \A w \in e.got : w.id \in Ids /\ e.known[w.id] = harv[w.id]
      BY AfterAnswer DEF Matches
    <2>2. QED
      BY <1>2, <2>1 DEF Matches
  <1>7. Its(sess[Night]) /\ InRun(sess[Night])
    BY AfterAnswer
  <1>8. QED
    BY <1>1, <1>2, <1>4, <1>5, <1>6, <1>7, Deal

LEMMA NoticeCursor ==
    ASSUME HarvestAssumption, TypeInv, CursorInv, NEW v \in sess[Night].got, Notice(Night, v)
    PROVE  CursorInv'
  <1> DEFINE q == sess[Night]
             kind == Sort(q.known[v.id], v)
             row == [status |-> "ignoree", stamp |-> v.stamp, record |-> 0]
  <1>1. /\ q.pc \in Applying \ {"known"} /\ ~v.gone /\ v \in q.got
        /\ UNCHANGED <<repo, source, runs, clock, removed>>
    BY DEF Notice, Notices, Applying, world, past
  <1>2. /\ q \in Execution /\ Held(q) /\ v \in Version /\ v.id \in Ids /\ Seen(v)
        /\ harv \in [Ids -> HarvestedRecord] /\ v \in Pending(q)
        /\ q.counts \in Counts /\ q.toCreate \in Seq(Version)
    BY <1>1, AfterAnswer DEF Pending, Execution
  <1>3. CASE Throw(Night) /\ UNCHANGED harv
    BY <1>1, <1>3, ThrowCursor
  <1>4. kind \in {"same", "changed", "new", "untitled"}
    BY DEF Sort
  \* The versions that are dealt with: one less, and the memory.
  <1>5. ASSUME Alive(Night),
               NEW c \in Counts, Continue(Night, [q EXCEPT !.got = @ \ {v}, !.counts = c]),
               \/ harv' = harv /\ (v = Current(v.id) => Taken(v.id))
               \/ \E r : Wrote(r, v) /\ harv' = [harv EXCEPT ![v.id] = r]
        PROVE  CursorInv'
    <2>1. PICK e : e = [q EXCEPT !.got = @ \ {v}, !.counts = c]
      OBVIOUS
    <2>2. /\ e \in Execution /\ e.got = q.got \ {v} /\ e.toCreate = q.toCreate
          /\ e.next = q.next /\ e.token = q.token /\ e.top = q.top /\ e.now = q.now
          /\ e.source = q.source /\ e.run = q.run /\ e.etat = q.etat /\ e.known = q.known
      BY <1>2, <2>1 DEF Execution
    <2>3. /\ Held(e) /\ Pending(e) \subseteq Pending(q) /\ Pending(q) \subseteq Pending(e) \cup {v}
      BY <1>2, <2>2, HeldLess
    <2>4. \A w \in e.got : w.id # v.id
      BY <1>1, <1>2, <2>2 DEF Held, Genuine
    <2>5. Continue(Night, e)
      BY <1>5, <2>1
    <2>6. QED
      BY <1>1, <1>2, <1>5, <2>2, <2>3, <2>4, <2>5, WriteCursor
  <1>6. [q.counts EXCEPT !.ignored = @ + 1] \in Counts
        /\ [q.counts EXCEPT !.collided = @ + 1] \in Counts
    <2>1. \A c \in Counts : [c EXCEPT !.ignored = @ + 1] \in Counts
                            /\ [c EXCEPT !.collided = @ + 1] \in Counts
      BY DEF Counts
    <2>2. QED
      BY <1>2, <2>1
  <1>7. CASE kind = "same" /\ Alive(Night)
    <2>1. Continue(Night, [q EXCEPT !.got = @ \ {v}, !.counts = [q.counts EXCEPT !.ignored = @ + 1]])
          /\ harv' = harv
      BY <1>2, <1>7 DEF Notice, Execution
    <2>2. v = Current(v.id) => Taken(v.id)
      <3>1. q.known[v.id].status # "none" /\ q.known[v.id].stamp = v.stamp
        BY <1>7 DEF Sort
      <3>2. q.known[v.id] = harv[v.id]
        BY <1>1, <1>7, AfterAnswer DEF Matches
      <3>3. QED
        BY <1>2, <3>1, <3>2 DEF CursorInv, SourceInv, Taken
    <2>3. QED
      BY <1>5, <1>6, <1>7, <2>1, <2>2
  <1>8. CASE kind = "changed" /\ Alive(Night)
    <2>1. Continue(Night, [q EXCEPT !.got = @ \ {v}, !.counts = [q.counts EXCEPT !.collided = @ + 1]])
          /\ harv' = [harv EXCEPT ![v.id] = Collision(@, v)]
      BY <1>2, <1>8 DEF Notice, Execution
    <2>2. Wrote(Collision(harv[v.id], v), v)
      BY <1>1, <1>2 DEF Wrote, Collision, HarvestedRecord
    <2>3. QED
      BY <1>5, <1>6, <1>8, <2>1, <2>2
  <1>9. CASE kind = "untitled" /\ Alive(Night) /\ harv[v.id] = Unknown
    <2>1. Continue(Night, [q EXCEPT !.got = @ \ {v}, !.counts = [q.counts EXCEPT !.ignored = @ + 1]])
          /\ harv' = [harv EXCEPT ![v.id] = row]
      BY <1>2, <1>9 DEF Notice, Execution
    <2>2. Wrote(row, v)
      BY <1>1 DEF Wrote
    <2>3. QED
      BY <1>5, <1>6, <1>9, <2>1, <2>2
  <1>10. CASE kind = "new"
    <2>1. PICK e : e = [q EXCEPT !.got = @ \ {v}, !.toCreate = Append(q.toCreate, v)]
      OBVIOUS
    <2>2. Append(q.toCreate, v) \in Seq(Version)
      BY <1>2
    <2>3. /\ e \in Execution /\ e.got = q.got \ {v} /\ e.toCreate = Append(q.toCreate, v)
          /\ e.next = q.next /\ e.token = q.token /\ e.top = q.top /\ e.now = q.now
          /\ e.source = q.source /\ e.run = q.run /\ e.etat = q.etat /\ e.known = q.known
      BY <1>2, <2>1, <2>2 DEF Execution
    <2>4. /\ DOMAIN e.toCreate = 1..Len(q.toCreate) + 1 /\ e.toCreate[Len(q.toCreate) + 1] = v
          /\ DOMAIN q.toCreate = 1..Len(q.toCreate) /\ Len(q.toCreate) \in Nat
          /\ \A k \in DOMAIN q.toCreate : e.toCreate[k] = q.toCreate[k]
      BY SMTT(30), <1>2, <2>3
    <2>5. \A k \in DOMAIN e.toCreate : k \in DOMAIN q.toCreate \/ k = Len(q.toCreate) + 1
      BY <2>4
    <2>6. Pending(e) = Pending(q)
      <3>1. {e.toCreate[k] : k \in DOMAIN e.toCreate}
              = {q.toCreate[k] : k \in DOMAIN q.toCreate} \cup {v}
        <4>1. Len(q.toCreate) + 1 \in DOMAIN e.toCreate
              /\ \A k \in DOMAIN q.toCreate : k \in DOMAIN e.toCreate
          BY <2>4
        <4>2. QED
          BY <2>4, <2>5, <4>1
      <3>2. QED
        BY <1>1, <2>3, <3>1 DEF Pending
    <2>7. Held(e)
      <3>1. Genuine(e.got) /\ \A w \in e.got : w.id # v.id
        BY <1>1, <1>2, <2>3, GenuineLess DEF Held, Genuine
      <3>2. \A k \in DOMAIN e.toCreate :
              /\ Seen(e.toCreate[k]) /\ ~e.toCreate[k].gone
              /\ \A w \in e.got : w.id # e.toCreate[k].id
        BY <1>1, <1>2, <2>3, <2>4, <2>5, <3>1 DEF Held
      <3>3. QED
        BY <1>2, <2>3, <3>1, <3>2 DEF Held
    <2>8. Its(e) <=> Its(q)
      BY <2>3 DEF Its
    <2>9. Its(q) => InRun(e) /\ Matches(e) /\ Claims(e)
      BY <1>1, <2>3, <2>6, AfterAnswer DEF InRun, Matches, Claims, Bounds, Aim
    <2>10. ExecInv(Forward(e))
      BY <1>1, <2>3, <2>7, <2>8, <2>9, AfterAnswer, ForwardExec
    <2>11. Continue(Night, e) /\ harv' = harv
      <3>1. [[q EXCEPT !.got = @ \ {v}] EXCEPT !.toCreate = Append(@, v)] = e
        BY <1>2, <2>1 DEF Execution
      <3>2. QED
        BY <1>10, <3>1 DEF Notice
    <2>12. sess'[Night] = Forward(e)
      BY <1>1, <2>11, AfterAnswer, CursorTypes DEF Continue
    <2>13. QED
      BY <1>1, <2>10, <2>11, <2>12, SessStep
  <1>11. CASE kind # "new" /\ ~(Alive(Night) /\ (kind = "untitled" => harv[v.id] = Unknown))
    <2>1. Throw(Night) /\ UNCHANGED harv
      BY <1>4, <1>11 DEF Notice
    <2>2. QED
      BY <1>3, <2>1
  <1>12. QED
    BY <1>4, <1>7, <1>8, <1>9, <1>10, <1>11

LEMMA SuppressionCursor ==
    ASSUME HarvestAssumption, TypeInv, CursorInv, NEW v \in sess[Night].got, Suppression(Night, v)
    PROVE  CursorInv'
  <1> DEFINE q == sess[Night]
             row == q.known[v.id]
  <1>1. /\ q.pc \in Applying \ {"known"} /\ v \in q.got /\ q.pc = "deletions"
        /\ UNCHANGED <<repo, source, runs, clock, removed>>
    BY DEF Suppression, Applying, world, past
  <1>2. /\ q \in Execution /\ Held(q) /\ v \in Version /\ v.id \in Ids /\ Seen(v)
        /\ harv \in [Ids -> HarvestedRecord] /\ v \in Pending(q) /\ q.counts \in Counts
        /\ Its(q) \/ q.source.id <= removed
    BY <1>1, AfterAnswer DEF Pending, Execution
  <1>3. v.gone
    BY <1>1, <1>2 DEF CursorInv, ExecInv, Placed, Notices, Version
  <1>4. PICK e : e = [q EXCEPT !.got = @ \ {v}, !.counts = CountDeletion(@, row)]
    OBVIOUS
  <1>5. /\ e \in Execution /\ e.got = q.got \ {v} /\ e.toCreate = q.toCreate
        /\ e.next = q.next /\ e.token = q.token /\ e.top = q.top /\ e.now = q.now
        /\ e.source = q.source /\ e.run = q.run /\ e.etat = q.etat /\ e.known = q.known
    <2>1. CountDeletion(q.counts, row) \in Counts
      BY <1>2, CountDeletionType
    <2>2. QED
      BY <1>2, <1>4, <2>1 DEF Execution
  <1>6. /\ Held(e) /\ Pending(e) \subseteq Pending(q) /\ Pending(q) \subseteq Pending(e) \cup {v}
    BY <1>2, <1>5, HeldLess
  <1>7. \A w \in e.got : w.id # v.id
    BY <1>1, <1>2, <1>5 DEF Held, Genuine
  <1>8. \/ row = Unknown /\ Continue(Night, e) /\ harv' = harv
        \/ row # Unknown /\ Alive(Night) /\ Continue(Night, e)
             /\ harv' = [harv EXCEPT ![v.id] = Deleted(@, v)]
        \/ Throw(Night) /\ harv' = harv
    BY <1>4 DEF Suppression
  <1>9. CASE Throw(Night) /\ harv' = harv
    BY <1>1, <1>9, ThrowCursor
  <1>10. CASE Alive(Night) /\ row = Unknown /\ Continue(Night, e) /\ harv' = harv
    <2>1. row = harv[v.id]
      BY <1>1, <1>10, AfterAnswer DEF Matches
    <2>2. v = Current(v.id) => Taken(v.id)
      BY <1>3, <1>10, <2>1 DEF Taken, Unknown
    <2>3. QED
      BY <1>1, <1>2, <1>5, <1>6, <1>7, <1>10, <2>2, WriteCursor
  <1>11. CASE row # Unknown /\ Alive(Night) /\ Continue(Night, e)
             /\ harv' = [harv EXCEPT ![v.id] = Deleted(@, v)]
    <2>1. Wrote(Deleted(harv[v.id], v), v)
      BY <1>2, <1>3 DEF Wrote, Deleted, HarvestedRecord
    <2>2. QED
      BY <1>1, <1>2, <1>5, <1>6, <1>7, <1>11, <2>1, WriteCursor
  <1>12. CASE ~Alive(Night) /\ Continue(Night, e) /\ harv' = harv
    <2>1. ~Its(q) /\ (Its(e) <=> Its(q))
      BY <1>5, <1>12 DEF Its, Alive
    <2>2. ExecInv(Forward(e))
      BY <1>2, <1>5, <1>6, <2>1, ForwardExec
    <2>3. sess'[Night] = Forward(e)
      BY <1>1, <1>12, AfterAnswer, CursorTypes DEF Continue
    <2>4. QED
      BY <1>1, <1>12, <2>2, <2>3, SessStep
  <1>13. QED
    BY <1>8, <1>9, <1>10, <1>11, <1>12

LEMMA RememberCursor ==
    ASSUME HarvestAssumption, TypeInv, CursorInv, Remember(Night)
    PROVE  CursorInv'
  <1> DEFINE q == sess[Night]
             v == Head(q.toCreate)
             row == [status |-> "importee", stamp |-> v.stamp, record |-> Head(q.ids)]
  <1>1. /\ q.pc \in Applying \ {"known"}
        /\ UNCHANGED <<repo, source, runs, clock, removed>>
    BY DEF Remember, Applying, world, past
  <1>2. q \in Execution /\ Held(q) /\ harv \in [Ids -> HarvestedRecord]
        /\ q.ids \in Seq(Nat) /\ q.toCreate \in Seq(Version) /\ q.counts \in Counts
    BY <1>1, AfterAnswer DEF Execution
  <1>3. q.toCreate # <<>> /\ q.ids # <<>>
    <2>1. Len(q.ids) = Len(q.toCreate) /\ q.toCreate # <<>>
      BY CursorTypes DEF Remember, TypeInv, AllGiven, Fit, Balanced
    <2>2. QED
      BY <1>2, <2>1
  <1>4. /\ v \in Version /\ Tail(q.toCreate) \in Seq(Version) /\ v = q.toCreate[1]
        /\ Len(Tail(q.toCreate)) = Len(q.toCreate) - 1 /\ 1 \in DOMAIN q.toCreate
        /\ \A k \in 1..Len(Tail(q.toCreate)) : Tail(q.toCreate)[k] = q.toCreate[k + 1]
    BY <1>2, <1>3, HeadTailProperties
  <1>5. Tail(q.ids) \in Seq(Nat)
    BY <1>2, <1>3, HeadTailProperties
  <1>6. PICK e : e = [q EXCEPT !.toCreate = Tail(@), !.ids = Tail(@),
                               !.counts = [q.counts EXCEPT !.created = @ + 1]]
    OBVIOUS
  <1>7. /\ e \in Execution /\ e.got = q.got /\ e.toCreate = Tail(q.toCreate)
        /\ e.next = q.next /\ e.token = q.token /\ e.top = q.top /\ e.now = q.now
        /\ e.source = q.source /\ e.run = q.run /\ e.etat = q.etat /\ e.known = q.known
    <2>1. \A c \in Counts : [c EXCEPT !.created = @ + 1] \in Counts
      BY DEF Counts
    <2>2. [q.counts EXCEPT !.created = @ + 1] \in Counts
      BY <1>2, <2>1
    <2>3. QED
      BY <1>2, <1>4, <1>5, <1>6, <2>2 DEF Execution
  <1>8. \A k \in DOMAIN e.toCreate : k + 1 \in DOMAIN q.toCreate /\ e.toCreate[k] = q.toCreate[k + 1]
    BY <1>2, <1>4, <1>7
  <1>9. Held(e)
    BY SMTT(30), <1>2, <1>7, <1>8 DEF Held
  <1>10. /\ v \in Pending(q) /\ Pending(e) \subseteq Pending(q)
         /\ Pending(q) \subseteq Pending(e) \cup {v}
    <2>1. ASSUME NEW k \in DOMAIN q.toCreate, k # 1
          PROVE  k - 1 \in DOMAIN e.toCreate /\ e.toCreate[k - 1] = q.toCreate[k]
      <3>1. Len(q.toCreate) \in Nat /\ k \in 1..Len(q.toCreate) /\ k - 1 + 1 = k
        BY <1>2
      <3>2. k - 1 \in 1..Len(Tail(q.toCreate))
        BY <1>4, <2>1, <3>1
      <3>3. DOMAIN Tail(q.toCreate) = 1..Len(Tail(q.toCreate))
        BY <1>4
      <3>4. QED
        BY <1>4, <1>7, <3>1, <3>2, <3>3
    <2>2. {q.toCreate[k] : k \in DOMAIN q.toCreate}
            \subseteq {e.toCreate[k] : k \in DOMAIN e.toCreate} \cup {v}
      BY <1>4, <2>1
    <2>3. {e.toCreate[k] : k \in DOMAIN e.toCreate} \subseteq {q.toCreate[k] : k \in DOMAIN q.toCreate}
      BY <1>8
    <2>4. QED
      BY <1>4, <1>7, <2>2, <2>3 DEF Pending
  <1>11. Seen(v) /\ ~v.gone /\ \A w \in e.got : w.id # v.id
    BY <1>2, <1>4, <1>7 DEF Held
  <1>12. CASE Alive(Night) /\ harv[v.id] = Unknown
    <2>1. Continue(Night, e) /\ harv' = [harv EXCEPT ![v.id] = row]
      BY <1>6, <1>12 DEF Remember
    <2>2. Wrote(row, v)
      BY <1>11 DEF Wrote
    <2>3. e.got \subseteq q.got
      BY <1>7
    <2> HIDE DEF row, v
    <2>4. QED
      BY <1>1, <1>4, <1>7, <1>9, <1>10, <1>11, <1>12, <2>1, <2>2, <2>3, WriteCursor
  <1>13. CASE ~(Alive(Night) /\ harv[v.id] = Unknown)
    <2>1. Throw(Night) /\ UNCHANGED harv
      BY <1>13 DEF Remember
    <2>2. QED
      BY <1>1, <2>1, ThrowCursor
  <1>14. QED
    BY <1>12, <1>13

LEMMA EcrireCurseurCursor ==
    ASSUME HarvestAssumption, TypeInv, CursorInv, EcrireCurseur(Night)
    PROVE  CursorInv'
  <1> DEFINE q == sess[Night]
  <1>0. PICK e : e = [q EXCEPT !.pc = "close"]
    OBVIOUS
  <1>1. /\ q.pc = "cursor" /\ q.pc \in Applying \ {"known"}
        /\ UNCHANGED <<repo, runs, harv, clock, removed>>
    BY DEF EcrireCurseur, Applying, world, past
  <1>2. /\ q \in Execution /\ Held(q) /\ SourceInv /\ AvancerLaSource(q.etat, q.next)
        /\ sess \in [Slots -> Execution] /\ Night \in Slots
    BY <1>1, AfterAnswer, CursorTypes DEF CursorInv, ExecInv, Placed
  <1>3. CASE ~Alive(Night)
    BY <1>1, <1>3, ThrowCursor DEF EcrireCurseur
  <1>4. CASE Alive(Night)
    <2>0. PICK top, kept : top = q.top /\ kept = Resumable
      OBVIOUS
    <2>1. Its(q) /\ InRun(q) /\ Claims(q)
      BY <1>1, <1>4, AfterAnswer
    <2>2. /\ e.pc = "close" /\ e.got = q.got /\ e.toCreate = q.toCreate
          /\ e.next = q.next /\ e.token = q.token /\ e.top = q.top /\ e.now = q.now
          /\ e.source = q.source /\ e.run = q.run /\ e.etat = q.etat /\ e.known = q.known
      BY <1>0, <1>2 DEF Execution
    <2>3. sess'[Night] = e /\ source' = [source EXCEPT !.cursor = q.top]
      BY <1>0, <1>2, <1>4 DEF EcrireCurseur, Goto
    <2>4. source'.id = source.id /\ source'.cursor = q.top
      BY <2>3 DEF TypeInv, TypeOK, HarvestSource
    <2>5. q.got = {} /\ q.toCreate = <<>> /\ q.next.left = {}
      BY <1>1, <1>2 DEF TypeInv, AllGiven, Fit, Balanced, AvancerLaSource, NoToken
    <2>6. Pending(q) = {} /\ Aim(q) = {q.top}
      BY <1>2, <2>5 DEF Pending, Aim, Stamps
    <2>7. \A i : Current(i)' = Current(i) /\ Taken(i)' = Taken(i)
      BY <1>1 DEF Current, Taken
    <2>8. (\A L : Genuine(L)' = Genuine(L)) /\ (\A L, B : Outdated(L, B)' = Outdated(L, B))
          /\ (\A B, M : Cover(B, M)' = Cover(B, M))
      BY <2>7 DEF Genuine, Seen, Outdated, Cover
    <2>9. Resumable' = Resumable /\ Stamps(Resumable)' = Stamps(Resumable)
      BY <1>1 DEF Resumable, Open, LastToken, WithToken, Stamps
    <2>10. Cover({q.top}, {})
      BY <2>1, <2>6 DEF Claims
    <2>11. Outdated(Resumable, {q.top} \cup Stamps(Resumable))
      BY <2>1, <2>6, OutdatedLess DEF Claims, Bounds
    <2>12. {source.cursor}' = {q.top}
      BY <2>4
    <2>13. ({source.cursor} \cup Stamps(Resumable))' = {q.top} \cup Stamps(Resumable)
      BY <2>9, <2>12
    <2>14. q.top <= clock
      BY <1>2 DEF Held
    <2>15. SourceInv'
      <3>1. Cover({source.cursor}, {})'
        BY <2>4, <2>7, <2>10 DEF Cover
      <3>2. Cover(Stamps(Resumable), Resumable)'
        BY <1>2, <2>7, <2>9 DEF SourceInv, Cover
      <3>3. Outdated(Resumable, {source.cursor} \cup Stamps(Resumable))'
        BY <2>4, <2>7, <2>9, <2>11 DEF Outdated
      <3>4. QED
        BY <1>1, <1>2, <2>4, <2>7, <2>8, <2>14, <3>1, <3>2, <3>3 DEF SourceInv
    <2>16. ExecInv(e)'
      <3>1. Pending(e) = {} /\ Aim(e) = {q.top}
        BY <2>2, <2>6 DEF Pending, Aim
      <3>2. Claims(e)'
        <4>1. Cover(Aim(e), Pending(e))'
          BY <2>7, <2>10, <3>1 DEF Cover
        <4>2. Bounds(e)' = {top} \cup Stamps(kept) /\ (Pending(e) \cup Resumable)' = kept
          BY <2>0, <2>4, <2>9, <3>1 DEF Bounds
        <4>3. Outdated(kept, {top} \cup Stamps(kept))'
          BY <2>0, <2>8, <2>11
        <4>4. QED
          BY <4>1, <4>2, <4>3 DEF Claims
      <3>3. Follows(e)'
        BY <1>1, <2>1, <2>2, <2>5 DEF Follows, InRun, Matches, Early, Applying
      <3>4. Held(e)' /\ Placed(e)'
        BY <1>1, <1>2, <2>2, <2>8, <2>7 DEF Held, Placed, Seen, Early
      <3>5. Its(e)'
        BY <2>1, <2>2, <2>4 DEF Its
      <3>6. QED
        BY <3>2, <3>3, <3>4, <3>5 DEF ExecInv
    <2>17. QED
      BY <2>3, <2>15, <2>16 DEF CursorInv
  <1>5. QED
    BY <1>3, <1>4

\* The token of the run that closes is the last one, if it leaves one.
LEMMA WrittenLast ==
    ASSUME NEW rows \in Seq(HarvestRun), NEW more \in Seq(HarvestRun), Len(more) = Len(rows),
           NEW k \in DOMAIN rows, k = Len(rows), rows[k].token = NoToken,
           \A j \in DOMAIN rows : j # k => more[j].token = rows[j].token
    PROVE  LastToken(more) = IF more[k].token = NoToken THEN LastToken(rows) ELSE more[k].token
  <1>1. Len(rows) \in Nat /\ DOMAIN more = DOMAIN rows /\ DOMAIN rows = 1..Len(rows)
    OBVIOUS
  <1>2. CASE more[k].token = NoToken
    <2>1. WithToken(more) = WithToken(rows)
      BY <1>1, <1>2 DEF WithToken
    <2>2. CASE WithToken(rows) = {}
      BY <1>2, <2>1, <2>2 DEF LastToken
    <2>3. CASE WithToken(rows) # {}
      <3>1. WithToken(rows) \subseteq 0..Len(rows)
        BY <1>1 DEF WithToken
      <3>2. Latest(WithToken(rows)) \in WithToken(rows)
        BY <1>1, <2>3, <3>1, LatestIsGreatest
      <3>3. Latest(WithToken(rows)) \in DOMAIN rows
        BY <3>2 DEF WithToken
      <3>4. more[Latest(WithToken(rows))].token = rows[Latest(WithToken(rows))].token
        BY <1>2, <3>3
      <3>5. QED
        BY <1>2, <2>1, <2>3, <3>4 DEF LastToken
    <2>4. QED
      BY <2>2, <2>3
  <1>3. CASE more[k].token # NoToken
    <2>1. k \in WithToken(more) /\ WithToken(more) \subseteq 0..Len(rows)
      BY <1>1, <1>3 DEF WithToken
    <2>2. Latest(WithToken(more)) \in WithToken(more) /\ k <= Latest(WithToken(more))
      BY <1>1, <2>1, LatestIsGreatest
    <2>3. Latest(WithToken(more)) = k
      <3>1. Latest(WithToken(more)) \in 0..Len(rows)
        BY <2>1, <2>2
      <3>2. QED
        BY <1>1, <2>2, <3>1
    <2>4. QED
      BY <1>3, <2>1, <2>3 DEF LastToken
  <1>4. QED
    BY <1>2, <1>3

LEMMA IdleNext ==
    ASSUME removed' \in Nat, clock' \in Nat
    PROVE  ExecInv(Idle)'
  <1>1. /\ Idle.pc = "idle" /\ Idle.got = {} /\ Idle.toCreate = <<>> /\ Idle.next = NoToken
        /\ Idle.etat = "en_cours" /\ Idle.token.left = {} /\ Idle.next.left = {}
        /\ Idle.top = 0 /\ Idle.now = 0 /\ Idle.source.id = 0
    BY DEF Idle, NoToken, NoSource
  <1>2. DOMAIN Idle.toCreate = {} /\ Genuine({})'
    BY <1>1 DEF Genuine
  <1>3. Held(Idle)' /\ Placed(Idle)'
    BY <1>1, <1>2 DEF Held, Placed, Blank
  <1>4. QED
    BY <1>1, <1>3 DEF ExecInv, Its

LEMMA CloreCursor ==
    ASSUME HarvestAssumption, TypeInv, TypeInv', CursorInv, Clore(Night)
    PROVE  CursorInv'
  <1> DEFINE q == sess[Night]
  <1>1. /\ q.pc = "close" /\ q.pc \in Applying \ {"known"}
        /\ UNCHANGED <<repo, source, harv, clock, removed>>
    BY DEF Clore, Applying, world, past
  <1>2. /\ q \in Execution /\ Held(q) /\ SourceInv /\ clock \in Nat /\ removed \in Nat
        /\ sess \in [Slots -> Execution] /\ Night \in Slots
        /\ runs \in Seq(HarvestRun) /\ runs' \in Seq(HarvestRun)
    BY <1>1, AfterAnswer, CursorTypes DEF CursorInv, TypeInv, TypeOK
  <1>3. CASE ~Alive(Night)
    BY <1>1, <1>3, ThrowCursor DEF Clore
  <1>4. CASE Alive(Night)
    <2>0. PICK next, kept : next = q.next /\ kept = Resumable'
      OBVIOUS
    <2>1. Its(q) /\ InRun(q) /\ Claims(q) /\ source.id # 0
      BY <1>1, <1>4, AfterAnswer DEF Alive
    <2>2. q.got = {} /\ q.toCreate = <<>>
      BY <1>1, <1>2 DEF TypeInv, AllGiven, Fit, Balanced
    <2>3. Pending(q) = next.left /\ Stamps(next.left) \subseteq Aim(q)
      BY <2>0, <2>2 DEF Pending, Aim
    <2>4. /\ Len(runs') = Len(runs) /\ DOMAIN runs' = DOMAIN runs /\ runs'[q.run].token = next
          /\ \A k \in DOMAIN runs : k # q.run => runs'[k].token = runs[k].token
      <3>1. runs' = [runs EXCEPT ![q.run].outcome = q.etat, ![q.run].token = next,
                                 ![q.run].counts = q.counts]
        BY <1>4, <2>0 DEF Clore
      <3>2. q.run \in DOMAIN runs /\ \A k \in DOMAIN runs : runs[k] \in HarvestRun
        BY <1>2, <2>1 DEF InRun
      <3>3. runs'[q.run].token = next
        BY <3>1, <3>2 DEF HarvestRun
      <3>4. Len(runs') = Len(runs) /\ DOMAIN runs' = DOMAIN runs
        BY CloreRuns, <1>2
      <3>5. \A k \in DOMAIN runs : k # q.run => runs'[k] = runs[k]
        BY <3>1
      <3>6. QED
        BY <3>3, <3>4, <3>5
    <2>5. LastToken(runs') = IF next = NoToken THEN LastToken(runs) ELSE next
      BY <1>2, <2>1, <2>4, WrittenLast DEF InRun
    <2>6. Resumable' = IF Open(LastToken(runs'), clock) THEN LastToken(runs').left ELSE {}
      BY <1>1 DEF Resumable, Open, LastToken, WithToken
    <2>7. kept = Resumable \/ kept = next.left \/ kept = {}
      BY <2>0, <2>5, <2>6 DEF Resumable
    <2>8. Cover(Stamps(kept), kept) /\ Outdated(kept, {source.cursor} \cup Stamps(kept))
      <3>1. CASE kept = Resumable
        BY <1>2, <3>1 DEF SourceInv
      <3>2. CASE kept = next.left
        <4>1. Cover(Stamps(kept), kept)
          BY <2>1, <2>3, <3>2, CoverLess DEF Claims
        <4>2. Outdated(kept, {source.cursor} \cup Stamps(kept))
          <5>1. Outdated(Pending(q) \cup Resumable, Bounds(q))
            BY <2>1 DEF Claims
          <5>2. kept \subseteq Pending(q) \cup Resumable
            BY <2>3, <3>2
          <5>3. {source.cursor} \cup Stamps(kept) \subseteq Bounds(q)
            BY <2>3, <3>2 DEF Bounds
          <5>4. QED
            BY <5>1, <5>2, <5>3, OutdatedLess
        <4>3. QED
          BY <4>1, <4>2
      <3>3. CASE kept = {}
        BY <3>3 DEF Cover, Outdated, Stamps
      <3>4. QED
        BY <2>7, <3>1, <3>2, <3>3
    <2>9. \A i : Current(i)' = Current(i) /\ Taken(i)' = Taken(i)
      BY <1>1 DEF Current, Taken
    <2>10. \A L : Genuine(L)' = Genuine(L)
      BY <2>9 DEF Genuine, Seen
    <2>11. \A r \in DOMAIN runs' : Genuine(runs'[r].token.left)
      BY <1>2, <2>0, <2>4 DEF SourceInv, Held
    <2>12. SourceInv'
      <3>1. (Cover(Stamps(kept), kept) /\ Outdated(kept, {source.cursor} \cup Stamps(kept)))'
        BY <1>1, <2>8, <2>9 DEF Cover, Outdated
      <3>2. (Cover(Stamps(Resumable), Resumable)
             /\ Outdated(Resumable, {source.cursor} \cup Stamps(Resumable)))'
        BY <2>0, <3>1
      <3>3. Cover({source.cursor}, {})'
        BY <1>1, <1>2, <2>1, <2>9 DEF SourceInv, Cover
      <3>4. QED
        BY <1>1, <1>2, <2>1, <2>9, <2>10, <2>11, <3>2, <3>3 DEF SourceInv
    <2>13. sess'[Night] = Idle /\ ExecInv(Idle)'
      BY <1>1, <1>2, IdleNext DEF Clore, Throw
    <2>14. QED
      BY <2>12, <2>13 DEF CursorInv
  <1>5. QED
    BY <1>3, <1>4

\* A repository publishes a version younger than all that is covered.
LEMMA PublishCursor ==
    ASSUME HarvestAssumption, Alone, TypeInv, CursorInv,
           NEW t \in Targets, NEW i \in Ids, NEW gone \in BOOLEAN, NEW titled \in BOOLEAN,
           Publish(t, i, gone, titled)
    PROVE  CursorInv'
  <1>0. PICK v, q, kept : /\ v = [id |-> i, stamp |-> clock, gone |-> gone, titled |-> titled]
                          /\ q = sess[Night] /\ kept = Resumable
    OBVIOUS
  <1>1. /\ UNCHANGED <<source, runs, harv, clock, sess, removed>>
        /\ t = NoToken.target /\ Current(i).stamp < clock
    BY CursorTypes DEF Publish, Alone, Current, db, past
  <1>2. \A j \in Ids : Current(j)' = IF j = i THEN v ELSE Current(j)
    BY <1>0, <1>1, CursorTypes DEF Publish, Current, TypeInv, TypeOK
  <1>3. /\ q \in Execution /\ ExecInv(q) /\ SourceInv /\ clock \in Nat /\ v.id = i
        /\ v.stamp = clock /\ q.next.left \subseteq Version /\ q.got \subseteq Version
        /\ q.token.left \subseteq Version /\ q.toCreate \in Seq(Version)
    BY <1>0, CursorTypes DEF CursorInv, Execution, Token
  <1>4. kept \subseteq Version /\ Given(kept) /\ Given(q.next.left)
    <2>1. LastToken(runs).left \subseteq Version /\ Given(LastToken(runs).left) /\ Given({})
      BY LastTokenType, FS_EmptySet DEF Token, Given
    <2>2. QED
      BY <1>0, <2>1, CursorTypes DEF Resumable, TypeInv, AllGiven, Fit, AllGivenTo
  <1>5. ASSUME NEW w \in Version, Seen(w) PROVE Seen(w)'
    <2>1. w.id \in Ids /\ w.stamp \in Nat /\ Current(w.id).stamp \in Nat
      BY CursorTypes DEF Version
    <2>2. QED
      BY <1>1, <1>2, <1>3, <1>5, <2>1 DEF Seen
  <1>6. ASSUME NEW L, L \subseteq Version, Genuine(L) PROVE Genuine(L)'
    BY <1>5, <1>6 DEF Genuine
  <1>7. ASSUME NEW B, \A n \in B : n \in Nat /\ n <= clock, NEW M, Cover(B, M) PROVE Cover(B, M)'
    <2> SUFFICES ASSUME NEW j \in Ids, Current(j)'.stamp # 0,
                        NEW n \in B, Current(j)'.stamp < n
                 PROVE  Current(j)' \in M \/ Taken(j)'
      BY DEF Cover
    <2>1. j # i
      BY <1>2, <1>3, <1>7
    <2>2. Current(j)' = Current(j)
      BY <1>2, <2>1
    <2>3. Taken(j)' <=> Taken(j)
      BY <1>1, <2>2 DEF Taken
    <2>4. QED
      BY <1>7, <2>2, <2>3 DEF Cover
  <1>8. ASSUME NEW L, L \subseteq Version, NEW B, \A n \in B : n \in Nat /\ n <= clock,
               Outdated(L, B)
        PROVE  Outdated(L, B)'
    <2>1. \A w \in L : w.id \in Ids
      BY <1>8 DEF Version
    <2>2. QED
      BY <1>2, <1>3, <1>8, <2>1 DEF Outdated
  <1>9. Resumable' = kept /\ Bounds(q)' = Bounds(q)
    BY <1>0, <1>1 DEF Resumable, Open, LastToken, WithToken, Bounds
  <1>10. \A n \in Bounds(q) : n \in Nat /\ n <= clock
    <2>1. Bounds(q) \subseteq Nat
      BY <1>3, BoundsType
    <2>2. source.cursor <= clock /\ q.top <= clock
      BY <1>3 DEF SourceInv, ExecInv, Held
    <2>3. \A n \in Stamps(kept) \cup Stamps(q.next.left) : n <= clock
      BY <1>4 DEF Stamps, Given
    <2>4. \A n \in Bounds(q) : n <= clock
      BY <1>0, <2>2, <2>3 DEF Bounds, Aim
    <2>5. QED
      BY <2>1, <2>4
  <1>11. SourceInv'
    <2>1. \A j \in Ids :
            /\ (Current(j).id = j)'
            /\ harv'[j].status # "none" =>
                  /\ harv'[j].stamp <= Current(j)'.stamp
                  /\ harv'[j].stamp = Current(j)'.stamp =>
                        (Current(j)'.gone <=> harv'[j].status = "supprimee_a_la_source")
      <3> SUFFICES ASSUME NEW j \in Ids
                   PROVE  /\ (Current(j).id = j)'
                          /\ harv'[j].status # "none" =>
                                /\ harv'[j].stamp <= Current(j)'.stamp
                                /\ harv'[j].stamp = Current(j)'.stamp =>
                                      (Current(j)'.gone <=> harv'[j].status = "supprimee_a_la_source")
        OBVIOUS
      <3>1. CASE j = i
        <4>1. harv[j].stamp \in Nat /\ Current(j).stamp \in Nat
          BY CursorTypes DEF HarvestedRecord
        <4>2. harv[j].status # "none" => harv[j].stamp < clock
          BY <1>1, <1>3, <3>1, <4>1 DEF SourceInv
        <4>3. QED
          BY <1>1, <1>2, <1>3, <3>1, <4>1, <4>2
      <3>2. CASE j # i
        BY <1>1, <1>2, <1>3, <3>2 DEF SourceInv
      <3>3. QED
        BY <3>1, <3>2
    <2>2. \A r \in DOMAIN runs : Genuine(runs[r].token.left)'
      <3>1. \A r \in DOMAIN runs : runs[r].token.left \subseteq Version
                                   /\ Genuine(runs[r].token.left)
        BY <1>3, CursorTypes DEF SourceInv, Token
      <3>2. \A r \in DOMAIN runs : \E L : L = runs[r].token.left /\ Genuine(L)'
        BY <1>6, <3>1
      <3>3. QED
        BY <1>1, <3>2
    <2>3. source.id # 0 => Cover({source.cursor}, {})'
      <3>1. PICK B : B = {source.cursor}
        OBVIOUS
      <3>2. \A n \in B : n \in Nat /\ n <= clock
        BY <1>3, <3>1, CursorTypes DEF SourceInv
      <3>3. source.id # 0 => Cover(B, {})'
        BY <1>3, <1>7, <3>1, <3>2 DEF SourceInv
      <3>4. QED
        BY <1>1, <3>1, <3>3
    <2>4. Cover(Stamps(Resumable), Resumable)'
      <3>1. Stamps(kept) \subseteq Bounds(q)
        BY <1>0 DEF Bounds
      <3>2. Cover(Stamps(kept), kept)
        BY <1>0, <1>3 DEF SourceInv
      <3>3. Cover(Stamps(kept), kept)'
        BY <1>7, <1>10, <3>1, <3>2
      <3>4. QED
        BY <1>9, <3>3
    <2>5. Outdated(Resumable, {source.cursor} \cup Stamps(Resumable))'
      <3>1. PICK B : B = {source.cursor} \cup Stamps(kept)
        OBVIOUS
      <3>2. B \subseteq Bounds(q)
        BY <1>0, <3>1 DEF Bounds
      <3>3. Outdated(kept, B)
        BY <1>0, <1>3, <3>1 DEF SourceInv
      <3>4. Outdated(kept, B)'
        BY <1>4, <1>8, <1>10, <3>2, <3>3
      <3>5. QED
        BY <1>1, <1>9, <3>1, <3>4
    <2>6. QED
      BY <1>1, <1>3, <2>1, <2>2, <2>3, <2>4, <2>5 DEF SourceInv
  <1>12. ExecInv(q)'
    <2>1. Held(q)'
      <3>1. Held(q)
        BY <1>3 DEF ExecInv
      <3>2. Genuine(q.token.left)' /\ Genuine(q.next.left)' /\ Genuine(q.got)'
        BY <1>3, <1>6, <3>1 DEF Held
      <3>3. \A k \in DOMAIN q.toCreate : Seen(q.toCreate[k])'
        <4>1. \A k \in DOMAIN q.toCreate : q.toCreate[k] \in Version /\ Seen(q.toCreate[k])
          BY <1>3, <3>1 DEF Held
        <4>2. QED
          BY <1>5, <4>1
      <3>4. QED
        BY <1>1, <3>1, <3>2, <3>3 DEF Held
    <2>2. Claims(q) => Claims(q)'
      <3>1. Aim(q) \subseteq Bounds(q)
        BY DEF Bounds
      <3>2. Cover(Aim(q), Pending(q)) => Cover(Aim(q), Pending(q))'
        BY <1>7, <1>10, <3>1
      <3>3. Pending(q) \cup kept \subseteq Version
        BY <1>3, <1>4 DEF Pending
      <3>4. PICK B : B = Bounds(q)
        OBVIOUS
      <3>5. Outdated(Pending(q) \cup kept, B) => Outdated(Pending(q) \cup kept, B)'
        BY <1>8, <1>10, <3>3, <3>4
      <3>6. QED
        BY <1>0, <1>9, <3>2, <3>4, <3>5 DEF Claims
    <2>3. (Its(q)' <=> Its(q)) /\ (Follows(q) => Follows(q)')
      BY <1>1 DEF Its, Follows, InRun, Matches
    <2>4. QED
      BY <1>1, <1>3, <2>1, <2>2, <2>3 DEF ExecInv
  <1>13. QED
    BY <1>0, <1>1, <1>11, <1>12 DEF CursorInv

\* A day goes by: the last token may have come to its term.
LEMMA TickCursor ==
    ASSUME HarvestAssumption, TypeInv, CursorInv, Tick
    PROVE  CursorInv'
  <1>0. PICK q, kept, day : q = sess[Night] /\ kept = Resumable' /\ day = clock + 1
    OBVIOUS
  <1>1. /\ UNCHANGED <<repo, source, runs, harv, sess, removed>>
        /\ clock' = day /\ clock \in Nat /\ day = clock + 1
    BY <1>0, CursorTypes DEF Tick, world, db, past
  <1>2. q \in Execution /\ ExecInv(q) /\ SourceInv /\ source.cursor \in Nat
    BY <1>0, CursorTypes DEF CursorInv
  <1>3. \A i : Current(i)' = Current(i) /\ Taken(i)' = Taken(i)
    BY <1>1 DEF Current, Taken
  <1>4. (\A L : Genuine(L)' = Genuine(L)) /\ (\A L, B : Outdated(L, B)' = Outdated(L, B))
        /\ (\A B, M : Cover(B, M)' = Cover(B, M))
    BY <1>3 DEF Genuine, Seen, Outdated, Cover
  <1>5. kept = Resumable \/ kept = {}
    <2>1. LastToken(runs)' = LastToken(runs)
      BY <1>1 DEF LastToken, WithToken
    <2>2. LastToken(runs).until \in Int
      BY LastTokenType DEF Token, Unannounced
    <2>3. Open(LastToken(runs), day) => Open(LastToken(runs), clock)
      BY <1>1, <2>2 DEF Open
    <2>4. QED
      BY <1>0, <1>1, <2>1, <2>3 DEF Resumable, Open
  <1>6. kept \subseteq Resumable /\ Stamps(kept) \subseteq Stamps(Resumable)
    BY <1>5 DEF Stamps
  <1>7. Cover(Stamps(kept), kept)
    BY <1>2, <1>5 DEF SourceInv, Cover, Stamps
  <1>8. SourceInv'
    <2>1. Cover(Stamps(kept), kept)'
      BY <1>4, <1>7
    <2>2. Outdated(kept, {source.cursor} \cup Stamps(kept))
      BY <1>2, <1>6, OutdatedLess DEF SourceInv
    <2>3. Outdated(kept, {source.cursor} \cup Stamps(kept))'
      BY <1>1, <1>3, <2>2 DEF Outdated
    <2>4. Cover({source.cursor}, {})' <=> Cover({source.cursor}, {})
      BY <1>1, <1>3 DEF Cover
    <2>5. (Cover(Stamps(Resumable), Resumable)
           /\ Outdated(Resumable, {source.cursor} \cup Stamps(Resumable)))'
      BY <1>0, <2>1, <2>3
    <2>6. source.cursor <= day
      BY <1>1, <1>2 DEF SourceInv
    <2>7. QED
      BY <1>1, <1>2, <1>3, <1>4, <2>4, <2>5, <2>6 DEF SourceInv
  <1>9. ExecInv(q)'
    <2>1. Held(q)'
      <3>1. q.top \in Nat /\ q.now \in Nat /\ Held(q)
        BY <1>2 DEF Execution, ExecInv
      <3>2. \A v : Seen(v)' = Seen(v)
        BY <1>3 DEF Seen
      <3>3. QED
        BY <1>1, <1>4, <3>1, <3>2 DEF Held
    <2>2. (Its(q)' <=> Its(q)) /\ (Follows(q) => Follows(q)')
      BY <1>1 DEF Its, Follows, InRun, Matches
    <2>3. Claims(q) => Claims(q)'
      <3>1. PICK B : B = {source.cursor} \cup Stamps(kept) \cup Aim(q)
        OBVIOUS
      <3>2. Bounds(q)' = B /\ B \subseteq Bounds(q)
        BY <1>0, <1>1, <1>6, <3>1 DEF Bounds
      <3>3. Outdated(Pending(q) \cup Resumable, Bounds(q)) => Outdated(Pending(q) \cup kept, B)
        BY <1>6, <3>2, OutdatedLess
      <3>4. QED
        BY <1>0, <1>4, <3>2, <3>3 DEF Claims
    <2>4. QED
      BY <1>1, <1>2, <2>1, <2>2, <2>3 DEF ExecInv
  <1>10. QED
    BY <1>0, <1>1, <1>8, <1>9 DEF CursorInv

\* A source without a run has no token.
LEMMA NoRuns ==
    ASSUME runs = <<>> PROVE LastToken(runs) = NoToken /\ Resumable = {} /\ Stamps(Resumable) = {}
  BY DEF LastToken, WithToken, Resumable, NoToken, Stamps

LEMMA SourcesCursor ==
    ASSUME HarvestAssumption, Alone, TypeInv, CursorInv,
           \/ SupprimerSource
           \/ \E t \in Targets, p \in Periods, a \in BOOLEAN :
                 CreerSource(t, p, a) \/ ModifierSource(t, p, a)
    PROVE  CursorInv'
  <1>0. PICK q : q = sess[Night]
    OBVIOUS
  <1>1. /\ q \in Execution /\ ExecInv(q) /\ SourceInv /\ source.id \in Nat /\ removed \in Nat
        /\ clock \in Nat /\ q.source.id \in Nat
        /\ \A i \in Ids : Current(i).stamp \in Nat
    BY <1>0, CursorTypes DEF CursorInv, Execution, HarvestSource
  <1>2. ASSUME NEW t \in Targets, NEW p \in Periods, NEW a \in BOOLEAN, ModifierSource(t, p, a)
        PROVE  CursorInv'
    <2>1. source'.id = source.id /\ source'.cursor = source.cursor
      BY <1>2 DEF ModifierSource, TypeInv, TypeOK, HarvestSource
    <2>2. sess'[Night] = q /\ UNCHANGED <<repo, runs, harv, clock, removed>>
      BY <1>0, <1>2 DEF ModifierSource, past
    <2>3. QED
      BY <1>1, <2>1, <2>2, SessStep
  <1>3. ASSUME UNCHANGED <<repo, clock, sess>>, source'.cursor = 0, runs' = <<>>,
               removed' \in Nat, source'.id \in {0, removed' + 1}, q.source.id <= removed',
               \A i \in Ids : harv'[i] = harv[i] \/ harv'[i] = Unknown
        PROVE  CursorInv'
    <2>1. \A i : Current(i)' = Current(i)
      BY <1>3 DEF Current
    <2>2. \A L : Genuine(L)' = Genuine(L)
      BY <2>1 DEF Genuine, Seen
    <2>3. Resumable' = {} /\ Stamps(Resumable)' = {}
      BY <1>3 DEF LastToken, WithToken, Resumable, NoToken, Stamps
    <2>4. SourceInv'
      <3>1. Cover({source.cursor}, {})'
        BY <1>1, <1>3, <2>1 DEF Cover
      <3>2. (Cover(Stamps(Resumable), Resumable)
             /\ Outdated(Resumable, {source.cursor} \cup Stamps(Resumable)))'
        BY <2>3 DEF Cover, Outdated
      <3>3. \A i \in Ids :
             /\ (Current(i).id = i)'
             /\ harv'[i].status # "none" =>
                   /\ harv'[i].stamp <= Current(i)'.stamp
                   /\ harv'[i].stamp = Current(i)'.stamp =>
                         (Current(i)'.gone <=> harv'[i].status = "supprimee_a_la_source")
        BY <1>1, <1>3, <2>1 DEF SourceInv, Unknown
      <3>4. DOMAIN runs' = {} /\ source'.cursor <= clock'
        BY <1>1, <1>3
      <3>5. QED
        BY <1>3, <3>1, <3>2, <3>3, <3>4 DEF SourceInv
    <2>5. ExecInv(q)'
      <3>1. Held(q)'
        BY <1>1, <1>3, <2>1, <2>2 DEF ExecInv, Held, Seen
      <3>2. ~Its(q)'
        BY <1>1, <1>3 DEF Its
      <3>3. QED
        BY <1>1, <1>3, <3>1, <3>2 DEF ExecInv
    <2>6. QED
      BY <1>0, <1>3, <2>4, <2>5 DEF CursorInv
  <1>4. ASSUME NEW t \in Targets, NEW p \in Periods, NEW a \in BOOLEAN, CreerSource(t, p, a)
        PROVE  CursorInv'
    <2>1. q.source.id <= removed
      BY <1>1, <1>4 DEF CreerSource, ExecInv, Its
    <2>2. source'.cursor = 0 /\ source'.id = removed + 1
      BY <1>4 DEF CreerSource
    <2>3. UNCHANGED <<repo, clock, sess, harv, removed>> /\ runs' = <<>>
      BY <1>1, <1>4 DEF CreerSource, SourceInv, world, past
    <2>4. QED
      BY <1>1, <1>3, <2>1, <2>2, <2>3
  <1>5. CASE SupprimerSource
    <2>1. q.source.id <= removed + 1
      BY <1>1 DEF ExecInv, Its, SourceInv
    <2>2. source'.cursor = 0 /\ source'.id = 0 /\ removed' = removed + 1 /\ runs' = <<>>
      BY <1>5 DEF SupprimerSource, NoSource
    <2>3. UNCHANGED <<repo, clock, sess>> /\ \A i \in Ids : harv'[i] = Unknown
      BY <1>5 DEF SupprimerSource, world
    <2>4. QED
      BY <1>1, <1>3, <2>1, <2>2, <2>3
  <1>6. QED
    BY <1>2, <1>4, <1>5

LEMMA StopCursor ==
    ASSUME HarvestAssumption, TypeInv, CursorInv, NEW S, Stop(S)
    PROVE  CursorInv'
  <1>1. sess'[Night] \in {Idle, sess[Night]}
    BY CursorTypes DEF Stop
  <1>2. ExecInv(Idle) /\ ExecInv(sess[Night])
    BY IdleExec DEF CursorInv
  <1>3. UNCHANGED <<repo, source, runs, harv, clock, removed>>
    BY DEF Stop, world, db
  <1>4. QED
    BY <1>1, <1>2, <1>3, SessStep

LEMMA StepCursor ==
    ASSUME HarvestAssumption, Alone, TypeInv, TypeInv', CursorInv, Step(Night)
    PROVE  CursorInv'
  BY LireRepriseCursor, CreerRunCursor, AskCursor, LireConnuesCursor, NoticeCursor,
     SuppressionCursor, ImporterCursor, RememberCursor, EcrireCurseurCursor, CloreCursor, Zenon
     DEF Step

LEMMA NextCursor ==
    ASSUME HarvestAssumption, Alone, TypeInv, TypeInv', CursorInv, [Next]_vars
    PROVE  CursorInv'
  <1>1. CASE SupprimerSource \/ \E t \in Targets, p \in Periods, a \in BOOLEAN :
                CreerSource(t, p, a) \/ ModifierSource(t, p, a)
    BY <1>1, SourcesCursor, Zenon
  <1>2. CASE SwitchModule \/ UNCHANGED vars
    <2>1. sess' = sess /\ UNCHANGED <<repo, source, runs, harv, clock, removed>>
      BY <1>2 DEF SwitchModule, vars, world, db, past
    <2>2. QED
      BY <2>1, SessStep DEF CursorInv
  <1>3. CASE \E s \in Slots : Manual(s)
    <2>1. Manual(Night)
      BY <1>3 DEF Alone
    <2>2. QED
      BY <2>1, StartCursor DEF Manual
  <1>4. CASE NightlyPass \/ CestLHeure \/ ExigerSource
    BY <1>4, NightCursor
  <1>5. CASE \E s \in Slots : Step(s)
    <2>1. Step(Night)
      BY <1>5 DEF Alone
    <2>2. QED
      BY <2>1, StepCursor
  <1>6. CASE (\E s \in Slots : Stop({s})) \/ Stop(Slots)
    BY <1>6, StopCursor, Zenon
  <1>7. CASE \E t \in Targets, i \in Ids, gone, titled \in BOOLEAN : Publish(t, i, gone, titled)
    BY <1>7, PublishCursor, Zenon
  <1>8. CASE Tick
    BY <1>8, TickCursor
  <1>9. QED
    BY <1>1, <1>2, <1>3, <1>4, <1>5, <1>6, <1>7, <1>8, Zenon DEF Next

LEMMA InitCursor ==
    ASSUME HarvestAssumption, Init
    PROVE  CursorInv
  <1>1. TypeInv
    BY InitType
  <1>2. sess[Night] = Idle /\ ExecInv(Idle)
    BY <1>1, IdleExec, CursorTypes DEF Init
  <1>3. runs = <<>> /\ Resumable = {} /\ Stamps(Resumable) = {}
    BY NoRuns DEF Init
  <1>4. \A i \in Ids : Current(i).id = i /\ harv[i].status = "none"
    BY <1>1, CursorTypes DEF Init, Current, Unknown
  <1>5. Cover(Stamps(Resumable), Resumable)
        /\ Outdated(Resumable, {source.cursor} \cup Stamps(Resumable))
    BY <1>3 DEF Cover, Outdated
  <1>6. source.id = 0 /\ source.cursor = 0 /\ clock = 1
    BY DEF Init, NoSource
  <1>7. SourceInv
    BY <1>3, <1>4, <1>5, <1>6 DEF SourceInv
  <1>8. QED
    BY <1>2, <1>7 DEF CursorInv

\* "Le curseur n'avance qu'a l'ABOUTISSEMENT": whatever the repository publishes, however
\* a walk of its pages ends, is resumed, is refused or is cut, each version older than
\* the cursor is in the memory of the source, as long as the executions follow one another
\* and the source keeps its repository.
THEOREM NothingLeftBehind == ASSUME Alone PROVE Spec => []NothingBehindTheCursor
  <1>1. Init => TypeInv /\ CursorInv
    BY InitType, InitCursor, HarvestAssumption
  <1>2. TypeInv /\ CursorInv /\ [Next]_vars => (TypeInv /\ CursorInv)'
    BY NextType, NextCursor, HarvestAssumption
  <1>3. TypeInv /\ CursorInv => NothingBehindTheCursor
    <2> SUFFICES ASSUME TypeInv, CursorInv PROVE NothingBehindTheCursor
      OBVIOUS
    <2>1. source.target \in Targets
      BY DEF TypeInv, TypeOK, HarvestSource
    <2>2. source.target = NoToken.target
      BY <2>1, CursorTypes, HarvestAssumption DEF Alone
    <2>3. source.id # 0 => \A i \in Ids :
            Current(i).stamp # 0 /\ Current(i).stamp < source.cursor => Taken(i)
      BY DEF CursorInv, SourceInv, Cover
    <2>4. QED
      BY <2>2, <2>3 DEF NothingBehindTheCursor, Current, Taken
  <1>4. QED
    BY <1>1, <1>2, <1>3, PTL DEF Spec

-----------------------------------------------------------------------------
(* The records that are imported *)

\* The records made from an identifier; what an execution has imported and not
\* remembered yet, and what it may still import.
One(P) == IF P THEN 1 ELSE 0
Made(i) == {r \in DOMAIN local : local[r].id = i}
Imported(e, i) == \E k \in 1..Len(e.ids) : e.toCreate[k].id = i
Importable(e, i) ==
    \/ e.pc \in Early
    \/ \E v \in e.got : v.id = i
    \/ \E k \in DOMAIN e.toCreate : k > Len(e.ids) /\ e.toCreate[k].id = i

\* The records of an identifier that no stop and no deletion accounts for: the one
\* the memory knows or is about to.  An execution that lost its source made room
\* beforehand for the one it may still import.
Here(e) == e.pc = "idle" \/ Its(e)
Share(e, i) == IF Here(e) THEN One(harv[i].status # "none") + One(Imported(e, i))
               ELSE 0 - One(Importable(e, i))
Unwritten(e) ==
    /\ \A k, l \in DOMAIN e.toCreate : e.toCreate[k].id = e.toCreate[l].id => k = l
    /\ Its(e) => \A k \in DOMAIN e.toCreate : harv[e.toCreate[k].id] = Unknown
OnceInv ==
    /\ \A i \in Ids : harv[i].status = "none" => harv[i] = Unknown
    /\ Unwritten(sess[Night])
    /\ \A i \in Ids : Cardinality(Made(i)) <= stops + 2 * removed + Share(sess[Night], i)

LEMMA OneType == \A P \in BOOLEAN : One(P) \in 0..1 /\ (P <=> One(P) = 1)
  BY DEF One

LEMMA MadeType ==
    ASSUME TypeInv
    PROVE  /\ stops \in Nat /\ removed \in Nat
           /\ \A i : Cardinality(Made(i)) \in Nat
           /\ \A i : IsFiniteSet(Made(i))
  <1>1. Len(local) \in Nat /\ DOMAIN local = 1..Len(local)
    BY DEF TypeInv, TypeOK
  <1>2. IsFiniteSet(1..Len(local))
    BY <1>1, FS_Interval
  <1>3. ASSUME NEW i PROVE IsFiniteSet(Made(i)) /\ Cardinality(Made(i)) \in Nat
    BY <1>1, <1>2, FS_Subset, FS_CardinalityType DEF Made
  <1>4. stops \in Nat /\ removed \in Nat
    BY DEF TypeInv, TypeOK
  <1>5. QED
    BY <1>3, <1>4

\* Before the answer, and at the end, there is nothing to import.
LEMMA NothingImported ==
    ASSUME HarvestAssumption, TypeInv, CursorInv,
           sess[Night].pc \in Early \cup {"idle", "close"}
    PROVE  /\ sess[Night].toCreate = <<>> /\ sess[Night].ids = <<>>
           /\ DOMAIN sess[Night].toCreate = {} /\ \A i : ~Imported(sess[Night], i)
  <1> DEFINE q == sess[Night]
  <1>1. q \in Execution /\ Balanced(q) /\ ExecInv(q)
    BY CursorTypes DEF TypeInv, AllGiven, Fit, CursorInv
  <1>2. q.toCreate = <<>>
    BY <1>1 DEF Balanced, ExecInv, Placed, Blank
  <1>3. Len(q.ids) \in Nat /\ Len(q.ids) <= Len(q.toCreate)
    BY <1>1 DEF Execution, Balanced
  <1>4. Len(q.ids) = 0 /\ q.ids \in Seq(Nat)
    BY <1>1, <1>2, <1>3 DEF Execution
  <1>5. q.ids = <<>>
    BY <1>4, EmptySeq
  <1>6. QED
    BY <1>2, <1>4, <1>5 DEF Imported

\* A step that imports nothing: what the execution may still import does not grow, and
\* the memory gains at most a row of something that is not to be created.
LEMMA OnceStep ==
    ASSUME HarvestAssumption, TypeInv, CursorInv, OnceInv,
           UNCHANGED <<local, stops, removed, source.id>>,
           NEW e, sess'[Night] = e,
           e.toCreate = sess[Night].toCreate, e.ids = sess[Night].ids,
           Here(e) <=> Here(sess[Night]),
           ~Here(e) => \A i \in Ids : Importable(e, i) => Importable(sess[Night], i),
           Its(e) => Its(sess[Night]) \/ DOMAIN e.toCreate = {},
           \/ harv' = harv
           \/ \E j \in Ids : \E row :
                                  /\ row.status # "none" /\ harv' = [harv EXCEPT ![j] = row]
                                  /\ \A k \in DOMAIN e.toCreate : e.toCreate[k].id # j
    PROVE  OnceInv'
  <1> DEFINE q == sess[Night]
  <1>1. harv \in [Ids -> HarvestedRecord]
    BY DEF TypeInv, TypeOK
  <1>2. \A i \in Ids : harv'[i] = harv[i] \/ harv'[i].status # "none"
    BY <1>1
  <1>3. \A i \in Ids : harv'[i].status = "none" => harv'[i] = Unknown
    BY <1>2 DEF OnceInv
  <1>4. Here(e)' = Here(e) /\ Its(e)' = Its(e)
    BY DEF Here, Its
  <1>5. Unwritten(e)'
    <2>1. \A k \in DOMAIN e.toCreate :
            harv'[e.toCreate[k].id] = harv[e.toCreate[k].id]
      <3>1. \A k \in DOMAIN e.toCreate : e.toCreate[k].id \in Ids
        <4>1. e.toCreate \in Seq(Version)
          BY CursorTypes DEF Execution
        <4>2. \A k \in DOMAIN e.toCreate : e.toCreate[k] \in Version
          BY <4>1
        <4>3. QED
          BY <4>2 DEF Version
      <3>2. QED
        BY <1>1, <3>1
    <2>2. QED
      BY <1>4, <2>1 DEF OnceInv, Unwritten
  <1>6. ASSUME NEW i \in Ids
        PROVE  (Cardinality(Made(i)) <= stops + 2 * removed + Share(e, i))'
    <2>1. Made(i)' = Made(i) /\ (Imported(e, i) <=> Imported(q, i))
      BY DEF Made, Imported
    <2>2. Cardinality(Made(i)) <= stops + 2 * removed + Share(q, i)
      BY DEF OnceInv
    <2>3. Share(q, i) <= Share(e, i)'
      <3>1. CASE Here(e)
        <4>1. harv[i].status # "none" => harv'[i].status # "none"
          BY <1>2
        <4>2. QED
          BY <1>4, <2>1, <3>1, <4>1 DEF Share, One
      <3>2. CASE ~Here(e)
        BY <1>4, <3>2 DEF Share, One
      <3>3. QED
        BY <3>1, <3>2
    <2>4. Share(q, i) \in Int /\ Share(e, i)' \in Int
      BY DEF Share, One
    <2>5. QED
      BY <2>1, <2>2, <2>3, <2>4, MadeType
  <1>7. (\A i \in Ids : Cardinality(Made(i)) <= stops + 2 * removed + Share(e, i))'
    BY <1>6
  <1>8. QED
    BY <1>3, <1>5, <1>7 DEF OnceInv

\* An execution that ends: cut, or with nothing that the memory does not know.
LEMMA OnceEnds ==
    ASSUME HarvestAssumption, TypeInv, CursorInv, OnceInv,
           UNCHANGED <<local, removed, harv>>, sess'[Night] = Idle,
           \/ stops' = stops + 1
           \/ stops' = stops /\ (Here(sess[Night]) => \A i \in Ids : ~Imported(sess[Night], i))
    PROVE  OnceInv'
  <1> DEFINE q == sess[Night]
  <1>1. Idle.pc = "idle" /\ DOMAIN Idle.toCreate = {} /\ Len(Idle.ids) = 0
    BY DEF Idle
  <1>2. Unwritten(Idle)'
    BY <1>1 DEF Unwritten
  <1>3. ASSUME NEW i \in Ids
        PROVE  (Cardinality(Made(i)) <= stops + 2 * removed + Share(Idle, i))'
    <2>1. Made(i)' = Made(i)
      BY DEF Made
    <2>2. Cardinality(Made(i)) <= stops + 2 * removed + Share(q, i)
      BY DEF OnceInv
    <2>3. Share(Idle, i)' = One(harv[i].status # "none")
      <3>1. ~Imported(Idle, i) /\ Here(Idle)'
        BY <1>1 DEF Imported, Here
      <3>2. QED
        BY <3>1 DEF Share, One
    <2>4. Share(q, i) <= One(harv[i].status # "none") + One(Imported(q, i))
      BY DEF Share, One
    <2>5. (Here(q) /\ ~Imported(q, i)) \/ ~Here(q) => Share(q, i) <= One(harv[i].status # "none")
      BY DEF Share, One
    <2>6. One(harv[i].status # "none") \in 0..1 /\ One(Imported(q, i)) \in 0..1
          /\ Share(q, i) \in Int
      BY DEF One, Share
    <2>7. QED
      BY <2>1, <2>2, <2>3, <2>4, <2>5, <2>6, MadeType
  <1>4. (\A i \in Ids : Cardinality(Made(i)) <= stops + 2 * removed + Share(Idle, i))'
    BY <1>3
  <1>5. QED
    BY <1>2, <1>4 DEF OnceInv

LEMMA ThrowOnce ==
    ASSUME HarvestAssumption, TypeInv, CursorInv, OnceInv, Throw(Night),
           UNCHANGED <<local, stops, removed, harv>>,
           Here(sess[Night]) => \A i \in Ids : ~Imported(sess[Night], i)
    PROVE  OnceInv'
  <1>1. sess'[Night] = Idle
    BY CursorTypes DEF Throw, TypeInv, TypeOK
  <1>2. QED
    BY <1>1, OnceEnds

\* Up to the answer.
LEMMA StartOnce ==
    ASSUME HarvestAssumption, TypeInv, CursorInv, OnceInv, NEW pc, source.id # 0,
           Start(Night, pc, source)
    PROVE  OnceInv'
  <1> DEFINE q == sess[Night]
  <1>1. PICK e : e = [q EXCEPT !.pc = pc, !.now = clock, !.source = source]
    OBVIOUS
  <1>2. q \in Execution /\ sess \in [Slots -> Execution] /\ Night \in Slots
    BY CursorTypes DEF TypeInv, TypeOK
  <1>3. sess'[Night] = e
    BY <1>1, <1>2 DEF Start
  <1>4. e.toCreate = q.toCreate /\ e.ids = q.ids /\ e.source = source
    BY <1>1, <1>2 DEF Execution
  <1>5. q.pc = "idle" /\ UNCHANGED <<local, stops, removed, source, harv>>
    BY DEF Start, db, past
  <1>6. Here(q) /\ Here(e) /\ DOMAIN e.toCreate = {}
    BY <1>4, <1>5, NothingImported DEF Here, Its
  <1>7. QED
    BY <1>3, <1>4, <1>5, <1>6, OnceStep

LEMMA NightOnce ==
    ASSUME HarvestAssumption, TypeInv, CursorInv, OnceInv,
           NightlyPass \/ CestLHeure \/ ExigerSource
    PROVE  OnceInv'
  <1> DEFINE q == sess[Night]
  <1>1. CASE NightlyPass
    BY <1>1, StartOnce DEF NightlyPass
  <1>2. q \in Execution /\ sess \in [Slots -> Execution] /\ Night \in Slots
    BY CursorTypes DEF TypeInv, TypeOK
  <1>3. CASE CestLHeure \/ ExigerSource
    <2>1. q.pc \in {"due", "source"} /\ UNCHANGED <<local, stops, removed, source, harv>>
      BY <1>3 DEF CestLHeure, ExigerSource, db, past
    <2>2. DOMAIN q.toCreate = {} /\ \A i \in Ids : ~Imported(q, i) /\ Importable(q, i)
      BY <2>1, NothingImported DEF Early, Importable
    <2>3. CASE Throw(Night)
      BY <2>1, <2>2, <2>3, ThrowOnce
    <2>4. ASSUME NEW pc \in {"source", "token"}, NEW src \in {q.source, source},
                 sess' = [sess EXCEPT ![Night].pc = pc, ![Night].source = src],
                 src = source => Alive(Night) \/ src = q.source
          PROVE  OnceInv'
      <3>1. PICK e : e = [q EXCEPT !.pc = pc, !.source = src]
        OBVIOUS
      <3>2. sess'[Night] = e /\ e.toCreate = q.toCreate /\ e.ids = q.ids
            /\ e.source = src /\ e.pc = pc
        BY <1>2, <2>4, <3>1 DEF Execution
      <3>3. Here(e) <=> Here(q)
        BY <2>1, <2>4, <3>2 DEF Here, Its, Alive
      <3>4. QED
        BY <2>1, <2>2, <3>2, <3>3, OnceStep
    <2>5. CASE Goto(Night, "source")
      <3>1. sess' = [sess EXCEPT ![Night].pc = "source", ![Night].source = q.source]
        BY <1>2, <2>5 DEF Goto, Execution
      <3>2. QED
        BY <2>4, <3>1
    <2>6. CASE /\ sess' = [sess EXCEPT ![Night].pc = "token", ![Night].source = source]
               /\ Alive(Night)
      BY <2>4, <2>6
    <2>7. QED
      BY <1>3, <2>3, <2>5, <2>6 DEF CestLHeure, ExigerSource
  <1>4. QED
    BY <1>1, <1>3

LEMMA EarlyOnce ==
    ASSUME HarvestAssumption, TypeInv, CursorInv, OnceInv, LireReprise(Night) \/ CreerRun(Night)
    PROVE  OnceInv'
  <1> DEFINE q == sess[Night]
  <1>1. q \in Execution /\ sess \in [Slots -> Execution] /\ Night \in Slots
    BY CursorTypes DEF TypeInv, TypeOK
  <1>2. q.pc \in {"token", "run"} /\ UNCHANGED <<local, stops, removed, source, harv>>
    BY DEF LireReprise, CreerRun, db, past
  <1>3. DOMAIN q.toCreate = {} /\ \A i \in Ids : ~Imported(q, i) /\ Importable(q, i)
    BY <1>2, NothingImported DEF Early, Importable
  <1>4. CASE Throw(Night)
    BY <1>2, <1>3, <1>4, ThrowOnce
  <1>5. ASSUME NEW e, sess'[Night] = e, e.toCreate = q.toCreate, e.ids = q.ids,
               e.source = q.source, e.pc # "idle"
        PROVE  OnceInv'
    <2>1. Here(e) <=> Here(q)
      BY <1>2, <1>5 DEF Here, Its
    <2>2. QED
      BY <1>2, <1>3, <1>5, <2>1, OnceStep
  <1>6. CASE LireReprise(Night)
    <2>1. PICK t : t = IF Alive(Night) THEN RepriseUtilisable(runs, q.now) ELSE NoToken
      OBVIOUS
    <2>2. PICK e : e = [q EXCEPT !.pc = "run", !.token = t]
      OBVIOUS
    <2>3. sess' = [sess EXCEPT ![Night].pc = "run", ![Night].token = t]
      BY <1>6, <2>1 DEF LireReprise
    <2>4. sess'[Night] = e /\ e.toCreate = q.toCreate /\ e.ids = q.ids
          /\ e.source = q.source /\ e.pc # "idle"
      BY <1>1, <2>2, <2>3 DEF Execution
    <2>5. QED
      BY <1>5, <2>4
  <1>7. CASE CreerRun(Night) /\ ~Throw(Night)
    <2>1. PICK n : n = Len(runs) + 1
      OBVIOUS
    <2>2. PICK e : e = [q EXCEPT !.pc = "ask", !.run = n]
      OBVIOUS
    <2>3. sess' = [sess EXCEPT ![Night].pc = "ask", ![Night].run = n]
      BY <1>7, <2>1 DEF CreerRun
    <2>4. sess'[Night] = e /\ e.toCreate = q.toCreate /\ e.ids = q.ids
          /\ e.source = q.source /\ e.pc # "idle"
      BY <1>1, <2>2, <2>3 DEF Execution
    <2>5. QED
      BY <1>5, <2>4
  <1>8. QED
    BY <1>4, <1>6, <1>7

LEMMA AnswerOnce ==
    ASSUME HarvestAssumption, TypeInv, CursorInv, OnceInv, Moissonner(Night) \/ JetonRefuse(Night)
    PROVE  OnceInv'
  <1> DEFINE q == sess[Night]
  <1>1. q \in Execution /\ sess \in [Slots -> Execution] /\ Night \in Slots
    BY CursorTypes DEF TypeInv, TypeOK
  <1>2. q.pc = "ask" /\ UNCHANGED <<local, stops, removed, source, harv>>
    BY DEF Moissonner, JetonRefuse, db, past
  <1>3. DOMAIN q.toCreate = {} /\ \A i \in Ids : Importable(q, i)
    BY <1>2, NothingImported DEF Early, Importable
  <1>4. PICK issue : Answer(Night, issue)
    BY DEF Moissonner, JetonRefuse
  <1>5. PICK e : e = [Idle EXCEPT
        !.pc = IF issue.got = {} THEN "close" ELSE "known",
        !.source.id = q.source.id, !.run = q.run,
        !.etat = issue.etat, !.got = issue.got, !.next = issue.next,
        !.top = IF issue.got = {} THEN 0 ELSE Latest(Stamps(issue.got)),
        !.counts.received = Cardinality(issue.got)]
    OBVIOUS
  <1>6. sess' = [sess EXCEPT ![Night] = e]
    BY <1>4, <1>5 DEF Answer
  <1>7. /\ e.pc \in {"close", "known"} /\ e.toCreate = <<>> /\ e.ids = <<>>
        /\ e.source.id = q.source.id
    BY <1>5 DEF Idle, NoSource
  <1>8. q.toCreate = <<>> /\ q.ids = <<>>
    BY <1>2, NothingImported DEF Early
  <1>9. Here(e) <=> Here(q)
    BY <1>2, <1>7 DEF Here, Its
  <1>10. QED
    BY <1>1, <1>2, <1>3, <1>6, <1>7, <1>8, <1>9, OnceStep

\* After the answer.
LEMMA GoesOn ==
    ASSUME HarvestAssumption, TypeInv, CursorInv, sess[Night].pc \in Applying,
           NEW e \in Execution, e.source = sess[Night].source, Continue(Night, e),
           NEW f, f = Forward(e)
    PROVE  /\ sess'[Night] = f /\ f.toCreate = e.toCreate /\ f.ids = e.ids /\ f.got = e.got
           /\ (Its(f) <=> Its(sess[Night])) /\ (Here(f) <=> Here(sess[Night]))
           /\ (Here(f) <=> Its(f)) /\ f.pc \notin Early /\ sess[Night].pc \notin Early
           /\ Its(f) <=> Alive(Night)
  <1>1. sess'[Night] = f
    BY AfterAnswer, CursorTypes DEF Continue
  <1>2. f.source = sess[Night].source /\ f.pc \in Applying
    BY ForwardKeeps, ForwardPlaced
  <1>3. \A l \in Applying : l # "idle" /\ l \notin Early
    BY DEF Applying, Early
  <1>4. (Its(f) <=> Its(sess[Night])) /\ (Here(f) <=> Its(f)) /\ (Here(sess[Night]) <=> Its(sess[Night]))
    BY <1>2, <1>3 DEF Its, Here
  <1>5. Its(f) <=> Alive(Night)
    BY <1>2 DEF Its, Alive
  <1>6. f.toCreate = e.toCreate /\ f.ids = e.ids /\ f.got = e.got
    BY ForwardKeeps
  <1>7. QED
    BY <1>1, <1>2, <1>3, <1>4, <1>5, <1>6

LEMMA ContinueOnce ==
    ASSUME HarvestAssumption, TypeInv, CursorInv, OnceInv, sess[Night].pc \in Applying,
           NEW e \in Execution, e.source = sess[Night].source, Continue(Night, e),
           e.toCreate = sess[Night].toCreate, e.ids = sess[Night].ids, e.got \subseteq sess[Night].got,
           UNCHANGED <<local, stops, removed, source.id>>,
           \/ harv' = harv
           \/ \E j \in Ids : \E row :
                                  /\ row.status # "none" /\ harv' = [harv EXCEPT ![j] = row]
                                  /\ \A k \in DOMAIN e.toCreate : e.toCreate[k].id # j
    PROVE  OnceInv'
  <1> DEFINE q == sess[Night]
  <1>1. PICK f : f = Forward(e)
    OBVIOUS
  <1>2. /\ sess'[Night] = f /\ f.toCreate = e.toCreate /\ f.ids = e.ids /\ f.got = e.got
        /\ (Its(f) <=> Its(q)) /\ (Here(f) <=> Here(q)) /\ f.pc \notin Early
    BY <1>1, GoesOn
  <1>3. \A i \in Ids : Importable(f, i) => Importable(q, i)
    BY <1>2 DEF Importable
  <1>4. QED
    BY <1>2, <1>3, OnceStep

LEMMA LireConnuesOnce ==
    ASSUME HarvestAssumption, TypeInv, CursorInv, OnceInv, LireConnues(Night)
    PROVE  OnceInv'
  <1> DEFINE q == sess[Night]
             known == [i \in Ids |-> IF Alive(Night) /\ \E v \in q.got : v.id = i
                                     THEN harv[i] ELSE Unknown]
  <1>1. PICK e : e = [q EXCEPT !.known = known]
    OBVIOUS
  <1>2. q.pc \in Applying
    BY DEF LireConnues, Applying
  <1>3. known \in [Ids -> HarvestedRecord]
    BY DEF TypeInv, TypeOK, Unknown, HarvestedRecord
  <1>4. Continue(Night, e) /\ UNCHANGED <<local, stops, removed, source, harv>>
    BY <1>1 DEF LireConnues, db, past
  <1> HIDE DEF known
  <1>5. e \in Execution /\ e.got = q.got /\ e.toCreate = q.toCreate /\ e.ids = q.ids
        /\ e.source = q.source
    BY <1>1, <1>2, <1>3, AfterAnswer DEF Execution
  <1>6. QED
    BY <1>2, <1>4, <1>5, ContinueOnce

\* A version that was given is not to be created yet.
LEMMA NotYet ==
    ASSUME HarvestAssumption, TypeInv, CursorInv, sess[Night].pc \in Applying,
           NEW v \in sess[Night].got
    PROVE  v.id \in Ids /\ \A k \in DOMAIN sess[Night].toCreate : sess[Night].toCreate[k].id # v.id
  BY AfterAnswer DEF Held

LEMMA ImporterOnce ==
    ASSUME HarvestAssumption, TypeInv, CursorInv, OnceInv, Importer(Night)
    PROVE  OnceInv'
  <1> DEFINE q == sess[Night]
             n == Len(q.ids) + 1
             v == q.toCreate[n]
             new == Append(local, [id |-> v.id, stamp |-> v.stamp])
  <1>1. PICK e : e = [q EXCEPT !.ids = Append(@, Len(local) + 1)]
    OBVIOUS
  <1>2. q.pc \in Applying /\ UNCHANGED <<stops, removed, source, harv>> /\ local' = new
        /\ Continue(Night, e)
    BY <1>1 DEF Importer, Applying, past
  <1>3. /\ q \in Execution /\ local \in Seq([id : Ids, stamp : Nat])
        /\ Len(local) \in Nat /\ DOMAIN local = 1..Len(local)
    BY CursorTypes DEF TypeInv, TypeOK
  <1>4. q.toCreate \in Seq(Version) /\ q.ids \in Seq(Nat) /\ Len(q.ids) < Len(q.toCreate)
    <2>1. Balanced(q) /\ q.pc = "import"
      BY CursorTypes DEF TypeInv, AllGiven, Fit, Importer
    <2>2. QED
      BY <1>3, <2>1 DEF Balanced, Execution
  <1>5. n \in DOMAIN q.toCreate /\ v \in Version /\ n \in Nat
    <2>1. Len(q.ids) \in Nat /\ Len(q.toCreate) \in Nat /\ DOMAIN q.toCreate = 1..Len(q.toCreate)
      BY <1>4
    <2>2. n \in 1..Len(q.toCreate) /\ n \in Nat
      BY <1>4, <2>1
    <2> HIDE DEF n
    <2>3. QED
      BY <1>4, <2>1, <2>2
  <1>6. v.id \in Ids /\ [id |-> v.id, stamp |-> v.stamp] \in [id : Ids, stamp : Nat]
    BY <1>5 DEF Version
  <1>7. PICK ids : ids = Append(q.ids, Len(local) + 1)
    OBVIOUS
  <1>8. ids \in Seq(Nat) /\ Len(ids) = n /\ Len(q.ids) \in Nat
    BY <1>3, <1>4, <1>7
  <1>9. e \in Execution /\ e.got = q.got /\ e.toCreate = q.toCreate /\ e.ids = ids
        /\ e.source = q.source
    BY <1>1, <1>3, <1>7, <1>8 DEF Execution
  <1>10. PICK f : f = Forward(e)
    OBVIOUS
  <1>11. /\ sess'[Night] = f /\ f.toCreate = q.toCreate /\ f.ids = ids /\ f.got = q.got
         /\ (Its(f) <=> Its(q)) /\ (Here(f) <=> Here(q)) /\ f.pc \notin Early /\ q.pc \notin Early
    BY <1>2, <1>9, <1>10, GoesOn
  <1> HIDE DEF q, n, v
  <1>12. Its(f)' = Its(f) /\ Here(f)' = Here(f)
    BY <1>2 DEF Its, Here
  <1>13. \A k, l \in DOMAIN q.toCreate : q.toCreate[k].id = q.toCreate[l].id => k = l
    BY DEF OnceInv, Unwritten, q
  <1>14. Unwritten(f)'
    BY <1>2, <1>11, <1>12, <1>13 DEF OnceInv, Unwritten, q
  <1>15. DOMAIN q.toCreate = 1..Len(q.toCreate) /\ Len(q.toCreate) \in Nat
    BY <1>4
  <1>16. ASSUME NEW i \in Ids
         PROVE  /\ Imported(f, i) <=> Imported(q, i) \/ i = v.id
                /\ Importable(q, i) <=> Importable(f, i) \/ i = v.id
                /\ ~(i = v.id /\ Imported(q, i)) /\ ~(i = v.id /\ Importable(f, i))
    <2>1. 1..Len(ids) = 1..Len(q.ids) \cup {n} /\ n = Len(q.ids) + 1
          /\ 1..Len(q.ids) \subseteq DOMAIN q.toCreate
      <3>1. \A a, b \in Nat : /\ 1..(a + 1) = 1..a \cup {a + 1}
                              /\ a < b => 1..a \subseteq 1..b
        OBVIOUS
      <3>2. n = Len(q.ids) + 1
        BY DEF n
      <3>3. QED
        BY <1>4, <1>8, <1>15, <3>1, <3>2
    <2>2. \A k \in DOMAIN q.toCreate : k > Len(q.ids) <=> k > Len(ids) \/ k = n
      BY <1>8, <1>15, <2>1
    <2>3. v = q.toCreate[n] /\ n \in DOMAIN q.toCreate /\ n \notin 1..Len(q.ids) /\ ~(n > Len(ids))
      BY <1>5, <1>8 DEF n, v
    <2>4. \A w \in q.got : w.id # v.id
      BY <1>2, <2>3, NotYet DEF q
    <2>5. (Imported(f, i) <=> Imported(q, i) \/ i = v.id) /\ ~(i = v.id /\ Imported(q, i))
      BY <1>11, <1>13, <2>1, <2>3 DEF Imported
    <2>6. (Importable(q, i) <=> Importable(f, i) \/ i = v.id) /\ ~(i = v.id /\ Importable(f, i))
      BY <1>11, <1>13, <2>2, <2>3, <2>4 DEF Importable
    <2>7. QED
      BY <2>5, <2>6
  <1>17. ASSUME NEW i \in Ids
         PROVE  (Cardinality(Made(i)) <= stops + 2 * removed + Share(f, i))'
    <2>1. /\ DOMAIN new = DOMAIN local \cup {Len(local) + 1} /\ Len(local) + 1 \notin DOMAIN local
          /\ new[Len(local) + 1].id = v.id /\ \A r \in DOMAIN local : new[r] = local[r]
      BY <1>3, <1>6
    <2>2. Made(i)' = IF i = v.id THEN Made(i) \cup {Len(local) + 1} ELSE Made(i)
      BY <1>2, <2>1 DEF Made
    <2>3. Cardinality(Made(i))' = Cardinality(Made(i)) + One(i = v.id)
      <3>1. Len(local) + 1 \notin Made(i) /\ IsFiniteSet(Made(i)) /\ Cardinality(Made(i)) \in Nat
        BY <2>1, MadeType DEF Made
      <3>2. Cardinality(Made(i) \cup {Len(local) + 1}) = Cardinality(Made(i)) + 1
        BY <3>1, FS_AddElement
      <3>3. QED
        BY <2>2, <3>1, <3>2 DEF One
    <2>4. Cardinality(Made(i)) <= stops + 2 * removed + Share(q, i)
      BY DEF OnceInv, q
    <2>5. Share(f, i)' = Share(q, i) + One(i = v.id)
      <3>1. CASE Here(q)
        BY <1>2, <1>11, <1>12, <1>16, <3>1 DEF Share, One
      <3>2. CASE ~Here(q)
        BY <1>2, <1>11, <1>12, <1>16, <3>2 DEF Share, One
      <3>3. QED
        BY <3>1, <3>2
    <2>6. Share(q, i) \in Int /\ One(i = v.id) \in Int
      BY DEF Share, One
    <2>7. Share(f, i)' \in Int /\ UNCHANGED <<stops, removed>> /\ Cardinality(Made(i)) \in Nat
          /\ stops \in Nat /\ removed \in Nat
      BY <1>2, <2>5, <2>6, MadeType
    <2>8. QED
      BY <2>3, <2>4, <2>5, <2>6, <2>7
  <1>18. (\A i \in Ids : Cardinality(Made(i)) <= stops + 2 * removed + Share(f, i))'
    BY <1>17
  <1>19. QED
    BY <1>2, <1>11, <1>14, <1>18 DEF OnceInv

\* A notice that is taken up: it leaves what was given and joins what is to be created.
LEMMA TakeUpOnce ==
    ASSUME HarvestAssumption, TypeInv, CursorInv, OnceInv, sess[Night].pc \in Applying,
           NEW v \in sess[Night].got, NEW e \in Execution, Continue(Night, e),
           e.toCreate = Append(sess[Night].toCreate, v), e.ids = sess[Night].ids,
           e.got = sess[Night].got \ {v}, e.source = sess[Night].source,
           UNCHANGED <<local, stops, removed, source, harv>>,
           Its(sess[Night]) => harv[v.id] = Unknown
    PROVE  OnceInv'
  <1> DEFINE q == sess[Night]
             n == Len(q.toCreate) + 1
  <1>1. PICK f : f = Forward(e)
    OBVIOUS
  <1>2. /\ sess'[Night] = f /\ f.toCreate = Append(q.toCreate, v) /\ f.ids = q.ids
        /\ f.got = q.got \ {v} /\ (Its(f) <=> Its(q)) /\ (Here(f) <=> Here(q))
        /\ f.pc \notin Early /\ q.pc \notin Early
    BY <1>1, GoesOn
  <1>3. q \in Execution /\ Balanced(q)
    BY CursorTypes DEF TypeInv, AllGiven, Fit
  <1>4. /\ q.toCreate \in Seq(Version) /\ Len(q.toCreate) \in Nat /\ Len(q.ids) \in Nat
        /\ Len(q.ids) <= Len(q.toCreate) /\ v \in Version
    <2>1. PICK row : row = q
      OBVIOUS
    <2>2. row.toCreate \in Seq(Version) /\ row.ids \in Seq(Nat)
      BY <1>3, <2>1 DEF Execution
    <2>3. Len(row.toCreate) \in Nat /\ Len(row.ids) \in Nat
      BY <2>2
    <2>4. Len(q.ids) <= Len(q.toCreate)
      BY <1>3 DEF Balanced
    <2>5. v \in Version
      BY AfterAnswer
    <2>6. QED
      BY <2>1, <2>2, <2>3, <2>4, <2>5
  <1>5. v.id \in Ids /\ \A k \in DOMAIN q.toCreate : q.toCreate[k].id # v.id
    BY NotYet
  <1>6. /\ DOMAIN f.toCreate = DOMAIN q.toCreate \cup {n} /\ n \notin DOMAIN q.toCreate
        /\ f.toCreate[n] = v /\ \A k \in DOMAIN q.toCreate : f.toCreate[k] = q.toCreate[k]
    <2>1. PICK old : old = q.toCreate
      OBVIOUS
    <2>2. PICK new : new = Append(old, v)
      OBVIOUS
    <2>3. old \in Seq(Version) /\ Len(old) \in Nat /\ DOMAIN old = 1..Len(old)
      BY <1>4, <2>1
    <2>4. /\ DOMAIN new = 1..Len(old) + 1 /\ new[Len(old) + 1] = v
          /\ \A k \in 1..Len(old) : new[k] = old[k]
      BY <1>4, <2>2, <2>3
    <2>5. DOMAIN new = DOMAIN old \cup {Len(old) + 1} /\ Len(old) + 1 \notin DOMAIN old
      BY <2>3, <2>4
    <2>6. f.toCreate = new
      BY <1>2, <2>1, <2>2
    <2>7. QED
      BY <2>1, <2>3, <2>4, <2>5, <2>6
  <1>7. 1..Len(q.ids) \subseteq DOMAIN q.toCreate /\ n > Len(q.ids)
    BY <1>4
  <1> HIDE DEF n, q
  <1>8. Its(f)' = Its(f) /\ Here(f)' = Here(f)
    BY DEF Its, Here
  <1>u. Unwritten(q)
    BY DEF OnceInv, q
  <1>9. Unwritten(f)'
    <2>1. \A k, l \in DOMAIN f.toCreate : f.toCreate[k].id = f.toCreate[l].id => k = l
      BY <1>5, <1>6, <1>u DEF Unwritten
    <2>2. Its(f) => \A k \in DOMAIN f.toCreate : harv[f.toCreate[k].id] = Unknown
      BY <1>2, <1>6, <1>u DEF Unwritten, q
    <2>3. QED
      BY <1>8, <2>1, <2>2 DEF Unwritten
  <1>10. ASSUME NEW i \in Ids
         PROVE  (Imported(f, i) <=> Imported(q, i)) /\ (Importable(f, i) <=> Importable(q, i))
    <2>1. Imported(f, i) <=> Imported(q, i)
      BY <1>2, <1>6, <1>7 DEF Imported
    <2>2. Importable(f, i) <=> Importable(q, i)
      BY <1>2, <1>6, <1>7 DEF Importable, q
    <2>3. QED
      BY <2>1, <2>2
  <1>11. ASSUME NEW i \in Ids
         PROVE  (Cardinality(Made(i)) <= stops + 2 * removed + Share(f, i))'
    <2>1. Made(i)' = Made(i)
      BY DEF Made
    <2>2. Share(f, i)' = Share(q, i)
      BY <1>2, <1>8, <1>10 DEF Share, One
    <2>3. QED
      BY <2>1, <2>2 DEF OnceInv, q
  <1>12. (\A i \in Ids : Cardinality(Made(i)) <= stops + 2 * removed + Share(f, i))'
    BY <1>11
  <1>13. QED
    BY <1>2, <1>9, <1>12 DEF OnceInv

LEMMA NoticeOnce ==
    ASSUME HarvestAssumption, TypeInv, CursorInv, OnceInv, NEW v \in sess[Night].got,
           Notice(Night, v)
    PROVE  OnceInv'
  <1> DEFINE q == sess[Night]
             kind == Sort(q.known[v.id], v)
  <1>1. /\ q.pc \in Applying /\ q.pc # "known"
        /\ UNCHANGED <<local, stops, removed, source>>
    BY DEF Notice, Applying, past
  <1>2. /\ q \in Execution /\ v \in Version /\ v.id \in Ids
        /\ \A k \in DOMAIN q.toCreate : q.toCreate[k].id # v.id
        /\ q.counts \in Counts /\ q.toCreate \in Seq(Version)
        /\ harv \in [Ids -> HarvestedRecord]
    BY <1>1, AfterAnswer, NotYet DEF Execution
  <1>3. Here(q) <=> Alive(Night)
    BY <1>1 DEF Here, Its, Alive, Applying
  <1>4. Its(q) /\ q.known[v.id].status = "none" => harv[v.id] = Unknown
    BY <1>1, <1>2, AfterAnswer DEF Matches, OnceInv
  <1>5. kind \in {"same", "changed", "new", "untitled"}
        /\ (kind \in {"new", "untitled"} => q.known[v.id].status = "none")
    BY DEF Sort
  <1>6. ASSUME NEW c \in Counts, Continue(Night, [q EXCEPT !.got = @ \ {v}, !.counts = c]),
               \/ harv' = harv
               \/ \E row : row.status # "none" /\ harv' = [harv EXCEPT ![v.id] = row]
        PROVE  OnceInv'
    <2>1. PICK e : e = [q EXCEPT !.got = @ \ {v}, !.counts = c]
      OBVIOUS
    <2>2. e \in Execution /\ e.got = q.got \ {v} /\ e.toCreate = q.toCreate
          /\ e.ids = q.ids /\ e.source = q.source
      BY <1>2, <2>1, <1>6 DEF Execution
    <2>3. Continue(Night, e)
      BY <1>6, <2>1
    <2>4. QED
      BY <1>1, <1>2, <1>6, <2>2, <2>3, ContinueOnce
  <1>7. [q.counts EXCEPT !.ignored = @ + 1] \in Counts
        /\ [q.counts EXCEPT !.collided = @ + 1] \in Counts
    <2>1. \A c \in Counts : [c EXCEPT !.ignored = @ + 1] \in Counts
                            /\ [c EXCEPT !.collided = @ + 1] \in Counts
      BY DEF Counts
    <2>2. QED
      BY <1>2, <2>1
  <1>8. CASE kind = "same" /\ Alive(Night)
    <2>1. Continue(Night, [q EXCEPT !.got = @ \ {v}, !.counts = [q.counts EXCEPT !.ignored = @ + 1]])
          /\ harv' = harv
      BY <1>2, <1>8 DEF Notice, Execution
    <2>2. QED
      BY <1>6, <1>7, <2>1
  <1>9. CASE kind = "changed" /\ Alive(Night)
    <2>1. Continue(Night, [q EXCEPT !.got = @ \ {v}, !.counts = [q.counts EXCEPT !.collided = @ + 1]])
          /\ harv' = [harv EXCEPT ![v.id] = Collision(@, v)]
      BY <1>2, <1>9 DEF Notice, Execution
    <2>2. Collision(harv[v.id], v).status # "none"
      BY <1>2 DEF Collision, HarvestedRecord
    <2>3. QED
      BY <1>2, <1>6, <1>7, <2>1, <2>2
  <1>10. CASE kind = "untitled" /\ Alive(Night) /\ harv[v.id] = Unknown
    <2>1. PICK row : row = [status |-> "ignoree", stamp |-> v.stamp, record |-> 0]
      OBVIOUS
    <2>2. Continue(Night, [q EXCEPT !.got = @ \ {v}, !.counts = [q.counts EXCEPT !.ignored = @ + 1]])
          /\ harv' = [harv EXCEPT ![v.id] = row]
      BY <1>2, <1>10, <2>1 DEF Notice, Execution
    <2>3. QED
      BY <1>6, <1>7, <2>1, <2>2
  <1>11. CASE kind = "new"
    <2>1. PICK e : e = [q EXCEPT !.got = @ \ {v}, !.toCreate = Append(q.toCreate, v)]
      OBVIOUS
    <2>2. Append(q.toCreate, v) \in Seq(Version)
      BY <1>2
    <2>3. e \in Execution /\ e.got = q.got \ {v} /\ e.toCreate = Append(q.toCreate, v)
          /\ e.ids = q.ids /\ e.source = q.source
      BY <1>2, <2>1, <2>2 DEF Execution
    <2>4. Continue(Night, e) /\ harv' = harv
      <3>1. [[q EXCEPT !.got = @ \ {v}] EXCEPT !.toCreate = Append(@, v)] = e
        BY <1>2, <2>1 DEF Execution
      <3>2. QED
        BY <1>11, <3>1 DEF Notice
    <2>5. QED
      BY <1>1, <1>4, <1>5, <1>11, <2>3, <2>4, TakeUpOnce
  <1>12. CASE kind # "new" /\ ~(Alive(Night) /\ (kind = "untitled" => harv[v.id] = Unknown))
    <2>1. Throw(Night) /\ UNCHANGED harv
      BY <1>5, <1>12 DEF Notice
    <2>2. ~Here(q)
      BY <1>1, <1>3, <1>4, <1>5, <1>12, AfterAnswer
    <2>3. QED
      BY <1>1, <2>1, <2>2, ThrowOnce
  <1>13. QED
    BY <1>5, <1>8, <1>9, <1>10, <1>11, <1>12

LEMMA SuppressionOnce ==
    ASSUME HarvestAssumption, TypeInv, CursorInv, OnceInv, NEW v \in sess[Night].got,
           Suppression(Night, v)
    PROVE  OnceInv'
  <1> DEFINE q == sess[Night]
             row == q.known[v.id]
  <1>1. q.pc \in Applying /\ UNCHANGED <<local, stops, removed, source>>
    BY DEF Suppression, Applying, past
  <1>2. /\ q \in Execution /\ v.id \in Ids /\ q.counts \in Counts
        /\ \A k \in DOMAIN q.toCreate : q.toCreate[k].id # v.id
        /\ harv \in [Ids -> HarvestedRecord]
    BY <1>1, AfterAnswer, NotYet DEF Execution
  <1>3. PICK e : e = [q EXCEPT !.got = @ \ {v}, !.counts = CountDeletion(@, row)]
    OBVIOUS
  <1>4. e \in Execution /\ e.got = q.got \ {v} /\ e.toCreate = q.toCreate
        /\ e.ids = q.ids /\ e.source = q.source
    <2>1. CountDeletion(q.counts, row) \in Counts
      BY <1>2, CountDeletionType
    <2>2. QED
      BY <1>2, <1>3, <2>1 DEF Execution
  <1>5. \/ Continue(Night, e) /\ harv' = harv
        \/ Continue(Night, e) /\ harv' = [harv EXCEPT ![v.id] = Deleted(@, v)]
        \/ ~Alive(Night) /\ Throw(Night) /\ harv' = harv
    BY <1>3 DEF Suppression
  <1>6. Deleted(harv[v.id], v).status # "none"
    BY <1>2 DEF Deleted, HarvestedRecord
  <1>7. CASE Continue(Night, e) /\ harv' = harv
    BY <1>1, <1>4, <1>7, ContinueOnce
  <1>8. CASE Continue(Night, e) /\ harv' = [harv EXCEPT ![v.id] = Deleted(@, v)]
    BY <1>1, <1>2, <1>4, <1>6, <1>8, ContinueOnce
  <1>9. CASE ~Alive(Night) /\ Throw(Night) /\ harv' = harv
    <2>1. ~Here(q)
      BY <1>1, <1>9 DEF Here, Its, Alive, Applying
    <2>2. QED
      BY <1>1, <1>9, <2>1, ThrowOnce
  <1>10. QED
    BY <1>5, <1>7, <1>8, <1>9

\* The record that is remembered was imported: the memory takes its place.
LEMMA RememberOnce ==
    ASSUME HarvestAssumption, TypeInv, CursorInv, OnceInv, Remember(Night)
    PROVE  OnceInv'
  <1> DEFINE q == sess[Night]
             v == Head(q.toCreate)
             row == [status |-> "importee", stamp |-> v.stamp, record |-> Head(q.ids)]
  <1>1. q.pc \in Applying /\ UNCHANGED <<local, stops, removed, source>>
    BY DEF Remember, Applying, past
  <1>2. q \in Execution /\ harv \in [Ids -> HarvestedRecord]
        /\ q.ids \in Seq(Nat) /\ q.toCreate \in Seq(Version) /\ q.counts \in Counts
    BY <1>1, AfterAnswer DEF Execution
  <1>3. q.toCreate # <<>> /\ Len(q.ids) = Len(q.toCreate) /\ q.ids # <<>>
    <2>1. Len(q.ids) = Len(q.toCreate) /\ q.toCreate # <<>>
      BY CursorTypes DEF Remember, TypeInv, AllGiven, Fit, Balanced
    <2>2. QED
      BY <1>2, <2>1
  <1>4. PICK todo : todo = q.toCreate
    OBVIOUS
  <1>5. PICK rest : rest = Tail(todo)
    OBVIOUS
  <1>6. /\ v \in Version /\ rest \in Seq(Version) /\ v = todo[1] /\ Len(todo) \in Nat
        /\ Len(rest) = Len(todo) - 1 /\ DOMAIN todo = 1..Len(todo) /\ DOMAIN rest = 1..Len(rest)
        /\ 1 \in DOMAIN todo /\ \A k \in 1..Len(rest) : rest[k] = todo[k + 1]
    BY <1>2, <1>3, <1>4, <1>5, HeadTailProperties
  <1>7. PICK ids : ids = Tail(q.ids)
    OBVIOUS
  <1>8. ids \in Seq(Nat) /\ Len(ids) = Len(rest)
    BY <1>2, <1>3, <1>4, <1>6, <1>7, HeadTailProperties
  <1>9. PICK e : e = [q EXCEPT !.toCreate = Tail(@), !.ids = Tail(@),
                               !.counts = [q.counts EXCEPT !.created = @ + 1]]
    OBVIOUS
  <1>10. e \in Execution /\ e.got = q.got /\ e.toCreate = rest /\ e.ids = ids
         /\ e.source = q.source
    <2>1. \A c \in Counts : [c EXCEPT !.created = @ + 1] \in Counts
      BY DEF Counts
    <2>2. [q.counts EXCEPT !.created = @ + 1] \in Counts
      BY <1>2, <2>1
    <2>3. QED
      BY <1>2, <1>4, <1>5, <1>6, <1>7, <1>8, <1>9, <2>2 DEF Execution
  <1>11. v.id \in Ids /\ todo[1].id = v.id
    BY <1>6 DEF Version
  <1>12. \A k, l \in DOMAIN todo : todo[k].id = todo[l].id => k = l
    BY <1>4 DEF OnceInv, Unwritten
  <1>13. \A k \in DOMAIN rest : k + 1 \in DOMAIN todo /\ k + 1 # 1 /\ rest[k] = todo[k + 1]
                                /\ k \in Nat
    BY <1>6
  <1>14. Here(q) <=> Alive(Night)
    BY <1>1 DEF Here, Its, Alive, Applying
  <1>15. Alive(Night) => harv[v.id] = Unknown
    <2>1. Its(q) => harv[todo[1].id] = Unknown
      BY <1>4, <1>6 DEF OnceInv, Unwritten
    <2>2. QED
      BY <1>1, <1>11, <2>1, AfterAnswer
  <1>16. CASE Alive(Night)
    <2>1. Continue(Night, e) /\ harv' = [harv EXCEPT ![v.id] = row]
      BY <1>9, <1>15, <1>16 DEF Remember
    <2>2. row.status = "importee"
      OBVIOUS
    <2>3. PICK f : f = Forward(e)
      OBVIOUS
    <2>4. /\ sess'[Night] = f /\ f.toCreate = rest /\ f.ids = ids /\ f.got = q.got
          /\ Its(f) /\ Here(f) /\ Here(q)
      BY <1>1, <1>10, <1>14, <1>16, <2>1, <2>3, GoesOn
    <2>5. Its(f)' /\ Here(f)'
      BY <1>1, <2>4 DEF Its, Here
    <2>6. harv'[v.id].status = "importee" /\ \A i \in Ids : i # v.id => harv'[i] = harv[i]
      BY <1>2, <1>11, <2>1, <2>2
    <2> HIDE DEF q, v, row
    <2>7. \A i \in Ids : harv'[i].status = "none" => harv'[i] = Unknown
      BY <2>6 DEF OnceInv
    <2>8. \A k \in DOMAIN rest : rest[k].id # v.id /\ rest[k].id \in Ids
      <3>1. \A k \in DOMAIN rest : rest[k].id # v.id
        BY <1>6, <1>11, <1>12, <1>13
      <3>2. \A k \in DOMAIN rest : rest[k] \in Version
        BY <1>6
      <3>3. QED
        BY <3>1, <3>2 DEF Version
    <2>9. Unwritten(f)'
      <3>1. \A k, l \in DOMAIN rest : rest[k].id = rest[l].id => k = l
        BY <1>12, <1>13
      <3>2. \A k \in DOMAIN rest : harv[rest[k].id] = Unknown
        BY <1>1, <1>4, <1>13, <1>14, <1>16, AfterAnswer DEF OnceInv, Unwritten, q
      <3>3. QED
        BY <2>4, <2>6, <2>8, <3>1, <3>2 DEF Unwritten
    <2>10. ASSUME NEW i \in Ids
           PROVE  (Cardinality(Made(i)) <= stops + 2 * removed + Share(f, i))'
      <3>1. Made(i)' = Made(i)
        BY <1>1 DEF Made
      <3>2. Cardinality(Made(i)) <= stops + 2 * removed + Share(q, i)
        BY DEF OnceInv, q
      <3>3. i # v.id /\ Imported(q, i) => Imported(f, i)
        <4>1. ASSUME NEW k \in 1..Len(q.ids), k # 1 PROVE k - 1 \in 1..Len(ids) /\ k - 1 + 1 = k
          <5>1. PICK n : n = Len(q.ids)
            OBVIOUS
          <5>2. n \in Nat /\ Len(ids) = n - 1
            BY <1>3, <1>4, <1>6, <1>8, <5>1
          <5>3. k \in 1..n
            BY <5>1
          <5>4. QED
            BY <4>1, <5>2, <5>3
        <4>2. \A k \in 1..Len(q.ids) : k # 1 => \E l \in 1..Len(ids) : rest[l] = todo[k]
          BY <1>6, <1>8, <4>1
        <4>3. \A k \in 1..Len(q.ids) : todo[k].id = i /\ i # v.id
                                          => \E l \in 1..Len(ids) : rest[l].id = i
          BY <1>11, <4>2
        <4>4. QED
          BY <1>4, <2>4, <4>3 DEF Imported
      <3>4. Share(q, i) <= Share(f, i)'
        <4>1. CASE i = v.id
          <5>1. harv[i].status = "none" /\ harv'[i].status # "none"
            BY <1>15, <1>16, <2>6, <4>1 DEF Unknown
          <5>2. QED
            BY <2>4, <2>5, <5>1 DEF Share, One
        <4>2. CASE i # v.id
          BY <2>4, <2>5, <2>6, <3>3, <4>2 DEF Share, One
        <4>3. QED
          BY <4>1, <4>2
      <3>5. Share(q, i) \in Int /\ Share(f, i)' \in Int
        BY DEF Share, One
      <3>6. QED
        BY <1>1, <3>1, <3>2, <3>4, <3>5, MadeType
    <2>11. (\A i \in Ids : Cardinality(Made(i)) <= stops + 2 * removed + Share(f, i))'
      BY <2>10
    <2>12. QED
      BY <2>4, <2>7, <2>9, <2>11 DEF OnceInv
  <1>17. CASE ~Alive(Night)
    <2>1. Throw(Night) /\ UNCHANGED harv
      BY <1>17 DEF Remember
    <2>2. QED
      BY <1>1, <1>14, <1>17, <2>1, ThrowOnce
  <1>18. QED
    BY <1>16, <1>17

\* The end of an execution, and what others do.
LEMMA CloseOnce ==
    ASSUME HarvestAssumption, TypeInv, CursorInv, OnceInv, EcrireCurseur(Night) \/ Clore(Night)
    PROVE  OnceInv'
  <1> DEFINE q == sess[Night]
  <1>1. q \in Execution /\ sess \in [Slots -> Execution] /\ Night \in Slots
    BY CursorTypes DEF TypeInv, TypeOK
  <1>2. UNCHANGED <<local, stops, removed, harv>>
    BY DEF EcrireCurseur, Clore, past
  <1>3. CASE Clore(Night)
    BY <1>2, <1>3, NothingImported, ThrowOnce DEF Clore
  <1>4. CASE EcrireCurseur(Night) /\ Alive(Night)
    <2>1. PICK e : e = [q EXCEPT !.pc = "close"]
      OBVIOUS
    <2>2. sess'[Night] = e /\ e.toCreate = q.toCreate /\ e.ids = q.ids /\ e.source = q.source
          /\ e.pc = "close"
      BY <1>1, <1>4, <2>1 DEF EcrireCurseur, Goto, Execution
    <2>3. source'.id = source.id
      BY <1>4 DEF EcrireCurseur, TypeInv, TypeOK, HarvestSource
    <2>4. Here(q) /\ Here(e) /\ (Its(e) <=> Its(q))
      BY <1>4, <2>2 DEF Here, Its, Alive
    <2>5. QED
      BY <1>2, <2>2, <2>3, <2>4, OnceStep
  <1>5. CASE EcrireCurseur(Night) /\ ~Alive(Night)
    <2>1. ~Here(q) /\ Throw(Night)
      BY <1>5 DEF EcrireCurseur, Here, Its, Alive
    <2>2. QED
      BY <1>2, <2>1, ThrowOnce
  <1>6. QED
    BY <1>3, <1>4, <1>5

LEMMA StopOnce ==
    ASSUME HarvestAssumption, TypeInv, CursorInv, OnceInv, NEW S, Stop(S)
    PROVE  OnceInv'
  <1>1. UNCHANGED <<local, removed, harv, source>> /\ stops' = stops + 1
    BY DEF Stop, db
  <1>2. CASE sess'[Night] = Idle
    BY <1>1, <1>2, OnceEnds
  <1>3. CASE sess'[Night] = sess[Night]
    <2>1. PICK q : q = sess[Night]
      OBVIOUS
    <2>2. Unwritten(q)'
      BY <1>1, <2>1 DEF OnceInv, Unwritten, Its
    <2>3. ASSUME NEW i \in Ids
          PROVE  (Cardinality(Made(i)) <= stops + 2 * removed + Share(q, i))'
      <3>1. Made(i)' = Made(i) /\ Share(q, i)' = Share(q, i)
        BY <1>1 DEF Made, Share, Here, Its
      <3>2. Share(q, i) \in Int
        BY DEF Share, One
      <3>3. QED
        BY <1>1, <2>1, <3>1, <3>2, MadeType DEF OnceInv
    <2>4. (\A i \in Ids : Cardinality(Made(i)) <= stops + 2 * removed + Share(q, i))'
      BY <2>3
    <2>5. QED
      BY <1>1, <1>3, <2>1, <2>2, <2>4 DEF OnceInv
  <1>4. QED
    BY <1>2, <1>3, CursorTypes DEF Stop

LEMMA SourcesOnce ==
    ASSUME HarvestAssumption, TypeInv, CursorInv, OnceInv,
           \/ SupprimerSource
           \/ \E t \in Targets, p \in Periods, a \in BOOLEAN :
                 CreerSource(t, p, a) \/ ModifierSource(t, p, a)
    PROVE  OnceInv'
  <1> DEFINE q == sess[Night]
  <1>1. ASSUME NEW t \in Targets, NEW p \in Periods, NEW a \in BOOLEAN, ModifierSource(t, p, a)
        PROVE  OnceInv'
    <2>1. source'.id = source.id
      BY <1>1 DEF ModifierSource, TypeInv, TypeOK, HarvestSource
    <2>2. sess'[Night] = q /\ UNCHANGED <<local, stops, removed, harv>>
      BY <1>1 DEF ModifierSource, past
    <2>3. QED
      BY <2>1, <2>2, OnceStep
  <1>2. /\ source.id \in Nat /\ removed \in Nat /\ q.source.id \in Nat
        /\ source.id \in {0, removed + 1} /\ (Its(q) \/ q.source.id <= removed)
    BY CursorTypes DEF Execution, HarvestSource, CursorInv, SourceInv, ExecInv
  <1>3. ASSUME NEW t \in Targets, NEW p \in Periods, NEW a \in BOOLEAN, CreerSource(t, p, a)
        PROVE  OnceInv'
    <2>1. ~Its(q) /\ ~Its(q)'
      BY <1>2, <1>3 DEF CreerSource, Its
    <2>2. UNCHANGED <<local, stops, removed, harv, sess>>
      BY <1>3 DEF CreerSource, past
    <2>3. Unwritten(sess[Night])'
      BY <2>1, <2>2 DEF OnceInv, Unwritten
    <2>4. ASSUME NEW i \in Ids
          PROVE  (Cardinality(Made(i)) <= stops + 2 * removed + Share(sess[Night], i))'
      <3>1. Made(i)' = Made(i) /\ (Imported(q, i) <=> Imported(q, i)')
            /\ (Importable(q, i) <=> Importable(q, i)') /\ (Here(q) <=> Here(q)')
        BY <2>1, <2>2 DEF Made, Imported, Importable, Here
      <3>2. Share(q, i)' = Share(q, i) /\ Share(q, i) \in Int
        BY <2>2, <3>1 DEF Share, One
      <3>3. QED
        BY <2>2, <3>1, <3>2, MadeType DEF OnceInv
    <2>5. (\A i \in Ids : Cardinality(Made(i)) <= stops + 2 * removed + Share(sess[Night], i))'
      BY <2>4
    <2>6. QED
      BY <2>2, <2>3, <2>5 DEF OnceInv
  <1>4. CASE SupprimerSource
    <2>1. /\ source'.id = 0 /\ removed' = removed + 1 /\ UNCHANGED <<local, stops, sess>>
          /\ \A i \in Ids : harv'[i] = Unknown
      BY <1>4 DEF SupprimerSource, NoSource
    <2>2. Unwritten(sess[Night])'
      BY <2>1 DEF OnceInv, Unwritten, Its
    <2>3. ASSUME NEW i \in Ids
          PROVE  (Cardinality(Made(i)) <= stops + 2 * removed + Share(sess[Night], i))'
      <3>1. Made(i)' = Made(i) /\ (Importable(q, i) <=> Importable(q, i)')
            /\ (Imported(q, i) <=> Imported(q, i)') /\ (Here(q)' <=> q.pc = "idle")
        BY <2>1 DEF Made, Imported, Importable, Here, Its
      <3>2. q.pc = "idle" => ~Imported(q, i)
        BY NothingImported
      <3>3. ~(Imported(q, i) /\ Importable(q, i))
        <4>1. q \in Execution /\ Balanced(q) /\ Held(q)
          BY CursorTypes DEF TypeInv, AllGiven, Fit, CursorInv, ExecInv
        <4>2. q.toCreate \in Seq(Version) /\ Len(q.ids) \in Nat /\ Len(q.toCreate) \in Nat
              /\ Len(q.ids) <= Len(q.toCreate) /\ DOMAIN q.toCreate = 1..Len(q.toCreate)
          BY <4>1 DEF Execution, Balanced
        <4>3. 1..Len(q.ids) \subseteq DOMAIN q.toCreate
          BY <4>2
        <4>4. ASSUME NEW k \in 1..Len(q.ids), q.toCreate[k].id = i PROVE ~Importable(q, i)
          <5>1. q.pc \notin Early
            BY <4>4, NothingImported DEF Imported
          <5>2. \A v \in q.got : v.id # i
            BY <4>1, <4>3, <4>4 DEF Held
          <5>3. \A l \in DOMAIN q.toCreate : q.toCreate[l].id = i => l = k
            BY <4>3, <4>4 DEF OnceInv, Unwritten
          <5>4. ~(k > Len(q.ids))
            BY <4>2
          <5>5. QED
            BY <5>1, <5>2, <5>3, <5>4 DEF Importable
        <4>5. QED
          BY <4>4 DEF Imported
      <3>4. Share(q, i) <= 2 + Share(q, i)'
        <4>1. CASE q.pc = "idle"
          BY <2>1, <3>1, <3>2, <4>1 DEF Share, One, Here
        <4>2. CASE q.pc # "idle"
          BY <2>1, <3>1, <3>3, <4>2 DEF Share, One, Here
        <4>3. QED
          BY <4>1, <4>2
      <3>5. Share(q, i) \in Int /\ Share(q, i)' \in Int
        BY DEF Share, One
      <3>6. Cardinality(Made(i)) <= stops + 2 * removed + Share(q, i)
        BY DEF OnceInv
      <3>7. QED
        BY <2>1, <3>1, <3>4, <3>5, <3>6, MadeType
    <2>4. (\A i \in Ids : Cardinality(Made(i)) <= stops + 2 * removed + Share(sess[Night], i))'
      BY <2>3
    <2>5. QED
      BY <2>1, <2>2, <2>4 DEF OnceInv
  <1>5. QED
    BY <1>1, <1>3, <1>4

LEMMA StepOnce ==
    ASSUME HarvestAssumption, TypeInv, CursorInv, OnceInv, Step(Night)
    PROVE  OnceInv'
  BY EarlyOnce, AnswerOnce, LireConnuesOnce, NoticeOnce, SuppressionOnce, ImporterOnce,
     RememberOnce, CloseOnce, Zenon DEF Step

LEMMA NextOnce ==
    ASSUME HarvestAssumption, Alone, TypeInv, CursorInv, OnceInv, [Next]_vars
    PROVE  OnceInv'
  <1>1. CASE SupprimerSource \/ \E t \in Targets, p \in Periods, a \in BOOLEAN :
                CreerSource(t, p, a) \/ ModifierSource(t, p, a)
    BY <1>1, SourcesOnce, Zenon
  <1>2. ASSUME UNCHANGED <<local, stops, removed, source, harv, sess>> PROVE OnceInv'
    BY <1>2, OnceStep
  <1>3. CASE \/ SwitchModule \/ Tick \/ UNCHANGED vars
             \/ \E t \in Targets, i \in Ids, gone, titled \in BOOLEAN :
                   Publish(t, i, gone, titled)
    BY <1>2, <1>3 DEF SwitchModule, Tick, Publish, vars, world, db, past
  <1>4. CASE \E s \in Slots : Manual(s)
    <2>1. Manual(Night)
      BY <1>4 DEF Alone
    <2>2. QED
      BY <2>1, StartOnce DEF Manual
  <1>5. CASE NightlyPass \/ CestLHeure \/ ExigerSource
    BY <1>5, NightOnce
  <1>6. CASE \E s \in Slots : Step(s)
    <2>1. Step(Night)
      BY <1>6 DEF Alone
    <2>2. QED
      BY <2>1, StepOnce
  <1>7. CASE (\E s \in Slots : Stop({s})) \/ Stop(Slots)
    BY <1>7, StopOnce, Zenon
  <1>8. QED
    BY <1>1, <1>3, <1>4, <1>5, <1>6, <1>7, Zenon DEF Next

LEMMA InitOnce ==
    ASSUME HarvestAssumption, Init
    PROVE  OnceInv
  <1>1. TypeInv /\ CursorInv
    BY InitType, InitCursor
  <1>2. sess[Night] = Idle /\ Idle.pc = "idle" /\ DOMAIN Idle.toCreate = {}
    BY <1>1, CursorTypes DEF Init, Idle
  <1>3. \A i \in Ids : ~Imported(Idle, i)
    BY <1>1, <1>2, NothingImported
  <1>4. \A i \in Ids : harv[i] = Unknown /\ Made(i) = {}
    BY DEF Init, Made
  <1>5. Cardinality({}) = 0 /\ stops = 0 /\ removed = 0
    BY FS_EmptySet DEF Init
  <1>6. \A i \in Ids : Share(Idle, i) = 0
    BY <1>2, <1>3, <1>4 DEF Share, One, Here, Unknown
  <1>7. QED
    BY <1>2, <1>4, <1>5, <1>6 DEF OnceInv, Unwritten

\* "Elle empeche un second moissonnage de tout dupliquer": whatever is received again,
\* resumed or refused, a record enters the catalogue once, and once more at most for each
\* execution that was stopped and twice for each deletion of the source, as long as the
\* executions follow one another and the source keeps its repository.
THEOREM ImportsBounded == ASSUME Alone PROVE Spec => []ImportedOnce
  <1>1. Init => TypeInv /\ CursorInv /\ OnceInv
    BY InitType, InitCursor, InitOnce, HarvestAssumption
  <1>2. TypeInv /\ CursorInv /\ OnceInv /\ [Next]_vars => (TypeInv /\ CursorInv /\ OnceInv)'
    BY NextType, NextCursor, NextOnce, HarvestAssumption
  <1>3. TypeInv /\ CursorInv /\ OnceInv => ImportedOnce
    <2> SUFFICES ASSUME TypeInv, CursorInv, OnceInv, NEW i \in Ids
                 PROVE  Cardinality(Made(i)) <= 1 + stops + 2 * removed
      BY DEF ImportedOnce, Made
    <2> DEFINE q == sess[Night]
    <2>1. Cardinality(Made(i)) <= stops + 2 * removed + Share(q, i)
      BY DEF OnceInv
    <2>2. Share(q, i) <= 1
      <3>1. CASE Here(q) /\ Imported(q, i)
        <4>1. Its(q)
          BY <3>1, NothingImported, HarvestAssumption DEF Here
        <4>2. q \in Execution /\ Balanced(q)
          BY CursorTypes, HarvestAssumption DEF TypeInv, AllGiven, Fit
        <4>3. q.toCreate \in Seq(Version) /\ Len(q.ids) \in Nat /\ Len(q.toCreate) \in Nat
              /\ Len(q.ids) <= Len(q.toCreate)
          BY <4>2 DEF Execution, Balanced
        <4>4. 1..Len(q.ids) \subseteq DOMAIN q.toCreate
          BY <4>3
        <4>5. harv[i].status = "none"
          BY <3>1, <4>1, <4>4 DEF OnceInv, Unwritten, Imported, Unknown
        <4>6. QED
          BY <3>1, <4>5 DEF Share, One
      <3>2. CASE ~(Here(q) /\ Imported(q, i))
        BY <3>2 DEF Share, One
      <3>3. QED
        BY <3>1, <3>2
    <2>3. Share(q, i) \in Int
      BY DEF Share, One
    <2>4. QED
      BY <2>1, <2>2, <2>3, MadeType
  <1>4. QED
    BY <1>1, <1>2, <1>3, PTL DEF Spec
=============================================================================
