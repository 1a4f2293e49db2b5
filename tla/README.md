# GAFESO in TLA+

GAFESO is a library system for French schools: catalogue, lending desk, theses,
harvesting, reminders, offline reading, inventory. The server is one NestJS monolith
(`apps/api`) over PostgreSQL (Prisma). Each school has its own schema; nothing below
crosses schemas, so every module describes one school.

The server keeps almost no state in memory. A request is a chain of `await`ed SQL
statements at READ COMMITTED; between two statements any other request may run, and
several schedulers run beside the requests. A transaction makes its writes atomic but
not the reads that came before it. What can go wrong is therefore nearly always the same
thing: a value read, then acted on after it changed. Where the code guards against it,
it uses a conditional update (`updateMany ... where status = ...`) and looks at the
number of rows written. This project separates what those conditional updates really
guarantee under every interleaving from what only holds while requests do not overlap.

Paths below are relative to `src/apps/api/src/`.

## Inventory

| component | state | operations that change it | what is hard | what makes it correct |
|---|---|---|---|---|
| Lending desk (`circulation/`, `reader/`) | tables `items`, `checkouts`, `holds` | checkout, returnItem, cloreVersPerte, renew, renewLoan, placeHold, cancelHold, expireStale, notifyAvailable | concurrent desks, an hourly pass, e-mails, a queue per record | one open loan per copy; a copy set aside has its reader; a loan closes once; one message per hold made ready; late holds are taken back |
| Cataloging (`cataloging/`, `authors/`) | `biblio_records`, `items`, subjects, `digital_copies`, `digital_copy_files` | create, edit, delete, import MARC, attach a file, extract text | edits next to the desk; files written outside the transaction | an item edit respects loan and holds; a file row has its bytes |
| Thesis deposits (`depots/`) | table `deposits`, the object store | creer, televerser, soumettre, retirer, reattribuer, valider, refuser, rattacherNotice, designerDirecteur, nightly purge | two parties act on one deposit; upload and purge span the store, the audit log and the row | a decision is final; what was submitted is what is judged; a file column names a stored object; a purge leaves a trace |
| Harvesting (`moissonnage/`) | `harvest_sources`, `harvest_runs`, `harvested_records` | creerSource, modifierSource, supprimerSource, executer, nightly pass | interrupted harvests, resumption tokens that expire, deletions, local edits | the cursor passes only over what was received; nothing local is overwritten or deleted; a resumed harvest misses nothing |
| Reminders (`reminders/`) | `reminder_logs`, two settings | the pass of seven o'clock, « send now », settings, switch | a crash, a refused e-mail or a lost answer between the reservation and the mark; two passes at once; loans read once and used for minutes | a stage is told once; SENT means sent; a late reader is told in the end |
| Offline licences (`offline-licensing/`) | devices, licences; the copies kept on the phones | register, issue, status and entitlements (which revoke what has no right left), revoke | the right is five reads, each of its own instant; a lost answer; a restored backup | a copy outlives its right by one lease at most; it is dropped only for a reason |
| Inventory (`inventory/`) | sessions, scans, `items.status` | open, scan, unscan, close, reopen, mark missing | scans while the session closes; marks while the desk lends | a copy on loan is not marked missing |
| Collections and access (`access-control/`) | tree of collections, their documents, access rules | create, move, delete, add and remove rules and documents, propagate | a move decided on a tree that changes; a deletion decided on counts that change | no cycle, a bounded depth; no rule or document goes with a collection |
| Accounts (`accounts/`, `auth/`, `roles/`, `patrons/`, `enrollment/`, `categories/`) | accounts, tokens, roles, patrons | forms, login, reset, second factor | one-time tokens used twice | a token serves once |
| Installation, tenancy, modules (`installation/`, `tenancy/`, `modules/`) | server setup, schemas, switches | create and migrate a school, switch a module | half-created schools | a school exists whole or not at all |
| Public catalogue and protocols (`opac/`, `search/`, `oai/`, `sru/`) | none | reads | - | - |
| Statistics, labels, audit, storage, health, mail | append-only rows, object store | log, put, delete | - | - |
| Web front end (`apps/web`) | none the server relies on | - | - | - |

How they interact: the desk, cataloging and inventory all write `items.status`;
cataloging, deposits and harvesting all create records; deposits and cataloging write
the object store; every scheduler (holds, reminders, purge, harvest) runs in the same
process as the requests, guards against its own overlap by a flag, and sends mail
through one mail server.

## The plan

Order: the behaviour most people meet first, and the code with most interleavings.

| step | modules | state |
|---|---|---|
| 1 | `Circulation`, `Lending`, `CirculationRefinement`, `MCCirculation`, `CirculationProofs`, `NoticeProofs`, `LendingProofs` | done |
| 2 | `Deposits`, `MCDeposits`, `DepositsProofs` | done |
| 3 | `Harvest`, `MCHarvest`, `HarvestProofs` | done |
| 4 | `DeskProofs`: the serial promises of the desk, and that it implements `Lending` | done |
| 5 | `Reminders` and `Inventory`, composed with `Circulation` in `Stock`; `MCStock`, `StockProofs` | done |
| 6 | `Access` and `Offline`, composed in `Rights`; `MCRights`, `RightsProofs` | done |
| 7 | accounts: one-time tokens, second factor, enrolment by a file of pupils | to do |
| 8 | editing and import of records beside the harvest | to do |
| 9 | `DueTime`, `DublinCore`: date and mapping helpers as operators over bounded inputs | to do |

Theorems: every invariant and every action property that a run checks is stated by a
theorem; what is left to TLC is liveness. Still worth proving: which of the promises of
the thesis circuit survive requests that overlap, operation by operation, and the types
of `Inventory` beside the desk.

## The modules and the code

Common conventions.

- Every SQL statement, call of the object store or message is one step, except that a
  transaction which only writes is one step. What a request has read stays in its
  session record `sess[s]`, and is used as it was read. Field `pc` says which statement
  comes next. A conditional update is a test of the rows of *now*.
- A request reads its own `new Date()` once where the code does: field `now`. Days are
  numbers; hours are not modelled, except the margin of the nightly harvest (below).
- A row is a record; a row that does not exist has status `"unused"`, `"absent"`, or is
  `Unknown`. The order of creation (`created_at`) is the order of row numbers.
- The server can stop at any statement where a module has an `Abort` or `Stop` action.
  Sessions disappear; rows and objects stay.
- Variables called *history* in a module are read by properties only.
- The scheduler's `running` flag is modelled by giving each scheduler one process.

### `Circulation` - `circulation/`, `reader/`, `cataloging.updateItem`

| in the module | in the code |
|---|---|
| `CheckoutRead, CheckoutCount, CheckoutReady, CheckoutCommit` | `checkout`: item and patron, open loans, ready hold, transaction with its conditional update |
| `ReturnRead, ReturnNext, ReturnCommit` | `returnItem`: loan, next hold, transaction |
| `PerteRead, PerteCommit` | `cloreVersPerte` |
| `RenewRead, RenewHolds, RenewCommit` | `renew` at the desk and `renewLoan` of the reader (`op` tells which) |
| `HoldRead, HoldDuplicate, HoldReadyCommit, HoldCount, HoldPendingCommit` | `placeHold`, `placeHoldForPatron` |
| `CancelRead, CancelPending, CancelLock, CancelNext, CancelCommit` | `cancelHold`; between `CancelLock` and `CancelCommit` the transaction reads, and keeps its row lock |
| `ExpireFind, ExpireLock, ExpireHeld, ExpireCommit, ExpireEnd` | the hourly `expireStale`, one transaction per stale hold |
| `NotifyFind, NotifyClaim, NotifySend, NotifyEnd` | `notifyAvailable`, run after a return, an online hold or cancellation, and by the scheduler |
| `UpdateItem` | `updateItem` of cataloging, which looks at no loan |
| `Abort` | the process stops |

The rule of loans (`circulation-rules.ts`) is resolved before the model starts: one set
of limits for every patron, as constants. Labels, audit rows and lists are left out.

`Lending` says what the desk promises: one operation at a time, copies that have one
place, readers who wait or are told to come. It has no rows, no dates and no priority;
`CirculationRefinement` maps `items.status`, `checkouts` and `holds` to it.

### `Deposits` - `depots/`

`Creer`, `Televerser` (upload: put, encrypt, write the row, remove what it replaced),
`DesignerDirecteur`, `Soumettre`, `Retirer`, `Reattribuer`, `Valider`, `Refuser`,
`RattacherNotice`, the message to the director and its mark, the nightly purge (delete
the document, delete its encrypted twin, write the trace, forget the keys). Three places
no transaction spans: the table, the object store (`clear`, `cipher`), the audit log,
which is in another schema. A document is named by the upload that brought it; the
history `judged` of a row is the document it named when it was decided upon. Left out:
dates of submission, messages to the depositor (nothing is written after them), who the
depositor is, two uploads in the same millisecond.

### `Harvest` - `moissonnage/`

`CreerSource`, `ModifierSource`, `SupprimerSource` (its runs and its memory go in
cascade, the records of the catalogue stay); an execution by hand (`Manual`) or at night
(`NightlyPass`, `CestLHeure`, `ExigerSource`), then one statement after the other:
`LireReprise`, `CreerRun`, `Moissonner` or `JetonRefuse`, `LireConnues`, `Notice` for
each record, `Importer`, `Remember`, `Suppression`, `EcrireCurseur`, `Clore`.

The repository is external. It has at most one version a day of each record, gives one
record per page, and a resumption token is a snapshot of what it had left to give. The
whole walk of `ClientOai.moissonner` is one step because nothing is written before it
ends; `Issues` is the set of its outcomes: complete, empty, failed, failed after some
pages with a token to go on, or the same token twice. `cestLHeure` compares milliseconds
with a margin of twelve hours; in days, a run exactly one period old may be on either
side. A switched-off module stops nothing that has started.

### `Reminders`, `Inventory`, `Stock` - `reminders/`, `inventory/`, on the tables of the desk

`Stock` extends `Circulation` and instantiates the other two on its `loans`, `clock` and
`items.status`: a request of one runs between any two statements of the others.

| in the module | in the code |
|---|---|
| `Reminders!Start, ReadLoans` | `sweepAllTenants`, `runForTenant`, `processTenant`: the settings, then the open loans with their reader, read once, in order of due date |
| `Plan` | `planFor`: `DUE_SOON` up to so many days before, then `OVERDUE` stages, one every so many days |
| `Look, Skip, Reserve, Send, Mark` | `processReminder`: look for the row, write `SKIPPED_NO_EMAIL`, or reserve it as `PENDING`, send, write `SENT` or `FAILED`; a reservation refused by the unique key ends there |
| `Crash`, `Switch`, `UpdateSettings` | the server stops in a pass; the module is switched; the settings are edited |
| `Inventory!CreateSession, Scan, AnnulerScan, CloseSession, ReopenSession` | one action each, after `Arrive` has checked the status of the session (`requireSession`) |
| `ReadItems, ReadScans, MarkMissing, Apply` | `markMissing`: the two queries of `classer` in any order, the update of the copies not seen and not `CHECKED_OUT`, the status of the session |

The mail server accepts, refuses, or accepts and then reports an error
(`sentThenError`). The row of a stage is its key `(loan, type, stage)`; its date is not
in the key: a loan has one `DUE_SOON` key per due date and one `OVERDUE` key
per stage. Left out: templates, the counters of the answer, the lists of the
administration.

### `Access`, `Offline`, `Rights` - `access-control/`, `offline-licensing/`

| in the module | in the code |
|---|---|
| `CreerCollection` | `createCollection` |
| `UpdateCollection` | `updateCollection`: the tree read and the move judged (`refusDeDeplacement`) |
| `MajCollection, TriggerClimbs, EndUpdate` | its update: the row is found and locked (`Locked`), the trigger `collections_hierarchie_valide` reads one ancestor after the other and may refuse (`TriggerRefuses`), the row is written |
| `RemoveCollection, Count, Delete` | `removeCollection`: three counts in any order, then the deletion, which waits for locked rows and which the foreign keys may refuse (`Referenced`) |
| `AddRecord, RemoveRecord, AddAccessRule, RemoveAccessRule` | one write each |
| `PropagerRegles, Propagate` | `propagerRegles`: the rules of a collection for its descendants that have none, then one transaction |
| `Register, Issue, Upsert` | the phone is registered; `issue`: the right, then `upsert` of the licence |
| `Fonction, Classe, Embargo, Regles, EmbargoEncore` | the reads of the check: the function `document.lire`, the class of the account, the embargo, the rules, the embargo again |
| `Replay, Verdict, Cut, Answer` | `status`, `blobUrl` and `entitlements`: the licence, the right played again, the revocation of what has no right left, the answer |
| `Lost`, `Restore` | an answer that does not arrive; a backup restored that has lost a licence |
| `Revoke, ChangeClass, ChangeRole, SetEmbargo` | staff |

The trigger runs inside the transaction of its update, at READ COMMITTED, and takes no
lock on the rows it reads: between two ancestors another update may be written, and one
that is still in progress is not seen at all. The check of the foreign key at the end
looks for the new parent only, with a lock that the update of a row does not exclude.

The phone is external: it keeps the document and the end of its lease, keeps it while
the server says unknown or expired, and drops it when told it is revoked. `Rights` adds
two observers, `lastRight` and `cause`, and the bounds. Left out: keys and signatures,
watermarks, the readiness of the encrypted file, names, subscription tiers (a second
wildcard beside the class), collections shared between schools.

## Mutation testing

Beside a definition, an operator of the same parameters named `Slip...` is a plausible
slip of that code: a condition forgotten, an off-by-one, a reset left out. No
specification uses it. Replacing the definition by its slip makes the run it is listed
for fail on the property it is listed for: the property does watch that line.

## What the runs show

| run | question | what holds |
|---|---|---|
| `DeskSerial` | one request at a time, beside the hourly pass's own turns | loans in order, the shelf serves those who wait, a copy aside per ready hold, the caps, and each commit is one step of `Lending` |
| `CounterConcurrent` | two requests of the counter at once, which may die, no holds | one open loan per copy, a copy on loan is checked out, the way a loan ended and its fine are never rewritten |
| `Notices` | two requests or passes on the same holds, mail sent or refused | one message per promotion; no claim kept for nothing; expired only when due |
| `Pickup` | fair scheduling, mail accepted | a late hold is taken back; a reader whose copy waits is told |
| `DepositCircuit` | one request beside the purge, one crash or refusal | decisions final and by their director, what was submitted is judged, bytes kept, catalogued once; an old refusal is purged |
| `DepositRaces` | two requests, the purge, the module switched, one fault | a document named is there; a ready twin is its own; a missing document left a trace; a mark means a message; during the retention of a refusal the document of the row stays, and the one that was refused too, but for an upload begun on the draft |
| `Harvesting` | executions cut, resumed, refused, the source edited or deleted | nothing behind the cursor is missed; reports add up; the memory tells the truth; a record is imported once per interruption at most |
| `Stock` | two passes of reminders, or a pass and a request of the desk, or a request and a recolement; refusals, lost answers, one crash | one message per stage; SENT means sent; a copy on loan is not marked missing; a late reader is told |
| `Rights` | two requests on the tree that overlap, one move at a time, with the trigger going up it statement by statement; rules and documents beside them; phones that renew while rights change, licences are lost and answers do not arrive | a sound tree; no decision lost with a collection; a copy outlives its right by one lease at most; it is dropped for cause |
| `TwoLoansOneCopy`, `QueuePlace`, `SwappedThesis` | what a comment of the code says and the code does not do | a counterexample each (below) |

`OneMailPerStage` leaves out two cases the code does lose, and names them (`contested`):
a stage that two passes had in hand together, and one whose row does not tell what
became of the message. `LossIsBoundedByLease` allows one day more than the lease: the
check and the lease may be on the two sides of one midnight. `PurgedForCause` counts as
a cause a right that was edited while the request that asks for it was between its
reads.

### Bounds

- `Circulation`: 2 copies of 1 record (1 copy where the copies do not matter), 2
  readers, up to 3 loans and 2 holds ever created, days 0 and 2: before and after every
  due date and pickup date, which fall on day 1; in `Notices` pickup windows are of two
  days, as its theorem wants, and the days are 0 and 3. `MaxInFlight` counts requests and
  scheduler passes together; `MaxMails` stops a mail server that fails for ever. A
  request of these runs does not see midnight. Two holds on one copy make a queue, a
  promotion, an expiry and a second promotion; a third reader adds no case, as each step
  looks at the hold it changes and at the next one.
- `Deposits`: 1 deposit (no definition relates two), 2 uploads, so that one replaces the
  other, 1 fault, 2 directors where who decides matters. Retention is 1 day and days are
  0, 1 and 2: a request may see midnight once, so it never lasts a retention.
- `Harvest`: 2 records, 1 repository, 2 runs, 3 changes (publications and settings), 1
  stop or deletion, 3 days. Two runs are one interrupted and one that resumes it; three
  changes allow a publication, a new version or a deletion after the first run, and one
  record more. One execution at a time: `exigerSource` takes no lock, so two executions
  of one source may overlap when one is started by hand; they then import records twice,
  a hazard listed without a run. `Failures` is one of the two kinds, which are handled
  alike. `WorldWaits` lets the repository and the day move only where an execution looks
  at them: elsewhere the move commutes. The same properties were also checked with three
  runs and no interruption.
- `Stock`: 1 copy, 1 loan, 2 readers of whom one has an address, 1 campaign, days 0 and
  2 around a due date on day 1, so that stages `DUE_SOON`, on time and late exist; the
  pass of the morning, one by hand, 2 messages per stage at most, 1 death. At most two
  of the three (desk, recolement, reminders) are in flight; recolement and reminders
  read and write no common table, so they never are together. The clock jumps by more
  than a day only when nothing is in flight. Holds are the matter of the other runs.
- `Rights`: 3 collections of which one is the default, depth 2 (a move that is too deep
  by its descendants needs a collection with a child), 2 classes, 1 reader and 1
  document, 2 requests of the administration of which one is a move (`MaxMoves`), 1 of a
  phone, leases of one day, an embargo up to day 2, 3 days, 1 lost licence. The tree is
  explored without phones (4 edits), the phones over the tree as it is provisioned (3
  decisions): moves change no rule, and a propagation acts on the rules as rules added by
  hand do. With two moves the property is false: see the disagreements.
- `CHECK_DEADLOCK FALSE` in the `Deposits`, `Harvest` and `Rights` runs: their bounds
  end a behaviour. In `Circulation` a request that waits for ever is a deadlock and is
  looked for: `Wait` exists only while nothing is in flight.

### Fairness

`Circulation`: each started request goes on (Node runs what is queued), the hourly pass
comes back (`@Cron`), days go by. Nothing makes anybody send a request, and `Abort` gets
no traffic in `Pickup`. `Deposits`: a started request and the nightly pass go on, and
the pass starts every night; the crashes, which are bounded, are the only thing that
stops it. `Stock`: requests and the pass by hand go on (weak), the pass of the morning
goes on (weak), its timer comes back (strong: the module may be switched off and on),
and a mail server asked again and again accepts once (strong). Nobody has to send
anything by hand. No other run uses fairness.

## What is proved

Each theorem is for every value of the constants that satisfies the named assumption of
its module, and for any number of requests in flight unless it says otherwise.

| theorem | says | along |
|---|---|---|
| `CirculationProofs!TypeCorrect` | rows and sessions keep their shapes | `TypeOK` is inductive, one lemma per handler |
| `CirculationProofs!ClosedLoansStayClosed` | the way a loan ended and its fine are never rewritten | each commit that touches a loan either tests that it is open or writes other columns |
| `NoticeProofs!NoDoubleMail` | at most one message per promotion, if the mail server never reports an error for a message it accepted | the invariant `MailInv`: messages sent, plus requests about to send one, plus one if nobody has claimed the hold, never exceed its promotions |
| `NoticeProofs!TakenBackInTime` | with pickup windows of two days at least, a ready hold is taken back only once its window is over | `DueInv`, below |
| `NoticeProofs!ClaimsAreNotLeaked` | as long as no request dies between the two statements, a claim is spent, given back or in the hands of who is about to send | `SendingInv`: the property itself, and whoever sends does so for a hold that exists; a refused message gives the claim back |
| `LendingProofs!DeskForgetsNobody` | the abstract desk has a copy aside for each reader told to come and nobody waits beside the shelf | the same, plus: nobody both waits and is told to come |
| `DeskProofs!CounterLendsOnce` | no hold placed, any number of requests that overlap and die: at most one open loan per copy, and that copy is checked out | `CounterInv`, below |
| `DeskProofs!DeskLendsOnce, DeskServesTheShelf, DeskSetsOneAside, DeskKeepsItsLimits, DeskKeepsWhatIsAside, DeskRenewsNothingReserved` | the promises of `DeskSerial`, one request at a time | `SerialInv`, below |
| `DeskProofs!DeskImplementsLending` | one request at a time, the desk implements `Lending` | each commit is one operation of `Lending`, all other statements stutter |
| `DepositsProofs!TypeCorrect, MarkMeansMessage, DocumentStays, TwinIsItsOwn, LossIsTraced` | what `DepositRaces` checks of the store, the trace and the notices | `TypeInv` and `RaceInv`, below |
| `DepositsProofs!RetentionKept` | any requests that overlap: during the retention of a refusal the document its row names stays, and so does the one that was refused, unless an upload begun on the draft removes it | the same and `JudgedInv`, below |
| `DepositsProofs!RefusedIsKept` | no two requests on one deposit: the same without the exception | the same and `Apart` |
| `DepositsProofs!DecisionStays, DirectorDecides, SubmittedStays, CopyKeepsItsBytes, CataloguedAtMostOnce` | the safety of `DepositCircuit`, for any number of requests in flight on as many deposits, beside the purge | `SerialInv`, below |
| `HarvestProofs!TypeCorrect` | source, runs, memory and executions keep their types | `TypeInv`: adds what a repository can have given (finite, not of the future: the stamp the cursor moves to exists) and `Balanced` (a label is reached only with the work it needs) |
| `HarvestProofs!ReportsAddUp` | every report adds up | `Sum`: what an execution received is what it counted, plus what it has not looked at, plus what it has yet to create |
| `HarvestProofs!MemoryIsRight` | a row of the memory points at its own record | `Pointed`: the records an execution created are, in order, those of the notices it has to remember; records are only appended |
| `HarvestProofs!NothingLeftBehind` | executions of one source that follow one another: nothing behind the cursor is missed | `CursorInv`, below |
| `HarvestProofs!ImportsBounded` | the same: a record is imported once, plus what stops and deletions account for | `OnceInv`, below |
| `StockProofs!DeskTypeCorrect, RemindersTypeCorrect` | shapes are kept beside each other | the lemmas of `CirculationProofs`, and one per statement of a pass |
| `StockProofs!SentIsMailed, ToldOnce` | SENT means sent; a stage is told once | `RemindersInv`, below |
| `StockProofs!RecolementSparesLoans` | beside a counter without holds, no campaign marks a copy on loan | the marking tests the status of the copy as it is, and `CounterInv` says a copy on loan has it |
| `RightsProofs!NoDecisionLost` | no rule and no document goes with a collection | the foreign keys see the rows of the deletion, not those of the counts |
| `RightsProofs!NeverACycle` | any number of requests, moves decided together included, whose updates of `parent_id` are not in progress together (`OneUpdate`): no collection becomes its own ancestor, none hangs from a row that is gone | `LinkedInv`, below |
| `RightsProofs!TreeStaysSound` | any number of requests, one of which at most is a move from its decision to its write (`OneMove`): nor does any collection lie too deep, subtrees that move included | `TreeInv`, below |
| `RightsProofs!LossBounded, NoPurgeWithoutCause` | what the runs check of leases | `OfflineInv`, below |

The strengthening is needed in each case because the property looks at what was written,
and the danger is in what requests in flight are about to write.

*The desk, one request at a time.* `SerialInv` has three parts: at most one request is
in flight and nobody edits a copy from the catalogue; `DeskPart`, which is what the
tables promise (a copy on loan has one open loan, as many copies aside as ready holds,
nobody waits beside the shelf, the caps); and `Reads(s)`: what the request in flight has
read is still true, because nothing else has written. A statement that reads keeps the
tables and makes `Reads` true of one thing more; a statement that commits uses `Reads`
in place of the test it does not make, and gives back `DeskPart`. The lemmas of the
commits are named after the handler (`...Writes`) and those of the refinement after the
operation of `Lending` (`...Seen`). The refinement assumes that shelf, set aside and
gone are three values which are no patron. `CounterInv` needs neither: without holds,
the conditional updates of the commits test the status themselves, and what is left to
know is that a request that returns a copy knows the copy of its loan.

*Deposits.* `TypeInv` adds to the shapes that a label is reached only with what it needs
(`Balanced`). `RaceInv` has five parts: `Marked`, a mark or a request about to write one
has its message; `TimeInv`, since when a request is at work, and that a request on a
refused deposit is older than the refusal; `PassInv`, what the purge has read of its
rows is still there; `NameInv`, a document is named by one row at most, and that of an
upload in flight by nobody; `StoreInv`, what a row names is in the store until the
refusal is old, and what an upload will name is there once it was put. The key lemma,
`Quiet`, is that no request is in flight on a refusal old enough to be purged: a request
sees one midnight at most and retention is a day at least. It rests on that bound of
`Tick` and on the single process of the purge. `JudgedInv` says that the document which
was refused is the row's of its deposit, or no row's: a step that deletes it is the purge
of that deposit, which `Quiet` dates, or an upload that read its row before the refusal.

`SerialInv` is for requests in flight on different deposits (`[]Apart`, which the bound of
the run implies: `AloneIsApart`); requests on other deposits, the purge, the crashes and
the refusals of the store still come between any two statements of one. It
says that what a request in flight has read of its deposit is still true (`StillTrue`):
the purge writes refused deposits only, and by `Quiet` no request is on one of those; and
that a deposit with a record was approved and has one copy, which names what its row
names (`Copied`). Every step is then `Lawful`: a decision stays, is made by the director
in charge on a deposit that waits, and a document changes after the submission only by
being forgotten after its trace. `CopyKeepsItsBytes` adds `StoreInv`. With two requests on one
deposit the run `SwappedThesis` refutes it.

*Harvesting.* `CursorInv` speaks of one execution at a time and one repository (`Alone`;
a source pointed at another one keeps its cursor, and the property is then false). It
relates four things to the versions the repository has now: the memory, the cursor, the
token the next execution would send (`Resumable`) and what the execution in flight still
holds (`Pending`). `Cover`: a version older than the cursor, or than a stamp that closing
would move it past (`Aim`), is in the memory or still pending. `Outdated`: what is held
but no longer current gave way to a version the cursor will not pass. An execution whose
source was deleted keeps only `Held`. `OnceInv` counts, for each identifier, the records
made from it: at most the stops, two per deletion, and its `Share`, one if the memory
knows it and one if the execution has imported it and not remembered it yet; an execution
that lost its source owes in advance the one it may still import.

*Claims and windows.* `DueInv` has four parts: a request sees one midnight (`Young`); a
hold a request has picked as the next of the queue, if somebody made it ready since, is
good beyond the day of that request (`NextKeepsItsTime`); a hold on the list of the pass
is ended or late, and no request has picked it (`ListedIsLate`); a hold the pass has
locked is still ready (`LockedIsReady`). The conditional update of the pass tests the
status and not the date, so the proof is that nobody refreshes a listed hold. Windows of one day
(the settings allow 1 to 30, `update-circulation-policy.dto.ts:31`) are excluded for a
reason. TLC finds a counterexample there: two returns that overlap across midnight have
picked the same next reader, the first makes the hold ready, the next midnight makes it
late, the pass lists it, the second return makes it ready again for one more day, and the
pass takes it back.

*Collections.* `Tree!Chain` is the least set that holds a collection and climbs, so the
facts about ancestors need no induction: a set that climbs and holds the collection holds
its chain (`ChainIsLeast`). From it follow one step up (`ChainStep`), that ancestors form
a line (`ChainIsALine`) with one end when there is no cycle (`ChainHasOneEnd`), that a
move leaves the chains it is not on (`ElsewhereChain`) and replaces the top of the others
(`MovedChain`), and hence the depth under a moved collection (`MovedDepth`), which is the
sum `refusDeDeplacement` compares with the limit. `TreeInv` says that the tree is sound
and that what a move in flight was judged on still holds as long as both rows are there
(`StillGood`): roots may have been created since, and deletions may have cut the tree,
which makes no chain longer (`PrunedKeepsGood`). It needs a move that no other move
overlaps (`OneMove`).

`LinkedInv` needs less: moves may be decided together, on a tree that others change before
they are written, as long as the updates themselves are not in progress together
(`OneUpdate`). It says that what a trigger has seen so far, the row that moves apart, is a
line of ancestors that begins with the new parent and ends where the trigger stands
(`HasClimbed`); deletions and creations between two of its statements keep that. When it
arrives at a root without having met the row, the row is not above its new parent
(`TriggerKeepsLinked`). Without `OneUpdate` this fails, and the code makes the cycle.

*Reminders.* `RemindersInv` adds to the shapes: `AsTheLoan`, a reminder in hand was
planned for the reader of its loan, and only a stage of a reader with an address has a
row `PENDING`, `SENT` or `FAILED`; `Told`, what a pass is about to mark as sent, and
what a row says was sent, was delivered; `Once`, a stage outside `contested` is in the
hands of one pass at most, and its one message is on record or about to be. Assumed:
stages are all the natural numbers (the code has no last one).

*Leases.* A request in flight carries the day it began and what it has found so far.
`IssueInv` and `ReplayInv` say that what it has not refused yet was true on a day
`lastRight` knows, or is in doubt; `LeaseInv` says the same of every licence and copy.

The first three theorems of `Harvest` hold for overlapping executions, which the run does
not explore. `sentThenError` is excluded from `NoDoubleMail` by a hypothesis: a server that
accepts a message and then fails makes the next pass send it again
(`holds.service.ts:214`).

The hypotheses of theorems are not comforts: without `Apart`, `Alone`,
`OneMove`, `OneUpdate`, `LongWindows` or a server that does not die between the claim and
the message, properties of the theorem's run are false, and the hazards of `PROJECT.json` or
the disagreements below say how. Each is satisfied by the run that checks the property.

Only model-checked: liveness (`LateHoldIsTakenBack`, `ReadyReaderIsTold`,
`OldRefusalIsPurged`, `LateReaderIsTold`) and what rests on `ENABLED`, which are out of
the prover's reach, as are induction over data and `RECURSIVE` operators (no module here
declares one). `Inventory!TypeOK` is neither checked nor proved on its own.

## Disagreements between the code and what it says of itself

Shown by a run of their own:

1. `TwoLoansOneCopy`. A hold sets aside a copy it read as free, without looking again: a
   loan made in between leaves the copy set aside and lent; it can then be lent twice
   (`circulation.service.ts:379`).
2. `QueuePlace`. The priority of a hold is the number of active holds plus one, while
   the others keep an older, larger number: a newcomer overtakes them (`:389`).
3. `SwappedThesis`. An upload begun on a draft ends after the submission and replaces
   the document under judgement (`depots.service.ts:159`). It then deletes the document it
   replaced (`:172`): if that one has been refused meanwhile, it goes the same day,
   whatever the retention. `KeptForRetention` allows this one case and no other.

Seen on counterexamples, told here without a run of their own; the definition that
states each is kept:

- `Deposits!PurgedMeansGone`. One refusal of the store, and the document of an old
  refusal stays in the store with nothing that names it (`purge-depots.service.ts:224`).
- `Harvest!RefusedTokenIsDropped`. A token the repository refused is the latest one for
  ever (`moissonnage.service.ts:236`).

Seen while modelling, without a run: with requests that overlap, the cap on loans, the
single hold per reader and the rule that a reserved loan is not renewed can be broken
(each is read, then acted on); a reader may wait beside a full shelf; two e-mails leave
if the mail server accepts and then fails; a hold claimed just before the server stops
is never told; a withdrawal racing a decision erases it; a deposit may be attached to
two records at once; with a pickup window of one day, the hourly pass takes back a hold
that a second return has just made ready again; `moissonnage.service.ts:258` says an empty answer moves the cursor,
and it does not; a source pointed at another repository keeps its cursor; a crash
between a record and its memory imports it twice; a record without a title that gets one
becomes a collision and is never imported; the pickup days of the tenant are not used by
a return or a cancellation; the global rule `*` is looked for and never loaded.

Of the reminders and the recolement: a row left `PENDING` or `FAILED` stops nobody, so
two passes send the same stage twice, although `reminders.service.ts:373` says never
twice; the reservation of a reader without an address does not catch the unique key and
ends the pass; an overdue stage is known by its number, so a loan prolonged and late
again is not told of the stages it has had; loans are read once, so a reader who returns
a book during the pass is told it is late; a copy returned, set aside or damaged while a
recolement closes is marked missing; close, reopen and apply write the status of the
session without looking at it again.

Of access and leases: two moves that overlap can make a tree deeper than the limit,
because the trigger goes up from the written row and never looks below it. They can also
make a cycle: with `MaxMoves = 2`, TLC puts A under B and B under A in nine states, both
decided on two roots, both triggers reading two roots before either row is written, and
both rows written. `apps/api/prisma/schema.prisma:276` says the database guarantees both
the depth and the absence of cycles, and the migration (`collections_hierarchie`, line
109) that a cycle can no longer happen. A renewal that started before staff revoked a
licence makes it active again; a replay that found no right revokes the lease another
request has just renewed.

## Not modelled

The table of components in `PROJECT.json` gives the reason for each.

- Reading: public catalogue, search, OAI and SRU servers, statistics, reports. No state
  but caches of seconds.
- Pure I/O: storage, labels, health, the audit log (append only), e-mail text.
- The web front end, which is more than half of the lines of the repository, and the
  scripts that seed and demonstrate: the server relies on nothing they keep. This is why
  the modelled share of the lines is small, although it holds nearly all the
  interleavings.
- Accounts, second factor, enrolment, roles, patrons, categories: mostly forms over one
  row. They have hazards of their own, kept for step 7 of the plan: a one-time token
  read, then spent; second-factor and backup codes read, then written; an import of
  pupils with replacement that deletes rows claimed meanwhile; a class renamed while
  pupils are enrolled in it by its old name, or deleted while a rule names it.
- Record editing and MARC import: step 8.
- Installation, tenancy: run once, or isolation by construction of the connection.
- Inside the modelled components: wording, encryption, the mapping of Dublin Core, URL
  checks, audit rows no property reads; an address that changes during a pass of
  reminders; several schools; shared collections and subscription tiers.
