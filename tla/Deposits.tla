------------------------------- MODULE Deposits -------------------------------
(***************************************************************************)
(* Theses of one school: DepotsService, from the draft to the catalogue,   *)
(* and PurgeDepotsService, which removes the documents of old refusals.    *)
(*                                                                         *)
(* A deposit is one row, read then written by an unconditional update; its *)
(* bytes are objects of a store no transaction covers; the trace of a      *)
(* purge is a row of another database schema.  Every statement is a step.  *)
(*                                                                         *)
(* An operator named Slip... is a plausible slip in the code of the        *)
(* definition that follows it; the specification does not use it.          *)
(***************************************************************************)
EXTENDS Integers, Sequences, FiniteSets

CONSTANTS
    Sessions,      \* HTTP requests that can be in flight together
    Cron,          \* the nightly purge
    Deposits,      \* deposits
    Directors,     \* accounts that may direct a deposit
    Records,       \* biblio_records created by the cataloguer
    Retention,     \* days a refused deposit keeps its document
    Ops,           \* the handlers that receive traffic
    MaxInFlight,   \* bound: requests in flight together
    MaxDocs,       \* bound: uploads
    MaxFaults,     \* bound: crashes and refusals of the store or of the log
    Days,          \* bound: the days explored
    Nobody, NoRecord

OpNames == {"creer", "televerser", "designer", "soumettre", "retirer",
            "reattribuer", "valider", "refuser", "rattacher", "module"}

ASSUME DepositsAssumption ==
    /\ Cron \notin Sessions /\ IsFiniteSet(Sessions)
    /\ Nobody \notin Directors \cup Deposits /\ NoRecord \notin Records
    /\ Ops \subseteq OpNames
    /\ Retention \in Nat \ {0}
    /\ {MaxInFlight, MaxDocs, MaxFaults} \subseteq Nat
    /\ Days \subseteq Nat

VARIABLES
    dep,      \* deposits
    clear,    \* the store: documents as they were uploaded
    cipher,   \* the store: their encrypted twins
    minted,   \* documents uploaded so far
    copies,   \* digital_copies created from each deposit
    audit,    \* deposits with a row "file purged" in the audit log
    active,   \* the module "depot" is on
    clock,    \* the day
    sess,     \* what each request in flight, and the purge, has read
    told,     \* history: who received the message "a deposit awaits you"
    faults    \* crashes and refusals so far

store == <<clear, cipher, minted>>
db == <<dep, copies, audit, active>>
vars == <<db, store, clock, sess, told, faults>>

Procs == Sessions \cup {Cron}
Docs == 1..MaxDocs
ETATS_DEPOT == {"brouillon", "soumis", "valide", "refuse"}
\* Slip: a state the table does not know, which is a text and no enumeration.
SlipInitial == "en preparation"
ETAT_INITIAL == "brouillon"

\* deposits: file is file_key and enc is enc_object_key, named by the upload they
\* come from (0 is null); named says that file_name is not null.  judged is history:
\* the document the row named when its decision was written.
Deposit == [status : ETATS_DEPOT \cup {"absent"}, file : Docs \cup {0},
            named : BOOLEAN, enc : Docs \cup {0},
            encStatus : {"null", "pending", "ready", "failed"},
            director : Directors \cup {Nobody}, notified : Directors \cup {Nobody},
            decidedAt : Nat, decidedBy : Directors \cup {Nobody},
            record : Records \cup {NoRecord}, judged : Docs \cup {0}]
NoDeposit == [status |-> "absent", file |-> 0, named |-> FALSE, enc |-> 0,
              encStatus |-> "null", director |-> Nobody, notified |-> Nobody,
              decidedAt |-> 0, decidedBy |-> Nobody, record |-> NoRecord, judged |-> 0]

Copy == [record : Records, doc : Docs, enc : Docs \cup {0},
         encStatus : {"null", "pending", "ready", "failed"}]

Labels == {"idle", "put", "ingest", "write", "clean", "cleanEnc", "notify", "mark",
           "each", "purge", "purgeEnc", "log", "forget"}

\* A request in flight: file, enc and encStatus are what it keeps of the row it
\* read, until an upload replaces encStatus by its own.
Request == [op : OpNames \cup {"idle", "purge"}, pc : Labels, now : Nat,
            id : Deposits \cup {Nobody}, doc : Docs \cup {0},
            file : Docs \cup {0}, enc : Docs \cup {0},
            encStatus : {"null", "pending", "ready", "failed"},
            user : Directors \cup {Nobody}, record : Records \cup {NoRecord},
            todo : SUBSET [id : Deposits, file : Docs \cup {0}, enc : Docs \cup {0}]]
Idle == [op |-> "idle", pc |-> "idle", now |-> 0, id |-> Nobody,
         doc |-> 0, file |-> 0, enc |-> 0, encStatus |-> "null", user |-> Nobody,
         record |-> NoRecord, todo |-> {}]

Init ==
    /\ dep = [d \in Deposits |-> NoDeposit]
    /\ clear = {} /\ cipher = {} /\ minted = 0
    /\ copies = [d \in Deposits |-> <<>>]
    /\ audit = {}
    /\ active = TRUE
    /\ clock = 0
    /\ sess = [s \in Procs |-> Idle]
    /\ told = {}
    /\ faults = 0

-----------------------------------------------------------------------------
(* Decisions *)

\* Slip: the depositor may take back a deposit that was decided.
SlipPermise(de, vers) ==
    \/ de = "brouillon" /\ vers = "soumis"
    \/ de = "soumis" /\ vers \in {"valide", "refuse"}
    \/ de # "brouillon" /\ vers = "brouillon"
\* TRANSITIONS: the permitted changes of state, and no other.
Permise(de, vers) ==
    \/ de = "brouillon" /\ vers = "soumis"
    \/ de = "soumis" /\ vers \in {"valide", "refuse", "brouillon"}

\* Slip: the record is not looked at, or the state is not.
SlipTwiceCatalogued(row) == row.status = "valide"
SlipUndecided(row) == row.record = NoRecord /\ row.status \in {"soumis", "valide"}
EnAttenteDeCatalogage(row) == row.status = "valide" /\ row.record = NoRecord

\* Slip: one day early; a document that was never encrypted is forgotten.
SlipEarly(row, now) ==
    /\ row.status = "refuse"
    /\ row.file # 0 \/ row.enc # 0
    /\ row.decidedAt + Retention <= now
SlipOnlyEncrypted(row, now) ==
    /\ row.status = "refuse"
    /\ row.enc # 0
    /\ row.decidedAt + Retention < now
\* The retention is a strict bound, on the row as the pass read it.
FichierAPurger(row, now) ==
    /\ row.status = "refuse"
    /\ row.file # 0 \/ row.enc # 0
    /\ row.decidedAt + Retention < now

-----------------------------------------------------------------------------
(* Requests *)

Busy == {s \in Sessions : sess[s].op # "idle"}
Goto(s, pc) == sess' = [sess EXCEPT ![s].pc = pc]
Done(s) == sess' = [sess EXCEPT ![s] = Idle]

\* A request reads its deposit and passes its checks; `next` is what it is then.
Begin(s, op, d, next) ==
    /\ op \in Ops /\ s \in Sessions
    /\ sess[s].op = "idle" /\ Cardinality(Busy) < MaxInFlight
    /\ dep[d].status # "absent"
    /\ sess' = [sess EXCEPT ![s] = [next EXCEPT !.op = op, !.id = d, !.now = clock]]

At(s, ops, pc) == sess[s].op \in ops /\ sess[s].pc = pc
Fault == faults < MaxFaults /\ faults' = faults + 1

-----------------------------------------------------------------------------
(* creer, televerser *)

Creer(d, g) ==
    /\ "creer" \in Ops
    /\ dep[d].status = "absent"
    /\ dep' = [dep EXCEPT ![d].status = ETAT_INITIAL, ![d].director = g]
    /\ UNCHANGED <<copies, audit, active, store, clock, sess, told, faults>>

\* Slip: the document of any deposit can be replaced.
SlipRemplacable(row) == TRUE
Remplacable(row) == row.status = ETAT_INITIAL

\* An upload gets an object key of its own.
TeleverserRead(s, d, pdf) ==
    /\ Remplacable(dep[d])
    /\ minted < MaxDocs
    /\ minted' = minted + 1
    /\ Begin(s, "televerser", d,
             [Idle EXCEPT !.pc = "put", !.doc = minted + 1,
                          !.file = dep[d].file, !.enc = dep[d].enc,
                          !.encStatus = IF pdf THEN "null" ELSE "pending"])
    /\ UNCHANGED <<db, clear, cipher, clock, told, faults>>

TeleverserPut(s) ==
    /\ At(s, {"televerser"}, "put")
    /\ clear' = clear \cup {sess[s].doc}
    /\ Goto(s, IF sess[s].encStatus = "null" THEN "ingest" ELSE "write")
    /\ UNCHANGED <<db, cipher, minted, clock, told, faults>>

\* A PDF is encrypted at once; a failure does not fail the upload.
TeleverserIngest(s, outcome) ==
    /\ At(s, {"televerser"}, "ingest")
    /\ outcome \in {"ready", "failed"}
    /\ cipher' = IF outcome = "ready" THEN cipher \cup {sess[s].doc} ELSE cipher
    /\ sess' = [sess EXCEPT ![s].pc = "write", ![s].encStatus = outcome]
    /\ UNCHANGED <<db, clear, minted, clock, told, faults>>

\* Slip: an upload that is not encrypted leaves the columns of the last one.
SlipUploaded(row, q) ==
    [row EXCEPT !.file = q.doc, !.named = TRUE,
                !.encStatus = IF q.encStatus = "pending" THEN @ ELSE q.encStatus,
                !.enc = IF q.encStatus = "ready" THEN q.doc ELSE @]
Uploaded(row, q) ==
    [row EXCEPT !.file = q.doc, !.named = TRUE, !.encStatus = q.encStatus,
                !.enc = IF q.encStatus = "ready" THEN q.doc ELSE @]

\* The encrypted twin to delete is known once the row has been written: the one
\* the row had when it was read, unless the row still names it.
TeleverserWrite(s) ==
    LET q == sess[s]  row == Uploaded(dep[q.id], q) IN
    /\ At(s, {"televerser"}, "write")
    /\ dep' = [dep EXCEPT ![q.id] = row]
    /\ sess' = [sess EXCEPT ![s].pc = "clean",
                            ![s].enc = IF @ = row.enc THEN 0 ELSE @]
    /\ UNCHANGED <<copies, audit, active, store, clock, told, faults>>

\* Slip: the object removed is the one the deposit names now.
SlipPrecedent(q) == {dep[q.id].file} \ {0}
Precedent(q) == {q.file} \ {0, q.doc}

\* The previous objects go last; a refusal of the store is swallowed.
TeleverserClean(s) ==
    /\ At(s, {"televerser"}, "clean")
    /\ \/ clear' = clear \ Precedent(sess[s]) /\ UNCHANGED faults
       \/ Fault /\ UNCHANGED clear
    /\ Goto(s, "cleanEnc")
    /\ UNCHANGED <<db, cipher, minted, clock, told>>

TeleverserCleanEnc(s) ==
    /\ At(s, {"televerser"}, "cleanEnc")
    /\ \/ cipher' = cipher \ {sess[s].enc} /\ UNCHANGED faults
       \/ Fault /\ UNCHANGED cipher
    /\ Done(s)
    /\ UNCHANGED <<db, clear, minted, clock, told>>

-----------------------------------------------------------------------------
(* soumettre, retirer, designerDirecteur, reattribuer *)

SoumettreRead(s, d) ==
    /\ Permise(dep[d].status, "soumis")
    /\ dep[d].director # Nobody
    /\ dep[d].file # 0
    /\ Begin(s, "soumettre", d, [Idle EXCEPT !.pc = "write"])
    /\ UNCHANGED <<db, store, clock, told, faults>>

\* The director read back with the update is told, unless he was.
SoumettreWrite(s) ==
    LET q == sess[s] IN
    /\ At(s, {"soumettre"}, "write")
    /\ dep' = [dep EXCEPT ![q.id].status = "soumis"]
    /\ IF dep[q.id].notified = dep[q.id].director THEN Done(s)
       ELSE sess' = [sess EXCEPT ![s].pc = "notify", ![s].user = dep[q.id].director]
    /\ UNCHANGED <<copies, audit, active, store, clock, told, faults>>

RetirerRead(s, d) ==
    /\ Permise(dep[d].status, "brouillon")
    /\ Begin(s, "retirer", d, [Idle EXCEPT !.pc = "write"])
    /\ UNCHANGED <<db, store, clock, told, faults>>

RetirerWrite(s) ==
    /\ At(s, {"retirer"}, "write")
    /\ dep' = [dep EXCEPT ![sess[s].id].status = "brouillon"]
    /\ Done(s)
    /\ UNCHANGED <<copies, audit, active, store, clock, told, faults>>

\* The depositor names the director of a draft, the librarian another one for a
\* deposit that waits.
DirecteurRead(s, d, op, g) ==
    /\ op \in {"designer", "reattribuer"}
    /\ op = "designer" => dep[d].status = ETAT_INITIAL
    /\ op = "reattribuer" => dep[d].status = "soumis" /\ dep[d].director # g
    /\ Begin(s, op, d, [Idle EXCEPT !.pc = "write", !.user = g])
    /\ UNCHANGED <<db, store, clock, told, faults>>

DirecteurWrite(s) ==
    /\ At(s, {"designer", "reattribuer"}, "write")
    /\ dep' = [dep EXCEPT ![sess[s].id].director = sess[s].user]
    /\ IF sess[s].op = "designer" THEN Done(s) ELSE Goto(s, "notify")
    /\ UNCHANGED <<copies, audit, active, store, clock, told, faults>>

\* Slip: "told" is written whatever became of the message.
SlipAfterMail(sent) == "mark"
AfterMail(sent) == IF sent THEN "mark" ELSE "idle"

NotifierDirecteur(s, sent) ==
    LET q == sess[s] IN
    /\ q.pc = "notify"
    /\ told' = IF sent THEN told \cup {<<q.id, q.user>>} ELSE told
    /\ IF AfterMail(sent) = "idle" THEN Done(s) ELSE Goto(s, AfterMail(sent))
    /\ UNCHANGED <<db, store, clock, faults>>

MarquerPrevenu(s) ==
    LET q == sess[s] IN
    /\ q.pc = "mark"
    /\ dep' = [dep EXCEPT ![q.id].notified = q.user]
    /\ Done(s)
    /\ UNCHANGED <<copies, audit, active, store, clock, told, faults>>

-----------------------------------------------------------------------------
(* valider, refuser, rattacherNotice *)

Verdict(op) == IF op = "valider" THEN "valide" ELSE "refuse"

\* Slip: any director may decide.
SlipDirige(d, g) == TRUE
Dirige(d, g) == dep[d].director = g

DeciderRead(s, d, op, g) ==
    /\ op \in {"valider", "refuser"}
    /\ Dirige(d, g)
    /\ Permise(dep[d].status, Verdict(op))
    /\ Begin(s, op, d, [Idle EXCEPT !.pc = "write", !.user = g])
    /\ UNCHANGED <<db, store, clock, told, faults>>

DeciderWrite(s) ==
    LET q == sess[s] IN
    /\ At(s, {"valider", "refuser"}, "write")
    /\ dep' = [dep EXCEPT ![q.id].status = Verdict(q.op),
                          ![q.id].decidedAt = clock, ![q.id].decidedBy = q.user,
                          ![q.id].judged = dep[q.id].file]
    /\ Done(s)
    /\ UNCHANGED <<copies, audit, active, store, clock, told, faults>>

RattacherRead(s, d, r) ==
    /\ EnAttenteDeCatalogage(dep[d])
    /\ dep[d].file # 0
    /\ Begin(s, "rattacher", d,
             [Idle EXCEPT !.pc = "write", !.record = r,
                          !.file = dep[d].file, !.enc = dep[d].enc,
                          !.encStatus = dep[d].encStatus])
    /\ UNCHANGED <<db, store, clock, told, faults>>

\* One transaction: the copy gets the columns of the deposit as it was read.
RattacherWrite(s) ==
    LET q == sess[s] IN
    /\ At(s, {"rattacher"}, "write")
    /\ copies' = [copies EXCEPT ![q.id] = Append(@,
          [record |-> q.record, doc |-> q.file, enc |-> q.enc,
           encStatus |-> q.encStatus])]
    /\ dep' = [dep EXCEPT ![q.id].record = q.record]
    /\ Done(s)
    /\ UNCHANGED <<audit, active, store, clock, told, faults>>

-----------------------------------------------------------------------------
(* purgerUneEcole: the nightly pass *)

\* The module is looked at once, the rows are read once.
PurgeStart ==
    /\ sess[Cron].op = "idle"
    /\ active
    /\ sess' = [sess EXCEPT ![Cron] =
          [Idle EXCEPT !.op = "purge", !.pc = "each", !.now = clock,
                       !.todo = {[id |-> d, file |-> dep[d].file, enc |-> dep[d].enc] :
                           d \in {e \in Deposits : FichierAPurger(dep[e], clock)}}]]
    /\ UNCHANGED <<db, store, clock, told, faults>>

PurgeNext ==
    /\ sess[Cron].pc = "each"
    /\ \E c \in sess[Cron].todo :
          sess' = [sess EXCEPT ![Cron] =
             [sess[Cron] EXCEPT !.pc = "purge", !.id = c.id, !.file = c.file,
                                !.enc = c.enc, !.todo = @ \ {c}]]
    /\ UNCHANGED <<db, store, clock, told, faults>>

\* Both objects go; one the store refuses to delete is noted and left.
PurgeClear ==
    /\ sess[Cron].pc = "purge"
    /\ \/ clear' = clear \ {sess[Cron].file} /\ UNCHANGED faults
       \/ Fault /\ UNCHANGED clear
    /\ Goto(Cron, "purgeEnc")
    /\ UNCHANGED <<db, cipher, minted, clock, told>>

PurgeEnc ==
    /\ sess[Cron].pc = "purgeEnc"
    /\ \/ cipher' = cipher \ {sess[Cron].enc} /\ UNCHANGED faults
       \/ Fault /\ UNCHANGED cipher
    /\ Goto(Cron, "log")
    /\ UNCHANGED <<db, clear, minted, clock, told>>

\* Slip: the pass goes on without its trace.
SlipUnlogged == "forget"
\* Where the pass goes when the log cannot be written: it stops.
Unlogged == "idle"

PurgeLog ==
    /\ sess[Cron].pc = "log"
    /\ \/ /\ audit' = audit \cup {sess[Cron].id}
          /\ Goto(Cron, "forget")
          /\ UNCHANGED faults
       \/ /\ Fault
          /\ IF Unlogged = "idle" THEN Done(Cron) ELSE Goto(Cron, Unlogged)
          /\ UNCHANGED audit
    /\ UNCHANGED <<dep, copies, active, store, clock, told>>

\* The row forgets its objects and keeps the name of the document.
PurgeForget ==
    LET q == sess[Cron] IN
    /\ q.pc = "forget"
    /\ dep' = [dep EXCEPT ![q.id].file = 0, ![q.id].enc = 0, ![q.id].encStatus = "null"]
    /\ sess' = [sess EXCEPT ![Cron] = [q EXCEPT !.pc = "each", !.id = Nobody,
                                                !.file = 0, !.enc = 0]]
    /\ UNCHANGED <<copies, audit, active, store, clock, told, faults>>

PurgeEnd ==
    /\ sess[Cron].pc = "each"
    /\ sess[Cron].todo = {}
    /\ Done(Cron)
    /\ UNCHANGED <<db, store, clock, told, faults>>

-----------------------------------------------------------------------------
(* The rest of the world *)

\* A request or the pass dies between two statements.
Abort(s) ==
    /\ sess[s].op # "idle"
    /\ Fault
    /\ Done(s)
    /\ UNCHANGED <<db, store, clock, told>>

Module ==
    /\ "module" \in Ops
    /\ active' = ~active
    /\ UNCHANGED <<dep, copies, audit, store, clock, sess, told, faults>>

\* Time passes to the next day explored; what is in flight may see midnight, once.
Tick ==
    /\ clock' \in Days
    /\ \A s \in Procs : sess[s].op # "idle" => sess[s].now = clock /\ clock' = clock + 1
    /\ clock < clock' /\ \A d \in Days : d <= clock \/ clock' <= d
    /\ UNCHANGED <<db, store, sess, told, faults>>

Arrivals(s) ==
    \E d \in Deposits :
        \/ \E pdf \in BOOLEAN : TeleverserRead(s, d, pdf)
        \/ SoumettreRead(s, d) \/ RetirerRead(s, d)
        \/ \E g \in Directors :
              \/ \E op \in {"designer", "reattribuer"} : DirecteurRead(s, d, op, g)
              \/ \E op \in {"valider", "refuser"} : DeciderRead(s, d, op, g)
        \/ \E r \in Records : RattacherRead(s, d, r)

Step(s) ==
    \/ TeleverserPut(s) \/ TeleverserWrite(s)
    \/ TeleverserClean(s) \/ TeleverserCleanEnc(s)
    \/ \E outcome \in {"ready", "failed"} : TeleverserIngest(s, outcome)
    \/ SoumettreWrite(s) \/ RetirerWrite(s) \/ DirecteurWrite(s)
    \/ DeciderWrite(s) \/ RattacherWrite(s)
    \/ MarquerPrevenu(s) \/ \E sent \in BOOLEAN : NotifierDirecteur(s, sent)

PurgeStep ==
    \/ PurgeNext \/ PurgeClear \/ PurgeEnc \/ PurgeLog \/ PurgeForget \/ PurgeEnd

Next ==
    \/ \E d \in Deposits, g \in Directors \cup {Nobody} : Creer(d, g)
    \/ \E s \in Sessions : Arrivals(s) \/ Step(s)
    \/ PurgeStart \/ PurgeStep
    \/ \E s \in Procs : Abort(s)
    \/ Module
    \/ Tick

Spec == Init /\ [][Next]_vars

\* The pass of every night starts and runs to its end; the crashes, which MaxFaults
\* bounds, are the only thing that stops it.  Nobody has to send a request.
Fairness == /\ WF_vars(PurgeStart) /\ WF_vars(PurgeStep) /\ WF_vars(Tick)
            /\ \A s \in Sessions : WF_vars(Step(s))
FairSpec == Spec /\ Fairness

-----------------------------------------------------------------------------
(* Properties *)

\* Rows, stored objects and requests keep their shapes.
TypeOK ==
    /\ dep \in [Deposits -> Deposit]
    /\ clear \subseteq Docs /\ cipher \subseteq Docs /\ minted \in 0..MaxDocs
    /\ copies \in [Deposits -> Seq(Copy)]
    /\ audit \subseteq Deposits
    /\ active \in BOOLEAN
    /\ clock \in Nat
    /\ sess \in [Procs -> Request]
    /\ told \subseteq Deposits \X Directors
    /\ faults \in 0..MaxFaults

\* "Jamais de fenetre ou le depot n'a plus de document": whatever uploads, crashes
\* and passes overlap, the document a deposit names is in the store, unless the
\* deposit was refused and is being purged.
DocumentIsThere ==
    \A d \in Deposits :
        dep[d].file # 0 /\ dep[d].status # "refuse" => dep[d].file \in clear

\* A row that says its encrypted twin is ready names the twin of its own document,
\* and the twin is in the store.
ReadyTwinIsItsOwn ==
    \A d \in Deposits : dep[d].encStatus = "ready" =>
        /\ dep[d].enc = dep[d].file
        /\ dep[d].status # "refuse" => dep[d].enc \in cipher

\* "Un fichier qui disparait sans trace est indistinguable d'un fichier perdu": a
\* deposit past the draft has its document, or it was refused and the log says
\* that the document was purged.
MissingDocumentIsTraced ==
    \A d \in Deposits :
        dep[d].status \in {"soumis", "valide", "refuse"} /\ dep[d].file = 0 =>
            dep[d].status = "refuse" /\ d \in audit

\* A director marked as told did receive the message: a mark for nothing would
\* silence every later submission to him.
MarkedWasTold ==
    \A d \in Deposits :
        dep[d].notified # Nobody => <<d, dep[d].notified>> \in told

\* An upload begun on the draft of a refused deposit, about to remove what it found.
LateUpload(d) ==
    \E s \in Sessions : At(s, {"televerser"}, "clean") /\ sess[s].id = d
                        /\ sess[s].now <= dep[d].decidedAt

\* "La regle dit douze mois": until the retention of a refusal is over, neither the
\* document a refused deposit names nor the one that was refused leaves the store,
\* whatever uploads, purges and crashes overlap.  One request can remove the latter:
\* an upload begun on the draft that ends after the refusal.
KeptForRetention ==
    [][\A d \in Deposits : dep[d].status = "refuse" /\ dep[d].decidedAt + Retention >= clock =>
          /\ dep[d].file \notin clear \ clear'
          /\ dep[d].judged \in clear \ clear' => LateUpload(d)]_vars

\* "Aucun retour en arriere": when requests do not overlap, a decision stays, with
\* its date and its author.
DecisionIsFinal ==
    [][\A d \in Deposits : dep[d].status \in {"valide", "refuse"} =>
          /\ dep'[d].status = dep[d].status
          /\ dep'[d].decidedAt = dep[d].decidedAt
          /\ dep'[d].decidedBy = dep[d].decidedBy]_vars

\* When requests do not overlap, a decision is made by the director in charge, on a
\* deposit that waits for it.
DecidedByItsDirector ==
    [][\A d \in Deposits :
          dep'[d].status \in {"valide", "refuse"} /\ dep[d].status # dep'[d].status =>
              dep[d].status = "soumis" /\ dep'[d].decidedBy = dep[d].director]_vars

\* "On ne remplace pas le document d'un depot deja soumis: le directeur aurait valide
\* un document et en verrait un autre": from its submission on, the document of a
\* deposit does not change, except that it is purged.
JudgedAsSubmitted ==
    [][\A d \in Deposits :
          dep[d].status \in {"soumis", "valide", "refuse"} =>
              dep'[d].file = dep[d].file \/ (dep'[d].file = 0 /\ d \in audit)]_vars

\* A digital copy has the bytes of the deposit it was made from, for ever: neither
\* an upload nor a purge takes them away.
CopyHasItsBytes ==
    \A d \in Deposits : \A n \in 1..Len(copies[d]) :
        LET c == copies[d][n] IN
        /\ c.doc \in clear
        /\ c.encStatus = "ready" => c.enc \in cipher

\* When requests do not overlap, a deposit is catalogued once and knows its record.
CataloguedOnce ==
    \A d \in Deposits :
        IF dep[d].record = NoRecord THEN copies[d] = <<>>
        ELSE Len(copies[d]) = 1 /\ copies[d][1].record = dep[d].record

\* While the module is on, the row of an old refusal ends by forgetting its file.
OldRefusal(d) == dep[d].status = "refuse" /\ dep[d].decidedAt + Retention < clock
OldRefusalIsPurged ==
    \A d \in Deposits : OldRefusal(d) ~> dep[d].file = 0

\* "Le fichier d'un depot refuse est supprime au bout de douze mois": once the purge
\* has gone over a deposit, the document it was submitted with is not in the store.
\* The code does not keep this: no run lists it (README, disagreements).
PurgedMeansGone ==
    \A d \in Deposits :
        dep[d].named /\ dep[d].file = 0 => clear = {} /\ cipher = {}
=============================================================================
