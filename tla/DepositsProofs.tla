--------------------------- MODULE DepositsProofs ---------------------------
(* Theorems about the theses of a school, for any number of deposits, of   *)
(* requests that overlap, of uploads, and of crashes and refusals of the   *)
(* store.  The pass that purges is one process; a request or a pass may    *)
(* see midnight once (Tick), and the retention is a day at least.  What is *)
(* decided, judged and catalogued is proved when no two requests in flight *)
(* are on one deposit; the pass may still be on any.                       *)
EXTENDS Deposits, TLAPS, FiniteSetTheorems

-----------------------------------------------------------------------------
(* Types *)

\* A request at a label is one of the handlers that reach it, and has what they
\* have read by then.
SessionOK(s) ==
    LET q == sess[s] IN
    /\ q.op # "purge" /\ q.pc \notin {"each", "purge", "purgeEnc", "log", "forget"}
    /\ q.op = "idle" <=> q.pc = "idle"
    /\ q.op # "idle" => q.id \in Deposits /\ dep[q.id].status # "absent"
    /\ q.op = "televerser" =>
          q.doc \in Docs /\ q.pc \in {"put", "ingest", "write", "clean", "cleanEnc"}
    /\ q.pc \in {"put", "ingest", "clean", "cleanEnc"} => q.op = "televerser"
    /\ q.op = "soumettre" => dep[q.id].director \in Directors
    /\ q.op \in {"designer", "reattribuer"} => q.user \in Directors
    /\ q.pc \in {"notify", "mark"} =>
          q.op \in {"soumettre", "reattribuer"} /\ q.user \in Directors
    /\ q.op = "rattacher" => q.file \in Docs /\ q.record \in Records
PassOK ==
    LET q == sess[Cron] IN
    /\ q.op \in {"idle", "purge"}
    /\ q.pc \in {"idle", "each", "purge", "purgeEnc", "log", "forget"}
    /\ q.op = "idle" <=> q.pc = "idle"
    /\ q.pc \notin {"idle", "each"} => q.id \in Deposits
Balanced == PassOK /\ \A s \in Sessions : SessionOK(s)

TypeInv == TypeOK /\ Balanced

LEMMA IdleType == Idle \in Request
  BY DEF Idle, Request, Labels

Begun(next, op, d) == [next EXCEPT !.op = op, !.id = d, !.now = clock]

\* What a request that arrives does to the table of requests.
LEMMA BeginType ==
    ASSUME TypeOK, NEW s \in Sessions, NEW op \in OpNames, NEW d \in Deposits,
           NEW next \in Request, Begin(s, op, d, next)
    PROVE  /\ sess' \in [Procs -> Request]
           /\ sess' = [sess EXCEPT ![s] = sess'[s]]
           /\ sess'[s] = Begun(next, op, d) /\ dep[d].status # "absent"
  <1>1. Begun(next, op, d) \in Request
    BY DEF TypeOK, Request, Begun
  <1>2. QED
    BY <1>1 DEF Begin, Begun, TypeOK, Procs

\* No deposit disappears or loses its director.
Kept(row, new) == /\ row.status # "absent" => new.status # "absent"
                  /\ row.director \in Directors => new.director \in Directors
AllKept == \A d \in Deposits : Kept(dep[d], dep'[d])

LEMMA SameIsKept == ASSUME UNCHANGED dep PROVE AllKept
  BY DEF AllKept, Kept

\* The requests that do not move keep what they have read.
LEMMA OthersBalanced ==
    ASSUME DepositsAssumption, TypeInv, NEW s \in Sessions,
           sess' = [sess EXCEPT ![s] = sess'[s]], SessionOK(s)',
           AllKept
    PROVE  Balanced'
  <1>1. s # Cron /\ sess'[Cron] = sess[Cron]
    BY DEF DepositsAssumption, TypeInv, TypeOK, Procs
  <1>2. \A t \in Sessions : t # s => sess'[t] = sess[t]
    BY DEF TypeInv, TypeOK, Procs
  <1>3. PassOK'
    BY <1>1 DEF PassOK, Balanced, TypeInv
  <1>4. ASSUME NEW t \in Sessions PROVE SessionOK(t)'
    BY <1>2 DEF SessionOK, Balanced, TypeInv, AllKept, Kept
  <1>5. QED
    BY <1>3, <1>4 DEF Balanced

\* A request that ends.
LEMMA DoneType ==
    ASSUME DepositsAssumption, TypeInv, NEW s \in Sessions, Done(s),
           AllKept
    PROVE  sess' \in [Procs -> Request] /\ Balanced'
  <1>1. sess' \in [Procs -> Request] /\ sess'[s] = Idle /\ sess' = [sess EXCEPT ![s] = sess'[s]]
    BY IdleType DEF Done, TypeInv, TypeOK, Procs
  <1>2. SessionOK(s)'
    BY <1>1 DEF SessionOK, Idle
  <1>3. QED
    BY <1>1, <1>2, OthersBalanced

\* A request that goes on at another label.
LEMMA GotoType ==
    ASSUME TypeOK, NEW s \in Procs, NEW pc \in Labels, Goto(s, pc)
    PROVE  /\ sess' \in [Procs -> Request]
           /\ sess' = [sess EXCEPT ![s] = sess'[s]]
           /\ sess'[s] = [sess[s] EXCEPT !.pc = pc]
  <1>1. [sess[s] EXCEPT !.pc = pc] \in Request
    BY ZenonT(60) DEF TypeOK, Request
  <1>2. QED
    BY <1>1 DEF Goto, TypeOK

LEMMA TypeInit == DepositsAssumption /\ Init => TypeInv
  BY IdleType DEF Init, DepositsAssumption, TypeInv, TypeOK, Balanced, PassOK, SessionOK, Deposit,
     NoDeposit, Idle, Procs, Docs

-----------------------------------------------------------------------------
(* Types: the requests that arrive *)

LEMMA ArrivalType ==
    ASSUME DepositsAssumption, TypeInv, NEW s \in Sessions, Arrivals(s)
    PROVE  TypeInv'
  <1>1. PICK d \in Deposits :
          \/ \E pdf \in BOOLEAN : TeleverserRead(s, d, pdf)
          \/ SoumettreRead(s, d) \/ RetirerRead(s, d)
          \/ \E g \in Directors :
                \/ \E op \in {"designer", "reattribuer"} : DirecteurRead(s, d, op, g)
                \/ \E op \in {"valider", "refuser"} : DeciderRead(s, d, op, g)
          \/ \E r \in Records : RattacherRead(s, d, r)
    BY DEF Arrivals
  <1>d. /\ dep \in [Deposits -> Deposit] /\ dep[d] \in Deposit
        /\ dep[d].file \in Docs \cup {0} /\ dep[d].enc \in Docs \cup {0}
        /\ dep[d].director \in Directors \cup {Nobody}
        /\ dep[d].encStatus \in {"null", "pending", "ready", "failed"}
        /\ minted \in Nat /\ MaxDocs \in Nat
    BY DEF TypeInv, TypeOK, Deposit, DepositsAssumption
  \* A handler that only reads: it is enough that what it keeps has its types.
  <1>r. ASSUME NEW op \in OpNames, NEW next \in Request, Begin(s, op, d, next),
               UNCHANGED <<db, clear, cipher, clock, told, faults>>,
               minted' \in 0..MaxDocs, SessionOK(s)'
        PROVE  TypeInv'
    <2>1. sess' \in [Procs -> Request] /\ sess' = [sess EXCEPT ![s] = sess'[s]]
      BY <1>r, BeginType DEF TypeInv
    <2>2. Balanced'
      BY <1>r, <2>1, OthersBalanced, SameIsKept DEF db
    <2>3. QED
      BY <1>r, <2>1, <2>2 DEF TypeInv, TypeOK, db
  <1>2. ASSUME NEW pdf \in BOOLEAN, TeleverserRead(s, d, pdf) PROVE TypeInv'
    <2> DEFINE next == [Idle EXCEPT !.pc = "put", !.doc = minted + 1,
                          !.file = dep[d].file, !.enc = dep[d].enc,
                          !.encStatus = IF pdf THEN "null" ELSE "pending"]
    <2>1. minted + 1 \in Docs
      BY <1>2, <1>d DEF TeleverserRead, Docs
    <2>2. next \in Request
      BY ZenonT(60), <1>d, <2>1 DEF Idle, Request, Labels
    <2>3. Begin(s, "televerser", d, next)
      BY <1>2 DEF TeleverserRead
    <2> HIDE DEF next
    <2>4. sess'[s] = Begun(next, "televerser", d) /\ dep[d].status # "absent"
      BY <2>2, <2>3, BeginType DEF TypeInv, OpNames
    <2>5. SessionOK(s)'
      BY <1>2, <2>1, <2>4 DEF next, Begun, SessionOK, Idle, TeleverserRead, db
    <2>6. minted' \in 0..MaxDocs
      BY <1>2, <1>d DEF TeleverserRead
    <2>7. QED
      BY <1>2, <2>2, <2>3, <2>5, <2>6, <1>r DEF TeleverserRead, OpNames
  <1>3. CASE SoumettreRead(s, d)
    <2> DEFINE next == [Idle EXCEPT !.pc = "write"]
    <2>1. next \in Request /\ Begin(s, "soumettre", d, next)
      BY <1>3 DEF SoumettreRead, Idle, Request, Labels
    <2> HIDE DEF next
    <2>2. sess'[s] = Begun(next, "soumettre", d) /\ dep[d].status # "absent"
      BY <2>1, BeginType DEF TypeInv, OpNames
    <2>3. SessionOK(s)'
      BY <1>3, <1>d, <2>2 DEF next, Begun, SessionOK, Idle, SoumettreRead, db
    <2>4. QED
      BY <1>3, <1>d, <2>1, <2>3, <1>r DEF SoumettreRead, store, OpNames, TypeInv, TypeOK
  <1>4. CASE RetirerRead(s, d)
    <2> DEFINE next == [Idle EXCEPT !.pc = "write"]
    <2>1. next \in Request /\ Begin(s, "retirer", d, next)
      BY <1>4 DEF RetirerRead, Idle, Request, Labels
    <2> HIDE DEF next
    <2>2. sess'[s] = Begun(next, "retirer", d) /\ dep[d].status # "absent"
      BY <2>1, BeginType DEF TypeInv, OpNames
    <2>3. SessionOK(s)'
      BY <1>4, <2>2 DEF next, Begun, SessionOK, Idle, RetirerRead, db
    <2>4. QED
      BY <1>4, <2>1, <2>3, <1>r DEF RetirerRead, store, OpNames, TypeInv, TypeOK
  <1>5. ASSUME NEW g \in Directors, NEW op \in {"designer", "reattribuer"},
               DirecteurRead(s, d, op, g)
        PROVE  TypeInv'
    <2> DEFINE next == [Idle EXCEPT !.pc = "write", !.user = g]
    <2>1. next \in Request /\ Begin(s, op, d, next)
      BY <1>5 DEF DirecteurRead, Idle, Request, Labels
    <2> HIDE DEF next
    <2>2. sess'[s] = Begun(next, op, d) /\ dep[d].status # "absent"
      BY <2>1, BeginType DEF TypeInv, OpNames
    <2>3. SessionOK(s)'
      BY <1>5, <2>2 DEF next, Begun, SessionOK, Idle, DirecteurRead, db
    <2>4. QED
      BY <1>5, <2>1, <2>3, <1>r DEF DirecteurRead, store, OpNames, TypeInv, TypeOK
  <1>6. ASSUME NEW g \in Directors, NEW op \in {"valider", "refuser"}, DeciderRead(s, d, op, g)
        PROVE  TypeInv'
    <2> DEFINE next == [Idle EXCEPT !.pc = "write", !.user = g]
    <2>1. next \in Request /\ Begin(s, op, d, next)
      BY <1>6 DEF DeciderRead, Idle, Request, Labels
    <2> HIDE DEF next
    <2>2. sess'[s] = Begun(next, op, d) /\ dep[d].status # "absent"
      BY <2>1, BeginType DEF TypeInv, OpNames
    <2>3. SessionOK(s)'
      BY <1>6, <2>2 DEF next, Begun, SessionOK, Idle, DeciderRead, db
    <2>4. QED
      BY <1>6, <2>1, <2>3, <1>r DEF DeciderRead, store, OpNames, TypeInv, TypeOK
  <1>7. ASSUME NEW r \in Records, RattacherRead(s, d, r) PROVE TypeInv'
    <2> DEFINE next == [Idle EXCEPT !.pc = "write", !.record = r,
                          !.file = dep[d].file, !.enc = dep[d].enc,
                          !.encStatus = dep[d].encStatus]
    <2>1. next \in Request /\ Begin(s, "rattacher", d, next)
      BY <1>7, <1>d DEF RattacherRead, Idle, Request, Labels
    <2> HIDE DEF next
    <2>2. sess'[s] = Begun(next, "rattacher", d) /\ dep[d].status # "absent"
      BY <2>1, BeginType DEF TypeInv, OpNames
    <2>3. SessionOK(s)'
      BY <1>7, <1>d, <2>2 DEF next, Begun, SessionOK, Idle, RattacherRead, db
    <2>4. QED
      BY <1>7, <2>1, <2>3, <1>r DEF RattacherRead, store, OpNames, TypeInv, TypeOK
  <1>8. QED
    BY <1>1, <1>2, <1>3, <1>4, <1>5, <1>6, <1>7

-----------------------------------------------------------------------------
(* Types: the requests that go on, and the pass *)

LEMMA UploadedType ==
    ASSUME NEW row \in Deposit, NEW q \in Request, q.doc \in Docs
    PROVE  Uploaded(row, q) \in Deposit
  <1> DEFINE enc == IF q.encStatus = "ready" THEN q.doc ELSE row.enc
  <1>1. enc \in Docs \cup {0} /\ q.encStatus \in {"null", "pending", "ready", "failed"}
    BY DEF Request, Deposit
  <1>2. Uploaded(row, q) = [row EXCEPT !.file = q.doc, !.named = TRUE,
                              !.encStatus = q.encStatus, !.enc = enc]
    BY DEF Uploaded
  <1> HIDE DEF enc
  <1>3. QED
    BY <1>1, <1>2 DEF Deposit

Decided(row, op, g) ==
    [row EXCEPT !.status = Verdict(op), !.decidedAt = clock, !.decidedBy = g,
                !.judged = row.file]

LEMMA DecidedType ==
    ASSUME clock \in Nat, NEW row \in Deposit, NEW op, NEW g \in Directors \cup {Nobody}
    PROVE  Decided(row, op, g) \in Deposit /\ Kept(row, Decided(row, op, g))
  <1>1. Verdict(op) \in ETATS_DEPOT /\ Verdict(op) # "absent"
    BY DEF Verdict, ETATS_DEPOT
  <1>2. QED
    BY ZenonT(60), <1>1 DEF Decided, Deposit, Kept

LEMMA StepType ==
    ASSUME DepositsAssumption, TypeInv, NEW s \in Sessions, Step(s)
    PROVE  TypeInv'
  <1> DEFINE q == sess[s]
  <1>q. /\ q \in Request /\ SessionOK(s) /\ s \in Procs
        /\ dep \in [Deposits -> Deposit] /\ copies \in [Deposits -> Seq(Copy)]
    BY DEF TypeInv, TypeOK, Balanced, Procs
  <1>f. /\ MaxFaults \in Nat /\ faults \in 0..MaxFaults
        /\ Fault => faults' \in 0..MaxFaults
    BY DEF TypeInv, TypeOK, DepositsAssumption, Fault
  <1>g. ASSUME NEW pc \in Labels, Goto(s, pc), UNCHANGED dep,
               pc \in {"ingest", "write", "cleanEnc"} => q.op = "televerser",
               pc \in {"notify", "mark"} =>
                  q.op \in {"soumettre", "reattribuer"} /\ q.user \in Directors,
               pc \in {"ingest", "write", "cleanEnc", "notify", "mark"}, q.op # "idle"
        PROVE  sess' \in [Procs -> Request] /\ Balanced'
    <2>1. /\ sess' \in [Procs -> Request] /\ sess' = [sess EXCEPT ![s] = sess'[s]]
          /\ sess'[s] = [q EXCEPT !.pc = pc]
      BY <1>g, <1>q, GotoType DEF TypeInv
    <2>2. SessionOK(s)'
      BY <1>g, <1>q, <2>1 DEF SessionOK, Request
    <2>3. QED
      BY <1>g, <2>1, <2>2, OthersBalanced, SameIsKept
  <1>1. CASE TeleverserPut(s)
    <2>1. sess' \in [Procs -> Request] /\ Balanced'
      BY <1>1, <1>q, <1>g DEF TeleverserPut, At, SessionOK, Labels, db
    <2>2. QED
      BY <1>1, <1>q, <2>1 DEF TeleverserPut, At, SessionOK, TypeInv, TypeOK, db
  <1>2. ASSUME NEW outcome \in {"ready", "failed"}, TeleverserIngest(s, outcome) PROVE TypeInv'
    <2>1. [q EXCEPT !.pc = "write", !.encStatus = outcome] \in Request
      BY ZenonT(60), <1>q DEF Request, Labels
    <2>2. /\ sess' \in [Procs -> Request] /\ sess' = [sess EXCEPT ![s] = sess'[s]]
          /\ sess'[s] = [q EXCEPT !.pc = "write", !.encStatus = outcome]
      BY <1>2, <1>q, <2>1 DEF TeleverserIngest, TypeInv, TypeOK
    <2>3. SessionOK(s)'
      BY <1>2, <1>q, <2>2 DEF TeleverserIngest, At, SessionOK, Request, db
    <2>4. Balanced'
      BY <1>2, <2>2, <2>3, OthersBalanced, SameIsKept DEF TeleverserIngest, db
    <2>5. QED
      BY <1>2, <1>q, <2>2, <2>4 DEF TeleverserIngest, At, SessionOK, TypeInv, TypeOK, db
  <1>3. CASE TeleverserWrite(s)
    <2> DEFINE row == Uploaded(dep[q.id], q)
    <2>1. q.id \in Deposits /\ q.doc \in Docs /\ q.op = "televerser" /\ dep[q.id] \in Deposit
      BY <1>3, <1>q DEF TeleverserWrite, At, SessionOK
    <2>2. row \in Deposit /\ Kept(dep[q.id], row)
      BY ZenonT(60), <2>1, <1>q, UploadedType DEF Uploaded, Deposit, Kept
    <2>3. dep' \in [Deposits -> Deposit]
      BY <1>3, <1>q, <2>1, <2>2 DEF TeleverserWrite
    <2>4. AllKept
      BY <1>3, <1>q, <2>1, <2>2 DEF TeleverserWrite, AllKept, Kept
    <2> DEFINE enc == IF q.enc = row.enc THEN 0 ELSE q.enc
    <2>e. enc \in Docs \cup {0}
      BY <1>q DEF Request
    <2>w. sess' = [sess EXCEPT ![s] = [q EXCEPT !.pc = "clean", !.enc = enc]]
      BY <1>3, <1>q DEF TeleverserWrite, TypeInv, TypeOK
    <2> HIDE DEF row, enc
    <2>5. [q EXCEPT !.pc = "clean", !.enc = enc] \in Request
      BY ZenonT(60), <1>q, <2>e DEF Request, Labels
    <2>6. /\ sess' \in [Procs -> Request] /\ sess' = [sess EXCEPT ![s] = sess'[s]]
          /\ sess'[s] = [q EXCEPT !.pc = "clean", !.enc = enc]
      BY <1>q, <2>w, <2>5 DEF TypeInv, TypeOK
    <2>7. SessionOK(s)'
      BY <1>q, <2>1, <2>4, <2>6 DEF SessionOK, Request, AllKept, Kept
    <2>8. Balanced'
      BY <2>4, <2>6, <2>7, OthersBalanced
    <2>9. QED
      BY <1>3, <2>3, <2>6, <2>8 DEF TeleverserWrite, store, TypeInv, TypeOK
  <1>4. CASE TeleverserClean(s)
    <2>1. sess' \in [Procs -> Request] /\ Balanced'
      BY <1>4, <1>q, <1>g DEF TeleverserClean, At, SessionOK, Labels, db
    <2>2. QED
      BY <1>4, <1>f, <2>1 DEF TeleverserClean, TypeInv, TypeOK, db
  <1>5. CASE TeleverserCleanEnc(s)
    <2>1. sess' \in [Procs -> Request] /\ Balanced'
      BY <1>5, DoneType, SameIsKept DEF TeleverserCleanEnc, db
    <2>2. QED
      BY <1>5, <1>f, <2>1 DEF TeleverserCleanEnc, TypeInv, TypeOK, db
  <1>6. CASE SoumettreWrite(s)
    <2>1. q.id \in Deposits /\ dep[q.id] \in Deposit /\ dep[q.id].director \in Directors
      BY <1>6, <1>q DEF SoumettreWrite, At, SessionOK
    <2>r. [dep[q.id] EXCEPT !.status = "soumis"] \in Deposit
      BY <2>1 DEF Deposit, ETATS_DEPOT
    <2>w. dep' = [dep EXCEPT ![q.id] = [dep[q.id] EXCEPT !.status = "soumis"]]
      BY <1>6 DEF SoumettreWrite
    <2>2. dep' \in [Deposits -> Deposit]
      BY <1>q, <2>1, <2>r, <2>w
    <2>3. AllKept
      BY <1>6, <1>q, <2>1 DEF SoumettreWrite, Deposit, AllKept, Kept
    <2>4. sess' \in [Procs -> Request] /\ Balanced'
      <3>1. CASE Done(s)
        BY <2>3, <3>1, DoneType
      <3>2. CASE sess' = [sess EXCEPT ![s].pc = "notify", ![s].user = dep[q.id].director]
        <4>1. [q EXCEPT !.pc = "notify", !.user = dep[q.id].director] \in Request
          BY <1>q, <2>1 DEF Request, Labels
        <4>2. /\ sess' \in [Procs -> Request] /\ sess' = [sess EXCEPT ![s] = sess'[s]]
              /\ sess'[s] = [q EXCEPT !.pc = "notify", !.user = dep[q.id].director]
          BY <1>q, <3>2, <4>1 DEF TypeInv, TypeOK
        <4>3. SessionOK(s)'
          BY <1>6, <1>q, <2>1, <2>3, <4>2 DEF SoumettreWrite, At, SessionOK, Request, AllKept, Kept
        <4>4. QED
          BY <2>3, <4>2, <4>3, OthersBalanced
      <3>3. QED
        BY <1>6, <3>1, <3>2 DEF SoumettreWrite
    <2>5. QED
      BY <1>6, <2>2, <2>4 DEF SoumettreWrite, store, TypeInv, TypeOK
  <1>7. CASE RetirerWrite(s) \/ DeciderWrite(s)
    <2>1. q.id \in Deposits /\ dep[q.id] \in Deposit /\ clock \in Nat
      BY <1>7, <1>q DEF RetirerWrite, DeciderWrite, At, SessionOK, TypeInv, TypeOK
    <2>2. PICK row \in Deposit :
             dep' = [dep EXCEPT ![q.id] = row] /\ Kept(dep[q.id], row)
      <3>1. CASE RetirerWrite(s)
        <4> DEFINE row == [dep[q.id] EXCEPT !.status = "brouillon"]
        <4>1. row \in Deposit /\ Kept(dep[q.id], row)
          BY <2>1 DEF Deposit, ETATS_DEPOT, Kept
        <4>2. dep' = [dep EXCEPT ![q.id] = row]
          BY <1>q, <2>1, <3>1 DEF RetirerWrite
        <4>3. QED
          BY <4>1, <4>2
      <3>2. CASE DeciderWrite(s)
        <4> DEFINE row == Decided(dep[q.id], q.op, q.user)
        <4>1. row \in Deposit /\ Kept(dep[q.id], row)
          BY <1>q, <2>1, DecidedType DEF Request
        <4>2. dep' = [dep EXCEPT ![q.id] = row]
          BY <1>q, <2>1, <3>2 DEF DeciderWrite, Decided
        <4>3. QED
          BY <4>1, <4>2
      <3>3. QED
        BY <1>7, <3>1, <3>2
    <2>3. dep' \in [Deposits -> Deposit] /\ AllKept
      BY <1>q, <2>1, <2>2 DEF AllKept, Kept
    <2>4. sess' \in [Procs -> Request] /\ Balanced'
      BY <1>7, <2>3, DoneType DEF RetirerWrite, DeciderWrite
    <2>5. QED
      BY <1>7, <2>3, <2>4 DEF RetirerWrite, DeciderWrite, store, TypeInv, TypeOK
  <1>8. CASE DirecteurWrite(s)
    <2>1. q.id \in Deposits /\ dep[q.id] \in Deposit /\ q.user \in Directors
      BY <1>8, <1>q DEF DirecteurWrite, At, SessionOK
    <2>2. dep' \in [Deposits -> Deposit]
      BY <1>8, <1>q, <2>1 DEF DirecteurWrite, Deposit
    <2>3. AllKept
      BY <1>8, <1>q, <2>1 DEF DirecteurWrite, Deposit, AllKept, Kept
    <2>4. sess' \in [Procs -> Request] /\ Balanced'
      <3>1. CASE Done(s)
        BY <2>3, <3>1, DoneType
      <3>2. CASE q.op = "reattribuer" /\ Goto(s, "notify")
        <4>1. /\ sess' \in [Procs -> Request] /\ sess' = [sess EXCEPT ![s] = sess'[s]]
              /\ sess'[s] = [q EXCEPT !.pc = "notify"]
          BY <1>q, <3>2, GotoType DEF TypeInv, Labels
        <4>2. SessionOK(s)'
          BY <1>q, <2>1, <2>3, <3>2, <4>1 DEF SessionOK, Request, AllKept, Kept
        <4>3. QED
          BY <2>3, <4>1, <4>2, OthersBalanced
      <3>3. QED
        BY <1>8, <3>1, <3>2 DEF DirecteurWrite, At
    <2>5. QED
      BY <1>8, <2>2, <2>4 DEF DirecteurWrite, store, TypeInv, TypeOK
  <1>9. CASE RattacherWrite(s)
    <2>1. /\ q.id \in Deposits /\ dep[q.id] \in Deposit /\ q.file \in Docs
          /\ q.enc \in Docs \cup {0} /\ q.record \in Records
          /\ q.encStatus \in {"null", "pending", "ready", "failed"}
      BY <1>9, <1>q DEF RattacherWrite, At, SessionOK, Request
    <2>2. dep' \in [Deposits -> Deposit]
      BY ZenonT(60), <1>9, <1>q, <2>1 DEF RattacherWrite, Deposit
    <2>3. AllKept
      BY <1>9, <1>q, <2>1 DEF RattacherWrite, Deposit, AllKept, Kept
    <2>4. sess' \in [Procs -> Request] /\ Balanced'
      BY <1>9, <2>3, DoneType DEF RattacherWrite
    <2>5. copies' \in [Deposits -> Seq(Copy)]
      <3> DEFINE copy == [record |-> q.record, doc |-> q.file, enc |-> q.enc,
                          encStatus |-> q.encStatus]
      <3>1. copy \in Copy
        BY <2>1 DEF Copy
      <3>2. copies' = [copies EXCEPT ![q.id] = Append(@, copy)]
        BY <1>9 DEF RattacherWrite
      <3> HIDE DEF copy
      <3>3. Append(copies[q.id], copy) \in Seq(Copy)
        BY <1>q, <2>1, <3>1
      <3>4. QED
        BY <1>q, <3>2, <3>3
    <2>6. QED
      BY <1>9, <2>2, <2>4, <2>5 DEF RattacherWrite, store, TypeInv, TypeOK
  <1>10. CASE MarquerPrevenu(s)
    <2>1. q.id \in Deposits /\ dep[q.id] \in Deposit /\ q.user \in Directors
      BY <1>10, <1>q DEF MarquerPrevenu, SessionOK
    <2>2. dep' \in [Deposits -> Deposit]
      BY <1>10, <1>q, <2>1 DEF MarquerPrevenu, Deposit
    <2>3. AllKept
      BY <1>10, <1>q, <2>1 DEF MarquerPrevenu, Deposit, AllKept, Kept
    <2>4. sess' \in [Procs -> Request] /\ Balanced'
      BY <1>10, <2>3, DoneType DEF MarquerPrevenu
    <2>5. QED
      BY <1>10, <2>2, <2>4 DEF MarquerPrevenu, store, TypeInv, TypeOK
  <1>11. ASSUME NEW sent \in BOOLEAN, NotifierDirecteur(s, sent) PROVE TypeInv'
    <2>1. q.id \in Deposits /\ q.user \in Directors /\ q.op \in {"soumettre", "reattribuer"}
      BY <1>11, <1>q DEF NotifierDirecteur, SessionOK
    <2>2. sess' \in [Procs -> Request] /\ Balanced'
      <3>1. CASE Done(s)
        BY <1>11, <3>1, DoneType, SameIsKept DEF NotifierDirecteur, db
      <3>2. CASE Goto(s, "mark")
        BY <1>11, <2>1, <3>2, <1>g DEF NotifierDirecteur, db, Labels
      <3>3. QED
        BY <1>11, <3>1, <3>2 DEF NotifierDirecteur, AfterMail
    <2>3. told' \subseteq Deposits \X Directors
      BY <1>11, <2>1 DEF NotifierDirecteur, TypeInv, TypeOK
    <2>4. QED
      BY <1>11, <2>2, <2>3 DEF NotifierDirecteur, store, db, TypeInv, TypeOK
  <1>12. QED
    BY <1>1, <1>2, <1>3, <1>4, <1>5, <1>6, <1>7, <1>8, <1>9, <1>10, <1>11 DEF Step

\* The pass takes a deposit from its list.
Taken(q, c) == [q EXCEPT !.pc = "purge", !.id = c.id, !.file = c.file, !.enc = c.enc,
                         !.todo = @ \ {c}]

\* The pass changes its own session, and columns of no director.
LEMMA PurgeType ==
    ASSUME DepositsAssumption, TypeInv, PurgeStart \/ PurgeStep
    PROVE  TypeInv'
  <1> DEFINE q == sess[Cron]
  <1>q. /\ q \in Request /\ PassOK /\ Cron \in Procs /\ Cron \notin Sessions /\ clock \in Nat
        /\ dep \in [Deposits -> Deposit] /\ sess \in [Procs -> Request]
    BY DEF TypeInv, TypeOK, Balanced, Procs, DepositsAssumption
  <1>f. /\ MaxFaults \in Nat /\ faults \in 0..MaxFaults
        /\ Fault => faults' \in 0..MaxFaults
    BY DEF TypeInv, TypeOK, DepositsAssumption, Fault
  <1>s. ASSUME NEW next \in Request, sess' = [sess EXCEPT ![Cron] = next],
               next.op \in {"idle", "purge"},
               next.pc \in {"idle", "each", "purge", "purgeEnc", "log", "forget"},
               next.op = "idle" <=> next.pc = "idle",
               next.pc \notin {"idle", "each"} => next.id \in Deposits,
               AllKept
        PROVE  sess' \in [Procs -> Request] /\ Balanced'
    <2>1. /\ sess' \in [Procs -> Request] /\ sess'[Cron] = next
          /\ \A s \in Sessions : sess'[s] = sess[s]
      BY <1>s, <1>q DEF Procs
    <2>2. PassOK'
      BY <1>s, <2>1 DEF PassOK
    <2>3. ASSUME NEW s \in Sessions PROVE SessionOK(s)'
      BY <1>s, <2>1 DEF SessionOK, Balanced, TypeInv, AllKept, Kept
    <2>4. QED
      BY <2>1, <2>2, <2>3 DEF Balanced
  <1>1. CASE PurgeStart
    <2> DEFINE todo == {[id |-> d, file |-> dep[d].file, enc |-> dep[d].enc] :
                           d \in {e \in Deposits : FichierAPurger(dep[e], clock)}}
               next == [Idle EXCEPT !.op = "purge", !.pc = "each", !.now = clock, !.todo = todo]
    <2>1. todo \subseteq [id : Deposits, file : Docs \cup {0}, enc : Docs \cup {0}]
      BY <1>q DEF Deposit
    <2>2. sess' = [sess EXCEPT ![Cron] = next]
      BY <1>1 DEF PurgeStart
    <2> HIDE DEF todo
    <2>3. next \in Request
      BY <1>q, <2>1 DEF Idle, Request, Labels
    <2>4. next.op = "purge" /\ next.pc = "each"
      BY DEF Idle
    <2> HIDE DEF next
    <2>5. sess' \in [Procs -> Request] /\ Balanced'
      BY <1>1, <2>2, <2>3, <2>4, <1>s, SameIsKept DEF PurgeStart, db
    <2>6. QED
      BY <1>1, <2>5 DEF PurgeStart, db, store, TypeInv, TypeOK
  <1>2. CASE PurgeNext
    <2>1. PICK c \in q.todo : sess' = [sess EXCEPT ![Cron] = Taken(sess[Cron], c)]
      BY <1>2 DEF PurgeNext, Taken
    <2> DEFINE next == Taken(q, c)
    <2>2. c \in [id : Deposits, file : Docs \cup {0}, enc : Docs \cup {0}]
      BY <1>q DEF Request
    <2>3. next \in Request /\ next.op = "purge" /\ next.pc = "purge" /\ next.id \in Deposits
      BY ZenonT(60), <1>2, <1>q, <2>2 DEF Taken, PurgeNext, PassOK, Request, Labels
    <2>e. sess' = [sess EXCEPT ![Cron] = next]
      BY <1>q, <2>1
    <2> HIDE DEF next
    <2>4. sess' \in [Procs -> Request] /\ Balanced'
      BY <1>2, <2>e, <2>3, <1>s, SameIsKept DEF PurgeNext, db
    <2>5. QED
      BY <1>2, <2>4 DEF PurgeNext, db, store, TypeInv, TypeOK
  <1>g. ASSUME NEW pc \in {"purgeEnc", "log", "forget"}, Goto(Cron, pc), UNCHANGED dep,
               q.pc \in {"purge", "purgeEnc", "log"}
        PROVE  sess' \in [Procs -> Request] /\ Balanced'
    <2> DEFINE next == [q EXCEPT !.pc = pc]
    <2>1. next \in Request /\ next.op = "purge" /\ next.pc = pc /\ next.id \in Deposits
      BY <1>g, <1>q DEF PassOK, Request, Labels
    <2>2. sess' = [sess EXCEPT ![Cron] = next]
      BY <1>g, <1>q DEF Goto
    <2> HIDE DEF next
    <2>3. QED
      BY <1>g, <2>1, <2>2, <1>s, SameIsKept
  <1>3. CASE PurgeClear
    BY <1>3, <1>f, <1>g DEF PurgeClear, db, TypeInv, TypeOK
  <1>4. CASE PurgeEnc
    BY <1>4, <1>f, <1>g DEF PurgeEnc, db, TypeInv, TypeOK
  <1>i. ASSUME Done(Cron), UNCHANGED dep PROVE sess' \in [Procs -> Request] /\ Balanced'
    <2>1. Idle.op = "idle" /\ Idle.pc = "idle"
      BY DEF Idle
    <2>2. QED
      BY <1>i, <2>1, <1>s, IdleType, SameIsKept DEF Done
  <1>5. CASE PurgeLog
    <2>1. sess' \in [Procs -> Request] /\ Balanced'
      BY <1>5, <1>g, <1>i DEF PurgeLog, Unlogged
    <2>2. audit' \subseteq Deposits
      BY <1>5, <1>q DEF PurgeLog, PassOK, TypeInv, TypeOK
    <2>3. QED
      BY <1>5, <1>f, <2>1, <2>2 DEF PurgeLog, store, TypeInv, TypeOK
  <1>6. CASE PurgeForget
    <2> DEFINE next == [q EXCEPT !.pc = "each", !.id = Nobody, !.file = 0, !.enc = 0]
    <2>1. next \in Request /\ next.op = "purge" /\ next.pc = "each"
      BY <1>6, <1>q DEF PurgeForget, PassOK, Request, Labels
    <2>2. q.id \in Deposits /\ dep[q.id] \in Deposit
      BY <1>6, <1>q DEF PurgeForget, PassOK
    <2>3. dep' \in [Deposits -> Deposit] /\ AllKept
      BY <1>6, <1>q, <2>2 DEF PurgeForget, Deposit, AllKept, Kept
    <2>e. sess' = [sess EXCEPT ![Cron] = next]
      BY <1>6 DEF PurgeForget
    <2> HIDE DEF next
    <2>4. sess' \in [Procs -> Request] /\ Balanced'
      BY <2>e, <2>1, <2>3, <1>s
    <2>5. QED
      BY <1>6, <2>3, <2>4 DEF PurgeForget, store, TypeInv, TypeOK
  <1>7. CASE PurgeEnd
    <2>1. sess' \in [Procs -> Request] /\ Balanced'
      BY <1>7, <1>i DEF PurgeEnd, db
    <2>2. QED
      BY <1>7, <2>1 DEF PurgeEnd, db, store, TypeInv, TypeOK
  <1>8. QED
    BY <1>1, <1>2, <1>3, <1>4, <1>5, <1>6, <1>7 DEF PurgeStep

LEMMA WorldType ==
    ASSUME DepositsAssumption, TypeInv,
           \/ \E d \in Deposits, g \in Directors \cup {Nobody} : Creer(d, g)
           \/ \E s \in Procs : Abort(s)
           \/ Module \/ Tick
    PROVE  TypeInv'
  <1>1. ASSUME NEW d \in Deposits, NEW g \in Directors \cup {Nobody}, Creer(d, g) PROVE TypeInv'
    <2>1. dep \in [Deposits -> Deposit] /\ dep[d] \in Deposit
      BY DEF TypeInv, TypeOK
    <2>2. [dep[d] EXCEPT !.status = "brouillon", !.director = g] \in Deposit
      BY <2>1 DEF Deposit, ETATS_DEPOT
    <2>3. dep' = [dep EXCEPT ![d] = [dep[d] EXCEPT !.status = "brouillon", !.director = g]]
      BY <1>1, <2>1 DEF Creer, ETAT_INITIAL
    <2>4. dep' \in [Deposits -> Deposit] /\ \A e \in Deposits : e # d => dep'[e] = dep[e]
      BY <2>1, <2>2, <2>3
    <2>5. \A s \in Sessions : sess[s].op # "idle" => sess[s].id # d
      BY <1>1 DEF Creer, SessionOK, Balanced, TypeInv
    <2>6. ASSUME NEW s \in Sessions PROVE SessionOK(s)'
      BY <1>1, <2>4, <2>5 DEF Creer, SessionOK, Balanced, TypeInv
    <2>7. PassOK'
      BY <1>1 DEF Creer, PassOK, Balanced, TypeInv
    <2>8. QED
      BY <1>1, <2>4, <2>6, <2>7 DEF Creer, store, Balanced, TypeInv, TypeOK
  <1>2. ASSUME NEW s \in Procs, Abort(s) PROVE TypeInv'
    <2>1. MaxFaults \in Nat /\ faults' \in 0..MaxFaults
      BY <1>2 DEF Abort, Fault, DepositsAssumption, TypeInv, TypeOK
    <2>2. sess' \in [Procs -> Request] /\ Balanced'
      <3>1. CASE s \in Sessions
        BY <1>2, <3>1, DoneType, SameIsKept DEF Abort, db
      <3>2. CASE s = Cron
        <4>1. /\ sess' \in [Procs -> Request] /\ sess'[Cron] = Idle
              /\ \A t \in Sessions : sess'[t] = sess[t]
          BY <1>2, <3>2, IdleType DEF Abort, Done, Procs, DepositsAssumption, TypeInv, TypeOK
        <4>2. PassOK' /\ \A t \in Sessions : SessionOK(t)'
          BY <1>2, <4>1 DEF Abort, db, PassOK, SessionOK, Idle, Balanced, TypeInv
        <4>3. QED
          BY <4>1, <4>2 DEF Balanced
      <3>3. QED
        BY <3>1, <3>2 DEF Procs
    <2>3. QED
      BY <1>2, <2>1, <2>2 DEF Abort, db, store, TypeInv, TypeOK
  <1>3. CASE Module
    BY <1>3 DEF Module, store, TypeInv, TypeOK, Balanced, PassOK, SessionOK
  <1>4. CASE Tick
    BY <1>4 DEF Tick, db, store, DepositsAssumption, TypeInv, TypeOK, Balanced, PassOK, SessionOK
  <1>5. QED
    BY <1>1, <1>2, <1>3, <1>4

LEMMA TypeNext == ASSUME DepositsAssumption, TypeInv, [Next]_vars PROVE TypeInv'
  <1>1. CASE UNCHANGED vars
    BY <1>1 DEF vars, db, store, TypeInv, TypeOK, Balanced, PassOK, SessionOK
  <1>2. QED
    BY <1>1, ArrivalType, StepType, PurgeType, WorldType DEF Next

\* Rows, stored objects and requests keep their shapes, whatever overlaps, dies or
\* is refused by the store.
THEOREM TypeCorrect == Spec => []TypeOK
  <1>1. Init => TypeInv
    BY TypeInit, DepositsAssumption
  <1>2. TypeInv /\ [Next]_vars => TypeInv'
    BY TypeNext, DepositsAssumption
  <1>3. TypeInv => TypeOK
    BY DEF TypeInv
  <1>4. QED
    BY <1>1, <1>2, <1>3, PTL DEF Spec

-----------------------------------------------------------------------------
(* The invariants of the races *)

\* A mark is written by a request whose message left.
Marked ==
    /\ MarkedWasTold
    /\ \A s \in Sessions : sess[s].pc = "mark" => <<sess[s].id, sess[s].user>> \in told

\* A request or a pass sees midnight once.  A request on a refused deposit is older
\* than the refusal: no handler starts on a refused deposit.
TimeInv ==
    /\ \A s \in Procs : sess[s].op # "idle" =>
          sess[s].now <= clock /\ clock <= sess[s].now + 1
    /\ \A s \in Sessions :
          sess[s].op # "idle" /\ dep[sess[s].id].status = "refuse" =>
              sess[s].now <= dep[sess[s].id].decidedAt

\* What the pass has read of its rows is still there, as nobody writes them.
Read(c) == OldRefusal(c.id) /\ c.file = dep[c.id].file /\ c.enc = dep[c.id].enc
PassInv ==
    LET q == sess[Cron] IN
    /\ \A c \in q.todo : Read(c)
    /\ q.pc \in {"purge", "purgeEnc", "log", "forget"} =>
          Read(q) /\ \A c \in q.todo : c.id # q.id
    /\ q.pc = "forget" => q.id \in audit

\* Documents are named by one row at most, and those of an upload that has not
\* written its row by nobody.
Fresh(s) == sess[s].op = "televerser" /\ sess[s].pc \in {"put", "ingest", "write"}
Names(r, doc) == doc # 0 /\ doc \in {r.file, r.enc}
NameInv ==
    /\ \A d \in Deposits : dep[d].file <= minted /\ dep[d].enc <= minted
    /\ \A s \in Sessions :
          sess[s].doc <= minted /\ sess[s].file <= minted /\ sess[s].enc <= minted
    /\ \A d, e \in Deposits : Names(dep[e], dep[d].file) => d = e
    /\ \A s \in Sessions : Fresh(s) =>
          /\ \A d \in Deposits : ~Names(dep[d], sess[s].doc)
          /\ \A t \in Sessions : ~Names(sess[t], sess[s].doc)
          /\ \A t \in Sessions : Fresh(t) /\ t # s => sess[t].doc # sess[s].doc
    /\ \A s \in Sessions, d \in Deposits :
          sess[s].op = "televerser" /\ Names(sess[s], dep[d].file) => Fresh(s) /\ d = sess[s].id

\* What a row names is in the store until the refusal is old; what an upload will
\* name is there once it was put.  A row without a document is a draft, or was purged.
StoreInv ==
    /\ \A d \in Deposits :
          /\ dep[d].file # 0 => OldRefusal(d) \/ dep[d].file \in clear
          /\ dep[d].encStatus = "ready" =>
                dep[d].enc = dep[d].file /\ (OldRefusal(d) \/ dep[d].enc \in cipher)
          /\ dep[d].file = 0 =>
                dep[d].status \in {"absent", "brouillon"} \/ (OldRefusal(d) /\ d \in audit)
    /\ \A s \in Sessions : Fresh(s) =>
          /\ sess[s].pc # "put" => sess[s].doc \in clear
          /\ sess[s].encStatus = "ready" => sess[s].pc = "write" /\ sess[s].doc \in cipher
    /\ \A s \in Sessions :
          sess[s].op \notin {"idle", "televerser", "designer"} => dep[sess[s].id].file # 0

RaceInv == Marked /\ TimeInv /\ PassInv /\ NameInv /\ StoreInv

-----------------------------------------------------------------------------
(* What a step of a request does *)

OnlySession(s) == \A t \in Procs : t # s => sess'[t] = sess[t]

\* A request that arrives writes nothing but the number of its upload.
Arrived(s, d) ==
    LET q == sess'[s] IN
    /\ OnlySession(s)
    /\ sess[s].op = "idle" /\ q.op # "idle" /\ q.id = d /\ q.now = clock
    /\ dep[d].status \notin {"absent", "refuse"}
    /\ q.op \notin {"televerser", "designer"} =>
          dep[d].file # 0 \/ dep[d].status \in {"soumis", "valide"}
    /\ q.pc # "mark"
    /\ q.file \in {0, dep[d].file} /\ q.enc \in {0, dep[d].enc}
    /\ IF q.op = "televerser"
       THEN q.pc = "put" /\ q.doc = minted + 1 /\ minted' = minted + 1 /\ q.encStatus # "ready"
       ELSE q.doc = 0 /\ minted' = minted
    /\ UNCHANGED <<db, clear, cipher, clock, told, faults>>

LEMMA ArrivalEffect ==
    ASSUME DepositsAssumption, TypeInv, NEW s \in Sessions, Arrivals(s)
    PROVE  \E d \in Deposits : Arrived(s, d)
  <1>1. PICK d \in Deposits :
          \/ \E pdf \in BOOLEAN : TeleverserRead(s, d, pdf)
          \/ SoumettreRead(s, d) \/ RetirerRead(s, d)
          \/ \E g \in Directors :
                \/ \E op \in {"designer", "reattribuer"} : DirecteurRead(s, d, op, g)
                \/ \E op \in {"valider", "refuser"} : DeciderRead(s, d, op, g)
          \/ \E r \in Records : RattacherRead(s, d, r)
    BY DEF Arrivals
  <1>t. s \in Procs /\ sess \in [Procs -> Request]
    BY DEF TypeInv, TypeOK, Procs
  <1>d. /\ dep[d].file \in Docs \cup {0} /\ dep[d].enc \in Docs \cup {0}
        /\ dep[d].encStatus \in {"null", "pending", "ready", "failed"}
    BY DEF TypeInv, TypeOK, Deposit
  <1>b. ASSUME NEW op, NEW next, Begin(s, op, d, next)
        PROVE  /\ OnlySession(s) /\ sess[s].op = "idle" /\ dep[d].status # "absent"
               /\ sess'[s] = Begun(next, op, d)
    BY <1>b, <1>t DEF Begin, Begun, OnlySession
  <1>2. ASSUME NEW pdf \in BOOLEAN, TeleverserRead(s, d, pdf) PROVE Arrived(s, d)
    <2> DEFINE next == [Idle EXCEPT !.pc = "put", !.doc = minted + 1,
                          !.file = dep[d].file, !.enc = dep[d].enc,
                          !.encStatus = IF pdf THEN "null" ELSE "pending"]
    <2>1. Begin(s, "televerser", d, next)
      BY <1>2 DEF TeleverserRead
    <2>2. LET q == Begun(next, "televerser", d) IN
          /\ q.op = "televerser" /\ q.id = d /\ q.now = clock /\ q.pc = "put"
          /\ q.doc = minted + 1 /\ q.file = dep[d].file /\ q.enc = dep[d].enc
          /\ q.encStatus # "ready"
      BY DEF Begun, Idle
    <2> HIDE DEF next
    <2>3. /\ OnlySession(s) /\ sess[s].op = "idle" /\ dep[d].status # "absent"
          /\ sess'[s] = Begun(next, "televerser", d)
      BY <2>1, <1>b
    <2>4. QED
      BY <1>2, <2>2, <2>3 DEF Arrived, TeleverserRead, Remplacable, ETAT_INITIAL
  <1>r. ASSUME NEW op \in OpNames \ {"televerser"}, NEW next \in Request,
               Begin(s, op, d, next), next.doc = 0,
               next.pc = "write", next.file \in {0, dep[d].file}, next.enc \in {0, dep[d].enc},
               dep[d].status # "refuse",
               op # "designer" => dep[d].file # 0 \/ dep[d].status \in {"soumis", "valide"},
               UNCHANGED <<db, store, clock, told, faults>>
        PROVE  Arrived(s, d)
    <2>1. LET q == Begun(next, op, d) IN
          /\ q.op = op /\ q.id = d /\ q.now = clock /\ q.pc = "write" /\ q.doc = 0
          /\ q.file = next.file /\ q.enc = next.enc
      BY <1>r DEF Begun, Request
    <2>2. QED
      BY <1>r, <1>b, <2>1 DEF Arrived, store, OpNames
  <1>3. ASSUME SoumettreRead(s, d) PROVE Arrived(s, d)
    <2> DEFINE next == [Idle EXCEPT !.pc = "write"]
    <2>1. /\ next \in Request /\ next.doc = 0 /\ next.pc = "write"
          /\ next.file \in {0, dep[d].file} /\ next.enc \in {0, dep[d].enc}
      BY <1>d DEF Idle, Request, Labels
    <2>2. Begin(s, "soumettre", d, next)
      BY <1>3 DEF SoumettreRead
    <2> HIDE DEF next
    <2>3. QED
      BY <1>3, <2>1, <2>2, <1>r DEF SoumettreRead, Permise, OpNames
  <1>4. ASSUME RetirerRead(s, d) PROVE Arrived(s, d)
    <2> DEFINE next == [Idle EXCEPT !.pc = "write"]
    <2>1. /\ next \in Request /\ next.doc = 0 /\ next.pc = "write"
          /\ next.file \in {0, dep[d].file} /\ next.enc \in {0, dep[d].enc}
      BY <1>d DEF Idle, Request, Labels
    <2>2. Begin(s, "retirer", d, next)
      BY <1>4 DEF RetirerRead
    <2> HIDE DEF next
    <2>3. QED
      BY <1>4, <2>1, <2>2, <1>r DEF RetirerRead, Permise, OpNames
  <1>5. ASSUME NEW g \in Directors, NEW op \in {"designer", "reattribuer"},
               DirecteurRead(s, d, op, g)
        PROVE Arrived(s, d)
    <2> DEFINE next == [Idle EXCEPT !.pc = "write", !.user = g]
    <2>1. /\ next \in Request /\ next.doc = 0 /\ next.pc = "write"
          /\ next.file \in {0, dep[d].file} /\ next.enc \in {0, dep[d].enc}
      BY <1>d DEF Idle, Request, Labels
    <2>2. Begin(s, op, d, next)
      BY <1>5 DEF DirecteurRead
    <2> HIDE DEF next
    <2>3. QED
      BY <1>5, <2>1, <2>2, <1>r DEF DirecteurRead, ETAT_INITIAL, OpNames
  <1>6. ASSUME NEW g \in Directors, NEW op \in {"valider", "refuser"},
               DeciderRead(s, d, op, g)
        PROVE Arrived(s, d)
    <2> DEFINE next == [Idle EXCEPT !.pc = "write", !.user = g]
    <2>1. /\ next \in Request /\ next.doc = 0 /\ next.pc = "write"
          /\ next.file \in {0, dep[d].file} /\ next.enc \in {0, dep[d].enc}
      BY <1>d DEF Idle, Request, Labels
    <2>2. Begin(s, op, d, next)
      BY <1>6 DEF DeciderRead
    <2> HIDE DEF next
    <2>3. QED
      BY <1>6, <2>1, <2>2, <1>r DEF DeciderRead, Permise, Verdict, OpNames
  <1>7. ASSUME NEW r \in Records, RattacherRead(s, d, r) PROVE Arrived(s, d)
    <2> DEFINE next == [Idle EXCEPT !.pc = "write", !.record = r,
                          !.file = dep[d].file, !.enc = dep[d].enc,
                          !.encStatus = dep[d].encStatus]
    <2>1. /\ next \in Request /\ next.doc = 0 /\ next.pc = "write"
          /\ next.file \in {0, dep[d].file} /\ next.enc \in {0, dep[d].enc}
      BY <1>d DEF Idle, Request, Labels
    <2>2. Begin(s, "rattacher", d, next)
      BY <1>7 DEF RattacherRead
    <2> HIDE DEF next
    <2>3. QED
      BY <1>7, <2>1, <2>2, <1>r DEF RattacherRead, EnAttenteDeCatalogage, OpNames
  <1>8. QED
    BY <1>1, <1>2, <1>3, <1>4, <1>5, <1>6, <1>7

\* A request that goes on keeps what it has read, or ends, and writes its own row.
\* It decides today, or leaves the deposit undecided or as it was.
Goes(s) ==
    LET q == sess[s]  r == sess'[s]  d == q.id IN
    /\ OnlySession(s) /\ UNCHANGED <<minted, clock, audit>> /\ told \subseteq told'
    /\ q.op # "idle"
    /\ r.op # "idle" => /\ r.op = q.op /\ r.id = d /\ r.now = q.now /\ r.doc = q.doc
                        /\ r.file = q.file /\ r.enc \in {0, q.enc}
    /\ r.op = "idle" => r = Idle
    /\ \A e \in Deposits : e # d => dep'[e] = dep[e]
    /\ \/ dep'[d].status = dep[d].status /\ dep'[d].decidedAt = dep[d].decidedAt
       \/ dep'[d].status = "brouillon"
       \/ /\ q.op \in {"soumettre", "valider", "refuser"}
          /\ dep'[d].status = "refuse" => dep'[d].decidedAt = clock
          /\ dep'[d].status # "absent"
    /\ \/ dep'[d].notified = dep[d].notified
       \/ dep'[d].notified = q.user /\ q.pc = "mark"
    /\ r.pc = "mark" => <<d, r.user>> \in told'

\* Only an upload touches the store and the columns of the documents.
KeepsFiles(s) ==
    /\ sess[s].op # "televerser" /\ UNCHANGED store
    /\ \A d \in Deposits : /\ dep'[d].file = dep[d].file /\ dep'[d].enc = dep[d].enc
                           /\ dep'[d].encStatus = dep[d].encStatus
                           /\ dep'[d].judged \in {dep[d].judged, dep[d].file}

LEMMA DoneEffect ==
    ASSUME TypeInv, NEW s \in Procs, Done(s)
    PROVE  OnlySession(s) /\ sess'[s] = Idle
  BY DEF Done, OnlySession, TypeInv, TypeOK

LEMMA GotoEffect ==
    ASSUME TypeInv, NEW s \in Procs, NEW pc \in Labels, Goto(s, pc)
    PROVE  LET r == sess'[s]  q == sess[s] IN
           /\ OnlySession(s) /\ r.pc = pc /\ r.op = q.op /\ r.id = q.id /\ r.now = q.now
           /\ r.doc = q.doc /\ r.file = q.file /\ r.enc = q.enc /\ r.user = q.user
           /\ r.encStatus = q.encStatus /\ r.todo = q.todo
  BY DEF Goto, OnlySession, TypeInv, TypeOK, Request

\* The five steps of an upload.
LEMMA UploadEffect ==
    ASSUME DepositsAssumption, TypeInv, NEW s \in Sessions,
           \/ TeleverserPut(s) \/ TeleverserWrite(s)
           \/ TeleverserClean(s) \/ TeleverserCleanEnc(s)
           \/ \E outcome \in {"ready", "failed"} : TeleverserIngest(s, outcome)
    PROVE  Goes(s) /\ sess[s].op = "televerser"
  <1> DEFINE q == sess[s]
  <1>t. /\ s \in Procs /\ q \in Request /\ sess \in [Procs -> Request] /\ SessionOK(s)
        /\ dep \in [Deposits -> Deposit]
    BY DEF TypeInv, TypeOK, Balanced, Procs
  <1>i. Idle.op = "idle" /\ Idle.pc = "idle"
    BY DEF Idle
  <1>1. CASE TeleverserPut(s)
    BY <1>1, <1>t, GotoEffect DEF TeleverserPut, At, Labels, Goes, db
  <1>2. ASSUME NEW outcome \in {"ready", "failed"}, TeleverserIngest(s, outcome)
        PROVE  Goes(s) /\ q.op = "televerser"
    <2>1. sess' = [sess EXCEPT ![s] = [q EXCEPT !.pc = "write", !.encStatus = outcome]]
      BY <1>2, <1>t DEF TeleverserIngest
    <2>2. LET r == sess'[s] IN
          /\ OnlySession(s) /\ r.op = q.op /\ r.id = q.id /\ r.now = q.now /\ r.pc = "write"
          /\ r.doc = q.doc /\ r.file = q.file /\ r.enc = q.enc
      BY <1>t, <2>1 DEF OnlySession, Request
    <2>3. QED
      BY <1>2, <1>t, <2>2 DEF TeleverserIngest, At, Goes, db
  <1>3. CASE TeleverserWrite(s)
    <2> DEFINE row == Uploaded(dep[q.id], q)
               enc == IF q.enc = row.enc THEN 0 ELSE q.enc
    <2>1. q.id \in Deposits /\ q.op = "televerser" /\ dep[q.id] \in Deposit
      BY <1>3, <1>t DEF TeleverserWrite, At, SessionOK
    <2>2. /\ row.status = dep[q.id].status /\ row.decidedAt = dep[q.id].decidedAt
          /\ row.notified = dep[q.id].notified
      BY <2>1 DEF Uploaded, Deposit
    <2>3. dep'[q.id] = row /\ \A e \in Deposits : e # q.id => dep'[e] = dep[e]
      BY <1>3, <1>t, <2>1 DEF TeleverserWrite
    <2>4. sess' = [sess EXCEPT ![s] = [q EXCEPT !.pc = "clean", !.enc = enc]]
      BY <1>3, <1>t DEF TeleverserWrite
    <2>5. enc \in {0, q.enc}
      OBVIOUS
    <2> HIDE DEF row, enc
    <2>6. LET r == sess'[s] IN
          /\ OnlySession(s) /\ r.op = q.op /\ r.id = q.id /\ r.now = q.now /\ r.pc = "clean"
          /\ r.doc = q.doc /\ r.file = q.file /\ r.enc = enc
      BY <1>t, <2>4 DEF OnlySession, Request
    <2>7. UNCHANGED <<minted, clock, audit, told>>
      BY <1>3 DEF TeleverserWrite, store
    <2>8. QED
      BY <2>1, <2>2, <2>3, <2>5, <2>6, <2>7 DEF Goes
  <1>4. CASE TeleverserClean(s)
    BY <1>4, <1>t, GotoEffect DEF TeleverserClean, At, Labels, Goes, db
  <1>5. CASE TeleverserCleanEnc(s)
    BY <1>5, <1>t, <1>i, DoneEffect DEF TeleverserCleanEnc, At, Goes, db
  <1>6. QED
    BY <1>1, <1>2, <1>3, <1>4, <1>5

\* The other steps of the requests.
LEMMA WriteEffect ==
    ASSUME DepositsAssumption, TypeInv, NEW s \in Sessions,
           \/ SoumettreWrite(s) \/ RetirerWrite(s) \/ DirecteurWrite(s)
           \/ DeciderWrite(s) \/ RattacherWrite(s)
           \/ MarquerPrevenu(s) \/ \E sent \in BOOLEAN : NotifierDirecteur(s, sent)
    PROVE  Goes(s) /\ KeepsFiles(s)
  <1> DEFINE q == sess[s]
  <1>t. /\ s \in Procs /\ q \in Request /\ sess \in [Procs -> Request] /\ SessionOK(s)
        /\ dep \in [Deposits -> Deposit]
    BY DEF TypeInv, TypeOK, Balanced, Procs
  <1>i. Idle.op = "idle" /\ Idle.pc = "idle"
    BY DEF Idle
  <1>1. CASE SoumettreWrite(s)
    <2>1. q.id \in Deposits /\ q.op = "soumettre" /\ dep[q.id] \in Deposit
      BY <1>1, <1>t DEF SoumettreWrite, At, SessionOK
    <2>2. dep' = [dep EXCEPT ![q.id] = [dep[q.id] EXCEPT !.status = "soumis"]]
      BY <1>1, <1>t, <2>1 DEF SoumettreWrite
    <2>3. /\ \A e \in Deposits : e # q.id => dep'[e] = dep[e]
          /\ dep'[q.id] = [dep[q.id] EXCEPT !.status = "soumis"]
      BY <1>t, <2>1, <2>2
    <2>4. /\ dep'[q.id].status = "soumis"
          /\ dep'[q.id].notified = dep[q.id].notified /\ dep'[q.id].file = dep[q.id].file
          /\ dep'[q.id].enc = dep[q.id].enc /\ dep'[q.id].encStatus = dep[q.id].encStatus
          /\ dep'[q.id].judged \in {dep[q.id].judged, dep[q.id].file}
      BY <2>1, <2>3 DEF Deposit
    <2>5. LET r == sess'[s] IN
          /\ OnlySession(s)
          /\ \/ r = Idle
             \/ /\ r.op = q.op /\ r.id = q.id /\ r.now = q.now /\ r.pc = "notify"
                /\ r.doc = q.doc /\ r.file = q.file /\ r.enc = q.enc
      <3>1. CASE Done(s)
        BY <1>t, <3>1, DoneEffect
      <3>2. CASE sess' = [sess EXCEPT ![s].pc = "notify", ![s].user = dep[q.id].director]
        <4>1. sess' = [sess EXCEPT ![s] = [q EXCEPT !.pc = "notify", !.user = dep[q.id].director]]
          BY <1>t, <3>2
        <4>2. QED
          BY <1>t, <4>1 DEF OnlySession, Request
      <3>3. QED
        BY <1>1, <3>1, <3>2 DEF SoumettreWrite
    <2>6. QED
      BY <1>1, <1>i, <2>1, <2>3, <2>4, <2>5 DEF SoumettreWrite, Goes, KeepsFiles, store
  <1>2. CASE RetirerWrite(s)
    <2>1. q.id \in Deposits /\ q.op = "retirer" /\ dep[q.id] \in Deposit
      BY <1>2, <1>t DEF RetirerWrite, At, SessionOK
    <2>2. dep' = [dep EXCEPT ![q.id] = [dep[q.id] EXCEPT !.status = "brouillon"]]
      BY <1>2, <1>t, <2>1 DEF RetirerWrite
    <2>3. /\ \A e \in Deposits : e # q.id => dep'[e] = dep[e]
          /\ dep'[q.id] = [dep[q.id] EXCEPT !.status = "brouillon"]
      BY <1>t, <2>1, <2>2
    <2>4. /\ dep'[q.id].status = "brouillon"
          /\ dep'[q.id].notified = dep[q.id].notified /\ dep'[q.id].file = dep[q.id].file
          /\ dep'[q.id].enc = dep[q.id].enc /\ dep'[q.id].encStatus = dep[q.id].encStatus
          /\ dep'[q.id].judged \in {dep[q.id].judged, dep[q.id].file}
      BY <2>1, <2>3 DEF Deposit
    <2>5. QED
      BY <1>2, <1>t, <1>i, <2>1, <2>3, <2>4, DoneEffect DEF RetirerWrite, Goes, KeepsFiles, store
  <1>3. CASE DirecteurWrite(s)
    <2>1. /\ q.id \in Deposits /\ q.op \in {"designer", "reattribuer"}
          /\ dep[q.id] \in Deposit
      BY <1>3, <1>t DEF DirecteurWrite, At, SessionOK
    <2>2. dep' = [dep EXCEPT ![q.id] = [dep[q.id] EXCEPT !.director = q.user]]
      BY <1>3, <1>t, <2>1 DEF DirecteurWrite
    <2>3. /\ \A e \in Deposits : e # q.id => dep'[e] = dep[e]
          /\ dep'[q.id] = [dep[q.id] EXCEPT !.director = q.user]
      BY <1>t, <2>1, <2>2
    <2>4. /\ dep'[q.id].status = dep[q.id].status /\ dep'[q.id].decidedAt = dep[q.id].decidedAt
          /\ dep'[q.id].notified = dep[q.id].notified /\ dep'[q.id].file = dep[q.id].file
          /\ dep'[q.id].enc = dep[q.id].enc /\ dep'[q.id].encStatus = dep[q.id].encStatus
          /\ dep'[q.id].judged \in {dep[q.id].judged, dep[q.id].file}
      BY <2>1, <2>3 DEF Deposit
    <2>5. LET r == sess'[s] IN
          /\ OnlySession(s)
          /\ \/ r = Idle
             \/ /\ r.op = q.op /\ r.id = q.id /\ r.now = q.now /\ r.pc = "notify"
                /\ r.doc = q.doc /\ r.file = q.file /\ r.enc = q.enc
      <3>1. CASE Done(s)
        BY <1>t, <3>1, DoneEffect
      <3>2. CASE Goto(s, "notify")
        BY <1>t, <3>2, GotoEffect DEF Labels
      <3>3. QED
        BY <1>3, <3>1, <3>2 DEF DirecteurWrite
    <2>6. QED
      BY <1>3, <1>i, <2>1, <2>3, <2>4, <2>5 DEF DirecteurWrite, Goes, KeepsFiles, store
  <1>4. CASE DeciderWrite(s)
    <2>1. q.id \in Deposits /\ q.op \in {"valider", "refuser"} /\ dep[q.id] \in Deposit
      BY <1>4, <1>t DEF DeciderWrite, At, SessionOK
    <2>2. dep' = [dep EXCEPT ![q.id] = Decided(dep[q.id], q.op, q.user)]
      BY <1>4, <1>t, <2>1 DEF DeciderWrite, Decided
    <2>3. /\ \A e \in Deposits : e # q.id => dep'[e] = dep[e]
          /\ dep'[q.id] = Decided(dep[q.id], q.op, q.user)
      BY <1>t, <2>1, <2>2
    <2>4. /\ dep'[q.id].status = Verdict(q.op) /\ dep'[q.id].decidedAt = clock
          /\ dep'[q.id].notified = dep[q.id].notified /\ dep'[q.id].file = dep[q.id].file
          /\ dep'[q.id].enc = dep[q.id].enc /\ dep'[q.id].encStatus = dep[q.id].encStatus
          /\ dep'[q.id].judged \in {dep[q.id].judged, dep[q.id].file}
      BY <2>1, <2>3 DEF Decided, Deposit
    <2>5. dep'[q.id].status # "absent"
      BY <2>4 DEF Verdict
    <2>6. Done(s) /\ UNCHANGED <<audit, store, clock, told>>
      BY <1>4 DEF DeciderWrite
    <2>7. QED
      BY <1>t, <1>i, <2>1, <2>3, <2>4, <2>5, <2>6, DoneEffect DEF Goes, KeepsFiles, store
  <1>5. CASE RattacherWrite(s)
    <2>1. q.id \in Deposits /\ q.op = "rattacher" /\ dep[q.id] \in Deposit
      BY <1>5, <1>t DEF RattacherWrite, At, SessionOK
    <2>2. dep' = [dep EXCEPT ![q.id] = [dep[q.id] EXCEPT !.record = q.record]]
      BY <1>5, <1>t, <2>1 DEF RattacherWrite
    <2>3. /\ \A e \in Deposits : e # q.id => dep'[e] = dep[e]
          /\ dep'[q.id] = [dep[q.id] EXCEPT !.record = q.record]
      BY <1>t, <2>1, <2>2
    <2>4. /\ dep'[q.id].status = dep[q.id].status /\ dep'[q.id].decidedAt = dep[q.id].decidedAt
          /\ dep'[q.id].notified = dep[q.id].notified /\ dep'[q.id].file = dep[q.id].file
          /\ dep'[q.id].enc = dep[q.id].enc /\ dep'[q.id].encStatus = dep[q.id].encStatus
          /\ dep'[q.id].judged \in {dep[q.id].judged, dep[q.id].file}
      BY <2>1, <2>3 DEF Deposit
    <2>5. QED
      BY <1>5, <1>t, <1>i, <2>1, <2>3, <2>4, DoneEffect DEF RattacherWrite, Goes, KeepsFiles, store
  <1>6. CASE MarquerPrevenu(s)
    <2>1. /\ q.id \in Deposits /\ q.pc = "mark" /\ q.op \in {"soumettre", "reattribuer"}
          /\ dep[q.id] \in Deposit
      BY <1>6, <1>t DEF MarquerPrevenu, SessionOK
    <2>2. dep' = [dep EXCEPT ![q.id] = [dep[q.id] EXCEPT !.notified = q.user]]
      BY <1>6, <1>t, <2>1 DEF MarquerPrevenu
    <2>3. /\ \A e \in Deposits : e # q.id => dep'[e] = dep[e]
          /\ dep'[q.id] = [dep[q.id] EXCEPT !.notified = q.user]
      BY <1>t, <2>1, <2>2
    <2>4. /\ dep'[q.id].status = dep[q.id].status /\ dep'[q.id].decidedAt = dep[q.id].decidedAt
          /\ dep'[q.id].notified = q.user /\ dep'[q.id].file = dep[q.id].file
          /\ dep'[q.id].enc = dep[q.id].enc /\ dep'[q.id].encStatus = dep[q.id].encStatus
          /\ dep'[q.id].judged \in {dep[q.id].judged, dep[q.id].file}
      BY <2>1, <2>3 DEF Deposit
    <2>5. QED
      BY <1>6, <1>t, <1>i, <2>1, <2>3, <2>4, DoneEffect DEF MarquerPrevenu, Goes, KeepsFiles, store
  <1>7. ASSUME NEW sent \in BOOLEAN, NotifierDirecteur(s, sent)
        PROVE  Goes(s) /\ KeepsFiles(s)
    <2>1. q.id \in Deposits /\ q.op \in {"soumettre", "reattribuer"}
      BY <1>7, <1>t DEF NotifierDirecteur, SessionOK
    <2>2. CASE ~sent
      BY <1>7, <1>t, <1>i, <2>1, <2>2, DoneEffect
         DEF NotifierDirecteur, AfterMail, Goes, KeepsFiles, store, db
    <2>3. CASE sent
      BY <1>7, <1>t, <2>1, <2>3, GotoEffect
         DEF NotifierDirecteur, AfterMail, Goes, KeepsFiles, store, db, Labels
    <2>4. QED
      BY <2>2, <2>3
  <1>8. QED
    BY <1>1, <1>2, <1>3, <1>4, <1>5, <1>6, <1>7

\* What the pass does to the rows and to the trace: it forgets two names.
PassGoes ==
    LET q == sess[Cron]  r == sess'[Cron] IN
    /\ OnlySession(Cron) /\ UNCHANGED <<minted, clock, told>>
    /\ audit \subseteq audit'
    /\ r.op # "idle" => IF q.op = "idle" THEN r.now = clock ELSE r.now = q.now
    /\ \A d \in Deposits :
          /\ dep'[d].status = dep[d].status /\ dep'[d].decidedAt = dep[d].decidedAt
          /\ dep'[d].notified = dep[d].notified
    /\ UNCHANGED dep \/ PurgeForget

LEMMA PassEffect ==
    ASSUME DepositsAssumption, TypeInv, PurgeStart \/ PurgeStep \/ Abort(Cron)
    PROVE  PassGoes
  <1> DEFINE q == sess[Cron]
  <1>t. /\ Cron \in Procs /\ q \in Request /\ sess \in [Procs -> Request] /\ PassOK
        /\ dep \in [Deposits -> Deposit]
    BY DEF TypeInv, TypeOK, Balanced, Procs
  <1>i. Idle.op = "idle" /\ Idle.pc = "idle" /\ Idle.todo = {}
    BY DEF Idle
  <1>1. CASE PurgeStart
    <2> DEFINE todo == {[id |-> d, file |-> dep[d].file, enc |-> dep[d].enc] :
                           d \in {e \in Deposits : FichierAPurger(dep[e], clock)}}
    <2>1. /\ q.op = "idle" /\ UNCHANGED <<db, store, clock, told, faults>>
          /\ sess' = [sess EXCEPT ![Cron] =
                [Idle EXCEPT !.op = "purge", !.pc = "each", !.now = clock, !.todo = todo]]
      BY <1>1 DEF PurgeStart
    <2> HIDE DEF todo
    <2>2. OnlySession(Cron) /\ sess'[Cron].now = clock
      BY <1>t, <2>1 DEF OnlySession, Idle
    <2>3. QED
      BY <1>t, <2>1, <2>2 DEF PassGoes, db, store
  <1>2. CASE PurgeNext
    <2>1. PICK c \in q.todo : sess' = [sess EXCEPT ![Cron] = Taken(sess[Cron], c)]
      BY <1>2 DEF PurgeNext, Taken
    <2>2. OnlySession(Cron) /\ sess'[Cron].now = q.now
      BY <1>t, <2>1 DEF OnlySession, Taken, Request
    <2>3. QED
      BY <1>2, <1>t, <2>2 DEF PurgeNext, PassOK, PassGoes, db, store
  <1>3. CASE PurgeClear \/ PurgeEnc
    BY <1>3, <1>t, GotoEffect DEF PurgeClear, PurgeEnc, PassOK, PassGoes, db, Labels
  <1>4. CASE PurgeLog
    <2>1. /\ OnlySession(Cron)
          /\ sess'[Cron].op # "idle" => sess'[Cron].now = q.now
      BY <1>4, <1>t, <1>i, DoneEffect, GotoEffect DEF PurgeLog, Unlogged, Labels
    <2>2. QED
      BY <1>4, <1>t, <2>1 DEF PurgeLog, PassOK, PassGoes, store
  <1>5. CASE PurgeForget
    <2>1. q.id \in Deposits /\ dep[q.id] \in Deposit /\ q.op # "idle"
      BY <1>5, <1>t DEF PurgeForget, PassOK
    <2>2. \A d \in Deposits :
            /\ dep'[d].status = dep[d].status /\ dep'[d].decidedAt = dep[d].decidedAt
            /\ dep'[d].notified = dep[d].notified
      BY <1>5, <1>t, <2>1 DEF PurgeForget, Deposit
    <2>3. OnlySession(Cron) /\ sess'[Cron].now = q.now
      BY <1>5, <1>t DEF PurgeForget, OnlySession, Request
    <2>4. QED
      BY <1>5, <2>1, <2>2, <2>3 DEF PurgeForget, PassGoes, store
  <1>6. CASE PurgeEnd \/ Abort(Cron)
    <2>1. OnlySession(Cron) /\ sess'[Cron] = Idle
      BY <1>6, <1>t, DoneEffect DEF PurgeEnd, Abort
    <2>2. QED
      BY <1>6, <1>i, <2>1 DEF PurgeEnd, Abort, PassGoes, db, store
  <1>7. QED
    BY <1>1, <1>2, <1>3, <1>4, <1>5, <1>6 DEF PurgeStep

\* A deposit that is created was not there; nothing in flight is about it.
CreerGoes(d) ==
    /\ dep[d].status = "absent" /\ dep'[d].status = "brouillon"
    /\ dep'[d].file = dep[d].file /\ dep'[d].enc = dep[d].enc
    /\ dep'[d].encStatus = dep[d].encStatus /\ dep'[d].notified = dep[d].notified
    /\ dep'[d].judged = dep[d].judged
    /\ \A e \in Deposits : e # d => dep'[e] = dep[e]
    /\ UNCHANGED <<audit, clear, cipher, minted, clock, sess, told>>

LEMMA CreerEffect ==
    ASSUME TypeInv, NEW d \in Deposits, NEW g \in Directors \cup {Nobody}, Creer(d, g)
    PROVE  CreerGoes(d)
  <1>1. dep \in [Deposits -> Deposit] /\ dep[d] \in Deposit
    BY DEF TypeInv, TypeOK
  <1>2. dep' = [dep EXCEPT ![d] = [dep[d] EXCEPT !.status = "brouillon", !.director = g]]
    BY <1>1 DEF Creer, ETAT_INITIAL
  <1>3. /\ \A e \in Deposits : e # d => dep'[e] = dep[e]
        /\ dep'[d] = [dep[d] EXCEPT !.status = "brouillon", !.director = g]
    BY <1>1, <1>2
  <1>4. /\ dep'[d].status = "brouillon" /\ dep'[d].notified = dep[d].notified
        /\ dep'[d].file = dep[d].file /\ dep'[d].enc = dep[d].enc
        /\ dep'[d].encStatus = dep[d].encStatus /\ dep'[d].judged = dep[d].judged
    BY <1>1, <1>3 DEF Deposit
  <1>5. QED
    BY <1>3, <1>4 DEF Creer, CreerGoes, store

\* A step of the system is one of these.
LEMMA NextEffect ==
    ASSUME DepositsAssumption, TypeInv, [Next]_vars
    PROVE  \/ \E d \in Deposits : CreerGoes(d)
           \/ \E s \in Sessions, d \in Deposits : Arrived(s, d)
           \/ \E s \in Sessions : Goes(s) /\ (KeepsFiles(s) \/ sess[s].op = "televerser")
           \/ \E s \in Sessions : Abort(s)
           \/ PassGoes
           \/ Module \/ Tick \/ UNCHANGED vars
  <1>1. CASE \E s \in Sessions : Arrivals(s)
    BY <1>1, ArrivalEffect
  <1>2. CASE \E s \in Sessions : Step(s)
    BY <1>2, UploadEffect, WriteEffect DEF Step
  <1>3. CASE PurgeStart \/ PurgeStep
    BY <1>3, PassEffect
  <1>4. CASE \E s \in Procs : Abort(s)
    BY <1>4, PassEffect DEF Procs
  <1>5. CASE \E d \in Deposits, g \in Directors \cup {Nobody} : Creer(d, g)
    BY <1>5, CreerEffect
  <1>6. QED
    BY <1>1, <1>2, <1>3, <1>4, <1>5 DEF Next

-----------------------------------------------------------------------------
(* Marks and times *)

LEMMA MarkedNext ==
    ASSUME DepositsAssumption, TypeInv, Marked, [Next]_vars PROVE Marked'
  <1> USE DEF Marked, MarkedWasTold
  <1>1. ASSUME NEW d \in Deposits, CreerGoes(d) PROVE Marked'
    BY <1>1 DEF CreerGoes
  <1>2. ASSUME NEW s \in Sessions, NEW d \in Deposits, Arrived(s, d) PROVE Marked'
    <2>1. UNCHANGED <<dep, told>> /\ sess'[s].pc # "mark"
      BY <1>2 DEF Arrived, db
    <2>2. \A t \in Sessions : t # s => sess'[t] = sess[t]
      BY <1>2 DEF Arrived, OnlySession, Procs
    <2>3. QED
      BY <2>1, <2>2
  <1>3. ASSUME NEW s \in Sessions, Goes(s) PROVE Marked'
    <2>1. \A t \in Sessions : t # s => sess'[t] = sess[t]
      BY <1>3 DEF Goes, OnlySession, Procs
    <2>2. SessionOK(s) /\ Idle.pc # "mark"
      BY DEF TypeInv, Balanced, Idle
    <2>3. ASSUME NEW t \in Sessions, sess'[t].pc = "mark"
          PROVE  <<sess'[t].id, sess'[t].user>> \in told'
      BY <1>3, <2>1, <2>2, <2>3 DEF Goes
    <2>4. ASSUME NEW d \in Deposits, dep'[d].notified # Nobody
          PROVE  <<d, dep'[d].notified>> \in told'
      BY <1>3, <2>2, <2>4 DEF Goes
    <2>5. QED
      BY <2>3, <2>4
  <1>4. ASSUME NEW s \in Sessions, Abort(s) PROVE Marked'
    <2>1. s \in Procs /\ OnlySession(s) /\ sess'[s] = Idle
      BY <1>4, DoneEffect DEF Abort, Procs
    <2>2. \A t \in Sessions : t # s => sess'[t] = sess[t]
      BY <2>1 DEF OnlySession, Procs
    <2>3. QED
      BY <1>4, <2>1, <2>2 DEF Abort, Idle, db
  <1>5. CASE PassGoes
    <2>1. \A t \in Sessions : sess'[t] = sess[t]
      BY <1>5 DEF PassGoes, OnlySession, Procs, DepositsAssumption
    <2>2. QED
      BY <1>5, <2>1 DEF PassGoes
  <1>6. CASE Module \/ Tick \/ UNCHANGED vars
    BY <1>6 DEF Module, Tick, vars, db
  <1>7. QED
    BY <1>1, <1>2, <1>3, <1>4, <1>5, <1>6, NextEffect

\* The deposit of a request in flight is not an old refusal: it would be older
\* than the refusal by the retention, and it saw one midnight at most.
LEMMA Quiet ==
    ASSUME DepositsAssumption, TypeInv, TimeInv, NEW s \in Sessions, sess[s].op # "idle"
    PROVE  ~OldRefusal(sess[s].id)
  <1>1. /\ sess[s].id \in Deposits /\ dep[sess[s].id].decidedAt \in Nat
        /\ clock \in Nat /\ sess[s].now \in Nat /\ s \in Procs
    BY DEF TypeInv, TypeOK, Balanced, SessionOK, Deposit, Request, Procs
  <1>2. QED
    BY <1>1 DEF TimeInv, OldRefusal, DepositsAssumption

LEMMA TimeNext ==
    ASSUME DepositsAssumption, TypeInv, TimeInv, [Next]_vars PROVE TimeInv'
  <1>t. /\ clock \in Nat /\ \A s \in Procs : sess[s].now \in Nat
        /\ \A d \in Deposits : dep[d].decidedAt \in Nat
        /\ \A s \in Sessions : s \in Procs
        /\ \A s \in Sessions : sess[s].op # "idle" =>
              sess[s].id \in Deposits /\ dep[sess[s].id].status # "absent"
    BY DEF TypeInv, TypeOK, Balanced, SessionOK, Deposit, Request, Procs
  <1> USE DEF TimeInv
  <1>i. Idle.op = "idle"
    BY DEF Idle
  <1>1. ASSUME NEW d \in Deposits, CreerGoes(d) PROVE TimeInv'
    BY <1>1, <1>t DEF CreerGoes
  <1>2. ASSUME NEW s \in Sessions, NEW d \in Deposits, Arrived(s, d) PROVE TimeInv'
    BY <1>2, <1>t DEF Arrived, OnlySession, db
  <1>3. ASSUME NEW s \in Sessions, Goes(s) PROVE TimeInv'
    <2>1. /\ \A t \in Procs : t # s => sess'[t] = sess[t]
          /\ clock' = clock /\ sess[s].op # "idle"
          /\ sess'[s].op # "idle" => sess'[s].id = sess[s].id /\ sess'[s].now = sess[s].now
      BY <1>3 DEF Goes, OnlySession
    <2>2. ASSUME NEW d \in Deposits, dep'[d].status = "refuse"
          PROVE  \/ dep'[d].decidedAt = clock
                 \/ dep[d].status = "refuse" /\ dep'[d].decidedAt = dep[d].decidedAt
      BY <1>3, <2>2 DEF Goes
    <2>3. \A t \in Procs : sess'[t].op # "idle" =>
             sess[t].op # "idle" /\ sess'[t].id = sess[t].id /\ sess'[t].now = sess[t].now
      BY <2>1
    <2>4. QED
      BY <1>t, <2>1, <2>2, <2>3
  <1>4. ASSUME NEW s \in Sessions, Abort(s) PROVE TimeInv'
    <2>1. OnlySession(s) /\ sess'[s] = Idle /\ UNCHANGED <<dep, clock>>
      BY <1>4, <1>t, DoneEffect DEF Abort, db
    <2>2. QED
      BY <1>t, <1>i, <2>1 DEF OnlySession
  <1>5. CASE PassGoes
    <2>1. \A t \in Sessions : sess'[t] = sess[t]
      BY <1>5 DEF PassGoes, OnlySession, Procs, DepositsAssumption
    <2>2. Cron \in Procs
      BY DEF Procs
    <2>3. QED
      BY <1>5, <1>t, <2>1, <2>2 DEF PassGoes, OnlySession
  <1>6. CASE Module \/ UNCHANGED vars
    BY <1>6 DEF Module, vars, db
  <1>7. CASE Tick
    <2>1. clock' \in Nat /\ UNCHANGED <<dep, sess>>
      BY <1>7 DEF Tick, db, DepositsAssumption
    <2>2. \A s \in Procs : sess[s].op # "idle" => sess[s].now = clock /\ clock' = clock + 1
      BY <1>7 DEF Tick
    <2>3. QED
      BY <1>t, <2>1, <2>2
  <1>8. QED
    BY <1>1, <1>2, <1>3, <1>4, <1>5, <1>6, <1>7, NextEffect

\* Nothing but the pass writes an old refusal, which stays one.
LEMMA OldStays ==
    ASSUME DepositsAssumption, TypeInv, TimeInv, [Next]_vars,
           NEW d \in Deposits, OldRefusal(d)
    PROVE  OldRefusal(d)' /\ (dep'[d] = dep[d] \/ PurgeForget)
  <1>t. clock \in Nat /\ dep[d].decidedAt \in Nat
    BY DEF TypeInv, TypeOK, Deposit
  <1>1. ASSUME NEW e \in Deposits, CreerGoes(e) PROVE dep'[d] = dep[d] /\ clock' = clock
    BY <1>1 DEF CreerGoes, OldRefusal
  <1>2. ASSUME NEW s \in Sessions, NEW e \in Deposits, Arrived(s, e)
        PROVE  dep'[d] = dep[d] /\ clock' = clock
    BY <1>2 DEF Arrived, db
  <1>3. ASSUME NEW s \in Sessions, Goes(s) PROVE dep'[d] = dep[d] /\ clock' = clock
    BY <1>3, Quiet DEF Goes
  <1>4. ASSUME NEW s \in Sessions, Abort(s) PROVE dep'[d] = dep[d] /\ clock' = clock
    BY <1>4 DEF Abort, db
  <1>5. CASE Module \/ UNCHANGED vars
    BY <1>5 DEF Module, vars, db, OldRefusal
  <1>6. CASE PassGoes
    BY <1>6 DEF PassGoes, OldRefusal
  <1>7. CASE Tick
    <2>1. clock' \in Nat /\ clock < clock' /\ dep' = dep /\ Retention \in Nat
      BY <1>7 DEF Tick, db, DepositsAssumption
    <2>2. QED
      BY <1>t, <2>1 DEF OldRefusal
  <1>8. QED
    BY <1>1, <1>2, <1>3, <1>4, <1>5, <1>6, <1>7, NextEffect DEF OldRefusal

-----------------------------------------------------------------------------
(* The pass *)

PassMoves == PurgeStart \/ PurgeStep \/ Abort(Cron)

LEMMA OtherEffect ==
    ASSUME DepositsAssumption, TypeInv, [Next]_vars, ~PassMoves
    PROVE  sess'[Cron] = sess[Cron] /\ audit' = audit /\ ~PurgeForget
  <1>f. ~PurgeForget
    BY DEF PassMoves, PurgeStep
  <1>t. Cron \in Procs /\ \A s \in Sessions : s \in Procs /\ s # Cron
    BY DEF Procs, DepositsAssumption
  <1>1. ASSUME NEW s \in Sessions, NEW d \in Deposits, Arrived(s, d)
        PROVE  sess'[Cron] = sess[Cron] /\ audit' = audit
    BY <1>1, <1>t DEF Arrived, OnlySession, db
  <1>2. ASSUME NEW s \in Sessions, Goes(s) PROVE sess'[Cron] = sess[Cron] /\ audit' = audit
    BY <1>2, <1>t DEF Goes, OnlySession
  <1>3. ASSUME NEW s \in Sessions, Abort(s) PROVE sess'[Cron] = sess[Cron] /\ audit' = audit
    BY <1>3, <1>t, DoneEffect DEF Abort, OnlySession, db
  <1>4. ASSUME NEW d \in Deposits, NEW g \in Directors \cup {Nobody}, Creer(d, g)
        PROVE  sess'[Cron] = sess[Cron] /\ audit' = audit
    BY <1>4 DEF Creer
  <1>5. CASE Module \/ Tick \/ UNCHANGED vars
    BY <1>5, <1>f DEF Module, Tick, vars, db
  <1>6. CASE \E s \in Sessions : Arrivals(s)
    BY <1>1, <1>f, <1>6, ArrivalEffect
  <1>7. CASE \E s \in Sessions : Step(s)
    BY <1>2, <1>f, <1>7, UploadEffect, WriteEffect DEF Step
  <1>8. CASE \E s \in Sessions : Abort(s)
    BY <1>3, <1>f, <1>8
  <1>9. QED
    BY <1>4, <1>5, <1>f, <1>6, <1>7, <1>8 DEF Next, PassMoves, Procs

LEMMA PassNext ==
    ASSUME DepositsAssumption, TypeInv, TimeInv, PassInv, [Next]_vars PROVE PassInv'
  <1> DEFINE q == sess[Cron]
  <1>t. /\ Cron \in Procs /\ q \in Request /\ sess \in [Procs -> Request] /\ PassOK
        /\ dep \in [Deposits -> Deposit]
        /\ \A c \in q.todo : c.id \in Deposits
    BY DEF TypeInv, TypeOK, Balanced, Procs, Request
  <1>i. Idle.pc = "idle" /\ Idle.todo = {}
    BY DEF Idle
  \* Rows the pass does not write are as it read them.
  <1>k. ASSUME NEW c, c.id \in Deposits, Read(c), dep'[c.id] = dep[c.id] PROVE Read(c)'
    <2>1. OldRefusal(c.id)'
      BY <1>k, OldStays DEF Read
    <2>2. QED
      BY <1>k, <2>1 DEF Read
  <1>d. ASSUME ~PurgeForget, NEW c, c.id \in Deposits, Read(c) PROVE Read(c)'
    BY <1>d, <1>k, OldStays DEF Read
  <1>1. CASE PurgeStart
    <2> DEFINE todo == {[id |-> d, file |-> dep[d].file, enc |-> dep[d].enc] :
                           d \in {e \in Deposits : FichierAPurger(dep[e], clock)}}
    <2>1. /\ UNCHANGED <<dep, clock>>
          /\ sess' = [sess EXCEPT ![Cron] =
                [Idle EXCEPT !.op = "purge", !.pc = "each", !.now = clock, !.todo = todo]]
      BY <1>1 DEF PurgeStart, db
    <2>2. \A c \in todo : Read(c)
      BY DEF Read, OldRefusal, FichierAPurger
    <2> HIDE DEF todo
    <2>3. sess'[Cron].todo = todo /\ sess'[Cron].pc = "each"
      BY <1>t, <2>1 DEF Idle
    <2>4. QED
      BY <2>1, <2>2, <2>3 DEF PassInv, Read, OldRefusal
  <1>2. CASE PurgeNext
    <2>1. PICK c \in q.todo : sess' = [sess EXCEPT ![Cron] = Taken(sess[Cron], c)]
      BY <1>2 DEF PurgeNext, Taken
    <2>2. /\ sess'[Cron].todo = q.todo \ {c} /\ sess'[Cron].pc = "purge"
          /\ sess'[Cron].id = c.id /\ sess'[Cron].file = c.file /\ sess'[Cron].enc = c.enc
      BY <1>t, <2>1 DEF Taken, Request
    <2>3. UNCHANGED <<dep, clock>>
      BY <1>2 DEF PurgeNext, db
    <2>4. \A e \in q.todo : Read(e)
      BY DEF PassInv
    <2>5. \A e \in q.todo : e.id = c.id => e = c
      <3>1. q.todo \subseteq [id : Deposits, file : Docs \cup {0}, enc : Docs \cup {0}]
        BY <1>t DEF Request
      <3>2. \A e \in q.todo : e.id = c.id => e.file = c.file /\ e.enc = c.enc
        BY <2>4 DEF Read
      <3>3. QED
        BY <3>1, <3>2
    <2>6. QED
      BY <2>2, <2>3, <2>4, <2>5 DEF PassInv, Read, OldRefusal
  <1>3. CASE PurgeClear \/ PurgeEnc \/ PurgeLog
    <2>1. UNCHANGED <<dep, clock>>
      BY <1>3 DEF PurgeClear, PurgeEnc, PurgeLog, db
    <2>2. \/ sess'[Cron].pc = "idle" /\ sess'[Cron].todo = {}
          \/ /\ sess'[Cron].todo = q.todo /\ sess'[Cron].id = q.id
             /\ sess'[Cron].file = q.file /\ sess'[Cron].enc = q.enc
             /\ q.pc \in {"purge", "purgeEnc", "log"}
             /\ sess'[Cron].pc = "forget" => q.id \in audit'
      <3>1. CASE PurgeClear \/ PurgeEnc
        BY <1>t, <3>1, GotoEffect DEF PurgeClear, PurgeEnc, Labels
      <3>2. CASE PurgeLog
        BY <1>t, <1>i, <3>2, GotoEffect, DoneEffect DEF PurgeLog, Unlogged, Labels
      <3>3. QED
        BY <1>3, <3>1, <3>2
    <2>3. QED
      BY <2>1, <2>2 DEF PassInv, Read, OldRefusal
  <1>4. CASE PurgeForget
    <2>1. /\ q.pc = "forget" /\ clock' = clock
          /\ sess' = [sess EXCEPT ![Cron] = [q EXCEPT !.pc = "each", !.id = Nobody,
                                                      !.file = 0, !.enc = 0]]
      BY <1>4 DEF PurgeForget
    <2>2. sess'[Cron].todo = q.todo /\ sess'[Cron].pc = "each"
      BY <1>t, <2>1 DEF Request
    <2>3. \A d \in Deposits : d # q.id => dep'[d] = dep[d]
      BY <1>4, <1>t DEF PurgeForget
    <2>4. \A c \in q.todo : c.id # q.id /\ Read(c)
      BY <2>1 DEF PassInv
    <2>5. \A c \in q.todo : Read(c)'
      BY <1>t, <1>k, <2>3, <2>4
    <2>6. QED
      BY <2>2, <2>5 DEF PassInv
  <1>5. CASE PurgeEnd \/ Abort(Cron)
    <2>1. sess'[Cron] = Idle
      BY <1>5, <1>t, DoneEffect DEF PurgeEnd, Abort
    <2>2. QED
      BY <1>i, <2>1 DEF PassInv
  <1>6. CASE ~PassMoves
    <2>1. sess'[Cron] = q /\ audit' = audit /\ ~PurgeForget
      BY <1>6, OtherEffect
    <2>2. \A c \in q.todo : Read(c)'
      BY <1>d, <1>t, <2>1 DEF PassInv
    <2>3. q.pc \in {"purge", "purgeEnc", "log", "forget"} => Read(q)'
      BY <1>d, <1>t, <2>1 DEF PassInv, PassOK
    <2>4. QED
      BY <2>1, <2>2, <2>3 DEF PassInv, Read
  <1>7. QED
    BY <1>1, <1>2, <1>3, <1>4, <1>5, <1>6 DEF PassMoves, PurgeStep

-----------------------------------------------------------------------------
(* Names of documents *)

\* An upload that does not write its row goes on with fewer names; it stays fresh,
\* or was not.
StaysFresh(s) == UNCHANGED dep /\ (Fresh(s)' <=> Fresh(s))

LEMMA UploadMoves ==
    ASSUME DepositsAssumption, TypeInv, NEW s \in Sessions,
           \/ TeleverserPut(s) \/ TeleverserClean(s) \/ TeleverserCleanEnc(s)
           \/ \E outcome \in {"ready", "failed"} : TeleverserIngest(s, outcome)
    PROVE  StaysFresh(s)
  <1>t. /\ s \in Procs /\ sess[s] \in Request /\ sess \in [Procs -> Request]
    BY DEF TypeInv, TypeOK, Procs
  <1>1. CASE TeleverserPut(s) \/ TeleverserClean(s)
    BY <1>1, <1>t, GotoEffect
       DEF TeleverserPut, TeleverserClean, At, Labels, StaysFresh, Fresh, db
  <1>2. CASE TeleverserCleanEnc(s)
    BY <1>2, <1>t, DoneEffect DEF TeleverserCleanEnc, At, StaysFresh, Fresh, db, Idle
  <1>3. ASSUME NEW outcome \in {"ready", "failed"}, TeleverserIngest(s, outcome)
        PROVE  StaysFresh(s)
    <2>1. sess' = [sess EXCEPT ![s] = [sess[s] EXCEPT !.pc = "write", !.encStatus = outcome]]
      BY <1>3, <1>t DEF TeleverserIngest
    <2>2. sess'[s].pc = "write" /\ sess'[s].op = sess[s].op
      BY <1>t, <2>1 DEF Request
    <2>3. QED
      BY <1>3, <2>2 DEF TeleverserIngest, At, StaysFresh, Fresh, db
  <1>4. QED
    BY <1>1, <1>2, <1>3

\* The row an upload writes, and what the upload holds after.
WritesRow(s) ==
    LET q == sess[s]  r == sess'[s]  d == q.id IN
    /\ Fresh(s) /\ ~Fresh(s)' /\ q.pc = "write"
    /\ dep'[d].file = q.doc /\ dep'[d].encStatus = q.encStatus
    /\ dep'[d].judged = dep[d].judged
    /\ dep'[d].enc = IF q.encStatus = "ready" THEN q.doc ELSE dep[d].enc
    /\ UNCHANGED <<clear, cipher>>

LEMMA RowWritten ==
    ASSUME DepositsAssumption, TypeInv, NEW s \in Sessions, TeleverserWrite(s)
    PROVE  WritesRow(s)
  <1> DEFINE q == sess[s]
             row == Uploaded(dep[q.id], q)
             enc == IF q.enc = row.enc THEN 0 ELSE q.enc
  <1>t. /\ s \in Procs /\ q \in Request /\ sess \in [Procs -> Request]
        /\ q.id \in Deposits /\ dep[q.id] \in Deposit /\ dep \in [Deposits -> Deposit]
    BY DEF TypeInv, TypeOK, Procs, TeleverserWrite, At, Balanced, SessionOK
  <1>1. /\ row.file = q.doc /\ row.encStatus = q.encStatus /\ row.judged = dep[q.id].judged
        /\ row.enc = IF q.encStatus = "ready" THEN q.doc ELSE dep[q.id].enc
    BY <1>t DEF Uploaded, Deposit
  <1>2. /\ dep' = [dep EXCEPT ![q.id] = row]
        /\ sess' = [sess EXCEPT ![s] = [q EXCEPT !.pc = "clean", !.enc = enc]]
        /\ q.op = "televerser" /\ q.pc = "write" /\ UNCHANGED <<clear, cipher>>
    BY <1>t DEF TeleverserWrite, At, store
  <1> HIDE DEF row, enc
  <1>3. sess'[s].pc = "clean" /\ dep'[q.id] = row
    BY <1>t, <1>2 DEF Request
  <1>4. QED
    BY <1>1, <1>2, <1>3 DEF WritesRow, Fresh

LEMMA NameNext ==
    ASSUME DepositsAssumption, TypeInv, TimeInv, NameInv, [Next]_vars PROVE NameInv'
  <1>t. /\ minted \in Nat /\ Idle.op = "idle"
        /\ Idle.doc = 0 /\ Idle.file = 0 /\ Idle.enc = 0
        /\ \A d \in Deposits : dep[d].file \in Nat /\ dep[d].enc \in Nat
        /\ \A s \in Sessions : /\ s \in Procs /\ sess[s].doc \in Nat /\ sess[s].file \in Nat
                               /\ sess[s].enc \in Nat
    <2>1. Docs \cup {0} \subseteq Nat
      BY DEF Docs
    <2>2. \A d \in Deposits : dep[d].file \in Docs \cup {0} /\ dep[d].enc \in Docs \cup {0}
      BY DEF TypeInv, TypeOK, Deposit
    <2>3. \A s \in Sessions : /\ s \in Procs /\ sess[s].doc \in Docs \cup {0}
                              /\ sess[s].file \in Docs \cup {0} /\ sess[s].enc \in Docs \cup {0}
      BY DEF TypeInv, TypeOK, Procs, Request
    <2>4. minted \in Nat
      BY DEF TypeInv, TypeOK
    <2>5. QED
      BY <2>1, <2>2, <2>3, <2>4 DEF Idle
  <1>s. \A s \in Sessions : SessionOK(s)
    BY DEF TypeInv, Balanced
  \* Names that go: a row keeps its names or loses them, requests too.
  <1>k. ASSUME minted' = minted,
               \A d \in Deposits : dep'[d].file \in {0, dep[d].file} /\ dep'[d].enc \in {0, dep[d].enc},
               \A s \in Sessions :
                  /\ sess'[s].doc \in {0, sess[s].doc} /\ sess'[s].file \in {0, sess[s].file}
                  /\ sess'[s].enc \in {0, sess[s].enc}
                  /\ Fresh(s)' => Fresh(s) /\ sess'[s].doc = sess[s].doc
                  /\ sess'[s].op = "televerser" =>
                        /\ sess[s].op = "televerser" /\ sess'[s].id = sess[s].id
                        /\ Fresh(s) => Fresh(s)'
        PROVE  NameInv'
    <2>1. \A d \in Deposits, doc \in Nat : Names(dep'[d], doc) => Names(dep[d], doc)
      BY <1>k DEF Names
    <2>2. \A s \in Sessions, doc \in Nat : Names(sess'[s], doc) => Names(sess[s], doc)
      BY <1>k DEF Names
    <2>3. \A d, e \in Deposits : Names(dep'[e], dep'[d].file) => d = e
      BY <1>k, <1>t, <2>1 DEF NameInv, Names
    <2>4. \A s \in Sessions, d \in Deposits :
             sess'[s].op = "televerser" /\ Names(sess'[s], dep'[d].file) =>
                 Fresh(s)' /\ d = sess'[s].id
      BY <1>k, <1>t, <2>2 DEF NameInv, Names
    <2>5. /\ \A d \in Deposits : dep'[d].file <= minted' /\ dep'[d].enc <= minted'
          /\ \A s \in Sessions :
                sess'[s].doc <= minted' /\ sess'[s].file <= minted' /\ sess'[s].enc <= minted'
      BY <1>k, <1>t DEF NameInv
    <2>6. ASSUME NEW s \in Sessions, Fresh(s)'
          PROVE  /\ \A d \in Deposits : ~Names(dep'[d], sess'[s].doc)
                 /\ \A t \in Sessions : ~Names(sess'[t], sess'[s].doc)
                 /\ \A t \in Sessions : Fresh(t)' /\ t # s => sess'[t].doc # sess'[s].doc
      BY <1>k, <1>t, <2>1, <2>2, <2>6 DEF NameInv
    <2>7. QED
      BY <2>3, <2>4, <2>5, <2>6 DEF NameInv
  <1>1. ASSUME NEW d \in Deposits, CreerGoes(d) PROVE NameInv'
    <2>1. \A e \in Deposits : dep'[e].file = dep[e].file /\ dep'[e].enc = dep[e].enc
      BY <1>1 DEF CreerGoes
    <2>2. QED
      BY <1>1, <1>k, <2>1 DEF CreerGoes, Fresh
  <1>2. ASSUME NEW s \in Sessions, NEW d \in Deposits, Arrived(s, d) PROVE NameInv'
    <2>1. /\ UNCHANGED dep /\ sess[s].op = "idle" /\ sess'[s].op # "idle" /\ sess'[s].id = d
          /\ sess'[s].file \in {0, dep[d].file} /\ sess'[s].enc \in {0, dep[d].enc}
          /\ sess'[s].op = "televerser" =>
                sess'[s].pc = "put" /\ sess'[s].doc = minted + 1 /\ minted' = minted + 1
          /\ sess'[s].op # "televerser" => sess'[s].doc = 0 /\ minted' = minted
      BY <1>2 DEF Arrived, db
    <2>2. \A t \in Sessions : t # s => sess'[t] = sess[t]
      BY <1>2, <1>t DEF Arrived, OnlySession
    <2>3. /\ \A t \in Sessions : t # s => (Fresh(t)' <=> Fresh(t))
          /\ Fresh(s)' <=> sess'[s].op = "televerser"
      BY <2>1, <2>2 DEF Fresh
    <2>4. \A doc \in Nat : Names(sess'[s], doc) => Names(dep[d], doc)
      BY <2>1 DEF Names
    <2>5. /\ minted' \in Nat /\ minted <= minted'
          /\ \A t \in Sessions :
                sess'[t].doc <= minted' /\ sess'[t].file <= minted' /\ sess'[t].enc <= minted'
      BY <1>t, <2>1, <2>2 DEF NameInv
    <2>6. \A e \in Deposits : dep[e].file <= minted' /\ dep[e].enc <= minted'
      BY <1>t, <2>5 DEF NameInv
    <2>7. \A t \in Sessions, e \in Deposits :
             sess'[t].op = "televerser" /\ Names(sess'[t], dep[e].file) =>
                 Fresh(t)' /\ e = sess'[t].id
      BY <1>t, <2>1, <2>2, <2>3, <2>4 DEF NameInv
    <2>8. ASSUME NEW t \in Sessions, Fresh(t)'
          PROVE  /\ \A e \in Deposits : ~Names(dep[e], sess'[t].doc)
                 /\ \A u \in Sessions : ~Names(sess'[u], sess'[t].doc)
                 /\ \A u \in Sessions : Fresh(u)' /\ u # t => sess'[u].doc # sess'[t].doc
      <3>1. CASE t = s
        <4>1. sess'[s].doc = minted + 1
          BY <2>1, <2>3, <2>8, <3>1
        <4>2. \A e \in Deposits : ~Names(dep[e], minted + 1)
          BY <1>t DEF NameInv, Names
        <4>3. \A u \in Sessions : ~Names(sess[u], minted + 1) /\ sess[u].doc # minted + 1
          BY <1>t DEF NameInv, Names
        <4>4. QED
          BY <1>t, <2>2, <2>4, <3>1, <4>1, <4>2, <4>3
      <3>2. CASE t # s
        <4>1. Fresh(t) /\ sess'[t] = sess[t] /\ sess[t].doc \in Nat /\ sess[t].doc <= minted
          BY <1>t, <2>2, <2>3, <2>8, <3>2 DEF NameInv
        <4>2. \A e \in Deposits : ~Names(dep[e], sess[t].doc)
          BY <4>1 DEF NameInv
        <4>3. \A u \in Sessions : ~Names(sess'[u], sess[t].doc)
          BY <2>2, <2>4, <4>1, <4>2 DEF NameInv
        <4>4. Fresh(s)' => sess'[s].doc # sess[t].doc
          BY <1>t, <2>1, <2>3, <4>1
        <4>5. \A u \in Sessions : Fresh(u)' /\ u # t => sess'[u].doc # sess[t].doc
          BY <2>2, <2>3, <4>1, <4>4 DEF NameInv
        <4>6. QED
          BY <4>1, <4>2, <4>3, <4>5
      <3>3. QED
        BY <3>1, <3>2
    <2>9. QED
      BY <2>1, <2>5, <2>6, <2>7, <2>8 DEF NameInv
  <1>3. ASSUME NEW s \in Sessions, Goes(s), KeepsFiles(s) PROVE NameInv'
    <2>1. \A t \in Sessions : t # s => sess'[t] = sess[t]
      BY <1>3, <1>t DEF Goes, OnlySession
    <2>2. sess'[s].op # "televerser" /\ sess[s].op # "televerser"
      BY <1>3, <1>t DEF Goes, KeepsFiles
    <2>3. QED
      BY <1>3, <1>k, <1>t, <2>1, <2>2 DEF Goes, KeepsFiles, Fresh
  <1>4. ASSUME NEW s \in Sessions, Goes(s), StaysFresh(s) PROVE NameInv'
    <2>1. \A t \in Sessions : t # s => sess'[t] = sess[t] /\ (Fresh(t)' <=> Fresh(t))
      BY <1>4, <1>t DEF Goes, OnlySession, Fresh
    <2>2. Fresh(s)' => sess'[s].op # "idle"
      BY DEF Fresh
    <2>3. QED
      BY <1>4, <1>k, <1>t, <2>1, <2>2 DEF Goes, StaysFresh
  <1>5. ASSUME NEW s \in Sessions, Abort(s) PROVE NameInv'
    <2>1. sess'[s] = Idle /\ UNCHANGED <<dep, minted>>
      BY <1>5, <1>t, DoneEffect DEF Abort, db, store
    <2>2. \A t \in Sessions : t # s => sess'[t] = sess[t] /\ (Fresh(t)' <=> Fresh(t))
      BY <1>5, <1>t, DoneEffect DEF Abort, OnlySession, Fresh
    <2>3. ~Fresh(s)'
      BY <1>t, <2>1 DEF Fresh
    <2>4. QED
      BY <1>k, <1>t, <2>1, <2>2, <2>3
  <1>6. CASE PassGoes
    <2>1. \A t \in Sessions : sess'[t] = sess[t] /\ (Fresh(t)' <=> Fresh(t))
      BY <1>6, <1>t DEF PassGoes, OnlySession, DepositsAssumption, Fresh
    <2>2. \A d \in Deposits : dep'[d].file \in {0, dep[d].file} /\ dep'[d].enc \in {0, dep[d].enc}
      <3>1. CASE PurgeForget
        <4>1. /\ dep \in [Deposits -> Deposit]
              /\ dep' = [dep EXCEPT ![sess[Cron].id].file = 0, ![sess[Cron].id].enc = 0,
                                    ![sess[Cron].id].encStatus = "null"]
          BY <3>1 DEF PurgeForget, TypeInv, TypeOK
        <4>2. QED
          BY <4>1 DEF Deposit
      <3>2. QED
        BY <1>6, <3>1 DEF PassGoes
    <2>3. QED
      BY <1>6, <1>k, <2>1, <2>2 DEF PassGoes
  <1>7. CASE Module \/ Tick \/ UNCHANGED vars
    BY <1>7 DEF Module, Tick, vars, db, store, NameInv, Fresh
  <1>8. ASSUME NEW s \in Sessions, Goes(s), WritesRow(s) PROVE NameInv'
    <2> DEFINE q == sess[s]
               d == q.id
    <2>1. /\ \A t \in Sessions : t # s => sess'[t] = sess[t] /\ (Fresh(t)' <=> Fresh(t))
          /\ sess'[s].op # "idle" => /\ sess'[s].id = d /\ sess'[s].doc = q.doc
                                     /\ sess'[s].file = q.file /\ sess'[s].enc \in {0, q.enc}
          /\ sess'[s].op = "idle" => sess'[s] = Idle
          /\ minted' = minted /\ ~Fresh(s)'
          /\ \A e \in Deposits : e # d => dep'[e] = dep[e]
      BY <1>8, <1>t DEF Goes, OnlySession, Fresh, WritesRow
    <2>2. /\ Fresh(s) /\ dep'[d].file = q.doc /\ dep'[d].enc \in {q.doc, dep[d].enc}
          /\ q.doc \in Nat /\ q.doc # 0 /\ d \in Deposits
      BY <1>8, <1>s, <1>t DEF WritesRow, Fresh, SessionOK, Docs
    <2>3. \A t \in Sessions, doc \in Nat : Names(sess'[t], doc) => Names(sess[t], doc)
      BY <1>t, <2>1 DEF Names
    <2>4. \A e \in Deposits, doc \in Nat :
             Names(dep'[e], doc) => Names(dep[e], doc) \/ (e = d /\ doc = q.doc)
      BY <2>1, <2>2 DEF Names
    <2>5. /\ \A e \in Deposits : ~Names(dep[e], q.doc)
          /\ \A t \in Sessions : ~Names(sess[t], q.doc)
          /\ \A t \in Sessions : Fresh(t) /\ t # s => sess[t].doc # q.doc
      BY <2>2 DEF NameInv
    <2>6. /\ \A e \in Deposits : dep'[e].file <= minted' /\ dep'[e].enc <= minted'
          /\ \A t \in Sessions :
                sess'[t].doc <= minted' /\ sess'[t].file <= minted' /\ sess'[t].enc <= minted'
      BY <1>t, <2>1, <2>2 DEF NameInv
    <2>7. ASSUME NEW e \in Deposits, NEW g \in Deposits, Names(dep'[g], dep'[e].file)
          PROVE  e = g
      <3>1. CASE e = d
        BY <2>2, <2>4, <2>5, <2>7, <3>1
      <3>2. CASE e # d
        <4>1. dep'[e].file = dep[e].file /\ dep[e].file \in Nat
          BY <1>t, <2>1, <3>2
        <4>2. dep[e].file # q.doc
          <5>1. dep[e].file = q.doc => Names(dep[e], q.doc)
            BY <2>2 DEF Names
          <5>2. QED
            BY <2>5, <5>1
        <4>3. Names(dep[g], dep[e].file)
          BY <2>4, <2>7, <4>1, <4>2
        <4>4. QED
          BY <4>3 DEF NameInv
      <3>3. QED
        BY <3>1, <3>2
    <2>8. ASSUME NEW t \in Sessions, NEW e \in Deposits, sess'[t].op = "televerser",
                 Names(sess'[t], dep'[e].file)
          PROVE  Fresh(t)' /\ e = sess'[t].id
      <3>1. e # d
        BY <2>2, <2>3, <2>5, <2>8
      <3>2. Names(sess[t], dep[e].file)
        BY <1>t, <2>1, <2>3, <2>8, <3>1
      <3>3. t # s
        BY <2>2, <3>1, <3>2 DEF NameInv, Fresh
      <3>4. QED
        BY <2>1, <2>8, <3>2, <3>3 DEF NameInv
    <2>9. ASSUME NEW t \in Sessions, Fresh(t)'
          PROVE  /\ \A e \in Deposits : ~Names(dep'[e], sess'[t].doc)
                 /\ \A u \in Sessions : ~Names(sess'[u], sess'[t].doc)
                 /\ \A u \in Sessions : Fresh(u)' /\ u # t => sess'[u].doc # sess'[t].doc
      <3>1. t # s /\ Fresh(t) /\ sess'[t] = sess[t] /\ sess[t].doc \in Nat
        BY <1>t, <2>1, <2>9
      <3>2. sess[t].doc # q.doc
        BY <2>5, <3>1
      <3>3. QED
        BY <2>1, <2>3, <2>4, <3>1, <3>2 DEF NameInv
    <2>10. QED
      BY <2>6, <2>7, <2>8, <2>9 DEF NameInv
  <1>9. ASSUME NEW s \in Sessions, Step(s) PROVE NameInv'
    BY <1>3, <1>4, <1>8, <1>9, UploadMoves, RowWritten, UploadEffect, WriteEffect DEF Step
  <1>10. CASE \E s \in Sessions : Arrivals(s)
    BY <1>2, <1>10, ArrivalEffect
  <1>11. CASE \E d \in Deposits, g \in Directors \cup {Nobody} : Creer(d, g)
    BY <1>1, <1>11, CreerEffect
  <1>12. CASE PassMoves
    BY <1>6, <1>12, PassEffect DEF PassMoves
  <1>13. QED
    BY <1>5, <1>7, <1>9, <1>10, <1>11, <1>12 DEF Next, PassMoves, Procs

-----------------------------------------------------------------------------
(* Bytes of documents *)

RowStored(d) ==
    /\ dep[d].file # 0 => OldRefusal(d) \/ dep[d].file \in clear
    /\ dep[d].encStatus = "ready" =>
          dep[d].enc = dep[d].file /\ (OldRefusal(d) \/ dep[d].enc \in cipher)
    /\ dep[d].file = 0 =>
          dep[d].status \in {"absent", "brouillon"} \/ (OldRefusal(d) /\ d \in audit)
UploadStored(s) == Fresh(s) =>
    /\ sess[s].pc # "put" => sess[s].doc \in clear
    /\ sess[s].encStatus = "ready" => sess[s].pc = "write" /\ sess[s].doc \in cipher
HasFile(s) ==
    sess[s].op \notin {"idle", "televerser", "designer"} => dep[sess[s].id].file # 0

LEMMA StoreParts ==
    StoreInv <=> /\ \A d \in Deposits : RowStored(d)
                 /\ \A s \in Sessions : UploadStored(s) /\ HasFile(s)
  BY DEF StoreInv, RowStored, UploadStored, HasFile

\* A row nobody writes, whose objects stay, is stored as before.
LEMMA RowKept ==
    ASSUME DepositsAssumption, TypeInv, TimeInv, [Next]_vars, NEW d \in Deposits, RowStored(d),
           dep'[d] = dep[d], audit \subseteq audit',
           dep[d].file # 0 /\ dep[d].file \in clear => OldRefusal(d) \/ dep[d].file \in clear',
           dep[d].encStatus = "ready" /\ dep[d].enc \in cipher =>
              OldRefusal(d) \/ dep[d].enc \in cipher'
    PROVE  RowStored(d)'
  <1>1. OldRefusal(d) => OldRefusal(d)'
    BY OldStays
  <1>2. QED
    BY <1>1 DEF RowStored

LEMMA RequestStore ==
    ASSUME DepositsAssumption, TypeInv, TimeInv, NameInv, StoreInv, [Next]_vars,
           NEW s \in Sessions, Goes(s), KeepsFiles(s)
    PROVE  StoreInv'
  <1> DEFINE q == sess[s]
             d == q.id
  <1>t. /\ s \in Procs /\ d \in Deposits /\ SessionOK(s)
        /\ q.op # "idle" /\ dep[d].status # "absent" /\ ~OldRefusal(d)
    BY Quiet DEF Goes, TypeInv, Balanced, SessionOK, Procs
  <1>p. /\ \A e \in Deposits : RowStored(e)
        /\ \A t \in Sessions : UploadStored(t) /\ HasFile(t)
    BY StoreParts
  <1>1. UNCHANGED <<clear, cipher, clock, audit>>
    BY DEF Goes, KeepsFiles, store
  <1>2. ASSUME NEW e \in Deposits, e # d PROVE RowStored(e)'
    BY <1>1, <1>2, <1>p, RowKept DEF Goes
  <1>3. ASSUME NEW e \in Deposits, e = d PROVE RowStored(e)'
    <2>1. /\ dep'[d].file = dep[d].file /\ dep'[d].enc = dep[d].enc
          /\ dep'[d].encStatus = dep[d].encStatus
      BY <1>t DEF KeepsFiles
    <2>2. dep[d].file = 0 => dep'[d].status = "brouillon"
      <3>1. ASSUME dep[d].file = 0
            PROVE  dep[d].status = "brouillon" /\ q.op \notin {"soumettre", "valider", "refuser"}
        BY <1>p, <1>t, <3>1 DEF RowStored, HasFile
      <3>2. QED
        BY <3>1 DEF Goes
    <2>3. QED
      BY <1>1, <1>3, <1>p, <1>t, <2>1, <2>2 DEF RowStored
  <1>4. ASSUME NEW t \in Sessions PROVE UploadStored(t)' /\ HasFile(t)'
    <2>1. CASE t = s
      <3>1. HasFile(s)'
        BY <1>p, <1>t, <2>1 DEF Goes, KeepsFiles, HasFile
      <3>2. ~Fresh(s)'
        BY DEF Goes, KeepsFiles, Fresh, Idle
      <3>3. QED
        BY <2>1, <3>1, <3>2 DEF UploadStored
    <2>2. CASE t # s
      <3>1. sess'[t] = sess[t]
        BY <2>2 DEF Goes, OnlySession, Procs
      <3>2. sess[t].op # "idle" => sess[t].id \in Deposits
        BY DEF TypeInv, Balanced, SessionOK
      <3>3. HasFile(t)'
        BY <1>p, <3>1, <3>2 DEF KeepsFiles, HasFile
      <3>4. UploadStored(t)'
        BY <1>1, <1>p, <3>1 DEF UploadStored, Fresh
      <3>5. QED
        BY <3>3, <3>4
    <2>3. QED
      BY <2>1, <2>2
  <1>5. QED
    BY <1>2, <1>3, <1>4, StoreParts DEF StoreInv, RowStored, UploadStored, HasFile

LEMMA UploadStore ==
    ASSUME DepositsAssumption, TypeInv, TimeInv, NameInv, StoreInv, [Next]_vars,
           NEW s \in Sessions,
           \/ TeleverserPut(s) \/ TeleverserClean(s) \/ TeleverserCleanEnc(s)
           \/ \E outcome \in {"ready", "failed"} : TeleverserIngest(s, outcome)
    PROVE  StoreInv'
  <1> DEFINE q == sess[s]
  <1>t. /\ s \in Procs /\ q \in Request /\ sess \in [Procs -> Request]
        /\ SessionOK(s) /\ cipher \subseteq Docs /\ 0 \notin Docs
    BY DEF TypeInv, TypeOK, Balanced, Procs, Docs
  <1>p. /\ \A e \in Deposits : RowStored(e)
        /\ \A t \in Sessions : UploadStored(t) /\ HasFile(t)
    BY StoreParts
  <1>1. /\ UNCHANGED <<dep, clock, audit>> /\ q.op = "televerser"
        /\ \A t \in Sessions : t # s => sess'[t] = sess[t]
        /\ Fresh(s)' <=> Fresh(s)
        /\ sess'[s].op \in {"idle", "televerser"}
    <2>1. Goes(s) /\ q.op = "televerser" /\ StaysFresh(s)
      BY UploadEffect, UploadMoves
    <2>2. QED
      BY <2>1 DEF Goes, StaysFresh, OnlySession, Procs, Idle
  \* It is enough that the objects named are there.
  <1>2. ASSUME \A e \in Deposits : /\ dep[e].file # 0 /\ dep[e].file \in clear => dep[e].file \in clear'
                                   /\ dep[e].encStatus = "ready" /\ dep[e].enc \in cipher =>
                                         OldRefusal(e) \/ dep[e].enc \in cipher',
               \A t \in Sessions : Fresh(t) /\ t # s =>
                  /\ sess[t].doc \in clear => sess[t].doc \in clear'
                  /\ sess[t].doc \in cipher => sess[t].doc \in cipher',
               UploadStored(s)'
        PROVE  StoreInv'
    <2>1. ASSUME NEW e \in Deposits PROVE RowStored(e)'
      BY <1>1, <1>2, <1>p, RowKept
    <2>2. ASSUME NEW t \in Sessions PROVE UploadStored(t)' /\ HasFile(t)'
      <3>1. HasFile(t)'
        BY <1>1, <1>p DEF HasFile
      <3>2. UploadStored(t)'
        BY <1>1, <1>2, <1>p DEF UploadStored, Fresh
      <3>3. QED
        BY <3>1, <3>2
    <2>3. QED
      BY <2>1, <2>2, StoreParts DEF StoreInv, RowStored, UploadStored, HasFile
  <1>3. CASE TeleverserPut(s)
    <2>1. /\ clear' = clear \cup {q.doc} /\ cipher' = cipher /\ q.pc = "put"
          /\ sess'[s].doc = q.doc /\ sess'[s].encStatus = q.encStatus
      BY <1>3, <1>t, GotoEffect DEF TeleverserPut, At, Labels
    <2>2. UploadStored(s)'
      BY <1>1, <1>p, <2>1 DEF UploadStored, Fresh
    <2>3. QED
      BY <1>2, <2>1, <2>2
  <1>4. ASSUME NEW outcome \in {"ready", "failed"}, TeleverserIngest(s, outcome) PROVE StoreInv'
    <2>1. /\ clear' = clear /\ cipher \subseteq cipher' /\ q.pc = "ingest"
          /\ outcome = "ready" => q.doc \in cipher'
          /\ sess' = [sess EXCEPT ![s] = [q EXCEPT !.pc = "write", !.encStatus = outcome]]
      BY <1>4, <1>t DEF TeleverserIngest, At
    <2>2. sess'[s].doc = q.doc /\ sess'[s].encStatus = outcome /\ sess'[s].pc = "write"
      BY <1>t, <2>1 DEF Request
    <2>3. UploadStored(s)'
      BY <1>1, <1>p, <2>1, <2>2 DEF UploadStored, Fresh
    <2>4. QED
      BY <1>2, <2>1, <2>3
  \* What an upload removes is named by no row and by no fresh upload.
  <1>5. CASE TeleverserClean(s)
    <2>1. cipher' = cipher /\ clear \ Precedent(q) \subseteq clear' /\ ~Fresh(s)
      BY <1>5 DEF TeleverserClean, At, Fresh
    <2>2. \A e \in Deposits : dep[e].file # 0 => dep[e].file # q.file
      BY <1>1, <2>1 DEF NameInv, Names
    <2>3. \A t \in Sessions : Fresh(t) => sess[t].doc # q.file \/ sess[t].doc = 0
      BY DEF NameInv, Names
    <2>4. QED
      BY <1>1, <1>2, <2>1, <2>2, <2>3 DEF Precedent, UploadStored
  <1>6. CASE TeleverserCleanEnc(s)
    <2>1. clear' = clear /\ cipher \ {q.enc} \subseteq cipher' /\ ~Fresh(s)
      BY <1>6 DEF TeleverserCleanEnc, At, Fresh
    <2>2. \A e \in Deposits : dep[e].encStatus = "ready" /\ dep[e].enc \in cipher => dep[e].enc # q.enc
      BY <1>1, <1>p, <1>t, <2>1 DEF NameInv, Names, RowStored
    <2>3. \A t \in Sessions : Fresh(t) => sess[t].doc # q.enc \/ sess[t].doc = 0
      BY DEF NameInv, Names
    <2>4. QED
      BY <1>1, <1>2, <1>t, <2>1, <2>2, <2>3 DEF UploadStored
  <1>7. QED
    BY <1>3, <1>4, <1>5, <1>6

LEMMA WriteStore ==
    ASSUME DepositsAssumption, TypeInv, TimeInv, NameInv, StoreInv, [Next]_vars,
           NEW s \in Sessions, TeleverserWrite(s)
    PROVE  StoreInv'
  <1> DEFINE q == sess[s]
             d == q.id
  <1>w. Goes(s) /\ WritesRow(s)
    BY UploadEffect, RowWritten
  <1>t. /\ s \in Procs /\ d \in Deposits /\ SessionOK(s) /\ q.doc # 0
        /\ q.op = "televerser" /\ dep[d].status # "absent"
    BY <1>w DEF WritesRow, Fresh, TypeInv, Balanced, SessionOK, Procs, Docs
  <1>p. /\ \A e \in Deposits : RowStored(e)
        /\ \A t \in Sessions : UploadStored(t) /\ HasFile(t)
    BY StoreParts
  <1>1. UNCHANGED <<clear, cipher, audit>> /\ \A e \in Deposits : e # d => dep'[e] = dep[e]
    BY <1>w DEF Goes, WritesRow
  <1>2. \A t \in Sessions : t # s => sess'[t] = sess[t]
    BY <1>w DEF Goes, OnlySession, Procs
  <1>3. ASSUME NEW e \in Deposits, e # d PROVE RowStored(e)'
    BY <1>1, <1>3, <1>p, RowKept
  <1>4. ASSUME NEW e \in Deposits, e = d PROVE RowStored(e)'
    BY <1>1, <1>4, <1>p, <1>t, <1>w DEF WritesRow, UploadStored, RowStored
  <1>5. ASSUME NEW t \in Sessions PROVE UploadStored(t)' /\ HasFile(t)'
    <2>1. dep'[d].file # 0
      BY <1>t, <1>w DEF WritesRow
    <2>2. CASE t = s
      BY <1>t, <1>w, <2>2 DEF WritesRow, Goes, UploadStored, HasFile
    <2>3. CASE t # s
      <3>1. UploadStored(t)'
        BY <1>1, <1>2, <1>p, <2>3 DEF UploadStored, Fresh
      <3>2. sess[t].op # "idle" => sess[t].id \in Deposits
        BY DEF TypeInv, Balanced, SessionOK
      <3>3. HasFile(t)'
        BY <1>1, <1>2, <1>p, <2>1, <2>3, <3>2 DEF HasFile
      <3>4. QED
        BY <3>1, <3>3
    <2>4. QED
      BY <2>2, <2>3
  <1>6. QED
    BY <1>3, <1>4, <1>5, StoreParts DEF StoreInv, RowStored, UploadStored, HasFile

\* The pass removes what old refusals name, and nothing else.
LEMMA PassStore ==
    ASSUME DepositsAssumption, TypeInv, TimeInv, PassInv, NameInv, StoreInv, [Next]_vars,
           PassMoves
    PROVE  StoreInv'
  <1> DEFINE q == sess[Cron]
  <1>t. /\ Cron \in Procs /\ q \in Request /\ PassOK
        /\ cipher \subseteq Docs /\ 0 \notin Docs /\ dep \in [Deposits -> Deposit]
    BY DEF TypeInv, TypeOK, Balanced, Procs, Docs
  <1>p. /\ \A e \in Deposits : RowStored(e)
        /\ \A t \in Sessions : UploadStored(t) /\ HasFile(t)
    BY StoreParts
  <1>1. /\ PassGoes /\ audit \subseteq audit'
        /\ \A t \in Sessions : sess'[t] = sess[t] /\ (Fresh(t)' <=> Fresh(t))
    BY PassEffect DEF PassMoves, PassGoes, OnlySession, Procs, DepositsAssumption, Fresh
  <1>2. ASSUME UNCHANGED dep,
               \A e \in Deposits :
                  /\ dep[e].file # 0 /\ dep[e].file \in clear =>
                        OldRefusal(e) \/ dep[e].file \in clear'
                  /\ dep[e].encStatus = "ready" /\ dep[e].enc \in cipher =>
                        OldRefusal(e) \/ dep[e].enc \in cipher',
               \A t \in Sessions : Fresh(t) =>
                  /\ sess[t].doc \in clear => sess[t].doc \in clear'
                  /\ sess[t].doc \in cipher => sess[t].doc \in cipher'
        PROVE  StoreInv'
    <2>1. ASSUME NEW e \in Deposits PROVE RowStored(e)'
      BY <1>1, <1>2, <1>p, RowKept
    <2>2. ASSUME NEW t \in Sessions PROVE UploadStored(t)' /\ HasFile(t)'
      BY <1>1, <1>2, <1>p DEF UploadStored, HasFile
    <2>3. QED
      BY <2>1, <2>2, StoreParts DEF StoreInv, RowStored, UploadStored, HasFile
  <1>3. CASE PurgeStart \/ PurgeNext \/ PurgeLog \/ PurgeEnd \/ Abort(Cron)
    BY <1>2, <1>3 DEF PurgeStart, PurgeNext, PurgeLog, PurgeEnd, Abort, db, store
  <1>r. q.pc \in {"purge", "purgeEnc", "log", "forget"} =>
           q.id \in Deposits /\ OldRefusal(q.id) /\ q.file = dep[q.id].file /\ q.enc = dep[q.id].enc
    BY <1>t DEF PassInv, Read, PassOK
  <1>4. CASE PurgeClear
    <2>1. /\ UNCHANGED <<dep, cipher>> /\ clear \ {q.file} \subseteq clear' /\ q.pc = "purge"
      BY <1>4 DEF PurgeClear, db
    <2>2. \A e \in Deposits : dep[e].file # 0 /\ dep[e].file = q.file => e = q.id
      BY <1>r, <2>1 DEF NameInv, Names
    <2>3. \A t \in Sessions : Fresh(t) => sess[t].doc # q.file \/ sess[t].doc = 0
      BY <1>r, <2>1 DEF NameInv, Names
    <2>4. \A t \in Sessions : Fresh(t) => sess[t].doc # 0
      BY <1>t DEF Fresh, TypeInv, Balanced, SessionOK
    <2>5. QED
      BY <1>2, <1>r, <2>1, <2>2, <2>3, <2>4
  <1>5. CASE PurgeEnc
    <2>1. /\ UNCHANGED <<dep, clear>> /\ cipher \ {q.enc} \subseteq cipher' /\ q.pc = "purgeEnc"
      BY <1>5 DEF PurgeEnc, db
    <2>2. \A e \in Deposits : dep[e].encStatus = "ready" /\ dep[e].enc \in cipher =>
             e = q.id \/ dep[e].enc # q.enc
      BY <1>p, <1>r, <1>t, <2>1 DEF NameInv, Names, RowStored
    <2>3. \A t \in Sessions : Fresh(t) => sess[t].doc # q.enc \/ sess[t].doc = 0
      BY <1>r, <2>1 DEF NameInv, Names
    <2>4. \A t \in Sessions : Fresh(t) => sess[t].doc # 0
      BY <1>t DEF Fresh, TypeInv, Balanced, SessionOK
    <2>5. QED
      BY <1>2, <1>r, <2>1, <2>2, <2>3, <2>4
  <1>6. CASE PurgeForget
    <2>1. /\ q.pc = "forget" /\ UNCHANGED <<clear, cipher, clock, audit>>
          /\ dep' = [dep EXCEPT ![q.id].file = 0, ![q.id].enc = 0, ![q.id].encStatus = "null"]
      BY <1>6 DEF PurgeForget, store
    <2>2. q.id \in Deposits /\ OldRefusal(q.id) /\ q.id \in audit
      BY <1>r, <2>1 DEF PassInv
    <2>3. /\ \A e \in Deposits : e # q.id => dep'[e] = dep[e]
          /\ dep'[q.id].file = 0 /\ dep'[q.id].encStatus = "null"
      BY <1>t, <2>1, <2>2 DEF Deposit
    <2>4. ASSUME NEW e \in Deposits PROVE RowStored(e)'
      <3>1. CASE e # q.id
        BY <1>1, <1>p, <2>1, <2>3, <3>1, RowKept
      <3>2. CASE e = q.id
        <4>1. OldRefusal(e)'
          BY <2>2, <3>2, OldStays
        <4>2. QED
          BY <2>1, <2>2, <2>3, <3>2, <4>1 DEF RowStored
      <3>3. QED
        BY <3>1, <3>2
    <2>5. ASSUME NEW t \in Sessions PROVE UploadStored(t)' /\ HasFile(t)'
      <3>1. sess[t].op # "idle" => sess[t].id \in Deposits /\ sess[t].id # q.id
        BY <2>2, Quiet DEF TypeInv, Balanced, SessionOK
      <3>2. HasFile(t)'
        <4>1. sess'[t] = sess[t] /\ HasFile(t)
          BY <1>1, <1>p
        <4>2. sess[t].op # "idle" => dep'[sess[t].id] = dep[sess[t].id]
          BY <2>3, <3>1
        <4>3. QED
          BY <4>1, <4>2 DEF HasFile
      <3>3. UploadStored(t)'
        BY <1>1, <1>p, <2>1 DEF UploadStored
      <3>4. QED
        BY <3>2, <3>3
    <2>6. QED
      BY <2>4, <2>5, StoreParts DEF StoreInv, RowStored, UploadStored, HasFile
  <1>7. QED
    BY <1>3, <1>4, <1>5, <1>6 DEF PassMoves, PurgeStep

LEMMA StoreNext ==
    ASSUME DepositsAssumption, TypeInv, TimeInv, PassInv, NameInv, StoreInv, [Next]_vars
    PROVE  StoreInv'
  <1>p. /\ \A e \in Deposits : RowStored(e)
        /\ \A t \in Sessions : UploadStored(t) /\ HasFile(t)
    BY StoreParts
  <1>1. CASE PassMoves
    BY <1>1, PassStore
  <1>2. ASSUME NEW s \in Sessions, Step(s) PROVE StoreInv'
    BY <1>2, UploadStore, WriteStore, RequestStore, WriteEffect DEF Step
  <1>3. ASSUME NEW s \in Sessions, NEW d \in Deposits, Arrived(s, d) PROVE StoreInv'
    <2>1. /\ UNCHANGED <<dep, audit, clear, cipher>>
          /\ \A t \in Sessions : t # s => sess'[t] = sess[t]
          /\ sess'[s].op = "televerser" => sess'[s].pc = "put" /\ sess'[s].encStatus # "ready"
          /\ sess'[s].id = d /\ dep[d].status # "refuse"
          /\ sess'[s].op \notin {"televerser", "designer"} =>
                dep[d].file # 0 \/ dep[d].status \in {"soumis", "valide"}
      BY <1>3 DEF Arrived, OnlySession, Procs, db
    <2>2. ASSUME NEW e \in Deposits PROVE RowStored(e)'
      BY <1>p, <2>1, RowKept
    <2>3. ASSUME NEW t \in Sessions PROVE UploadStored(t)' /\ HasFile(t)'
      <3>1. CASE t # s
        BY <1>p, <2>1, <3>1 DEF UploadStored, HasFile, Fresh
      <3>2. CASE t = s
        BY <1>p, <2>1, <3>2 DEF UploadStored, HasFile, Fresh, RowStored, OldRefusal
      <3>3. QED
        BY <3>1, <3>2
    <2>4. QED
      BY <2>2, <2>3, StoreParts DEF StoreInv, RowStored, UploadStored, HasFile
  <1>4. ASSUME NEW d \in Deposits, CreerGoes(d) PROVE StoreInv'
    <2>1. /\ UNCHANGED <<audit, clear, cipher, sess>> /\ dep[d].status = "absent"
          /\ \A e \in Deposits : e # d => dep'[e] = dep[e]
          /\ \A e \in Deposits : dep'[e].file = dep[e].file
      BY <1>4 DEF CreerGoes
    <2>2. ASSUME NEW e \in Deposits PROVE RowStored(e)'
      <3>1. CASE e # d
        BY <1>p, <2>1, <3>1, RowKept
      <3>2. CASE e = d
        BY <1>4, <1>p, <3>2 DEF CreerGoes, RowStored, OldRefusal
      <3>3. QED
        BY <3>1, <3>2
    <2>3. ASSUME NEW t \in Sessions PROVE UploadStored(t)' /\ HasFile(t)'
      <3>1. sess[t].op # "idle" => sess[t].id \in Deposits
        BY DEF TypeInv, Balanced, SessionOK
      <3>2. QED
        BY <1>p, <2>1, <3>1 DEF UploadStored, HasFile, Fresh
    <2>4. QED
      BY <2>2, <2>3, StoreParts DEF StoreInv, RowStored, UploadStored, HasFile
  <1>5. ASSUME NEW s \in Sessions, Abort(s) PROVE StoreInv'
    <2>1. /\ UNCHANGED <<dep, audit, clear, cipher>> /\ sess'[s] = Idle
          /\ \A t \in Sessions : t # s => sess'[t] = sess[t]
      BY <1>5, DoneEffect DEF Abort, OnlySession, Procs, db, store
    <2>2. ASSUME NEW e \in Deposits PROVE RowStored(e)'
      BY <1>p, <2>1, RowKept
    <2>3. ASSUME NEW t \in Sessions PROVE UploadStored(t)' /\ HasFile(t)'
      BY <1>p, <2>1 DEF UploadStored, HasFile, Fresh, Idle
    <2>4. QED
      BY <2>2, <2>3, StoreParts DEF StoreInv, RowStored, UploadStored, HasFile
  <1>6. CASE Module \/ Tick \/ UNCHANGED vars
    <2>1. UNCHANGED <<dep, audit, clear, cipher, sess>>
      BY <1>6 DEF Module, Tick, vars, db, store
    <2>2. ASSUME NEW e \in Deposits PROVE RowStored(e)'
      BY <1>p, <2>1, RowKept
    <2>3. ASSUME NEW t \in Sessions PROVE UploadStored(t)' /\ HasFile(t)'
      BY <1>p, <2>1 DEF UploadStored, HasFile, Fresh
    <2>4. QED
      BY <2>2, <2>3, StoreParts DEF StoreInv, RowStored, UploadStored, HasFile
  <1>7. CASE \E s \in Sessions : Arrivals(s)
    BY <1>3, <1>7, ArrivalEffect
  <1>8. CASE \E d \in Deposits, g \in Directors \cup {Nobody} : Creer(d, g)
    BY <1>4, <1>8, CreerEffect
  <1>9. QED
    BY <1>1, <1>2, <1>5, <1>6, <1>7, <1>8 DEF Next, PassMoves, Procs

-----------------------------------------------------------------------------
(* Theorems *)

LEMMA RaceInit == DepositsAssumption /\ Init => RaceInv
  <1> SUFFICES ASSUME DepositsAssumption, Init PROVE RaceInv
    OBVIOUS
  <1>1. /\ \A d \in Deposits : /\ dep[d].file = 0 /\ dep[d].enc = 0 /\ dep[d].encStatus = "null"
                               /\ dep[d].status = "absent" /\ dep[d].notified = Nobody
        /\ \A s \in Procs : /\ sess[s].op = "idle" /\ sess[s].pc = "idle" /\ sess[s].doc = 0
                            /\ sess[s].file = 0 /\ sess[s].enc = 0 /\ sess[s].todo = {}
        /\ minted = 0 /\ Cron \in Procs /\ \A s \in Sessions : s \in Procs
    BY DEF Init, NoDeposit, Idle, Procs
  <1>2. Marked /\ TimeInv /\ PassInv
    BY <1>1 DEF Marked, MarkedWasTold, TimeInv, PassInv
  <1>3. NameInv /\ StoreInv
    BY <1>1 DEF NameInv, StoreInv, Names, Fresh
  <1>4. QED
    BY <1>2, <1>3 DEF RaceInv

LEMMA RaceInvariant == Spec => [](TypeInv /\ RaceInv)
  <1>1. Init => TypeInv /\ RaceInv
    BY TypeInit, RaceInit, DepositsAssumption
  <1>2. TypeInv /\ RaceInv /\ [Next]_vars => (TypeInv /\ RaceInv)'
    BY TypeNext, MarkedNext, TimeNext, PassNext, NameNext, StoreNext, DepositsAssumption
       DEF RaceInv
  <1>3. QED
    BY <1>1, <1>2, PTL DEF Spec

\* A director marked as told received the message, whatever overlaps or dies
\* between the message and its mark.
THEOREM MarkMeansMessage == Spec => []MarkedWasTold
  <1>1. TypeInv /\ RaceInv => MarkedWasTold
    BY DEF RaceInv, Marked
  <1>2. QED
    BY <1>1, RaceInvariant, PTL

\* "Jamais de fenetre ou le depot n'a plus de document", for any number of uploads
\* that overlap, crashes and refusals of the store.
THEOREM DocumentStays == Spec => []DocumentIsThere
  <1>1. TypeInv /\ RaceInv => DocumentIsThere
    BY DEF RaceInv, StoreInv, DocumentIsThere, OldRefusal
  <1>2. QED
    BY <1>1, RaceInvariant, PTL

\* A twin said ready is the twin of the document of its row, and is in the store.
THEOREM TwinIsItsOwn == Spec => []ReadyTwinIsItsOwn
  <1>1. TypeInv /\ RaceInv => ReadyTwinIsItsOwn
    BY DEF RaceInv, StoreInv, ReadyTwinIsItsOwn, OldRefusal
  <1>2. QED
    BY <1>1, RaceInvariant, PTL

\* A deposit past the draft that has no document was refused, and the log says that
\* the document was purged: no race and no crash loses one silently.
THEOREM LossIsTraced == Spec => []MissingDocumentIsTraced
  <1>1. TypeInv /\ RaceInv => MissingDocumentIsTraced
    BY DEF RaceInv, StoreInv, MissingDocumentIsTraced, OldRefusal
  <1>2. QED
    BY <1>1, RaceInvariant, PTL

-----------------------------------------------------------------------------
(* The document that was judged *)

\* It belongs to its deposit: no other row names it, an upload that found it is on
\* that deposit, and none is about to name it.
Belongs(doc, d) == doc # 0 =>
    /\ \A e \in Deposits : dep[e].file = doc => e = d
    /\ \A s \in Sessions : sess[s].op = "televerser" /\ sess[s].file = doc => sess[s].id = d
    /\ \A s \in Sessions : Fresh(s) => sess[s].doc # doc
JudgedInv == \A d \in Deposits : dep[d].judged <= minted /\ Belongs(dep[d].judged, d)

\* So does the document a row names now.
LEMMA FileBelongs ==
    ASSUME NameInv, NEW d \in Deposits
    PROVE  dep[d].file <= minted /\ Belongs(dep[d].file, d)
  BY DEF NameInv, Names, Belongs

LEMMA JudgedNext ==
    ASSUME DepositsAssumption, TypeInv, NameInv, JudgedInv, [Next]_vars PROVE JudgedInv'
  <1>t. /\ minted \in Nat /\ Idle.op = "idle" /\ \A s \in Sessions : s \in Procs
        /\ \A d \in Deposits : dep[d].file \in Nat /\ dep[d].judged \in Nat
    <2>1. Docs \cup {0} \subseteq Nat
      BY DEF Docs
    <2>2. \A d \in Deposits : dep[d].file \in Docs \cup {0} /\ dep[d].judged \in Docs \cup {0}
      BY DEF TypeInv, TypeOK, Deposit
    <2>3. minted \in Nat
      BY DEF TypeInv, TypeOK
    <2>4. QED
      BY <2>1, <2>2, <2>3 DEF Idle, Procs
  \* Names that go: a decision may note the document of its row.
  <1>k. ASSUME minted' = minted,
               \A d \in Deposits : /\ dep'[d].file \in {0, dep[d].file}
                                   /\ dep'[d].judged \in {dep[d].judged, dep[d].file},
               \A s \in Sessions :
                  /\ Fresh(s)' => Fresh(s) /\ sess'[s].doc = sess[s].doc
                  /\ sess'[s].op = "televerser" =>
                        /\ sess[s].op = "televerser" /\ sess'[s].id = sess[s].id
                        /\ sess'[s].file = sess[s].file
        PROVE  JudgedInv'
    <2>1. SUFFICES ASSUME NEW d \in Deposits
                   PROVE  dep'[d].judged <= minted' /\ Belongs(dep[d].judged, d)'
      BY DEF JudgedInv
    <2>2. dep'[d].judged <= minted /\ Belongs(dep'[d].judged, d)
      BY <1>k, FileBelongs DEF JudgedInv
    <2>3. QED
      BY <1>k, <2>2 DEF Belongs
  <1>1. ASSUME NEW d \in Deposits, CreerGoes(d) PROVE JudgedInv'
    <2>1. \A e \in Deposits : dep'[e].file = dep[e].file /\ dep'[e].judged = dep[e].judged
      BY <1>1 DEF CreerGoes
    <2>2. QED
      BY <1>1, <1>k, <2>1 DEF CreerGoes, Fresh
  <1>2. ASSUME NEW s \in Sessions, NEW d \in Deposits, Arrived(s, d) PROVE JudgedInv'
    <2>1. /\ dep' = dep /\ sess'[s].id = d /\ sess'[s].file \in {0, dep[d].file}
          /\ Fresh(s)' => sess'[s].doc = minted + 1
          /\ minted' \in {minted, minted + 1}
      BY <1>2 DEF Arrived, db, Fresh
    <2>2. \A t \in Sessions : t # s => sess'[t] = sess[t] /\ (Fresh(t)' <=> Fresh(t))
      BY <1>2, <1>t DEF Arrived, OnlySession, Fresh
    <2>3. SUFFICES ASSUME NEW e \in Deposits
                   PROVE  dep'[e].judged <= minted' /\ Belongs(dep[e].judged, e)'
      BY DEF JudgedInv
    <2>4. dep[e].judged <= minted /\ Belongs(dep[e].judged, e) /\ dep[e].judged # minted + 1
      BY <1>t DEF JudgedInv
    <2>5. QED
      BY <1>t, <2>1, <2>2, <2>4 DEF Belongs
  <1>3. ASSUME NEW s \in Sessions, Goes(s), KeepsFiles(s) PROVE JudgedInv'
    <2>1. \A t \in Sessions : t # s => sess'[t] = sess[t]
      BY <1>3, <1>t DEF Goes, OnlySession
    <2>2. sess'[s].op # "televerser" /\ sess[s].op # "televerser"
      BY <1>3, <1>t DEF Goes, KeepsFiles
    <2>3. QED
      BY <1>3, <1>k, <2>1, <2>2 DEF Goes, KeepsFiles, Fresh
  <1>4. ASSUME NEW s \in Sessions, Goes(s), StaysFresh(s) PROVE JudgedInv'
    <2>1. \A t \in Sessions : t # s => sess'[t] = sess[t] /\ (Fresh(t)' <=> Fresh(t))
      BY <1>4, <1>t DEF Goes, OnlySession, Fresh
    <2>2. Fresh(s)' => sess'[s].op # "idle"
      BY DEF Fresh
    <2>3. QED
      BY <1>4, <1>k, <1>t, <2>1, <2>2 DEF Goes, StaysFresh
  <1>5. ASSUME NEW s \in Sessions, Abort(s) PROVE JudgedInv'
    <2>1. sess'[s] = Idle /\ UNCHANGED <<dep, minted>>
      BY <1>5, <1>t, DoneEffect DEF Abort, db, store
    <2>2. \A t \in Sessions : t # s => sess'[t] = sess[t] /\ (Fresh(t)' <=> Fresh(t))
      BY <1>5, <1>t, DoneEffect DEF Abort, OnlySession, Fresh
    <2>3. ~Fresh(s)'
      BY <1>t, <2>1 DEF Fresh
    <2>4. QED
      BY <1>k, <1>t, <2>1, <2>2, <2>3
  <1>6. CASE PassGoes
    <2>1. \A t \in Sessions : sess'[t] = sess[t] /\ (Fresh(t)' <=> Fresh(t))
      BY <1>6, <1>t DEF PassGoes, OnlySession, DepositsAssumption, Fresh
    <2>2. \A d \in Deposits : dep'[d].file \in {0, dep[d].file} /\ dep'[d].judged = dep[d].judged
      <3>1. CASE PurgeForget
        <4>1. /\ dep \in [Deposits -> Deposit]
              /\ dep' = [dep EXCEPT ![sess[Cron].id].file = 0, ![sess[Cron].id].enc = 0,
                                    ![sess[Cron].id].encStatus = "null"]
          BY <3>1 DEF PurgeForget, TypeInv, TypeOK
        <4>2. QED
          BY <4>1 DEF Deposit
      <3>2. QED
        BY <1>6, <3>1 DEF PassGoes
    <2>3. QED
      BY <1>6, <1>k, <2>1, <2>2 DEF PassGoes
  <1>7. CASE Module \/ Tick \/ UNCHANGED vars
    BY <1>7 DEF Module, Tick, vars, db, store, JudgedInv, Belongs, Fresh
  <1>8. ASSUME NEW s \in Sessions, Goes(s), WritesRow(s) PROVE JudgedInv'
    <2> DEFINE q == sess[s]
    <2>1. /\ \A t \in Sessions : t # s => sess'[t] = sess[t] /\ (Fresh(t)' <=> Fresh(t))
          /\ sess'[s].op = "televerser" => /\ q.op = "televerser" /\ sess'[s].id = q.id
                                           /\ sess'[s].file = q.file
          /\ minted' = minted /\ ~Fresh(s)' /\ Fresh(s)
          /\ \A e \in Deposits : e # q.id => dep'[e] = dep[e]
          /\ dep'[q.id].file = q.doc /\ dep'[q.id].judged = dep[q.id].judged
      BY <1>8, <1>t DEF Goes, OnlySession, Fresh, WritesRow
    <2>2. SUFFICES ASSUME NEW d \in Deposits
                   PROVE  dep'[d].judged <= minted' /\ Belongs(dep[d].judged, d)'
      BY DEF JudgedInv
    <2>3. dep'[d].judged = dep[d].judged /\ dep[d].judged <= minted /\ Belongs(dep[d].judged, d)
      BY <2>1 DEF JudgedInv
    <2>4. QED
      BY <2>1, <2>3 DEF Belongs
  <1>9. ASSUME NEW s \in Sessions, Step(s) PROVE JudgedInv'
    BY <1>3, <1>4, <1>8, <1>9, UploadMoves, RowWritten, UploadEffect, WriteEffect DEF Step
  <1>10. CASE \E s \in Sessions : Arrivals(s)
    BY <1>2, <1>10, ArrivalEffect
  <1>11. CASE \E d \in Deposits, g \in Directors \cup {Nobody} : Creer(d, g)
    BY <1>1, <1>11, CreerEffect
  <1>12. CASE PassMoves
    BY <1>6, <1>12, PassEffect DEF PassMoves
  <1>13. QED
    BY <1>5, <1>7, <1>9, <1>10, <1>11, <1>12 DEF Next, PassMoves, Procs

LEMMA JudgedInvariant == Spec => [](TypeInv /\ RaceInv /\ JudgedInv)
  <1>1. Init => JudgedInv
    BY DEF Init, JudgedInv, Belongs, NoDeposit
  <1>2. TypeInv /\ RaceInv /\ JudgedInv /\ [Next]_vars => JudgedInv'
    BY JudgedNext, DepositsAssumption DEF RaceInv
  <1>3. QED
    BY <1>1, <1>2, RaceInvariant, PTL DEF Spec

\* Only two steps delete a document: that of the purge and that of an upload.
LEMMA WhoDeletes ==
    ASSUME DepositsAssumption, TypeInv, [Next]_vars
    PROVE  clear \subseteq clear' \/ PurgeClear \/ \E s \in Sessions : TeleverserClean(s)
  <1>1. ASSUME NEW s \in Sessions, Arrivals(s) \/ Step(s), ~TeleverserClean(s)
        PROVE  clear \subseteq clear'
    <2>1. CASE Arrivals(s)
      BY <2>1, ArrivalEffect DEF Arrived
    <2>2. CASE TeleverserPut(s) \/ TeleverserWrite(s) \/ TeleverserCleanEnc(s)
               \/ \E outcome \in {"ready", "failed"} : TeleverserIngest(s, outcome)
      BY <2>2 DEF TeleverserPut, TeleverserWrite, TeleverserCleanEnc, TeleverserIngest, store
    <2>3. QED
      BY <1>1, <2>1, <2>2, WriteEffect DEF Step, KeepsFiles, store
  <1>2. CASE \/ PurgeStart \/ PurgeNext \/ PurgeEnc \/ PurgeLog \/ PurgeForget \/ PurgeEnd
             \/ \E s \in Procs : Abort(s)
             \/ \E e \in Deposits, g \in Directors \cup {Nobody} : Creer(e, g)
             \/ Module \/ Tick \/ UNCHANGED vars
    BY <1>2 DEF PurgeStart, PurgeNext, PurgeEnc, PurgeLog, PurgeForget, PurgeEnd, Abort, Creer,
       Module, Tick, vars, store
  <1>3. QED
    BY <1>1, <1>2 DEF Next, PurgeStep

\* What a step may delete of a refusal whose retention runs.
Spared(d) ==
    /\ dep[d].file \notin clear \ clear'
    /\ dep[d].judged \in clear \ clear' => LateUpload(d)

LEMMA RefusalSpared ==
    ASSUME DepositsAssumption, TypeInv, RaceInv, JudgedInv, [Next]_vars,
           NEW d \in Deposits, dep[d].status = "refuse", ~OldRefusal(d)
    PROVE  Spared(d)
  <1>1. NameInv /\ TimeInv /\ 0 \notin clear
    BY DEF RaceInv, TypeInv, TypeOK, Docs
  <1>2. CASE clear \subseteq clear'
    BY <1>2 DEF Spared
  <1>3. CASE PurgeClear
    <2>1. sess[Cron].pc = "purge" /\ clear \ clear' \subseteq {sess[Cron].file}
      BY <1>3 DEF PurgeClear
    <2>2. sess[Cron].id \in Deposits /\ Read(sess[Cron])
      BY <2>1 DEF RaceInv, PassInv, TypeInv, Balanced, PassOK
    <2>3. sess[Cron].id # d /\ dep[sess[Cron].id].file = sess[Cron].file
      BY <2>2 DEF Read
    <2>4. dep[d].file \notin clear \ clear'
      BY <1>1, <2>1, <2>2, <2>3 DEF NameInv, Names
    <2>5. dep[d].judged \notin clear \ clear'
      BY <1>1, <2>1, <2>2, <2>3 DEF JudgedInv, Belongs
    <2>6. QED
      BY <2>4, <2>5 DEF Spared
  <1>4. ASSUME NEW s \in Sessions, TeleverserClean(s) PROVE Spared(d)
    <2>1. /\ clear \ clear' \subseteq {sess[s].file} /\ sess[s].op = "televerser" /\ ~Fresh(s)
          /\ At(s, {"televerser"}, "clean")
      BY <1>4 DEF TeleverserClean, Precedent, At, Fresh
    <2>2. dep[d].file \notin clear \ clear'
      BY <1>1, <2>1 DEF NameInv, Names
    <2>3. ASSUME dep[d].judged \in clear \ clear' PROVE LateUpload(d)
      <3>1. sess[s].id = d
        BY <1>1, <2>1, <2>3 DEF JudgedInv, Belongs
      <3>2. sess[s].now <= dep[d].decidedAt
        BY <1>1, <2>1, <3>1 DEF TimeInv
      <3>3. QED
        BY <2>1, <3>1, <3>2 DEF LateUpload
    <2>4. QED
      BY <2>2, <2>3 DEF Spared
  <1>5. QED
    BY <1>2, <1>3, <1>4, WhoDeletes

\* The retention of a refusal is over, or it is not.
LEMMA RetentionRuns ==
    ASSUME TypeInv, DepositsAssumption, NEW d \in Deposits, dep[d].status = "refuse"
    PROVE  dep[d].decidedAt + Retention >= clock <=> ~OldRefusal(d)
  <1>1. dep[d].decidedAt \in Nat /\ Retention \in Nat /\ clock \in Nat
    BY DEF TypeInv, TypeOK, Deposit, DepositsAssumption
  <1>2. QED
    BY <1>1 DEF OldRefusal

\* Until the retention of a refusal is over, the purge deletes neither the document its
\* row names nor the one that was refused, and no request does, but an upload begun on
\* the draft: that one may end after the refusal and delete what it had found there.
THEOREM RetentionKept == Spec => KeptForRetention
  <1>1. TypeInv /\ RaceInv /\ JudgedInv /\ [Next]_vars =>
            \A d \in Deposits :
                dep[d].status = "refuse" /\ dep[d].decidedAt + Retention >= clock =>
                    /\ dep[d].file \notin clear \ clear'
                    /\ dep[d].judged \in clear \ clear' => LateUpload(d)
    BY RefusalSpared, RetentionRuns, DepositsAssumption DEF Spared
  <1>2. QED
    BY <1>1, JudgedInvariant, PTL DEF KeptForRetention, Spec

-----------------------------------------------------------------------------
(* Requests that do not overlap on a deposit *)

\* What a request has read of its row stays true until it writes it.
StillTrue(q, row) ==
    /\ q.op \in {"televerser", "designer"} => row.status = "brouillon"
    /\ q.op = "soumettre" /\ q.pc = "write" => row.status = "brouillon"
    /\ q.op = "reattribuer" /\ q.pc = "write" => row.status = "soumis"
    /\ q.op = "retirer" => row.status = "soumis"
    /\ q.op \in {"valider", "refuser"} => row.status = "soumis" /\ row.director = q.user
    /\ q.op = "rattacher" => /\ row.status = "valide" /\ row.record = NoRecord
                             /\ q.file = row.file /\ q.enc = row.enc /\ q.encStatus = row.encStatus

\* A deposit that has a record was approved, and its one copy is what its row says.
Copied(row, list) ==
    IF row.record = NoRecord THEN list = <<>>
    ELSE /\ row.status = "valide" /\ Len(list) = 1 /\ list[1].record = row.record
         /\ list[1].doc = row.file /\ list[1].enc = row.enc /\ list[1].encStatus = row.encStatus

\* The requests in flight are each on a deposit of its own.
Apart ==
    \A s, t \in Sessions :
        sess[s].op # "idle" /\ sess[t].op # "idle" /\ sess[s].id = sess[t].id => s = t

SerialInv ==
    /\ \A s \in Sessions : sess[s].op # "idle" => StillTrue(sess[s], dep[sess[s].id])
    /\ \A d \in Deposits : Copied(dep[d], copies[d])

\* What a step may do to a deposit that waits or was decided.
Lawful(d) ==
    /\ dep[d].status \in {"valide", "refuse"} =>
          /\ dep'[d].status = dep[d].status
          /\ dep'[d].decidedAt = dep[d].decidedAt
          /\ dep'[d].decidedBy = dep[d].decidedBy
    /\ dep'[d].status \in {"valide", "refuse"} /\ dep[d].status # dep'[d].status =>
          dep[d].status = "soumis" /\ dep'[d].decidedBy = dep[d].director
    /\ dep[d].status \in {"soumis", "valide", "refuse"} =>
          dep'[d].file = dep[d].file \/ (dep'[d].file = 0 /\ d \in audit)

LEMMA SameIsLawful == ASSUME NEW d, dep'[d] = dep[d] PROVE Lawful(d)
  BY DEF Lawful

\* The only request in flight on a deposit writes the row of that deposit.
LEMMA SerialStep ==
    ASSUME DepositsAssumption, TypeInv, Apart, SerialInv, NEW s \in Sessions, sess[s].op # "idle",
           OnlySession(s), NEW d \in Deposits, d = sess[s].id,
           \A e \in Deposits : e # d => dep'[e] = dep[e] /\ copies'[e] = copies[e],
           \/ sess'[s] = Idle
           \/ (sess'[s].id = d /\ sess'[s].op # "idle" /\ StillTrue(sess'[s], dep'[d])),
           Copied(dep'[d], copies'[d]), Lawful(d)
    PROVE  SerialInv' /\ \A e \in Deposits : Lawful(e)
  <1>1. \A t \in Sessions : t # s => sess'[t] = sess[t]
    BY DEF OnlySession, Procs
  <1>2. ASSUME NEW t \in Sessions, t # s, sess[t].op # "idle"
        PROVE  StillTrue(sess[t], dep'[sess[t].id])
    <2>1. sess[t].id # d
      BY <1>2 DEF Apart
    <2>2. sess[t].id \in Deposits
      BY <1>2 DEF TypeInv, Balanced, SessionOK
    <2>3. QED
      BY <1>2, <2>1, <2>2 DEF SerialInv
  <1>3. \A t \in Sessions : sess'[t].op # "idle" => StillTrue(sess'[t], dep'[sess'[t].id])
    BY <1>1, <1>2 DEF Idle
  <1>4. \A e \in Deposits : Copied(dep'[e], copies'[e]) /\ Lawful(e)
    BY SameIsLawful DEF SerialInv
  <1>5. QED
    BY <1>3, <1>4 DEF SerialInv

\* A request that ends or goes on.
LEMMA Ends ==
    ASSUME TypeInv, NEW s \in Sessions, Done(s)
    PROVE  OnlySession(s) /\ sess'[s] = Idle
  BY DoneEffect DEF Procs

LEMMA UploadSerial ==
    ASSUME DepositsAssumption, TypeInv, Apart, SerialInv, NEW s \in Sessions,
           \/ TeleverserPut(s) \/ TeleverserClean(s) \/ TeleverserCleanEnc(s)
           \/ \E outcome \in {"ready", "failed"} : TeleverserIngest(s, outcome)
    PROVE  SerialInv' /\ \A d \in Deposits : Lawful(d)
  <1> DEFINE q == sess[s]
             d == q.id
  <1>1. Goes(s) /\ q.op = "televerser" /\ UNCHANGED <<dep, copies>>
    BY UploadEffect, UploadMoves
       DEF StaysFresh, TeleverserPut, TeleverserClean, TeleverserCleanEnc, TeleverserIngest, db
  <1>2. d \in Deposits /\ StillTrue(q, dep[d]) /\ Copied(dep[d], copies[d])
    BY <1>1 DEF SerialInv, TypeInv, Balanced, SessionOK
  <1>3. OnlySession(s) /\ (sess'[s] = Idle \/ (sess'[s].id = d /\ sess'[s].op = "televerser"))
    BY <1>1 DEF Goes
  <1>4. sess'[s] = Idle \/ (sess'[s].id = d /\ sess'[s].op # "idle" /\ StillTrue(sess'[s], dep'[d]))
    BY <1>1, <1>2, <1>3 DEF StillTrue
  <1>5. Lawful(d)
    BY <1>1, SameIsLawful
  <1>6. QED
    BY <1>1, <1>2, <1>3, <1>4, <1>5, SerialStep

LEMMA RowSerial ==
    ASSUME DepositsAssumption, TypeInv, Apart, SerialInv, NEW s \in Sessions, TeleverserWrite(s)
    PROVE  SerialInv' /\ \A d \in Deposits : Lawful(d)
  <1> DEFINE q == sess[s]
             d == q.id
  <1>1. Goes(s) /\ q.op = "televerser" /\ copies' = copies
    BY UploadEffect DEF TeleverserWrite
  <1>2. /\ d \in Deposits /\ dep[d] \in Deposit /\ dep \in [Deposits -> Deposit]
        /\ StillTrue(q, dep[d]) /\ Copied(dep[d], copies[d])
    BY <1>1 DEF SerialInv, TypeInv, TypeOK, Balanced, SessionOK
  <1>3. /\ dep'[d].status = dep[d].status /\ dep'[d].record = dep[d].record
        /\ \A e \in Deposits : e # d => dep'[e] = dep[e]
    BY <1>2 DEF TeleverserWrite, Uploaded, Deposit
  <1>4. OnlySession(s) /\ (sess'[s] = Idle \/ (sess'[s].id = d /\ sess'[s].op = "televerser"))
    BY <1>1 DEF Goes
  <1>5. dep[d].status = "brouillon" /\ dep[d].record = NoRecord
    BY <1>1, <1>2 DEF StillTrue, Copied
  <1>6. Copied(dep'[d], copies'[d]) /\ Lawful(d)
    BY <1>1, <1>2, <1>3, <1>5 DEF Copied, Lawful
  <1>7. sess'[s] = Idle \/ (sess'[s].id = d /\ sess'[s].op # "idle" /\ StillTrue(sess'[s], dep'[d]))
    BY <1>3, <1>4, <1>5 DEF StillTrue
  <1>8. QED
    BY <1>1, <1>2, <1>3, <1>4, <1>6, <1>7, SerialStep

\* A message or a mark writes nothing that was read.
LEMMA MessageSerial ==
    ASSUME DepositsAssumption, TypeInv, Apart, SerialInv, NEW s \in Sessions,
           MarquerPrevenu(s) \/ \E sent \in BOOLEAN : NotifierDirecteur(s, sent)
    PROVE  SerialInv' /\ \A d \in Deposits : Lawful(d)
  <1> DEFINE q == sess[s]
             d == q.id
  <1>1. /\ Goes(s) /\ q.op \in {"soumettre", "reattribuer"} /\ copies' = copies
        /\ d \in Deposits /\ dep[d] \in Deposit /\ dep \in [Deposits -> Deposit]
    BY WriteEffect DEF MarquerPrevenu, NotifierDirecteur, db, TypeInv, TypeOK, Balanced, SessionOK
  <1>2. Copied(dep[d], copies[d])
    BY <1>1 DEF SerialInv
  <1>3. /\ \A e \in Deposits : e # d => dep'[e] = dep[e]
        /\ dep'[d].status = dep[d].status /\ dep'[d].record = dep[d].record
        /\ dep'[d].file = dep[d].file /\ dep'[d].enc = dep[d].enc
        /\ dep'[d].encStatus = dep[d].encStatus /\ dep'[d].director = dep[d].director
        /\ dep'[d].decidedAt = dep[d].decidedAt /\ dep'[d].decidedBy = dep[d].decidedBy
    BY <1>1 DEF MarquerPrevenu, NotifierDirecteur, db, Deposit
  <1>4. /\ OnlySession(s)
        /\ sess'[s] = Idle \/ (sess'[s].id = d /\ sess'[s].op = q.op /\ sess'[s].pc = "mark")
    <2>1. CASE Done(s)
      BY <2>1, Ends
    <2>2. CASE Goto(s, "mark")
      BY <2>2, GotoEffect DEF Labels, Procs
    <2>3. QED
      BY <2>1, <2>2 DEF MarquerPrevenu, NotifierDirecteur, AfterMail
  <1>5. Copied(dep'[d], copies'[d]) /\ Lawful(d)
    BY <1>1, <1>2, <1>3 DEF Copied, Lawful
  <1>6. sess'[s] = Idle \/ (sess'[s].id = d /\ sess'[s].op # "idle" /\ StillTrue(sess'[s], dep'[d]))
    BY <1>1, <1>4 DEF StillTrue
  <1>7. QED
    BY <1>1, <1>3, <1>4, <1>5, <1>6, SerialStep DEF Goes

LEMMA WriteSerial ==
    ASSUME DepositsAssumption, TypeInv, Apart, SerialInv, NEW s \in Sessions,
           \/ SoumettreWrite(s) \/ RetirerWrite(s) \/ DirecteurWrite(s)
           \/ DeciderWrite(s) \/ RattacherWrite(s)
    PROVE  SerialInv' /\ \A d \in Deposits : Lawful(d)
  <1> DEFINE q == sess[s]
             d == q.id
             old == dep[d]
             new == dep'[d]
  <1>1. /\ Goes(s) /\ q.op # "idle" /\ q.pc = "write" /\ d \in Deposits /\ old \in Deposit
        /\ dep \in [Deposits -> Deposit] /\ copies \in [Deposits -> Seq(Copy)]
    BY WriteEffect DEF SoumettreWrite, RetirerWrite, DirecteurWrite, DeciderWrite, RattacherWrite,
       At, TypeInv, TypeOK, Balanced, SessionOK, Goes
  <1>2. StillTrue(q, old) /\ Copied(old, copies[d])
    BY <1>1 DEF SerialInv
  <1>3. KeepsFiles(s) /\ OnlySession(s) /\ \A e \in Deposits : e # d => dep'[e] = dep[e]
    BY <1>1, WriteEffect DEF Goes
  <1>4. sess'[s] = Idle \/ (sess'[s].id = d /\ sess'[s].op = q.op /\ sess'[s].pc = "notify")
    <2>1. CASE Done(s)
      BY <2>1, Ends
    <2>2. CASE Goto(s, "notify")
      BY <2>2, GotoEffect DEF Labels, Procs
    <2>3. CASE sess' = [sess EXCEPT ![s].pc = "notify", ![s].user = dep[q.id].director]
      BY <2>3 DEF TypeInv, TypeOK, Request, Procs
    <2>4. QED
      BY <2>1, <2>2, <2>3 DEF SoumettreWrite, RetirerWrite, DirecteurWrite, DeciderWrite, RattacherWrite
  <1>5. new.file = old.file /\ new.enc = old.enc /\ new.encStatus = old.encStatus
    BY <1>1, <1>3 DEF KeepsFiles
  <1>6. ASSUME q.op \in {"soumettre", "reattribuer"} \/ sess'[s] = Idle,
               \A e \in Deposits : e # d => copies'[e] = copies[e],
               Copied(new, copies'[d]), Lawful(d)
        PROVE  SerialInv' /\ \A e \in Deposits : Lawful(e)
    <2>1. sess'[s] = Idle \/ (sess'[s].id = d /\ sess'[s].op # "idle" /\ StillTrue(sess'[s], new))
      BY <1>1, <1>4, <1>6 DEF StillTrue
    <2>2. QED
      BY <1>1, <1>3, <1>6, <2>1, SerialStep
  <1>7. CASE SoumettreWrite(s)
    <2>1. q.op = "soumettre" /\ copies' = copies /\ old.status = "brouillon"
      BY <1>2, <1>7 DEF SoumettreWrite, At, StillTrue
    <2>2. new.status = "soumis" /\ new.record = old.record
      BY <1>1, <1>7 DEF SoumettreWrite, Deposit
    <2>3. QED
      BY <1>2, <1>5, <1>6, <2>1, <2>2 DEF Copied, Lawful
  <1>8. CASE RetirerWrite(s)
    <2>1. q.op = "retirer" /\ copies' = copies /\ old.status = "soumis" /\ sess'[s] = Idle
      BY <1>2, <1>8, Ends DEF RetirerWrite, At, StillTrue
    <2>2. new.status = "brouillon" /\ new.record = old.record
      BY <1>1, <1>8 DEF RetirerWrite, Deposit
    <2>3. QED
      BY <1>2, <1>5, <1>6, <2>1, <2>2 DEF Copied, Lawful
  <1>9. CASE DirecteurWrite(s)
    <2>1. /\ q.op \in {"designer", "reattribuer"} /\ copies' = copies
          /\ old.status \in {"brouillon", "soumis"} /\ (q.op = "designer" => sess'[s] = Idle)
      BY <1>1, <1>2, <1>9, Ends DEF DirecteurWrite, At, StillTrue
    <2>2. new.status = old.status /\ new.record = old.record
      BY <1>1, <1>9 DEF DirecteurWrite, Deposit
    <2>3. QED
      BY <1>2, <1>5, <1>6, <2>1, <2>2 DEF Copied, Lawful
  <1>10. CASE DeciderWrite(s)
    <2>1. /\ copies' = copies /\ old.status = "soumis" /\ old.director = q.user /\ sess'[s] = Idle
      BY <1>2, <1>10, Ends DEF DeciderWrite, At, StillTrue
    <2>2. new.status \in {"valide", "refuse"} /\ new.record = old.record /\ new.decidedBy = q.user
      BY <1>1, <1>10 DEF DeciderWrite, Deposit, Verdict
    <2>3. QED
      BY <1>2, <1>5, <1>6, <2>1, <2>2 DEF Copied, Lawful
  <1>11. CASE RattacherWrite(s)
    <2>1. /\ old.status = "valide" /\ old.record = NoRecord /\ sess'[s] = Idle
          /\ q.file = old.file /\ q.enc = old.enc /\ q.encStatus = old.encStatus
          /\ q.record \in Records /\ q.op = "rattacher"
      BY <1>2, <1>11, Ends DEF RattacherWrite, At, StillTrue, TypeInv, Balanced, SessionOK
    <2>2. /\ new.status = old.status /\ new.record = q.record /\ new.decidedAt = old.decidedAt
          /\ new.decidedBy = old.decidedBy
      BY <1>1, <1>11 DEF RattacherWrite, Deposit
    <2>3. PICK c : c = [record |-> q.record, doc |-> q.file, enc |-> q.enc,
                        encStatus |-> q.encStatus]
      OBVIOUS
    <2>4. copies' = [copies EXCEPT ![d] = Append(@, c)]
      BY <1>11, <2>3 DEF RattacherWrite
    <2>5. copies'[d] = Append(<<>>, c) /\ \A e \in Deposits : e # d => copies'[e] = copies[e]
      BY <1>1, <1>2, <2>1, <2>4 DEF Copied
    <2>6. Len(copies'[d]) = 1 /\ copies'[d][1] = c
      BY <2>5
    <2>7. Copied(new, copies'[d])
      BY <1>5, <2>1, <2>2, <2>3, <2>6 DEF Copied, DepositsAssumption
    <2>8. QED
      BY <1>5, <1>6, <2>1, <2>2, <2>5, <2>7 DEF Lawful
  <1>12. QED
    BY <1>7, <1>8, <1>9, <1>10, <1>11

\* What a request that arrives has read is what it looked at.
LEMMA ArrivalSerial ==
    ASSUME DepositsAssumption, TypeInv, SerialInv, NEW s \in Sessions, Arrivals(s)
    PROVE  SerialInv' /\ dep' = dep
  <1>1. PICK d \in Deposits :
          \/ \E pdf \in BOOLEAN : TeleverserRead(s, d, pdf)
          \/ SoumettreRead(s, d) \/ RetirerRead(s, d)
          \/ \E g \in Directors :
                \/ \E op \in {"designer", "reattribuer"} : DirecteurRead(s, d, op, g)
                \/ \E op \in {"valider", "refuser"} : DeciderRead(s, d, op, g)
          \/ \E r \in Records : RattacherRead(s, d, r)
    BY DEF Arrivals
  <1>2. dep' = dep /\ copies' = copies
    BY <1>1 DEF TeleverserRead, SoumettreRead, RetirerRead, DirecteurRead, DeciderRead,
       RattacherRead, db
  <1>3. /\ dep[d].file \in Docs \cup {0} /\ dep[d].enc \in Docs \cup {0}
        /\ dep[d].encStatus \in {"null", "pending", "ready", "failed"}
        /\ Idle \in Request
    BY IdleType DEF TypeInv, TypeOK, Deposit
  \* It is enough that what it keeps of the row, and the row, fit.
  <1>4. ASSUME NEW op \in OpNames, NEW next \in Request, Begin(s, op, d, next),
               StillTrue([next EXCEPT !.op = op], dep[d])
        PROVE  SerialInv'
    <2>2. /\ sess'[s] = Begun(next, op, d) /\ OnlySession(s)
      BY <1>4 DEF Begin, Begun, OnlySession, TypeInv, TypeOK, Procs
    <2>3. /\ sess'[s].id = d /\ sess'[s].op = op /\ sess'[s].pc = next.pc
          /\ sess'[s].user = next.user /\ sess'[s].file = next.file /\ sess'[s].enc = next.enc
          /\ sess'[s].encStatus = next.encStatus
      BY <2>2 DEF Begun, Request
    <2>4. /\ [next EXCEPT !.op = op].op = op /\ [next EXCEPT !.op = op].pc = next.pc
          /\ [next EXCEPT !.op = op].user = next.user /\ [next EXCEPT !.op = op].file = next.file
          /\ [next EXCEPT !.op = op].enc = next.enc
          /\ [next EXCEPT !.op = op].encStatus = next.encStatus
      BY DEF Request
    <2>5. StillTrue(sess'[s], dep[d])
      BY <1>4, <2>3, <2>4 DEF StillTrue
    <2>6. \A t \in Sessions : t # s => sess'[t] = sess[t]
      BY <2>2 DEF OnlySession, Procs
    <2>7. QED
      BY <1>2, <2>3, <2>5, <2>6 DEF SerialInv
  <1>5. ASSUME NEW pdf \in BOOLEAN, TeleverserRead(s, d, pdf) PROVE SerialInv'
    <2>1. dep[d].status = "brouillon" /\ minted + 1 \in Docs
      BY <1>5 DEF TeleverserRead, Remplacable, ETAT_INITIAL, TypeInv, TypeOK, Docs,
         DepositsAssumption
    <2>2. PICK next : next = [Idle EXCEPT !.pc = "put", !.doc = minted + 1,
                          !.file = dep[d].file, !.enc = dep[d].enc,
                          !.encStatus = IF pdf THEN "null" ELSE "pending"]
      OBVIOUS
    <2>e. PICK st \in {"null", "pending", "ready", "failed"} :
               st = (IF pdf THEN "null" ELSE "pending")
      OBVIOUS
    <2>n. next = [Idle EXCEPT !.pc = "put", !.doc = minted + 1, !.file = dep[d].file,
                              !.enc = dep[d].enc, !.encStatus = st]
      BY <2>2, <2>e
    <2>3. next \in Request
      BY <1>3, <2>1, <2>n DEF Request, Labels, Idle
    <2>4. Begin(s, "televerser", d, next) /\ "televerser" \in OpNames
      BY <1>5, <2>2 DEF TeleverserRead, OpNames
    <2>5. [next EXCEPT !.op = "televerser"].op = "televerser"
      BY <2>3 DEF Request
    <2>6. StillTrue([next EXCEPT !.op = "televerser"], dep[d])
      BY <2>1, <2>5 DEF StillTrue
    <2>7. QED
      BY <1>4, <2>3, <2>4, <2>6
  <1>6. ASSUME NEW op \in OpNames, NEW next \in Request, Begin(s, op, d, next),
               op \in {"soumettre", "designer"} => dep[d].status = "brouillon",
               op \in {"reattribuer", "retirer"} => dep[d].status = "soumis",
               op \in {"valider", "refuser"} =>
                   dep[d].status = "soumis" /\ dep[d].director = next.user,
               op \notin {"televerser", "rattacher"}
        PROVE  SerialInv'
    <2>1. [next EXCEPT !.op = op].op = op /\ [next EXCEPT !.op = op].user = next.user
      BY DEF Request
    <2>2. StillTrue([next EXCEPT !.op = op], dep[d])
      BY <1>6, <2>1 DEF StillTrue
    <2>3. QED
      BY <1>4, <1>6, <2>2
  <1>7. [Idle EXCEPT !.pc = "write"] \in Request
    BY <1>3 DEF Request, Labels
  <1>8. CASE SoumettreRead(s, d)
    <2>1. dep[d].status = "brouillon" /\ "soumettre" \in OpNames
      BY <1>8 DEF SoumettreRead, Permise, OpNames
    <2>2. Begin(s, "soumettre", d, [Idle EXCEPT !.pc = "write"])
      BY <1>8 DEF SoumettreRead
    <2>3. QED
      BY <1>2, <1>6, <1>7, <2>1, <2>2
  <1>9. CASE RetirerRead(s, d)
    <2>1. dep[d].status = "soumis" /\ "retirer" \in OpNames
      BY <1>9 DEF RetirerRead, Permise, OpNames
    <2>2. Begin(s, "retirer", d, [Idle EXCEPT !.pc = "write"])
      BY <1>9 DEF RetirerRead
    <2>3. QED
      BY <1>2, <1>6, <1>7, <2>1, <2>2
  <1>10. ASSUME NEW g \in Directors, NEW op \in {"designer", "reattribuer"},
                DirecteurRead(s, d, op, g)
         PROVE  SerialInv'
    <2>1. PICK next : next = [Idle EXCEPT !.pc = "write", !.user = g]
      OBVIOUS
    <2>2. next \in Request
      BY <1>3, <2>1 DEF Request, Labels
    <2>3. Begin(s, op, d, next)
      BY <1>10, <2>1 DEF DirecteurRead
    <2>4. QED
      BY <1>6, <1>10, <2>2, <2>3 DEF DirecteurRead, ETAT_INITIAL, OpNames
  <1>11. ASSUME NEW g \in Directors, NEW op \in {"valider", "refuser"}, DeciderRead(s, d, op, g)
         PROVE  SerialInv'
    <2>1. dep[d].status = "soumis" /\ dep[d].director = g
      BY <1>11 DEF DeciderRead, Permise, Verdict, Dirige
    <2>2. PICK next : next = [Idle EXCEPT !.pc = "write", !.user = g]
      OBVIOUS
    <2>3. next \in Request /\ next.user = g
      BY <1>3, <2>2 DEF Request, Labels
    <2>4. Begin(s, op, d, next)
      BY <1>11, <2>2 DEF DeciderRead
    <2>5. QED
      BY <1>6, <2>1, <2>3, <2>4 DEF OpNames
  <1>12. ASSUME NEW r \in Records, RattacherRead(s, d, r) PROVE SerialInv'
    <2>1. dep[d].status = "valide" /\ dep[d].record = NoRecord
      BY <1>12 DEF RattacherRead, EnAttenteDeCatalogage
    <2>2. PICK next : next = [Idle EXCEPT !.pc = "write", !.record = r,
                          !.file = dep[d].file, !.enc = dep[d].enc,
                          !.encStatus = dep[d].encStatus]
      OBVIOUS
    <2>3. next \in Request /\ next.file = dep[d].file /\ next.enc = dep[d].enc
          /\ next.encStatus = dep[d].encStatus
      BY <1>3, <2>2 DEF Request, Labels, Idle
    <2>4. Begin(s, "rattacher", d, next) /\ "rattacher" \in OpNames
      BY <1>12, <2>2 DEF RattacherRead, OpNames
    <2>5. LET q == [next EXCEPT !.op = "rattacher"] IN
          /\ q.op = "rattacher" /\ q.file = dep[d].file /\ q.enc = dep[d].enc
          /\ q.encStatus = dep[d].encStatus
      BY <2>3 DEF Request
    <2>6. StillTrue([next EXCEPT !.op = "rattacher"], dep[d])
      BY <2>1, <2>5 DEF StillTrue
    <2>7. QED
      BY <1>4, <2>3, <2>4, <2>6
  <1>13. QED
    BY <1>1, <1>2, <1>5, <1>8, <1>9, <1>10, <1>11, <1>12

\* The pass writes old refusals, which no request in flight has read and no copy has.
LEMMA PassSerial ==
    ASSUME DepositsAssumption, TypeInv, RaceInv, SerialInv, PassMoves
    PROVE  SerialInv' /\ \A d \in Deposits : Lawful(d)
  <1>1. PassGoes /\ copies' = copies
    BY PassEffect DEF PassMoves, PurgeStart, PurgeStep, PurgeNext, PurgeClear, PurgeEnc, PurgeLog,
       PurgeForget, PurgeEnd, Abort, db
  <1>2. \A t \in Sessions : sess'[t] = sess[t]
    BY <1>1 DEF PassGoes, OnlySession, Procs, DepositsAssumption
  <1>3. CASE dep' = dep
    <2>1. \A d \in Deposits : Lawful(d)
      BY <1>3, SameIsLawful
    <2>2. QED
      BY <1>1, <1>2, <1>3, <2>1 DEF SerialInv
  <1>4. CASE PurgeForget
    <2> DEFINE d == sess[Cron].id
    <2>1. /\ d \in Deposits /\ OldRefusal(d) /\ d \in audit /\ dep[d] \in Deposit
          /\ dep \in [Deposits -> Deposit]
      BY <1>4 DEF PurgeForget, RaceInv, PassInv, Read, TypeInv, TypeOK, Balanced, PassOK
    <2>2. \A e \in Deposits : e # d => dep'[e] = dep[e]
      BY <1>4, <2>1 DEF PurgeForget
    <2>3. /\ dep'[d].status = dep[d].status /\ dep'[d].decidedAt = dep[d].decidedAt
          /\ dep'[d].decidedBy = dep[d].decidedBy /\ dep'[d].file = 0
          /\ dep'[d].record = dep[d].record
      BY <1>4, <2>1 DEF PurgeForget, Deposit
    <2>4. \A t \in Sessions : sess[t].op # "idle" => sess[t].id # d /\ sess[t].id \in Deposits
      BY <2>1, Quiet DEF RaceInv, TypeInv, Balanced, SessionOK
    <2>5. Copied(dep'[d], copies'[d])
      BY <1>1, <2>1, <2>3 DEF SerialInv, Copied, OldRefusal
    <2>6. Lawful(d)
      BY <2>1, <2>3 DEF Lawful
    <2>7. \A e \in Deposits : Lawful(e)
      BY <2>2, <2>6, SameIsLawful
    <2>8. QED
      BY <1>1, <1>2, <2>2, <2>4, <2>5, <2>7 DEF SerialInv
  <1>5. QED
    BY <1>1, <1>3, <1>4 DEF PassGoes

LEMMA WorldSerial ==
    ASSUME DepositsAssumption, TypeInv, SerialInv,
           \/ Module \/ Tick \/ UNCHANGED vars
           \/ \E s \in Sessions : Abort(s)
           \/ \E d \in Deposits, g \in Directors \cup {Nobody} : Creer(d, g)
    PROVE  SerialInv' /\ \A d \in Deposits : Lawful(d)
  <1>1. ASSUME dep' = dep, copies' = copies,
               \A t \in Sessions : sess'[t] = sess[t] \/ sess'[t].op = "idle"
        PROVE  SerialInv' /\ \A d \in Deposits : Lawful(d)
    <2>1. \A d \in Deposits : Lawful(d)
      BY <1>1, SameIsLawful
    <2>2. \A t \in Sessions : sess'[t].op # "idle" => sess'[t] = sess[t] /\ sess[t].op # "idle"
      BY <1>1
    <2>3. QED
      BY <1>1, <2>1, <2>2 DEF SerialInv
  <1>2. CASE Module \/ Tick \/ UNCHANGED vars
    BY <1>1, <1>2 DEF Module, Tick, vars, db
  <1>3. ASSUME NEW s \in Sessions, Abort(s) PROVE SerialInv' /\ \A d \in Deposits : Lawful(d)
    <2>1. OnlySession(s) /\ sess'[s].op = "idle" /\ dep' = dep /\ copies' = copies
      BY <1>3, Ends DEF Abort, Idle, db
    <2>2. QED
      BY <1>1, <2>1 DEF OnlySession, Procs
  <1>4. ASSUME NEW d \in Deposits, NEW g \in Directors \cup {Nobody}, Creer(d, g)
        PROVE  SerialInv' /\ \A e \in Deposits : Lawful(e)
    <2>1. CreerGoes(d) /\ copies' = copies /\ dep[d] \in Deposit /\ dep \in [Deposits -> Deposit]
      BY <1>4, CreerEffect DEF Creer, TypeInv, TypeOK
    <2>2. dep'[d].record = dep[d].record
      BY <1>4, <2>1 DEF Creer, Deposit
    <2>3. Copied(dep'[d], copies'[d]) /\ Lawful(d)
      BY <2>1, <2>2 DEF CreerGoes, SerialInv, Copied, Lawful
    <2>4. \A t \in Sessions : sess[t].op # "idle" => sess[t].id # d /\ sess[t].id \in Deposits
      BY <2>1 DEF CreerGoes, TypeInv, Balanced, SessionOK
    <2>5. \A e \in Deposits : Lawful(e)
      BY <2>1, <2>3, SameIsLawful DEF CreerGoes
    <2>6. QED
      BY <2>1, <2>3, <2>4, <2>5 DEF CreerGoes, SerialInv
  <1>5. QED
    BY <1>2, <1>3, <1>4

LEMMA SerialNext ==
    ASSUME DepositsAssumption, TypeInv, RaceInv, Apart, SerialInv, [Next]_vars
    PROVE  SerialInv' /\ \A d \in Deposits : Lawful(d)
  <1>1. CASE \E s \in Sessions : Arrivals(s)
    BY <1>1, ArrivalSerial, SameIsLawful
  <1>2. CASE \E s \in Sessions : Step(s)
    BY <1>2, UploadSerial, RowSerial, MessageSerial, WriteSerial, Zenon DEF Step
  <1>3. CASE PurgeStart \/ PurgeStep \/ Abort(Cron)
    BY <1>3, PassSerial DEF PassMoves
  <1>4. CASE \/ Module \/ Tick \/ UNCHANGED vars
             \/ \E s \in Sessions : Abort(s)
             \/ \E d \in Deposits, g \in Directors \cup {Nobody} : Creer(d, g)
    BY <1>4, WorldSerial, Zenon
  <1>5. QED
    BY <1>1, <1>2, <1>3, <1>4, Zenon DEF Next, Procs

LEMMA SerialInvariant == Spec /\ []Apart => [](TypeInv /\ RaceInv /\ Apart /\ SerialInv)
  <1>1. Init => SerialInv
    BY DEF Init, SerialInv, Idle, NoDeposit, Copied, Procs
  <1>2. TypeInv /\ RaceInv /\ Apart /\ SerialInv /\ [Next]_vars => SerialInv'
    BY SerialNext, DepositsAssumption
  <1>3. QED
    BY <1>1, <1>2, RaceInvariant, PTL DEF Spec

\* "Aucun retour en arriere": a decision stays, with its date and its author, as long
\* as no two requests are on one deposit; the pass, crashes and refusals of the store may.
THEOREM DecisionStays == Spec /\ []Apart => DecisionIsFinal
  <1>1. TypeInv /\ RaceInv /\ Apart /\ SerialInv /\ [Next]_vars =>
            \A d \in Deposits : dep[d].status \in {"valide", "refuse"} =>
                /\ dep'[d].status = dep[d].status
                /\ dep'[d].decidedAt = dep[d].decidedAt
                /\ dep'[d].decidedBy = dep[d].decidedBy
    BY SerialNext, DepositsAssumption DEF Lawful
  <1>2. QED
    BY <1>1, SerialInvariant, PTL DEF DecisionIsFinal, Spec

\* A decision is made by the director in charge, on a deposit that waits for it, as
\* long as no two requests are on one deposit.
THEOREM DirectorDecides == Spec /\ []Apart => DecidedByItsDirector
  <1>1. TypeInv /\ RaceInv /\ Apart /\ SerialInv /\ [Next]_vars =>
            \A d \in Deposits :
                dep'[d].status \in {"valide", "refuse"} /\ dep[d].status # dep'[d].status =>
                    dep[d].status = "soumis" /\ dep'[d].decidedBy = dep[d].director
    BY SerialNext, DepositsAssumption DEF Lawful
  <1>2. QED
    BY <1>1, SerialInvariant, PTL DEF DecidedByItsDirector, Spec

\* "On ne remplace pas le document d'un depot deja soumis", as long as no two requests
\* are on one deposit: only the pass touches it, on an old refusal, after its trace.
THEOREM SubmittedStays == Spec /\ []Apart => JudgedAsSubmitted
  <1>1. TypeInv /\ RaceInv /\ Apart /\ SerialInv /\ [Next]_vars =>
            \A d \in Deposits : dep[d].status \in {"soumis", "valide", "refuse"} =>
                dep'[d].file = dep[d].file \/ (dep'[d].file = 0 /\ d \in audit)
    BY SerialNext, DepositsAssumption DEF Lawful
  <1>2. QED
    BY <1>1, SerialInvariant, PTL DEF JudgedAsSubmitted, Spec

\* The document that was refused is there until the retention is over, as long as no
\* two requests are on one deposit: no upload is left on it.
THEOREM RefusedIsKept ==
    Spec /\ []Apart =>
        [][\A d \in Deposits : dep[d].status = "refuse" /\ dep[d].decidedAt + Retention >= clock =>
              dep[d].judged \notin clear \ clear']_vars
  <1>1. TypeInv /\ RaceInv /\ JudgedInv /\ SerialInv /\ [Next]_vars =>
            \A d \in Deposits :
                dep[d].status = "refuse" /\ dep[d].decidedAt + Retention >= clock =>
                    dep[d].judged \notin clear \ clear'
    <2> SUFFICES ASSUME TypeInv, RaceInv, JudgedInv, SerialInv, [Next]_vars,
                        NEW d \in Deposits, dep[d].status = "refuse",
                        dep[d].decidedAt + Retention >= clock
                 PROVE  dep[d].judged \notin clear \ clear'
      OBVIOUS
    <2>1. Spared(d)
      BY RefusalSpared, RetentionRuns, DepositsAssumption
    <2>2. ~LateUpload(d)
      BY DEF LateUpload, At, SerialInv, StillTrue
    <2>3. QED
      BY <2>1, <2>2 DEF Spared
  <1>2. QED
    BY <1>1, SerialInvariant, JudgedInvariant, PTL DEF Spec

\* A digital copy keeps the bytes of the deposit it was made from, as long as no two
\* requests are on one deposit: its row is that of
\* an approved deposit, whose objects no upload and no pass removes.
THEOREM CopyKeepsItsBytes == Spec /\ []Apart => []CopyHasItsBytes
  <1>1. TypeInv /\ RaceInv /\ SerialInv => CopyHasItsBytes
    <2> SUFFICES ASSUME TypeInv, RaceInv, SerialInv, NEW d \in Deposits,
                        NEW n \in 1..Len(copies[d])
                 PROVE  /\ copies[d][n].doc \in clear
                        /\ copies[d][n].encStatus = "ready" => copies[d][n].enc \in cipher
      BY DEF CopyHasItsBytes
    <2>1. Copied(dep[d], copies[d]) /\ Len(<<>>) = 0 /\ copies[d] \in Seq(Copy)
      BY DEF SerialInv, TypeInv, TypeOK
    <2>2. CASE dep[d].record = NoRecord
      <3>1. copies[d] = <<>>
        BY <2>1, <2>2 DEF Copied
      <3>2. Len(copies[d]) = 0
        BY <2>1, <3>1
      <3>3. n \in 1..0
        BY <3>2
      <3>4. QED
        BY <3>3
    <2>3. CASE dep[d].record # NoRecord
      <3>1. Len(copies[d]) = 1 /\ Copied(dep[d], copies[d])
        BY <2>1, <2>3 DEF Copied
      <3>2. n \in 1..1
        BY <3>1
      <3>3. n = 1
        BY <3>2
      <3>4. DOMAIN copies[d] = 1..Len(copies[d])
        BY <2>1
      <3>5. copies[d][1] \in Copy
        BY <2>1, <3>1, <3>4
      <3>6. copies[d][1].doc \in Docs
        BY <3>5 DEF Copy
      <3>7. dep[d].status = "valide" /\ dep[d].file # 0
        BY <2>3, <3>1, <3>6 DEF Copied, Docs
      <3>8. QED
        BY <2>3, <3>1, <3>3, <3>7 DEF Copied, RaceInv, StoreInv, OldRefusal
    <2>4. QED
      BY <2>2, <2>3
  <1>2. QED
    BY <1>1, SerialInvariant, PTL

\* A deposit is catalogued once and knows its record, as long as no two
\* requests are on one deposit.
THEOREM CataloguedAtMostOnce == Spec /\ []Apart => []CataloguedOnce
  <1>1. SerialInv => CataloguedOnce
    BY DEF SerialInv, Copied, CataloguedOnce
  <1>2. QED
    BY <1>1, SerialInvariant, PTL

-----------------------------------------------------------------------------
(* The bound of the run DepositCircuit *)

\* Where one request is let in at a time, none overlaps another on a deposit: the
\* theorems above are about the run DepositCircuit too.
OneBusy == \A s, t \in Sessions : sess[s].op # "idle" /\ sess[t].op # "idle" => s = t

LEMMA NoneInFlight ==
    ASSUME DepositsAssumption, MaxInFlight <= 1, NEW s, NEW op, NEW d, NEW next,
           Begin(s, op, d, next)
    PROVE  \A t \in Sessions : sess[t].op = "idle"
  <1>1. IsFiniteSet(Busy)
    BY FS_Subset DEF Busy, DepositsAssumption
  <1>2. Cardinality(Busy) \in Nat /\ Cardinality(Busy) < 1
    BY <1>1, FS_CardinalityType DEF Begin, DepositsAssumption
  <1>3. Busy = {}
    BY <1>1, <1>2, FS_EmptySet
  <1>4. QED
    BY <1>3 DEF Busy

LEMMA OneBusyNext ==
    ASSUME DepositsAssumption, MaxInFlight <= 1, TypeInv, OneBusy, [Next]_vars
    PROVE  OneBusy'
  <1>1. ASSUME NEW s \in Sessions, Arrivals(s) PROVE OneBusy'
    <2>1. \A t \in Sessions : sess[t].op = "idle"
      BY <1>1, NoneInFlight DEF Arrivals, TeleverserRead, SoumettreRead, RetirerRead,
         DirecteurRead, DeciderRead, RattacherRead
    <2>2. \A t \in Sessions : t # s => sess'[t] = sess[t]
      BY <1>1, ArrivalEffect DEF Arrived, OnlySession, Procs
    <2>3. QED
      BY <2>1, <2>2 DEF OneBusy
  <1>2. ASSUME \A s \in Sessions : sess'[s].op # "idle" => sess[s].op # "idle" PROVE OneBusy'
    BY <1>2 DEF OneBusy
  <1>3. ASSUME NEW s \in Sessions, Step(s) PROVE OneBusy'
    <2>1. Goes(s)
      BY <1>3, UploadEffect, WriteEffect DEF Step
    <2>2. sess[s].op # "idle" /\ \A t \in Sessions : t # s => sess'[t] = sess[t]
      BY <2>1 DEF Goes, OnlySession, Procs
    <2>3. QED
      BY <1>2, <2>2
  <1>4. CASE PurgeStart \/ PurgeStep \/ Abort(Cron)
    <2>1. \A t \in Sessions : sess'[t] = sess[t]
      BY <1>4, PassEffect DEF PassGoes, OnlySession, Procs, DepositsAssumption
    <2>2. QED
      BY <1>2, <2>1
  <1>5. ASSUME NEW s \in Sessions, Abort(s) PROVE OneBusy'
    BY <1>2, <1>5, Ends DEF Abort, Idle, OnlySession, Procs
  <1>6. CASE \/ Module \/ Tick \/ UNCHANGED vars
             \/ \E d \in Deposits, g \in Directors \cup {Nobody} : Creer(d, g)
    BY <1>2, <1>6 DEF Module, Tick, vars, Creer
  <1>7. QED
    BY <1>1, <1>3, <1>4, <1>5, <1>6, Zenon DEF Next, Procs

LEMMA AloneIsApart == ASSUME MaxInFlight <= 1 PROVE Spec => []Apart
  <1>1. Init => OneBusy
    BY DEF Init, OneBusy, Idle, Procs
  <1>2. TypeInv /\ OneBusy /\ [Next]_vars => OneBusy'
    BY OneBusyNext, DepositsAssumption
  <1>3. OneBusy => Apart
    BY DEF OneBusy, Apart
  <1>4. QED
    BY <1>1, <1>2, <1>3, RaceInvariant, PTL DEF Spec
=============================================================================
