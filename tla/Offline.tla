------------------------------- MODULE Offline -------------------------------
(***************************************************************************)
(* OfflineLicensesService: leases that let a phone read a document without *)
(* a connection.  A lease is issued after the right was checked, and the   *)
(* right is played again each time the phone asks for its status.  The     *)
(* check is a sequence of reads, each of its own instant.  The rules       *)
(* belong to Access; what the phone does with an answer is external: it    *)
(* keeps a copy whose lease is unknown, and drops a revoked one.           *)
(***************************************************************************)
EXTENDS Integers, FiniteSets

CONSTANTS
    Collections, Documents, Classes, AnyClass,   \* Access
    Readers,        \* users, each with one phone
    Ttl,            \* offlineLicenseTtlDays
    Calls,          \* requests of phones that can be in flight together
    EmbargoDays,    \* days staff may set an embargo to
    MaxRestores,    \* bound: licence rows lost with a restored backup
    NoCall          \* no reader, no document

VARIABLES
    rules, titles,  \* Access's
    clock,          \* the day
    classOf,        \* users.class_name
    staff,          \* users with the function document.lire
    embargo,        \* biblio_records.embargo_until
    appareils,      \* users whose phone is registered
    lic,            \* offline_licenses, by user (and phone) and document
    phone,          \* the copies kept on the phones, with the end of their lease
    call,           \* what each request has read, and where it stands
    restores        \* how many licence rows a restore has lost

Pairs == Readers \X Documents

OfflineAssumption ==
    /\ {Ttl, MaxRestores} \subseteq Nat
    /\ EmbargoDays \subseteq Nat
    /\ NoCall \notin Readers \cup Documents

Licence == [status : {"none", "active", "revoked"}, until : Nat]
NoLicence == [status |-> "none", until |-> 0]

Steps == {"idle", "fonction", "classe", "embargo", "regles", "embargoEncore",
          "upsert", "revoke", "answer"}

\* day: when the request came; until and verdict: what it will answer.
Request == [op : {"idle", "issue", "replay"}, pc : Steps,
            pair : Pairs \cup {<<NoCall, NoCall>>}, day : Nat,
            class : Classes \cup {AnyClass}, until : Nat,
            verdict : {"none", "active", "revoked", "expired", "unknown"}]
Idle == [op |-> "idle", pc |-> "idle", pair |-> <<NoCall, NoCall>>, day |-> 0,
         class |-> AnyClass, until |-> 0, verdict |-> "none"]

Init ==
    /\ clock = 0
    /\ classOf \in [Readers -> Classes]
    /\ staff = {}
    /\ embargo = [d \in Documents |-> 0]
    /\ appareils = {}
    /\ lic = [p \in Pairs |-> NoLicence]
    /\ phone = [p \in Pairs |-> NoLicence]
    /\ call = [q \in Calls |-> Idle]
    /\ restores = 0

-----------------------------------------------------------------------------
(* The right, as one instant sees it *)

\* Free on the very day of the end.
SousEmbargo(d) == embargo[d] > clock

HasAccessViaRules(c, class) == \E l \in {AnyClass, class} : rules[<<c, l>>] > 0
Reached(d, class) ==
    \E c \in Collections : <<c, d>> \in titles /\ HasAccessViaRules(c, class)

Right(p) ==
    /\ ~SousEmbargo(p[2])
    /\ p[1] \in staff \/ Reached(p[2], classOf[p[1]])

-----------------------------------------------------------------------------
(* droitHorsLigne *)

Enter(q, r) == call' = [call EXCEPT ![q] = r]
Goto(q, pc) == Enter(q, [call[q] EXCEPT !.pc = pc])
Done(q) == Enter(q, Idle)
At(q, pc) == call[q].pc = pc
Reader(q) == call[q].pair[1]
Document(q) == call[q].pair[2]
Quiet == UNCHANGED <<classOf, staff, embargo, appareils, restores, clock>>

\* A refusal ends an issue; it revokes the lease that is being played again.
Refuse(q) == IF call[q].op = "issue" THEN Done(q) ELSE Goto(q, "revoke")
Grant(q) ==
    IF call[q].op = "issue" THEN Goto(q, "upsert")
    ELSE Enter(q, [call[q] EXCEPT !.pc = "answer", !.verdict = "active"])

\* Staff is not asked for its class or its rules.
Fonction(q) ==
    /\ At(q, "fonction")
    /\ Goto(q, IF Reader(q) \in staff THEN "embargoEncore" ELSE "classe")
    /\ UNCHANGED <<lic, phone>> /\ Quiet

Classe(q) ==
    /\ At(q, "classe")
    /\ Enter(q, [call[q] EXCEPT !.pc = "embargo", !.class = classOf[Reader(q)]])
    /\ UNCHANGED <<lic, phone>> /\ Quiet

Embargo(q) ==
    /\ At(q, "embargo")
    /\ IF SousEmbargo(Document(q)) THEN Refuse(q) ELSE Goto(q, "regles")
    /\ UNCHANGED <<lic, phone>> /\ Quiet

\* Slip: the collections of the document are looked for, not their rules.
SlipGranted(q) == \E c \in Collections : <<c, Document(q)>> \in titles
Granted(q) == Reached(Document(q), call[q].class)

Regles(q) ==
    /\ At(q, "regles")
    /\ IF Granted(q) THEN Goto(q, "embargoEncore") ELSE Refuse(q)
    /\ UNCHANGED <<lic, phone>> /\ Quiet

EmbargoEncore(q) ==
    /\ At(q, "embargoEncore")
    /\ IF SousEmbargo(Document(q)) THEN Refuse(q) ELSE Grant(q)
    /\ UNCHANGED <<lic, phone>> /\ Quiet

-----------------------------------------------------------------------------
(* Leases *)

Register(u) ==
    /\ u \notin appareils
    /\ appareils' = appareils \cup {u}
    /\ UNCHANGED <<clock, classOf, staff, embargo, lic, phone, call, restores>>

\* issue, for a phone that is registered.
Issue(q, p) ==
    /\ call[q].op = "idle"
    /\ p[1] \in appareils
    /\ Enter(q, [Idle EXCEPT !.op = "issue", !.pc = "fonction", !.pair = p, !.day = clock])
    /\ UNCHANGED <<lic, phone>> /\ Quiet

\* One row for a reader, a phone and a document: issuing again extends it, and
\* takes back a revocation.
Upsert(q) ==
    /\ At(q, "upsert")
    /\ lic' = [lic EXCEPT ![call[q].pair] = [status |-> "active", until |-> clock + Ttl]]
    /\ Enter(q, [call[q] EXCEPT !.pc = "answer", !.until = clock + Ttl, !.verdict = "active"])
    /\ UNCHANGED phone /\ Quiet

\* Slip: a licence the server does not know is taken for a revoked one.
SlipVerdict(p) == IF lic[p].status \in {"none", "revoked"} THEN "revoked"
                  ELSE IF lic[p].until < clock THEN "expired" ELSE "none"
\* What the row alone says; "none" when the right must be played again.
Verdict(p) == IF lic[p].status = "none" THEN "unknown"
              ELSE IF lic[p].status = "revoked" THEN "revoked"
              ELSE IF lic[p].until < clock THEN "expired" ELSE "none"

\* status, blobUrl and entitlements of a copy the phone keeps.
Replay(q, p) ==
    /\ call[q].op = "idle"
    /\ phone[p].status = "active"
    /\ Enter(q, [Idle EXCEPT !.op = "replay", !.pair = p, !.day = clock,
                   !.pc = IF Verdict(p) = "none" THEN "fonction" ELSE "answer",
                   !.verdict = Verdict(p), !.until = lic[p].until])
    /\ UNCHANGED <<lic, phone>> /\ Quiet

\* effectiveStatus: the right is lost, and the row is revoked if it is there.
Cut(q) ==
    LET p == call[q].pair IN
    /\ At(q, "revoke")
    /\ lic' = IF lic[p].status = "none" THEN lic ELSE [lic EXCEPT ![p].status = "revoked"]
    /\ Enter(q, [call[q] EXCEPT !.pc = "answer", !.verdict = "revoked"])
    /\ UNCHANGED phone /\ Quiet

\* The answer reaches the phone.
Answer(q) ==
    LET r == call[q] IN
    /\ At(q, "answer")
    /\ phone' = CASE r.op = "issue" ->
                       [phone EXCEPT ![r.pair] = [status |-> "active", until |-> r.until]]
                  [] r.op = "replay" /\ r.verdict = "revoked" ->
                       [phone EXCEPT ![r.pair] = NoLicence]
                  [] OTHER -> phone
    /\ Done(q)
    /\ UNCHANGED lic /\ Quiet

\* The connection is lost before the answer: what was written stays.
Lost(q) ==
    /\ call[q].op # "idle"
    /\ Done(q)
    /\ UNCHANGED <<lic, phone>> /\ Quiet

\* revoke, by staff, on the triplet.
Revoke(p) ==
    /\ lic[p].status # "none"
    /\ lic' = [lic EXCEPT ![p].status = "revoked"]
    /\ UNCHANGED <<phone, call>> /\ Quiet

-----------------------------------------------------------------------------
(* The rest of the world *)

ChangeClass(u, c) ==
    /\ classOf[u] # c
    /\ classOf' = [classOf EXCEPT ![u] = c]
    /\ UNCHANGED <<clock, staff, embargo, appareils, lic, phone, call, restores>>

ChangeRole(u) ==
    /\ staff' = IF u \in staff THEN staff \ {u} ELSE staff \cup {u}
    /\ UNCHANGED <<clock, classOf, embargo, appareils, lic, phone, call, restores>>

SetEmbargo(d, day) ==
    /\ embargo[d] # day
    /\ embargo' = [embargo EXCEPT ![d] = day]
    /\ UNCHANGED <<clock, classOf, staff, appareils, lic, phone, call, restores>>

\* A backup older than the licence is restored.
Restore(p) ==
    /\ restores < MaxRestores
    /\ lic[p].status # "none"
    /\ lic' = [lic EXCEPT ![p] = NoLicence]
    /\ restores' = restores + 1
    /\ UNCHANGED <<clock, classOf, staff, embargo, appareils, phone, call>>

\* A request may see midnight, once.
Tick ==
    /\ \A q \in Calls : call[q].op # "idle" => call[q].day = clock
    /\ clock' = clock + 1
    /\ UNCHANGED <<classOf, staff, embargo, appareils, lic, phone, call, restores>>

-----------------------------------------------------------------------------

\* The statements of a request that has started.
Step(q) ==
    \/ Fonction(q) \/ Classe(q) \/ Embargo(q) \/ Regles(q) \/ EmbargoEncore(q)
    \/ Upsert(q) \/ Cut(q) \/ Answer(q)

\* What the school decides, outside Access.
Decide ==
    \/ \E u \in Readers : ChangeRole(u) \/ \E c \in Classes : ChangeClass(u, c)
    \/ \E d \in Documents, day \in EmbargoDays : SetEmbargo(d, day)

Serve ==
    \/ \E u \in Readers : Register(u)
    \/ \E q \in Calls : \/ \E p \in Pairs : Issue(q, p) \/ Replay(q, p)
                        \/ Step(q) \/ Lost(q)
    \/ \E p \in Pairs : Revoke(p) \/ Restore(p)
    \/ Tick

Next == Decide \/ Serve
=============================================================================
