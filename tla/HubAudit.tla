------------------------------ MODULE HubAudit ------------------------------
(***************************************************************************)
(* The Hub's audit log (src/lib/hub-audit.ts): a table of rows, each       *)
(* carrying the hash of the one before it, to which every server process   *)
(* of the platform appends, and whose export is a manifest over the        *)
(* hashes.  Apps send events over HTTP; the platform's own operations      *)
(* write theirs after the fact, here those of the app registry             *)
(* (src/lib/services/app-registry-service.ts), whose rows the log points   *)
(* to.                                                                     *)
(*                                                                         *)
(* An append is a transaction of its own: it takes an advisory lock, reads *)
(* the last row, inserts the next one.  At PostgreSQL's default isolation  *)
(* each statement sees what is committed by then; under repeatable read    *)
(* the snapshot is taken at the first statement, before the lock is        *)
(* granted, and the unique sequence number is what remains: the loser      *)
(* tries again.  Nothing in the repository fixes the level, so it is       *)
(* chosen at the start.                                                    *)
(***************************************************************************)
EXTENDS Naturals, Sequences, FiniteSets

CONSTANTS
    Requests,     \* requests, each of them one event to record
    Apps,         \* the keys of AppRegistry
    Hub,          \* the platform's own key, one of Apps
    Referenced,   \* apps that suite object references point to
    Legacy,       \* the events recorded before rows were chained, in order
    Isolations,   \* the isolation levels the database may be set to
    MaxAttempts,  \* MAX_APPEND_RETRIES
    MaxExports,   \* bound: manifests there may be
    None

ASSUME HubAuditAssumption ==
    /\ Hub \in Apps /\ Referenced \subseteq Apps
    /\ Legacy \in Seq({Legacy[n] : n \in DOMAIN Legacy})
    /\ \A n \in DOMAIN Legacy : Legacy[n] \notin Requests
    /\ \A m, n \in DOMAIN Legacy : Legacy[m] = Legacy[n] => m = n
    /\ Isolations \subseteq {"read committed", "repeatable read"}
    /\ MaxAttempts \in Nat \ {0} /\ MaxExports \in Nat
    /\ None \notin Requests \cup Apps

VARIABLES
    isolation,   \* the level transactions run at
    rows,        \* the table AuditLog, as committed
    apps,        \* the table AppRegistry: status of each key, or "absent"
    lock,        \* the request whose transaction holds the advisory lock
    pc,          \* per request: where its handler is
    job,         \* per request: the operation and the app it is about
    frame,       \* per request: the locals of appendAuditLogUnchecked
    manifests    \* the table AuditExportManifest

vars == <<isolation, rows, apps, lock, pc, job, frame, manifests>>
-----------------------------------------------------------------------------
(***************************************************************************)
(* Rows and hashes.  A hash stands for what was hashed: two are equal only *)
(* if their contents are.                                                  *)
(***************************************************************************)

AUDIT_GENESIS_HASH == [genesis |-> 64]

LegacyHash(event) == [legacy |-> event]

\* The payload covers the row's content, its number and the hash before it.
PayloadHash(number, previous, event) == [payload |-> <<number, previous, event>>]

ChainHash(number, previous, payload) == [link |-> <<number, previous, payload>>]

buildAuditChainEvent(event, source, ref, number, previous) ==
    LET payload == PayloadHash(number, previous, event)
    IN  [sequenceNumber |-> number, previousHash |-> previous, event |-> event,
         sourceAppKey |-> source, app |-> ref, canonicalPayloadHash |-> payload,
         currentHash |-> ChainHash(number, previous, payload)]

verifyAuditRow(row) ==
    LET payload == PayloadHash(row.sequenceNumber, row.previousHash, row.event)
    IN  /\ row.canonicalPayloadHash = payload
        /\ row.currentHash = ChainHash(row.sequenceNumber, row.previousHash, payload)

\* The rows the migration chained, with hashes of their own making.
Backfilled ==
    {[sequenceNumber |-> n,
      previousHash |-> IF n = 1 THEN AUDIT_GENESIS_HASH
                                ELSE LegacyHash(Legacy[n - 1]),
      event |-> Legacy[n], sourceAppKey |-> Hub, app |-> None,
      canonicalPayloadHash |-> LegacyHash(Legacy[n]),
      currentHash |-> LegacyHash(Legacy[n])] : n \in DOMAIN Legacy}

\* findFirst by descending sequenceNumber; the defaults stand for no row.
NoRow == [sequenceNumber |-> 0, currentHash |-> AUDIT_GENESIS_HASH]

LastRow(table) ==
    IF table = {} THEN NoRow
    ELSE LET last == CHOOSE row \in table : \A other \in table :
                        other.sequenceNumber <= row.sequenceNumber
         IN  [sequenceNumber |-> last.sequenceNumber,
              currentHash |-> last.currentHash]

\* Mutant: the genesis hash is chosen by the number of the last row.
PreviousHashOfFirst(last) ==
    IF last.sequenceNumber = 1 THEN AUDIT_GENESIS_HASH ELSE last.currentHash

PreviousHash(last) ==
    IF last.sequenceNumber = 0 THEN AUDIT_GENESIS_HASH ELSE last.currentHash

NoView == [rows |-> {}, apps |-> [a \in Apps |-> "absent"]]
NoFrame == [attempt |-> 1, view |-> NoView, last |-> NoRow, number |-> 0]
NoJob == [kind |-> "none", app |-> Hub]

InTransaction == {"locking", "read", "insert"}
Final == {"created", "dropped", "rejected", "vetoed", "failed"}
-----------------------------------------------------------------------------
(***************************************************************************)
(* The handlers up to their append.                                        *)
(***************************************************************************)

Goto(r, step) == pc' = [pc EXCEPT ![r] = step] /\ UNCHANGED job

\* The handler returns or throws, and its locals are gone.
End(r, outcome) == /\ pc' = [pc EXCEPT ![r] = outcome]
                   /\ job' = [job EXCEPT ![r] = NoJob]

\* A request comes in: an app's event, or one of the registry's two
\* operations.
FirstStep == [ingest    |-> "verify",
              upsertApp |-> "upsertApp",
              deleteApp |-> "countReferences"]

Arrive(r, a) ==
    /\ pc[r] = "none"
    /\ \E kind \in DOMAIN FirstStep :
          /\ job' = [job EXCEPT ![r] = [kind |-> kind, app |-> a]]
          /\ pc' = [pc EXCEPT ![r] = FirstStep[kind]]
    /\ UNCHANGED <<isolation, rows, apps, lock, frame, manifests>>

\* verifyAuditServiceRequest: token, app and service identity.
VerifyAuditServiceRequest(r) ==
    /\ pc[r] = "verify"
    /\ \/ End(r, "rejected")
       \/ apps[job[r].app] = "active" /\ Goto(r, "validate")
    /\ UNCHANGED <<isolation, rows, apps, lock, frame, manifests>>

\* validateCanonicalReferences reads the app again, with actor, organization
\* and object reference.
ValidateCanonicalReferences(r) ==
    /\ pc[r] = "validate"
    /\ \/ End(r, "rejected")
       \/ apps[job[r].app] = "active" /\ Goto(r, "begin")
    /\ UNCHANGED <<isolation, rows, apps, lock, frame, manifests>>

\* upsertApp stores the row with the status of the form, then writes the event.
UpsertApp(r) ==
    /\ pc[r] = "upsertApp"
    /\ \E status \in {"active", "inactive"} :
          apps' = [apps EXCEPT ![job[r].app] = status]
    /\ Goto(r, "begin")
    /\ UNCHANGED <<isolation, rows, lock, frame, manifests>>

\* deleteApp: the app must be there, confirmed, without object references,
\* and the administrator must pass the second factor.
CountReferences(r) ==
    /\ pc[r] = "countReferences"
    /\ \/ End(r, "rejected")
       \/ /\ apps[job[r].app] # "absent" /\ job[r].app \notin Referenced
          /\ Goto(r, "deleteApp")
    /\ UNCHANGED <<isolation, rows, apps, lock, frame, manifests>>

\* Removing the row makes PostgreSQL set the reference of its audit rows to
\* null, an UPDATE of AuditLog that the append-only trigger rejects.
PointingTo(a) == {row \in rows : row.app = a}

DeleteApp(r) ==
    /\ pc[r] = "deleteApp"
    /\ IF apps[job[r].app] = "absent"
       THEN End(r, "rejected") /\ UNCHANGED apps
       ELSE IF PointingTo(job[r].app) # {}
       THEN End(r, "vetoed") /\ UNCHANGED apps
       ELSE /\ Goto(r, "begin")
            /\ apps' = [apps EXCEPT ![job[r].app] = "absent"]
    /\ UNCHANGED <<isolation, rows, lock, frame, manifests>>
-----------------------------------------------------------------------------
(***************************************************************************)
(* appendAuditLogUnchecked: one transaction per attempt.                   *)
(***************************************************************************)

Begin(r) ==
    /\ pc[r] = "begin"
    /\ frame' = [frame EXCEPT ![r].view =
                    IF isolation = "repeatable read"
                    THEN [rows |-> rows, apps |-> apps] ELSE NoView]
    /\ Goto(r, "locking")
    /\ UNCHANGED <<isolation, rows, apps, lock, manifests>>

\* Mutant: the lock is shared.
TakeSharedLock(r) ==
    /\ pc[r] = "locking"
    /\ lock' = r
    /\ Goto(r, "read")
    /\ UNCHANGED <<isolation, rows, apps, frame, manifests>>

TakeLock(r) ==
    /\ pc[r] = "locking"
    /\ lock = None
    /\ lock' = r
    /\ Goto(r, "read")
    /\ UNCHANGED <<isolation, rows, apps, frame, manifests>>

\* What a statement of the transaction of r sees.
Seen(r) ==
    IF isolation = "repeatable read" THEN frame[r].view
                                     ELSE [rows |-> rows, apps |-> apps]

ReadLast(r) ==
    /\ pc[r] = "read"
    /\ frame' = [frame EXCEPT ![r].last = LastRow(Seen(r).rows)]
    /\ Goto(r, "insert")
    /\ UNCHANGED <<isolation, rows, apps, lock, manifests>>

\* The key an event is filed under: writeAuditLog falls back to the Hub's own.
SourceAppKey(r) == IF job[r].kind = "deleteApp" THEN Hub ELSE job[r].app

\* Only upsertApp names the AppRegistry row, the others look its key up.
AppReference(r) ==
    IF job[r].kind = "upsertApp" \/ Seen(r).apps[SourceAppKey(r)] # "absent"
    THEN SourceAppKey(r) ELSE None

\* The foreign key of the reference.
Registered == {a \in Apps : apps[a] # "absent"}

\* Mutant: the index is not unique.
NeverTaken(number) == FALSE

\* The unique index on sequenceNumber.
SequenceTaken(number) == \E row \in rows : row.sequenceNumber = number

\* The insert and the commit: no other transaction sees the row before the
\* commit, and the lock is held till then.
Insert(r) ==
    LET number == frame[r].last.sequenceNumber + 1
        ref    == AppReference(r)
    IN  /\ pc[r] = "insert"
        /\ ~ SequenceTaken(number)
        /\ ref \in Registered \cup {None}
        /\ rows' = rows \cup {buildAuditChainEvent(r, SourceAppKey(r), ref, number,
                                                   PreviousHash(frame[r].last))}
        /\ frame' = [frame EXCEPT ![r] = [NoFrame EXCEPT !.number = number]]
        /\ lock' = None
        /\ Goto(r, "committed")
        /\ UNCHANGED <<isolation, apps, manifests>>

MayRetry(attempt) == attempt < MaxAttempts

\* Mutant: every error of the loop is swallowed.
AlwaysNull(race) == "dropped"

\* After the loop: null for an exhausted race, an exception otherwise.
AfterLoop(race) == IF race THEN "dropped" ELSE "failed"

\* P2002: roll back, wait and begin again, or give up and return null.
LoseRace(r) ==
    /\ pc[r] = "insert"
    /\ SequenceTaken(frame[r].last.sequenceNumber + 1)
    /\ lock' = None
    /\ \/ /\ MayRetry(frame[r].attempt)
          /\ frame' = [frame EXCEPT ![r] = [NoFrame EXCEPT !.attempt = frame[r].attempt + 1]]
          /\ Goto(r, "begin")
       \/ /\ ~ MayRetry(frame[r].attempt)
          /\ frame' = [frame EXCEPT ![r] = NoFrame]
          /\ End(r, AfterLoop(TRUE))
    /\ UNCHANGED <<isolation, rows, apps, manifests>>

\* The row pointed to is gone: another error than P2002 ends the loop.
LoseReference(r) ==
    /\ pc[r] = "insert"
    /\ ~ SequenceTaken(frame[r].last.sequenceNumber + 1)
    /\ AppReference(r) \notin Registered \cup {None}
    /\ lock' = None
    /\ frame' = [frame EXCEPT ![r] = NoFrame]
    /\ End(r, AfterLoop(FALSE))
    /\ UNCHANGED <<isolation, rows, apps, manifests>>

LockWithout(r) == IF lock = r THEN None ELSE lock

\* The transaction outlives Prisma's time limit, or its connection or process
\* is lost: it is rolled back, its lock released, and the loop ends.
Abort(r) ==
    /\ pc[r] \in InTransaction
    /\ lock' = LockWithout(r)
    /\ frame' = [frame EXCEPT ![r] = NoFrame]
    /\ End(r, AfterLoop(FALSE))
    /\ UNCHANGED <<isolation, rows, apps, manifests>>

Answer(r) ==
    /\ pc[r] = "committed"
    /\ End(r, "created")
    /\ UNCHANGED <<isolation, rows, apps, lock, frame, manifests>>

\* The connection breaks after the commit and before its answer: an error too.
LoseAnswer(r) ==
    /\ pc[r] = "committed"
    /\ frame' = [frame EXCEPT ![r] = NoFrame]
    /\ End(r, AfterLoop(FALSE))
    /\ UNCHANGED <<isolation, rows, apps, lock, manifests>>
-----------------------------------------------------------------------------
(***************************************************************************)
(* createAuditExportManifest.                                              *)
(***************************************************************************)

buildAuditExportManifest(filter, batch) ==
    [filter |-> filter, eventCount |-> Cardinality(batch),
     lastSequence |-> LastRow(batch).sequenceNumber,
     rowHashes |-> {row.currentHash : row \in batch}]

\* One query reads the rows, filter None standing for no filter, and what is
\* stored depends on them alone.  The request ends without a manifest, and
\* without a trace, when a row does not verify or the batch name is taken.
ExportManifest ==
    /\ Cardinality(manifests) < MaxExports
    /\ \E filter \in Apps \cup {None} :
          LET batch == {row \in rows : filter \in {None, row.sourceAppKey}}
          IN  /\ \A row \in batch : verifyAuditRow(row)
              /\ manifests' = manifests \cup {buildAuditExportManifest(filter, batch)}
    /\ UNCHANGED <<isolation, rows, apps, lock, pc, job, frame>>
-----------------------------------------------------------------------------
Init ==
    /\ isolation \in Isolations
    /\ rows \in {{}, Backfilled}
    /\ apps \in [Apps -> {"absent", "active", "inactive"}] /\ apps[Hub] = "active"
    /\ lock = None
    /\ pc = [r \in Requests |-> "none"]
    /\ job = [r \in Requests |-> NoJob]
    /\ frame = [r \in Requests |-> NoFrame]
    /\ manifests = {}

Handle(r) ==
    \/ VerifyAuditServiceRequest(r)
    \/ ValidateCanonicalReferences(r)
    \/ UpsertApp(r)
    \/ CountReferences(r)
    \/ DeleteApp(r)
    \/ Begin(r)
    \/ TakeLock(r)
    \/ ReadLast(r)
    \/ Insert(r)
    \/ LoseRace(r)
    \/ LoseReference(r)
    \/ Answer(r)
    \/ Abort(r)
    \/ LoseAnswer(r)

Next ==
    \/ \E r \in Requests : Handle(r) \/ \E a \in Apps : Arrive(r, a)
    \/ ExportManifest

Spec == Init /\ [][Next]_vars
-----------------------------------------------------------------------------
(***************************************************************************)
(* Properties.                                                             *)
(***************************************************************************)

Steps == {"none", "verify", "validate", "upsertApp", "countReferences",
          "deleteApp", "begin", "committed"} \cup InTransaction \cup Final

\* Type invariant: in particular the loop stays within its attempts.
TypeOK ==
    /\ isolation \in Isolations
    /\ apps \in [Apps -> {"absent", "active", "inactive"}]
    /\ lock \in Requests \cup {None}
    /\ pc \in [Requests -> Steps]
    /\ \A r \in Requests :
          /\ job[r].kind \in {"none", "ingest", "upsertApp", "deleteApp"}
          /\ job[r].app \in Apps
          /\ frame[r].attempt \in 1 .. MaxAttempts
          /\ frame[r].last.sequenceNumber \in Nat /\ frame[r].number \in Nat
    /\ \A row \in rows : row.sequenceNumber \in Nat \ {0}
    /\ Cardinality(manifests) <= MaxExports

\* The chain has no gap and no fork: numbers are 1, 2, 3, ..., every row holds
\* the hash of the one before it, and each row written since the migration
\* verifies (assertAuditChainContinuity).
ChainUnbroken ==
    /\ {row.sequenceNumber : row \in rows} = 1 .. Cardinality(rows)
    /\ \A row \in rows :
          /\ \/ row.sequenceNumber = 1 /\ row.previousHash = AUDIT_GENESIS_HASH
             \/ \E before \in rows :
                   /\ before.sequenceNumber + 1 = row.sequenceNumber
                   /\ row.previousHash = before.currentHash
          /\ row.event \in Requests => verifyAuditRow(row)

\* A manifest leaves out nothing it should cover: no row of its filter ever
\* turns up with a number below the last one it counted, and all that it
\* vouches for stays in the table.
ManifestIsComplete ==
    \A m \in manifests :
        LET covered == {row \in rows : /\ m.filter \in {None, row.sourceAppKey}
                                       /\ row.sequenceNumber <= m.lastSequence}
        IN  /\ m.rowHashes = {row.currentHash : row \in covered}
            /\ m.eventCount = Cardinality(covered)

\* At the default isolation the lock alone keeps appends apart: nobody ever
\* needs a second attempt, and no event is dropped for having lost a race.
LockSparesRetries ==
    isolation = "read committed" =>
        \A r \in Requests : frame[r].attempt = 1 /\ pc[r] # "dropped"

\* The lock never outlives the transaction that took it, however that ends:
\* whoever waits for it gets his turn.
LockIsReleased == lock # None => pc[lock] \in {"read", "insert"}

\* The log as its callers see it (HubLog): rows in the order of their numbers,
\* and what each caller was told.  A null from the append and a rejection mean
\* that nothing was recorded; an error means nothing either way.
RecordedLog ==
    [n \in 1 .. Cardinality(rows) |->
        (CHOOSE row \in rows : row.sequenceNumber = n).event]

ToldOf(step) == CASE step = "created" -> "recorded"
                  [] step \in {"dropped", "rejected", "vetoed"} -> "refused"
                  [] step = "failed" -> "error"
                  [] OTHER -> "nothing"

Log == INSTANCE HubLog WITH
    log   <- RecordedLog,
    told  <- [r \in Requests |-> ToldOf(pc[r])],
    place <- [r \in Requests |-> IF pc[r] = "created" THEN frame[r].number ELSE 0]

\* The table, its lock and its retries implement the log of HubLog.
ImplementsLog == Log!Spec

\* An app without object references, confirmed and approved by the second
\* factor, can be removed from the registry.  The code does not keep this:
\* every app that is in the audit log is there for good.
ApprovedDeletionGoesThrough == \A r \in Requests : pc[r] # "vetoed"
=============================================================================
