--------------------------- MODULE HubAuditProofs ---------------------------
(***************************************************************************)
(* What holds of HubAudit for any number of requests, apps, old events and *)
(* attempts, at either isolation level: the chain is unbroken, manifests   *)
(* stay complete, the lock spares the retries where statements see what is *)
(* committed, and the table with its lock and retries implements the log   *)
(* of HubLog.                                                              *)
(***************************************************************************)
EXTENDS HubAudit, FiniteSetTheorems, SequenceTheorems, WellFoundedInduction, TLAPS

-----------------------------------------------------------------------------
(***************************************************************************)
(* The inductive invariant.                                                *)
(***************************************************************************)

\* The rows of a table are numbered from 1 without a gap, one per number.
Numbered(table) ==
    /\ IsFiniteSet(table)
    /\ {row.sequenceNumber : row \in table} = 1 .. Cardinality(table)
    /\ \A x, y \in table : x.sequenceNumber = y.sequenceNumber => x = y

\* The locals of a request are those of the loop.
IsFrame(f) == f = [attempt |-> f.attempt, view |-> f.view,
                   last |-> f.last, number |-> f.number]

FramesOK ==
    /\ pc \in [Requests -> Steps]
    /\ frame = [r \in Requests |-> frame[r]]
    /\ \A r \in Requests : IsFrame(frame[r]) /\ frame[r].attempt \in 1 .. MaxAttempts
    /\ isolation \in {"read committed", "repeatable read"}

\* Between taking the lock and the end of the transaction a request holds it.
LockOK ==
    /\ lock \in Requests \cup {None}
    /\ \A r \in Requests : pc[r] \in {"read", "insert"} <=> lock = r

RowLinked(row, table) ==
    /\ \/ row.sequenceNumber = 1 /\ row.previousHash = AUDIT_GENESIS_HASH
       \/ \E before \in table :
             /\ before.sequenceNumber + 1 = row.sequenceNumber
             /\ row.previousHash = before.currentHash
    /\ row.event \in Requests => verifyAuditRow(row)

RowsOK ==
    /\ Numbered(rows)
    /\ \A row \in rows : RowLinked(row, rows)

\* A snapshot is the beginning of the table.
ViewOK(r) ==
    isolation = "repeatable read" /\ pc[r] \in {"locking", "read"} =>
        Numbered(frame[r].view.rows) /\ frame[r].view.rows \subseteq rows

\* What was read as the last row is a row, and still the last one where the
\* lock came first.
IsRowOf(last, table) ==
    \/ last = NoRow
    \/ \E row \in table : last = [sequenceNumber |-> row.sequenceNumber,
                                  currentHash |-> row.currentHash]

LastOK(r) ==
    pc[r] = "insert" =>
        /\ IsRowOf(frame[r].last, rows)
        /\ isolation = "read committed" =>
              frame[r].last.sequenceNumber = Cardinality(rows)

\* An event is in the table once at most, and only after its commit; whoever
\* committed knows the number of his row.
EventsOK ==
    /\ \A row \in rows : row.event \in Requests =>
          pc[row.event] \in {"committed", "created", "failed"}
    /\ \A x, y \in rows : x.event = y.event => x = y
    /\ \A r \in Requests : pc[r] \in {"committed", "created"} =>
          \E row \in rows : /\ row.event = r
                            /\ row.sequenceNumber = frame[r].number

AttemptsOK ==
    isolation = "read committed" =>
        \A r \in Requests : frame[r].attempt = 1 /\ pc[r] # "dropped"

Inv ==
    /\ FramesOK
    /\ LockOK
    /\ RowsOK
    /\ \A r \in Requests : ViewOK(r) /\ LastOK(r)
    /\ EventsOK
    /\ AttemptsOK

-----------------------------------------------------------------------------
(***************************************************************************)
(* Tables.                                                                 *)
(***************************************************************************)

LEMMA NumbersAreNaturals ==
    ASSUME NEW table, Numbered(table)
    PROVE  /\ Cardinality(table) \in Nat
           /\ \A row \in table : row.sequenceNumber \in 1 .. Cardinality(table)
           /\ \A n \in 1 .. Cardinality(table) :
                 \E row \in table : row.sequenceNumber = n
<1>1. Cardinality(table) \in Nat
  BY FS_CardinalityType DEF Numbered
<1>2. \A row \in table :
         row.sequenceNumber \in {x.sequenceNumber : x \in table}
  OBVIOUS
<1>3. \A n \in {x.sequenceNumber : x \in table} :
         \E row \in table : row.sequenceNumber = n
  OBVIOUS
<1>4. QED
  BY <1>1, <1>2, <1>3 DEF Numbered

LEMMA LastRowIsLast ==
    ASSUME NEW table, Numbered(table)
    PROVE  /\ LastRow(table).sequenceNumber = Cardinality(table)
           /\ IsRowOf(LastRow(table), table)
<1>1. CASE table = {}
  BY <1>1, FS_EmptySet DEF LastRow, NoRow, IsRowOf
<1>2. CASE table # {}
  <2> DEFINE IsLast(row) == \A other \in table :
                               other.sequenceNumber <= row.sequenceNumber
             last == CHOOSE row \in table : IsLast(row)
  <2>1. Cardinality(table) \in Nat \ {0}
    BY <1>2, NumbersAreNaturals, FS_EmptySet DEF Numbered
  <2>2. PICK top \in table : top.sequenceNumber = Cardinality(table)
    BY <2>1, NumbersAreNaturals
  <2>3. \A other \in table : /\ other.sequenceNumber \in Nat
                             /\ other.sequenceNumber <= Cardinality(table)
    BY <2>1, NumbersAreNaturals
  <2>4. IsLast(top)
    BY <2>2, <2>3
  <2>5. last \in table /\ IsLast(last)
    <3>1. \E row \in table : IsLast(row)
      BY <2>4
    <3>2. QED
      BY <3>1, Zenon
  <2>6. last.sequenceNumber = Cardinality(table)
    BY <2>1, <2>2, <2>3, <2>5
  <2>7. LastRow(table) = [sequenceNumber |-> last.sequenceNumber,
                          currentHash |-> last.currentHash]
    BY <1>2 DEF LastRow
  <2> HIDE DEF last
  <2>8. LastRow(table).sequenceNumber = Cardinality(table)
    BY <2>6, <2>7
  <2>9. IsRowOf(LastRow(table), table)
    BY <2>5, <2>7, Zenon DEF IsRowOf
  <2>10. QED
    BY <2>8, <2>9
<1>3. QED
  BY <1>1, <1>2

\* The next number put after the last one keeps a table numbered.
LEMMA NextRowIsNumbered ==
    ASSUME NEW table, Numbered(table), NEW row,
           row.sequenceNumber = Cardinality(table) + 1
    PROVE  /\ Numbered(table \cup {row})
           /\ Cardinality(table \cup {row}) = Cardinality(table) + 1
<1> DEFINE N == Cardinality(table)
<1>1. N \in Nat /\ \A x \in table : x.sequenceNumber \in 1 .. N
  BY NumbersAreNaturals
<1>2. row \notin table
  BY <1>1
<1>3. /\ IsFiniteSet(table \cup {row})
      /\ Cardinality(table \cup {row}) = N + 1
  BY <1>2, FS_AddElement DEF Numbered
<1>4. {x.sequenceNumber : x \in table \cup {row}}
         = {x.sequenceNumber : x \in table} \cup {N + 1}
  OBVIOUS
<1>5. {x.sequenceNumber : x \in table \cup {row}} = 1 .. (N + 1)
  BY <1>1, <1>4 DEF Numbered
<1>6. \A x, y \in table \cup {row} :
         x.sequenceNumber = y.sequenceNumber => x = y
  BY <1>1 DEF Numbered
<1>7. QED
  BY <1>3, <1>5, <1>6 DEF Numbered

\* A row of the table stays linked when the table grows, and the next row is
\* linked to the last.
LEMMA NextRowIsLinked ==
    ASSUME RowsOK, NEW r \in Requests, NEW source, NEW ref, NEW seen,
           IsRowOf(seen, rows), seen.sequenceNumber = Cardinality(rows)
    PROVE  LET row == buildAuditChainEvent(r, source, ref, Cardinality(rows) + 1,
                                           PreviousHash(seen))
           IN  \A x \in rows \cup {row} : RowLinked(x, rows \cup {row})
<1> DEFINE N   == Cardinality(rows)
           row == buildAuditChainEvent(r, source, ref, N + 1, PreviousHash(seen))
<1>1. N \in Nat /\ \A x \in rows : x.sequenceNumber \in 1 .. N
  BY NumbersAreNaturals DEF RowsOK
<1>2. /\ row.sequenceNumber = N + 1
      /\ row.previousHash = PreviousHash(seen)
      /\ verifyAuditRow(row)
  BY DEF buildAuditChainEvent, verifyAuditRow
<1>3. ASSUME NEW x \in rows
      PROVE  RowLinked(x, rows \cup {row})
  BY <1>3 DEF RowsOK, RowLinked
<1>4. RowLinked(row, rows \cup {row})
  <2>1. CASE seen = NoRow
    <3>1. N = 0
      BY <2>1 DEF NoRow
    <3>2. PreviousHash(seen) = AUDIT_GENESIS_HASH
      BY <2>1 DEF NoRow, PreviousHash
    <3>3. QED
      BY <1>2, <3>1, <3>2 DEF RowLinked
  <2>2. CASE \E x \in rows : seen = [sequenceNumber |-> x.sequenceNumber,
                                     currentHash |-> x.currentHash]
    <3>1. PICK x \in rows : seen = [sequenceNumber |-> x.sequenceNumber,
                                    currentHash |-> x.currentHash]
      BY <2>2
    <3>2. seen.sequenceNumber = x.sequenceNumber /\ seen.currentHash = x.currentHash
      BY <3>1
    <3>3. x.sequenceNumber = N /\ N # 0
      BY <1>1, <3>2
    <3>4. PreviousHash(seen) = x.currentHash
      BY <3>2, <3>3 DEF PreviousHash
    <3>5. QED
      BY <1>2, <3>1, <3>3, <3>4 DEF RowLinked
  <2>3. QED
    BY <2>1, <2>2 DEF IsRowOf
<1>5. QED
  BY <1>3, <1>4

LEMMA BackfilledRows ==
    /\ Numbered(Backfilled)
    /\ Cardinality(Backfilled) = Len(Legacy)
    /\ \A row \in Backfilled : RowLinked(row, Backfilled)
    /\ \A row \in Backfilled : row.event \notin Requests
    /\ \A x, y \in Backfilled : x.event = y.event => x = y
    /\ \A row \in Backfilled : row.event = Legacy[row.sequenceNumber]
<1> DEFINE L == Len(Legacy)
           Old(n) == [sequenceNumber |-> n,
                      previousHash |-> IF n = 1 THEN AUDIT_GENESIS_HASH
                                                ELSE LegacyHash(Legacy[n - 1]),
                      event |-> Legacy[n], sourceAppKey |-> Hub, app |-> None,
                      canonicalPayloadHash |-> LegacyHash(Legacy[n]),
                      currentHash |-> LegacyHash(Legacy[n])]
           f == [n \in 1 .. L |-> Old(n)]
<1>1. L \in Nat /\ DOMAIN Legacy = 1 .. L
  <2>1. \E S : Legacy \in Seq(S)
    BY HubAuditAssumption
  <2>2. QED
    BY <2>1
<1> HIDE DEF L
<1>2. Backfilled = {Old(n) : n \in 1 .. L}
  BY <1>1 DEF Backfilled
<1>3. \A n \in 1 .. L : /\ Old(n).sequenceNumber = n
                        /\ Old(n).event = Legacy[n]
                        /\ Old(n).currentHash = LegacyHash(Legacy[n])
                        /\ Old(n).previousHash = IF n = 1 THEN AUDIT_GENESIS_HASH
                                                 ELSE LegacyHash(Legacy[n - 1])
  OBVIOUS
<1> HIDE DEF Old
<1>4. f \in Bijection(1 .. L, Backfilled)
  <2>1. f \in [1 .. L -> Backfilled]
    BY <1>2
  <2>2. \A m, n \in 1 .. L : f[m] = f[n] => m = n
    BY <1>3
  <2>3. \A row \in Backfilled : \E n \in 1 .. L : f[n] = row
    BY <1>2
  <2> HIDE DEF f
  <2>4. f \in Injection(1 .. L, Backfilled)
    BY <2>1, <2>2 DEF Injection, IsInjective
  <2>5. f \in Surjection(1 .. L, Backfilled)
    BY <2>1, <2>3 DEF Surjection
  <2>6. QED
    BY <2>4, <2>5 DEF Bijection
<1>5. IsFiniteSet(1 .. L) /\ Cardinality(1 .. L) = L
  BY <1>1, FS_Interval
<1>6. IsFiniteSet(Backfilled) /\ Cardinality(Backfilled) = L
  BY <1>4, <1>5, FS_Bijection DEF ExistsBijection
<1>7. Numbered(Backfilled)
  <2>1. {row.sequenceNumber : row \in Backfilled} = 1 .. L
    BY <1>2, <1>3
  <2>2. \A x, y \in Backfilled : x.sequenceNumber = y.sequenceNumber => x = y
    BY <1>2, <1>3
  <2>3. QED
    BY <1>6, <2>1, <2>2 DEF Numbered
<1>8. ASSUME NEW n \in 1 .. L
      PROVE  RowLinked(Old(n), Backfilled) /\ Old(n).event \notin Requests
  <2>1. Old(n).event \notin Requests
    BY <1>1, <1>3, HubAuditAssumption
  <2>2. CASE n = 1
    BY <1>3, <2>1, <2>2 DEF RowLinked
  <2>3. CASE n # 1
    <3>1. n - 1 \in 1 .. L /\ (n - 1) + 1 = n
      BY <1>1, <2>3
    <3>2. Old(n - 1) \in Backfilled
      BY <1>2, <3>1
    <3>3. /\ Old(n - 1).sequenceNumber + 1 = Old(n).sequenceNumber
          /\ Old(n).previousHash = Old(n - 1).currentHash
      BY <1>3, <2>3, <3>1
    <3>4. QED
      BY <2>1, <3>2, <3>3 DEF RowLinked
  <2>4. QED
    BY <2>1, <2>2, <2>3
<1>9. \A x, y \in Backfilled : x.event = y.event => x = y
  <2>1. ASSUME NEW m \in 1 .. L, NEW n \in 1 .. L, Old(m).event = Old(n).event
        PROVE  m = n
    <3>1. Legacy[m] = Legacy[n]
      BY <1>3, <2>1
    <3>2. m \in DOMAIN Legacy /\ n \in DOMAIN Legacy
      BY <1>1
    <3>3. \A i, j \in DOMAIN Legacy : Legacy[i] = Legacy[j] => i = j
      BY HubAuditAssumption, Zenon
    <3>4. QED
      BY <3>1, <3>2, <3>3, Zenon
  <2>2. QED
    BY <1>2, <2>1
<1>10. /\ \A row \in Backfilled : RowLinked(row, Backfilled)
       /\ \A row \in Backfilled : row.event \notin Requests
  BY <1>2, <1>8
<1>11. \A row \in Backfilled : row.event = Legacy[row.sequenceNumber]
  BY <1>2, <1>3
<1>12. QED
  BY <1>6, <1>7, <1>9, <1>10, <1>11 DEF L

LEMMA EmptyTable == Numbered({}) /\ Cardinality({}) = 0
<1>1. {row.sequenceNumber : row \in {}} = 1 .. 0
  OBVIOUS
<1>2. QED
  BY <1>1, FS_EmptySet DEF Numbered

LEMMA Bounds ==
    /\ MaxAttempts \in Nat \ {0} /\ 1 \in 1 .. MaxAttempts
    /\ MaxExports \in Nat
    /\ None \notin Requests /\ None \notin Apps
    /\ Isolations \subseteq {"read committed", "repeatable read"}
<1>1. MaxAttempts \in Nat \ {0} /\ MaxExports \in Nat
  BY HubAuditAssumption, Zenon
<1>2. 1 \in 1 .. MaxAttempts
  BY <1>1
<1>3. None \notin Requests \cup Apps
  BY HubAuditAssumption, Zenon
<1>4. None \notin Requests /\ None \notin Apps
  BY <1>3, Zenon
<1>5. Isolations \subseteq {"read committed", "repeatable read"}
  BY HubAuditAssumption, Zenon
<1>6. QED
  BY <1>1, <1>2, <1>4, <1>5, Zenon

LEMMA InitInv == Init => Inv
<1> SUFFICES ASSUME Init PROVE Inv
  OBVIOUS
<1>1. FramesOK
  BY Bounds DEF Init, FramesOK, IsFrame, NoFrame, Steps
<1>2. LockOK
  BY Bounds DEF Init, LockOK
<1>3. /\ RowsOK
      /\ \A row \in rows : row.event \notin Requests
      /\ \A x, y \in rows : x.event = y.event => x = y
  BY BackfilledRows, EmptyTable DEF Init, RowsOK
<1>4. \A r \in Requests : ViewOK(r) /\ LastOK(r)
  BY DEF Init, ViewOK, LastOK
<1>5. EventsOK
  BY <1>3 DEF Init, EventsOK
<1>6. AttemptsOK
  BY DEF Init, AttemptsOK, NoFrame
<1>7. QED
  BY <1>1, <1>2, <1>3, <1>4, <1>5, <1>6 DEF Inv

-----------------------------------------------------------------------------
(***************************************************************************)
(* Every step keeps the invariant.                                         *)
(***************************************************************************)

Before == {"none", "verify", "validate", "upsertApp", "countReferences",
           "deleteApp", "begin"}

\* A step of a handler before its append, or one that ends there.
Quiet(r) ==
    /\ pc[r] \in Before
    /\ \E s \in Before \cup {"rejected", "vetoed"} : pc' = [pc EXCEPT ![r] = s]
    /\ UNCHANGED <<isolation, rows, lock, frame>>

LEMMA HandlersAreQuiet ==
    ASSUME NEW r \in Requests,
           \/ \E a \in Apps : Arrive(r, a)
           \/ VerifyAuditServiceRequest(r)
           \/ ValidateCanonicalReferences(r)
           \/ UpsertApp(r)
           \/ CountReferences(r)
           \/ DeleteApp(r)
    PROVE  Quiet(r)
<1>1. ASSUME NEW a \in Apps, Arrive(r, a)
      PROVE  Quiet(r)
  <2>1. PICK kind \in DOMAIN FirstStep : pc' = [pc EXCEPT ![r] = FirstStep[kind]]
    BY <1>1 DEF Arrive
  <2>2. FirstStep[kind] \in Before
    BY DEF FirstStep, Before
  <2>3. QED
    BY <1>1, <2>1, <2>2 DEF Arrive, Quiet, Before
<1>2. CASE VerifyAuditServiceRequest(r)
  BY <1>2 DEF VerifyAuditServiceRequest, Quiet, Before, Goto, End
<1>3. CASE ValidateCanonicalReferences(r)
  BY <1>3 DEF ValidateCanonicalReferences, Quiet, Before, Goto, End
<1>4. CASE UpsertApp(r)
  BY <1>4 DEF UpsertApp, Quiet, Before, Goto, End
<1>5. CASE CountReferences(r)
  BY <1>5 DEF CountReferences, Quiet, Before, Goto, End
<1>6. CASE DeleteApp(r)
  BY <1>6 DEF DeleteApp, Quiet, Before, Goto, End
<1>7. QED
  BY <1>1, <1>2, <1>3, <1>4, <1>5, <1>6

LEMMA QuietStep ==
    ASSUME Inv, NEW r \in Requests, Quiet(r)
    PROVE  Inv'
<1>1. PICK s \in Before \cup {"rejected", "vetoed"} : pc' = [pc EXCEPT ![r] = s]
  BY DEF Quiet
<1>2. UNCHANGED <<isolation, rows, lock, frame>> /\ pc[r] \in Before
  BY DEF Quiet
<1>3. \A q \in Requests : /\ q # r => pc'[q] = pc[q]
                          /\ pc'[r] = s
  BY <1>1 DEF Inv, FramesOK
<1>4. FramesOK'
  BY <1>1, <1>2 DEF Inv, FramesOK, IsFrame, Before, Steps, Final
<1>5. LockOK'
  BY <1>2, <1>3 DEF Inv, LockOK, Before
<1>6. RowsOK'
  BY <1>2 DEF Inv, RowsOK, Numbered, RowLinked, verifyAuditRow, PayloadHash, ChainHash
<1>7. ASSUME NEW q \in Requests
      PROVE  ViewOK(q)' /\ LastOK(q)'
  BY <1>2, <1>3 DEF Inv, ViewOK, LastOK, Before, Numbered, IsRowOf
<1>8. EventsOK'
  BY <1>2, <1>3 DEF Inv, EventsOK, Before
<1>9. AttemptsOK'
  BY <1>2, <1>3 DEF Inv, AttemptsOK, Before
<1>10. QED
  BY <1>4, <1>5, <1>6, <1>7, <1>8, <1>9 DEF Inv

LEMMA BeginStep ==
    ASSUME Inv, NEW r \in Requests, Begin(r)
    PROVE  Inv'
<1> DEFINE view == IF isolation = "repeatable read"
                   THEN [rows |-> rows, apps |-> apps] ELSE NoView
<1>1. UNCHANGED <<isolation, rows, lock>> /\ pc[r] = "begin"
  BY DEF Begin
<1>2. /\ \A q \in Requests \ {r} : pc'[q] = pc[q] /\ frame'[q] = frame[q]
      /\ pc'[r] = "locking"
  BY DEF Begin, Goto, Inv, FramesOK
<1>3. /\ frame'[r] = [frame[r] EXCEPT !.view = view]
      /\ frame' = [q \in Requests |-> frame'[q]]
  BY DEF Begin, Inv, FramesOK
<1>4. isolation = "repeatable read" => view.rows = rows
  OBVIOUS
<1> HIDE DEF view
<1>5. /\ IsFrame(frame'[r])
      /\ frame'[r].attempt = frame[r].attempt
      /\ frame'[r].view = view
  BY <1>3 DEF Inv, FramesOK, IsFrame
<1>6. FramesOK'
  <2>1. pc' \in [Requests -> Steps]
    BY DEF Begin, Goto, Inv, FramesOK, Steps, InTransaction
  <2>2. QED
    BY <1>1, <1>2, <1>3, <1>5, <2>1 DEF Inv, FramesOK
<1>7. LockOK'
  BY <1>1, <1>2 DEF Inv, LockOK
<1>8. RowsOK'
  BY <1>1 DEF Inv, RowsOK, Numbered, RowLinked, verifyAuditRow, PayloadHash, ChainHash
<1>9. ASSUME NEW q \in Requests
      PROVE  ViewOK(q)' /\ LastOK(q)'
  <2>1. CASE q = r
    BY <1>1, <1>2, <1>4, <1>5, <2>1 DEF Inv, RowsOK, ViewOK, LastOK, Numbered
  <2>2. CASE q # r
    BY <1>1, <1>2, <2>2 DEF Inv, ViewOK, LastOK, Numbered, IsRowOf
  <2>3. QED
    BY <2>1, <2>2
<1>10. EventsOK'
  BY <1>1, <1>2 DEF Inv, EventsOK
<1>11. AttemptsOK'
  BY <1>1, <1>2, <1>5 DEF Inv, AttemptsOK
<1>12. QED
  BY <1>6, <1>7, <1>8, <1>9, <1>10, <1>11 DEF Inv

LEMMA TakeLockStep ==
    ASSUME Inv, NEW r \in Requests, TakeLock(r)
    PROVE  Inv'
<1>1. /\ UNCHANGED <<isolation, rows, frame>>
      /\ pc[r] = "locking" /\ lock = None /\ lock' = r
  BY DEF TakeLock
<1>2. /\ \A q \in Requests \ {r} : pc'[q] = pc[q]
      /\ pc'[r] = "read"
  BY DEF TakeLock, Goto, Inv, FramesOK
<1>3. FramesOK'
  BY <1>1 DEF TakeLock, Goto, Inv, FramesOK, IsFrame, Steps, InTransaction
<1>4. LockOK'
  BY <1>1, <1>2, Bounds DEF Inv, LockOK
<1>5. RowsOK'
  BY <1>1 DEF Inv, RowsOK, Numbered, RowLinked, verifyAuditRow, PayloadHash, ChainHash
<1>6. ASSUME NEW q \in Requests
      PROVE  ViewOK(q)' /\ LastOK(q)'
  BY <1>1, <1>2 DEF Inv, ViewOK, LastOK, Numbered, IsRowOf
<1>7. EventsOK'
  BY <1>1, <1>2 DEF Inv, EventsOK
<1>8. AttemptsOK'
  BY <1>1, <1>2 DEF Inv, AttemptsOK
<1>9. QED
  BY <1>3, <1>4, <1>5, <1>6, <1>7, <1>8 DEF Inv

LEMMA ReadLastStep ==
    ASSUME Inv, NEW r \in Requests, ReadLast(r)
    PROVE  Inv'
<1> DEFINE seen == LastRow(Seen(r).rows)
<1>1. UNCHANGED <<isolation, rows, lock>> /\ pc[r] = "read"
  BY DEF ReadLast
<1>2. /\ \A q \in Requests \ {r} : pc'[q] = pc[q] /\ frame'[q] = frame[q]
      /\ pc'[r] = "insert"
  BY DEF ReadLast, Goto, Inv, FramesOK
<1>3. /\ frame'[r] = [frame[r] EXCEPT !.last = seen]
      /\ frame' = [q \in Requests |-> frame'[q]]
  BY DEF ReadLast, Inv, FramesOK
<1>4. /\ Numbered(Seen(r).rows) /\ Seen(r).rows \subseteq rows
      /\ isolation = "read committed" => Seen(r).rows = rows
  BY <1>1 DEF Seen, Inv, FramesOK, RowsOK, ViewOK
<1>5. /\ IsRowOf(seen, rows)
      /\ isolation = "read committed" => seen.sequenceNumber = Cardinality(rows)
  BY <1>4, LastRowIsLast DEF IsRowOf
<1> HIDE DEF seen
<1>6. /\ IsFrame(frame'[r])
      /\ frame'[r].attempt = frame[r].attempt
      /\ frame'[r].last = seen
  BY <1>3 DEF Inv, FramesOK, IsFrame
<1>7. FramesOK'
  <2>1. pc' \in [Requests -> Steps]
    BY DEF ReadLast, Goto, Inv, FramesOK, Steps, InTransaction
  <2>2. QED
    BY <1>1, <1>2, <1>3, <1>6, <2>1 DEF Inv, FramesOK
<1>8. LockOK'
  BY <1>1, <1>2 DEF Inv, LockOK
<1>9. RowsOK'
  BY <1>1 DEF Inv, RowsOK, Numbered, RowLinked, verifyAuditRow, PayloadHash, ChainHash
<1>10. ASSUME NEW q \in Requests
       PROVE  ViewOK(q)' /\ LastOK(q)'
  <2>1. CASE q = r
    BY <1>1, <1>2, <1>5, <1>6, <2>1 DEF ViewOK, LastOK, IsRowOf
  <2>2. CASE q # r
    BY <1>1, <1>2, <2>2 DEF Inv, ViewOK, LastOK, Numbered, IsRowOf
  <2>3. QED
    BY <2>1, <2>2
<1>11. EventsOK'
  BY <1>1, <1>2 DEF Inv, EventsOK
<1>12. AttemptsOK'
  BY <1>1, <1>2, <1>6 DEF Inv, AttemptsOK
<1>13. QED
  BY <1>7, <1>8, <1>9, <1>10, <1>11, <1>12 DEF Inv

\* Whoever still finds his number free has read the last row of the table.
LEMMA FreeNumberIsNext ==
    ASSUME Inv, NEW r \in Requests, pc[r] = "insert"
    PROVE  /\ Cardinality(rows) \in Nat
           /\ frame[r].last.sequenceNumber \in 0 .. Cardinality(rows)
           /\ ~ SequenceTaken(frame[r].last.sequenceNumber + 1)
                 <=> frame[r].last.sequenceNumber = Cardinality(rows)
<1>1. /\ Cardinality(rows) \in Nat
      /\ \A row \in rows : row.sequenceNumber \in 1 .. Cardinality(rows)
      /\ \A n \in 1 .. Cardinality(rows) : \E row \in rows : row.sequenceNumber = n
  BY NumbersAreNaturals DEF Inv, RowsOK
<1>2. frame[r].last.sequenceNumber \in 0 .. Cardinality(rows)
  <2>1. IsRowOf(frame[r].last, rows)
    BY DEF Inv, LastOK
  <2>2. CASE frame[r].last = NoRow
    BY <1>1, <2>2 DEF NoRow
  <2>3. CASE \E row \in rows : frame[r].last = [sequenceNumber |-> row.sequenceNumber,
                                               currentHash |-> row.currentHash]
    <3>1. PICK row \in rows : frame[r].last = [sequenceNumber |-> row.sequenceNumber,
                                               currentHash |-> row.currentHash]
      BY <2>3
    <3>2. frame[r].last.sequenceNumber = row.sequenceNumber
      BY <3>1
    <3>3. QED
      BY <1>1, <3>2
  <2>4. QED
    BY <2>1, <2>2, <2>3 DEF IsRowOf
<1>3. QED
  BY <1>1, <1>2 DEF SequenceTaken

\* A transaction that ends without a row: rolled back, its lock released.
RolledBack(r) ==
    /\ pc[r] \in InTransaction
    /\ lock' = (IF lock = r THEN None ELSE lock)
    /\ \E s \in {"begin", "dropped", "failed"}, n \in 1 .. MaxAttempts :
          /\ pc' = [pc EXCEPT ![r] = s]
          /\ frame' = [frame EXCEPT ![r] = [NoFrame EXCEPT !.attempt = n]]
          /\ isolation = "read committed" => n = 1 /\ s # "dropped"
    /\ UNCHANGED <<isolation, rows>>

LEMMA RolledBackStep ==
    ASSUME Inv, NEW r \in Requests, RolledBack(r)
    PROVE  Inv'
<1>1. PICK s \in {"begin", "dropped", "failed"}, n \in 1 .. MaxAttempts :
         /\ pc' = [pc EXCEPT ![r] = s]
         /\ frame' = [frame EXCEPT ![r] = [NoFrame EXCEPT !.attempt = n]]
         /\ isolation = "read committed" => n = 1 /\ s # "dropped"
  BY DEF RolledBack
<1>2. /\ UNCHANGED <<isolation, rows>> /\ pc[r] \in InTransaction
      /\ lock' = (IF lock = r THEN None ELSE lock)
  BY DEF RolledBack
<1>3. /\ \A q \in Requests \ {r} : pc'[q] = pc[q] /\ frame'[q] = frame[q]
      /\ pc'[r] = s
      /\ frame' = [q \in Requests |-> frame'[q]]
  BY <1>1 DEF Inv, FramesOK
<1>4. frame'[r] = [NoFrame EXCEPT !.attempt = n]
  BY <1>1 DEF Inv, FramesOK
<1>5. IsFrame(frame'[r]) /\ frame'[r].attempt = n
  BY <1>4 DEF IsFrame, NoFrame
<1>6. FramesOK'
  <2>1. pc' \in [Requests -> Steps]
    BY <1>1 DEF Inv, FramesOK, Steps, Final
  <2>2. QED
    BY <1>2, <1>3, <1>5, <2>1 DEF Inv, FramesOK
<1>7. LockOK'
  BY <1>2, <1>3, Bounds DEF Inv, LockOK, InTransaction
<1>8. RowsOK'
  BY <1>2 DEF Inv, RowsOK, Numbered, RowLinked, verifyAuditRow, PayloadHash, ChainHash
<1>9. ASSUME NEW q \in Requests
      PROVE  ViewOK(q)' /\ LastOK(q)'
  BY <1>2, <1>3 DEF Inv, ViewOK, LastOK, Numbered, IsRowOf
<1>10. EventsOK'
  BY <1>2, <1>3 DEF Inv, EventsOK, InTransaction
<1>11. AttemptsOK'
  BY <1>1, <1>2, <1>3, <1>5 DEF Inv, AttemptsOK
<1>12. QED
  BY <1>6, <1>7, <1>8, <1>9, <1>10, <1>11 DEF Inv

LEMMA RollbacksRollBack ==
    ASSUME Inv, NEW r \in Requests, LoseRace(r) \/ LoseReference(r) \/ Abort(r)
    PROVE  RolledBack(r)
<1>1. NoFrame = [NoFrame EXCEPT !.attempt = 1] /\ 1 \in 1 .. MaxAttempts
  <2>1. NoFrame = [NoFrame EXCEPT !.attempt = 1]
    BY DEF NoFrame
  <2>2. QED
    BY <2>1, Bounds, Zenon
<1>2. pc[r] = "insert" => lock = r
  BY DEF Inv, LockOK
<1>3. CASE LoseRace(r)
  <2>1. isolation # "read committed"
    BY <1>3, FreeNumberIsNext DEF LoseRace, Inv, LastOK
  <2>2. CASE MayRetry(frame[r].attempt)
    <3>1. frame[r].attempt + 1 \in 1 .. MaxAttempts
      <4>1. frame[r].attempt \in 1 .. MaxAttempts
        BY DEF Inv, FramesOK
      <4>2. MaxAttempts \in Nat
        BY Bounds
      <4>3. QED
        BY <2>2, <4>1, <4>2 DEF MayRetry
    <3>2. QED
      BY <1>2, <1>3, <2>1, <2>2, <3>1 DEF LoseRace, RolledBack, Goto, InTransaction
  <2>3. CASE ~ MayRetry(frame[r].attempt)
    BY <1>1, <1>2, <1>3, <2>1, <2>3
       DEF LoseRace, RolledBack, End, AfterLoop, InTransaction
  <2>4. QED
    BY <2>2, <2>3
<1>4. CASE LoseReference(r)
  BY <1>1, <1>2, <1>4 DEF LoseReference, RolledBack, End, AfterLoop, InTransaction
<1>5. CASE Abort(r)
  BY <1>1, <1>5 DEF Abort, LockWithout, RolledBack, End, AfterLoop, InTransaction
<1>6. QED
  BY <1>3, <1>4, <1>5

LEMMA InsertStep ==
    ASSUME Inv, NEW r \in Requests, Insert(r)
    PROVE  Inv'
<1> DEFINE N    == Cardinality(rows)
           seen == frame[r].last
           row  == buildAuditChainEvent(r, SourceAppKey(r), AppReference(r), N + 1,
                                        PreviousHash(seen))
<1>1. /\ pc[r] = "insert" /\ lock = r /\ lock' = None
      /\ UNCHANGED isolation
  BY DEF Insert, Inv, LockOK
<1>2. /\ N \in Nat
      /\ seen.sequenceNumber = N /\ IsRowOf(seen, rows)
  BY FreeNumberIsNext DEF Insert, Inv, LastOK
<1>3. /\ rows' = rows \cup {row}
      /\ frame' = [frame EXCEPT ![r] = [NoFrame EXCEPT !.number = N + 1]]
  BY <1>2 DEF Insert
<1>4. /\ \A q \in Requests \ {r} : pc'[q] = pc[q] /\ frame'[q] = frame[q]
      /\ pc'[r] = "committed"
      /\ frame' = [q \in Requests |-> frame'[q]]
      /\ frame'[r] = [NoFrame EXCEPT !.number = N + 1]
  BY <1>3 DEF Insert, Goto, Inv, FramesOK
<1>5. /\ IsFrame(frame'[r])
      /\ frame'[r].attempt = 1 /\ frame'[r].number = N + 1
  BY <1>4 DEF IsFrame, NoFrame
<1>6. row.sequenceNumber = N + 1 /\ row.event = r
  BY DEF buildAuditChainEvent
<1>7. /\ Numbered(rows') /\ Cardinality(rows') = N + 1
      /\ \A x \in rows' : RowLinked(x, rows')
  BY <1>2, <1>3, <1>6, NextRowIsNumbered, NextRowIsLinked DEF Inv, RowsOK
<1> HIDE DEF row
<1>8. FramesOK'
  <2>1. pc' \in [Requests -> Steps]
    BY DEF Insert, Goto, Inv, FramesOK, Steps
  <2>2. QED
    BY <1>1, <1>4, <1>5, <2>1, Bounds DEF Inv, FramesOK
<1>9. LockOK'
  BY <1>1, <1>4, Bounds DEF Inv, LockOK
<1>10. RowsOK'
  BY <1>7 DEF RowsOK, RowLinked, Numbered, verifyAuditRow, PayloadHash, ChainHash
<1>11. ASSUME NEW q \in Requests
       PROVE  ViewOK(q)' /\ LastOK(q)'
  <2>1. CASE q = r
    BY <1>4, <2>1 DEF ViewOK, LastOK
  <2>2. CASE q # r
    <3>1. pc[q] # "insert"
      BY <1>1, <2>2 DEF Inv, LockOK
    <3>2. QED
      BY <1>1, <1>3, <1>4, <2>2, <3>1 DEF Inv, ViewOK, LastOK, Numbered
  <2>3. QED
    BY <2>1, <2>2
<1>12. EventsOK'
  <2>1. \A x \in rows : x.event # r
    BY <1>1 DEF Inv, EventsOK
  <2>2. \A x \in rows' : x.event \in Requests =>
           pc'[x.event] \in {"committed", "created", "failed"}
    BY <1>3, <1>4, <1>6 DEF Inv, EventsOK
  <2>3. \A x, y \in rows' : x.event = y.event => x = y
    BY <1>3, <1>6, <2>1 DEF Inv, EventsOK
  <2>4. ASSUME NEW q \in Requests, pc'[q] \in {"committed", "created"}
        PROVE  \E x \in rows' : x.event = q /\ x.sequenceNumber = frame'[q].number
    BY <1>3, <1>4, <1>5, <1>6, <2>4 DEF Inv, EventsOK
  <2>5. QED
    BY <2>2, <2>3, <2>4 DEF EventsOK
<1>13. AttemptsOK'
  BY <1>1, <1>4, <1>5 DEF Inv, AttemptsOK
<1>14. QED
  BY <1>8, <1>9, <1>10, <1>11, <1>12, <1>13 DEF Inv

LEMMA AnswerStep ==
    ASSUME Inv, NEW r \in Requests, Answer(r)
    PROVE  Inv'
<1>1. UNCHANGED <<isolation, rows, lock, frame>> /\ pc[r] = "committed"
  BY DEF Answer
<1>2. /\ \A q \in Requests \ {r} : pc'[q] = pc[q]
      /\ pc'[r] = "created" /\ pc' \in [Requests -> Steps]
  BY DEF Answer, End, Inv, FramesOK, Steps, Final
<1>3. FramesOK'
  BY <1>1, <1>2 DEF Inv, FramesOK, IsFrame
<1>4. LockOK'
  BY <1>1, <1>2 DEF Inv, LockOK
<1>5. RowsOK'
  BY <1>1 DEF Inv, RowsOK, Numbered, RowLinked, verifyAuditRow, PayloadHash, ChainHash
<1>6. ASSUME NEW q \in Requests
      PROVE  ViewOK(q)' /\ LastOK(q)'
  BY <1>1, <1>2 DEF Inv, ViewOK, LastOK, Numbered, IsRowOf
<1>7. EventsOK'
  BY <1>1, <1>2 DEF Inv, EventsOK
<1>8. AttemptsOK'
  BY <1>1, <1>2 DEF Inv, AttemptsOK
<1>9. QED
  BY <1>3, <1>4, <1>5, <1>6, <1>7, <1>8 DEF Inv

LEMMA LoseAnswerStep ==
    ASSUME Inv, NEW r \in Requests, LoseAnswer(r)
    PROVE  Inv'
<1>1. UNCHANGED <<isolation, rows, lock>> /\ pc[r] = "committed"
  BY DEF LoseAnswer
<1>2. /\ \A q \in Requests \ {r} : pc'[q] = pc[q] /\ frame'[q] = frame[q]
      /\ pc'[r] = "failed" /\ frame'[r] = NoFrame
      /\ frame' = [q \in Requests |-> frame'[q]]
      /\ pc' \in [Requests -> Steps]
  BY DEF LoseAnswer, End, AfterLoop, Inv, FramesOK, Steps, Final
<1>3. IsFrame(NoFrame) /\ NoFrame.attempt = 1
  BY DEF IsFrame, NoFrame
<1>4. FramesOK'
  BY <1>1, <1>2, <1>3, Bounds DEF Inv, FramesOK
<1>5. LockOK'
  BY <1>1, <1>2 DEF Inv, LockOK
<1>6. RowsOK'
  BY <1>1 DEF Inv, RowsOK, Numbered, RowLinked, verifyAuditRow, PayloadHash, ChainHash
<1>7. ASSUME NEW q \in Requests
      PROVE  ViewOK(q)' /\ LastOK(q)'
  BY <1>1, <1>2 DEF Inv, ViewOK, LastOK, Numbered, IsRowOf
<1>8. EventsOK'
  BY <1>1, <1>2 DEF Inv, EventsOK
<1>9. AttemptsOK'
  BY <1>1, <1>2, <1>3 DEF Inv, AttemptsOK
<1>10. QED
  BY <1>4, <1>5, <1>6, <1>7, <1>8, <1>9 DEF Inv

LEMMA IdleStep ==
    ASSUME Inv, UNCHANGED <<isolation, rows, lock, pc, frame>>
    PROVE  Inv'
<1>1. FramesOK'
  BY DEF Inv, FramesOK, IsFrame
<1>2. LockOK'
  BY DEF Inv, LockOK
<1>3. RowsOK'
  BY DEF Inv, RowsOK, Numbered, RowLinked, verifyAuditRow, PayloadHash, ChainHash
<1>4. ASSUME NEW q \in Requests
      PROVE  ViewOK(q)' /\ LastOK(q)'
  BY DEF Inv, ViewOK, LastOK, Numbered, IsRowOf
<1>5. EventsOK'
  BY DEF Inv, EventsOK
<1>6. AttemptsOK'
  BY DEF Inv, AttemptsOK
<1>7. QED
  BY <1>1, <1>2, <1>3, <1>4, <1>5, <1>6 DEF Inv

LEMMA NextInv == Inv /\ [Next]_vars => Inv'
<1> SUFFICES ASSUME Inv, [Next]_vars PROVE Inv'
  OBVIOUS
<1>1. ASSUME NEW r \in Requests, NEW a \in Apps, Arrive(r, a)
      PROVE  Inv'
  BY <1>1, HandlersAreQuiet, QuietStep
<1>2. ASSUME NEW r \in Requests, Handle(r)
      PROVE  Inv'
  <2>1. CASE \/ VerifyAuditServiceRequest(r) \/ ValidateCanonicalReferences(r)
             \/ UpsertApp(r) \/ CountReferences(r) \/ DeleteApp(r)
    BY <2>1, HandlersAreQuiet, QuietStep
  <2>2. CASE Begin(r)
    BY <2>2, BeginStep
  <2>3. CASE TakeLock(r)
    BY <2>3, TakeLockStep
  <2>4. CASE ReadLast(r)
    BY <2>4, ReadLastStep
  <2>5. CASE Insert(r)
    BY <2>5, InsertStep
  <2>6. CASE LoseRace(r) \/ LoseReference(r) \/ Abort(r)
    BY <2>6, RollbacksRollBack, RolledBackStep
  <2>7. CASE Answer(r)
    BY <2>7, AnswerStep
  <2>8. CASE LoseAnswer(r)
    BY <2>8, LoseAnswerStep
  <2>9. QED
    BY <1>2, <2>1, <2>2, <2>3, <2>4, <2>5, <2>6, <2>7, <2>8, Zenon DEF Handle
<1>3. CASE ExportManifest
  BY <1>3, IdleStep DEF ExportManifest
<1>4. CASE UNCHANGED vars
  BY <1>4, IdleStep DEF vars
<1>5. QED
  BY <1>1, <1>2, <1>3, <1>4 DEF Next

THEOREM Invariance == Spec => []Inv
<1>1. Init => Inv
  BY InitInv
<1>2. Inv /\ [Next]_vars => Inv'
  BY NextInv
<1>3. QED
  BY <1>1, <1>2, PTL DEF Spec

-----------------------------------------------------------------------------
(***************************************************************************)
(* What the invariant implies.                                             *)
(***************************************************************************)

\* The rows of the audit log are numbered 1, 2, 3, ... and every row holds the
\* hash of the one before it, whatever the isolation level and however the
\* transactions of appendAuditLogUnchecked overlap, race or break.
THEOREM ChainIsUnbroken == Spec => []ChainUnbroken
<1>1. Inv => ChainUnbroken
  BY DEF Inv, RowsOK, RowLinked, Numbered, ChainUnbroken
<1>2. QED
  BY <1>1, Invariance, PTL

\* At the default isolation level pg_advisory_xact_lock alone keeps the appends
\* apart: the retry loop never runs a second time and drops no event.
THEOREM LockSuffices == Spec => []LockSparesRetries
<1>1. Inv => LockSparesRetries
  BY DEF Inv, AttemptsOK, LockSparesRetries
<1>2. QED
  BY <1>1, Invariance, PTL

\* The advisory lock is held between the lock statement and the end of its
\* transaction and never longer, whether that commits, rolls back or is lost.
THEOREM LockIsNeverLeaked == Spec => []LockIsReleased
<1>1. Inv => LockIsReleased
  BY Bounds DEF Inv, LockOK, LockIsReleased
<1>2. QED
  BY <1>1, Invariance, PTL

-----------------------------------------------------------------------------
(***************************************************************************)
(* Manifests.  A manifest counts no row beyond the end of the table, and   *)
(* the table grows at its end only, so nothing slips in below what a       *)
(* manifest has counted.                                                   *)
(***************************************************************************)
ManifestsOK ==
    /\ ManifestIsComplete
    /\ \A m \in manifests : m.lastSequence \in 0 .. Cardinality(rows)

LEMMA GreatestNumber ==
    ASSUME NEW N \in Nat, NEW S \in SUBSET (1 .. N), S # {}
    PROVE  \E n \in S : \A m \in S : m <= n
<1> DEFINE T == {N - n : n \in S}
<1>0. \A n \in S : n \in Nat /\ N - n \in Nat
  OBVIOUS
<1>1. T \subseteq Nat /\ T # {}
  BY <1>0
<1>2. \E t \in T : \A u \in T : <<u, t>> \notin OpToRel(<, Nat)
  BY <1>1, WFMin, NatLessThanWellFounded, Zenon
<1>3. PICK t \in T : \A u \in T : <<u, t>> \notin OpToRel(<, Nat)
  BY <1>2
<1>4. \A u \in T : ~(u < t)
  BY <1>1, <1>3 DEF OpToRel
<1>5. PICK n \in S : t = N - n
  OBVIOUS
<1>6. \A m \in S : ~(N - m < N - n)
  BY <1>4, <1>5
<1>7. \A m \in S : m <= n
  BY <1>0, <1>6
<1>8. QED
  BY <1>7

\* The last row of a selection of a numbered table has the greatest number.
LEMMA LastOfSelection ==
    ASSUME NEW table, Numbered(table), NEW batch \in SUBSET table
    PROVE  /\ LastRow(batch).sequenceNumber \in 0 .. Cardinality(table)
           /\ \A row \in batch : row.sequenceNumber <= LastRow(batch).sequenceNumber
           /\ batch = {} => LastRow(batch).sequenceNumber = 0
<1>1. CASE batch = {}
  BY <1>1, NumbersAreNaturals DEF LastRow, NoRow
<1>2. CASE batch # {}
  <2> DEFINE IsLast(row) == \A other \in batch :
                               other.sequenceNumber <= row.sequenceNumber
             last == CHOOSE row \in batch : IsLast(row)
             S == {row.sequenceNumber : row \in batch}
  <2>1. Cardinality(table) \in Nat /\ S \in SUBSET (1 .. Cardinality(table)) /\ S # {}
    BY <1>2, NumbersAreNaturals
  <2>2. PICK n \in S : \A m \in S : m <= n
    BY <2>1, GreatestNumber
  <2>3. \E row \in batch : IsLast(row)
    BY <2>2
  <2>4. last \in batch /\ IsLast(last)
    BY <2>3, Zenon
  <2>5. LastRow(batch) = [sequenceNumber |-> last.sequenceNumber,
                          currentHash |-> last.currentHash]
    BY <1>2 DEF LastRow
  <2> HIDE DEF last
  <2>6. LastRow(batch).sequenceNumber = last.sequenceNumber
    BY <2>5
  <2>7. last.sequenceNumber \in 1 .. Cardinality(table)
    BY <2>1, <2>4
  <2>8. QED
    BY <1>2, <2>1, <2>4, <2>6, <2>7
<1>3. QED
  BY <1>1, <1>2

LEMMA ManifestsExport ==
    ASSUME Inv, ManifestsOK, ExportManifest
    PROVE  ManifestsOK'
<1>1. PICK filter \in Apps \cup {None} :
          manifests' = manifests \cup {buildAuditExportManifest(filter,
              {row \in rows : filter \in {None, row.sourceAppKey}})}
  BY DEF ExportManifest
<1> DEFINE batch == {row \in rows : filter \in {None, row.sourceAppKey}}
           new == buildAuditExportManifest(filter, batch)
<1>2. rows' = rows /\ Numbered(rows)
  BY DEF ExportManifest, Inv, RowsOK
<1>3. /\ LastRow(batch).sequenceNumber \in 0 .. Cardinality(rows)
      /\ \A row \in batch : row.sequenceNumber <= LastRow(batch).sequenceNumber
  BY <1>2, LastOfSelection
<1>4. /\ new.filter = filter
      /\ new.eventCount = Cardinality(batch)
      /\ new.lastSequence = LastRow(batch).sequenceNumber
      /\ new.rowHashes = {row.currentHash : row \in batch}
  BY DEF buildAuditExportManifest
<1> HIDE DEF new
<1>5. {row \in rows : /\ new.filter \in {None, row.sourceAppKey}
                      /\ row.sequenceNumber <= new.lastSequence} = batch
  BY <1>3, <1>4
<1>6. manifests' = manifests \cup {new}
  BY <1>1 DEF new
<1>7. ManifestIsComplete'
  BY <1>2, <1>4, <1>5, <1>6 DEF ManifestsOK, ManifestIsComplete
<1>8. \A m \in manifests' : m.lastSequence \in 0 .. Cardinality(rows)'
  BY <1>2, <1>3, <1>4, <1>6 DEF ManifestsOK
<1>9. QED
  BY <1>7, <1>8 DEF ManifestsOK

LEMMA ManifestsInsert ==
    ASSUME Inv, ManifestsOK, NEW r \in Requests, Insert(r)
    PROVE  ManifestsOK'
<1> DEFINE N   == Cardinality(rows)
           row == buildAuditChainEvent(r, SourceAppKey(r), AppReference(r), N + 1,
                                       PreviousHash(frame[r].last))
<1>1. frame[r].last.sequenceNumber = N /\ N \in Nat /\ Numbered(rows)
  BY FreeNumberIsNext DEF Insert, Inv, RowsOK
<1>2. rows' = rows \cup {row} /\ manifests' = manifests
  BY <1>1 DEF Insert
<1>3. row.sequenceNumber = N + 1
  BY DEF buildAuditChainEvent
<1> HIDE DEF row
<1>4. Cardinality(rows') = N + 1
  BY <1>1, <1>2, <1>3, NextRowIsNumbered
<1>5. ASSUME NEW m \in manifests
      PROVE  {x \in rows' : /\ m.filter \in {None, x.sourceAppKey}
                            /\ x.sequenceNumber <= m.lastSequence}
               = {x \in rows : /\ m.filter \in {None, x.sourceAppKey}
                               /\ x.sequenceNumber <= m.lastSequence}
  <2>1. m.lastSequence \in 0 .. N
    BY DEF ManifestsOK
  <2>2. ~(row.sequenceNumber <= m.lastSequence)
    BY <1>1, <1>3, <2>1
  <2>3. QED
    BY <1>2, <2>2
<1>6. ManifestIsComplete'
  BY <1>2, <1>5 DEF ManifestsOK, ManifestIsComplete
<1>7. \A m \in manifests' : m.lastSequence \in 0 .. Cardinality(rows')
  BY <1>1, <1>2, <1>4 DEF ManifestsOK
<1>8. QED
  BY <1>6, <1>7 DEF ManifestsOK

LEMMA NextManifests == Inv /\ ManifestsOK /\ [Next]_vars => ManifestsOK'
<1> SUFFICES ASSUME Inv, ManifestsOK, [Next]_vars PROVE ManifestsOK'
  OBVIOUS
<1>1. CASE ExportManifest
  BY <1>1, ManifestsExport
<1>2. CASE \E r \in Requests : Insert(r)
  BY <1>2, ManifestsInsert
<1>3. CASE UNCHANGED <<rows, manifests>>
  BY <1>3 DEF ManifestsOK, ManifestIsComplete
<1>4. ASSUME NEW r \in Requests, Handle(r), ~ Insert(r)
      PROVE  UNCHANGED <<rows, manifests>>
  BY <1>4 DEF Handle, VerifyAuditServiceRequest, ValidateCanonicalReferences,
     UpsertApp, CountReferences, DeleteApp, Begin, TakeLock, ReadLast, LoseRace,
     LoseReference, Answer, Abort, LoseAnswer
<1>5. ASSUME NEW r \in Requests, NEW a \in Apps, Arrive(r, a)
      PROVE  UNCHANGED <<rows, manifests>>
  BY <1>5 DEF Arrive
<1>6. QED
  BY <1>1, <1>2, <1>3, <1>4, <1>5 DEF Next, vars

\* A manifest vouches for every row of its filter up to the last it counted,
\* and none turns up below it afterwards, although it is made from a query
\* that no lock protects from appends under way (createAuditExportManifest).
THEOREM ManifestsAreComplete == Spec => []ManifestIsComplete
<1>1. Init => ManifestsOK
  BY DEF Init, ManifestsOK, ManifestIsComplete
<1>2. Inv /\ ManifestsOK /\ [Next]_vars => ManifestsOK'
  BY NextManifests
<1>3. ManifestsOK => ManifestIsComplete
  BY DEF ManifestsOK
<1>4. QED
  BY <1>1, <1>2, <1>3, Invariance, PTL DEF Spec

-----------------------------------------------------------------------------
(***************************************************************************)
(* The table implements the log of HubLog.                                 *)
(***************************************************************************)

\* The events of a table in the order of their numbers.
LogOf(table) ==
    [n \in 1 .. Cardinality(table) |->
        (CHOOSE row \in table : row.sequenceNumber = n).event]

LEMMA LogOfNumbered ==
    ASSUME NEW table, Numbered(table)
    PROVE  /\ DOMAIN LogOf(table) = 1 .. Cardinality(table)
           /\ \A row \in table : /\ row.sequenceNumber \in DOMAIN LogOf(table)
                                 /\ LogOf(table)[row.sequenceNumber] = row.event
           /\ \A n \in DOMAIN LogOf(table) :
                 \E row \in table : /\ row.sequenceNumber = n
                                    /\ LogOf(table)[n] = row.event
<1>1. DOMAIN LogOf(table) = 1 .. Cardinality(table)
  BY DEF LogOf
<1>2. ASSUME NEW row \in table
      PROVE  /\ row.sequenceNumber \in DOMAIN LogOf(table)
             /\ LogOf(table)[row.sequenceNumber] = row.event
  <2> DEFINE n == row.sequenceNumber
  <2>1. n \in 1 .. Cardinality(table)
    BY NumbersAreNaturals
  <2>2. (CHOOSE x \in table : x.sequenceNumber = n) = row
    <3>1. \A x \in table : x.sequenceNumber = n => x = row
      BY DEF Numbered
    <3>2. QED
      BY <3>1
  <2>3. QED
    BY <1>1, <2>1, <2>2 DEF LogOf
<1>3. ASSUME NEW n \in DOMAIN LogOf(table)
      PROVE  \E row \in table : row.sequenceNumber = n /\ LogOf(table)[n] = row.event
  <2>1. PICK row \in table : row.sequenceNumber = n
    BY <1>1, NumbersAreNaturals
  <2>2. QED
    BY <1>2, <2>1
<1>4. QED
  BY <1>1, <1>2, <1>3

\* The next row appends its event.
LEMMA NextRowAppends ==
    ASSUME NEW table, Numbered(table), NEW row,
           row.sequenceNumber = Cardinality(table) + 1
    PROVE  LogOf(table \cup {row}) = Append(LogOf(table), row.event)
<1> DEFINE N   == Cardinality(table)
           new == table \cup {row}
<1>1. /\ N \in Nat
      /\ \A x \in table : x.sequenceNumber \in 1 .. N
      /\ Numbered(new) /\ Cardinality(new) = N + 1
  BY NumbersAreNaturals, NextRowIsNumbered
<1>2. DOMAIN LogOf(new) = 1 .. (N + 1) /\ DOMAIN LogOf(table) = 1 .. N
  BY <1>1, LogOfNumbered
<1>3. LogOf(new)[N + 1] = row.event
  BY <1>1, LogOfNumbered
<1>4. ASSUME NEW n \in 1 .. N
      PROVE  LogOf(new)[n] = LogOf(table)[n]
  <2>1. PICK x \in table : x.sequenceNumber = n /\ LogOf(table)[n] = x.event
    <3>1. n \in DOMAIN LogOf(table)
      BY <1>2
    <3>2. QED
      BY <3>1, LogOfNumbered, Zenon
  <2>2. LogOf(new)[n] = x.event
    BY <1>1, <2>1, LogOfNumbered
  <2>3. QED
    BY <2>1, <2>2
<1> DEFINE S == {LogOf(new)[n] : n \in 1 .. (N + 1)}
<1>5. /\ LogOf(new) \in Seq(S) /\ Len(LogOf(new)) = N + 1
  <2>1. LogOf(new) \in [1 .. (N + 1) -> S]
    BY <1>1 DEF LogOf
  <2> HIDE DEF S
  <2>2. QED
    <3>1. N + 1 \in Nat
      BY <1>1
    <3>2. Seq(S) = UNION {[1 .. n -> S] : n \in Nat}
      BY SeqDef, Zenon
    <3>3. LogOf(new) \in Seq(S)
      BY <2>1, <3>1, <3>2, Zenon
    <3>4. Len(LogOf(new)) = N + 1
      BY <1>2, <3>1, <3>3
    <3>5. QED
      BY <3>3, <3>4
<1>6. LogOf(table) \in Seq(S) /\ Len(LogOf(table)) = N
  <2>1. LogOf(table) = [n \in 1 .. N |-> LogOf(table)[n]]
    BY DEF LogOf
  <2>2. \A n \in 1 .. N : LogOf(new)[n] \in S
    BY <1>1
  <2> HIDE DEF S
  <2>3. LogOf(table) \in [1 .. N -> S]
    BY <1>4, <2>1, <2>2
  <2>4. QED
    BY <1>1, <1>2, <2>3, SeqDef
<1>7. row.event \in S
  BY <1>1, <1>3
<1> HIDE DEF S
<1>8. /\ Append(LogOf(table), row.event) \in Seq(S)
      /\ Len(Append(LogOf(table), row.event)) = N + 1
      /\ \A n \in 1 .. N : Append(LogOf(table), row.event)[n] = LogOf(table)[n]
      /\ Append(LogOf(table), row.event)[N + 1] = row.event
  BY <1>6, <1>7, AppendProperties
<1>9. \A n \in 1 .. (N + 1) : LogOf(new)[n] = Append(LogOf(table), row.event)[n]
  <2>1. \A n \in 1 .. (N + 1) : n = N + 1 \/ n \in 1 .. N
    BY <1>1
  <2>2. QED
    BY <1>3, <1>4, <1>8, <2>1
<1>10. QED
  BY <1>5, <1>8, <1>9, SeqEqual

LEMMA LogOfNone == LogOf({}) = <<>>
  BY EmptyTable DEF LogOf

LEMMA LogOfBackfilled == LogOf(Backfilled) = Legacy
<1>1. /\ Numbered(Backfilled) /\ Cardinality(Backfilled) = Len(Legacy)
      /\ \A row \in Backfilled : row.event = Legacy[row.sequenceNumber]
  BY BackfilledRows
<1>2. PICK S : Legacy \in Seq(S)
  BY HubAuditAssumption
<1>3. Legacy = [n \in 1 .. Len(Legacy) |-> Legacy[n]]
  BY <1>2
<1>4. \A n \in 1 .. Len(Legacy) : LogOf(Backfilled)[n] = Legacy[n]
  <2> TAKE n \in 1 .. Len(Legacy)
  <2>1. PICK row \in Backfilled :
           row.sequenceNumber = n /\ LogOf(Backfilled)[n] = row.event
    <3>1. n \in DOMAIN LogOf(Backfilled)
      BY <1>1, LogOfNumbered
    <3>2. QED
      BY <1>1, <3>1, LogOfNumbered, Zenon
  <2>2. QED
    BY <1>1, <2>1
<1>5. LogOf(Backfilled) = [n \in 1 .. Len(Legacy) |-> LogOf(Backfilled)[n]]
  BY <1>1 DEF LogOf
<1>6. QED
  BY <1>3, <1>4, <1>5

Told == [r \in Requests |-> ToldOf(pc[r])]
Place == [r \in Requests |-> IF pc[r] = "created" THEN frame[r].number ELSE 0]

\* Steps whose caller was told nothing yet.
Open == Before \cup InTransaction \cup {"committed"}

LEMMA RecordedIsInTheTable ==
    ASSUME Inv, NEW r \in Requests
    PROVE  /\ RecordedLog = LogOf(rows)
           /\ Log!IsRecorded(r) <=> \E row \in rows : row.event = r
           /\ \A row \in rows : /\ row.sequenceNumber \in DOMAIN RecordedLog
                                /\ RecordedLog[row.sequenceNumber] = row.event
<1>1. RecordedLog = LogOf(rows)
  BY DEF RecordedLog, LogOf
<1>2. Numbered(rows)
  BY DEF Inv, RowsOK
<1>3. \A row \in rows : /\ row.sequenceNumber \in DOMAIN RecordedLog
                        /\ RecordedLog[row.sequenceNumber] = row.event
  BY <1>1, <1>2, LogOfNumbered
<1>4. \A n \in DOMAIN RecordedLog : \E row \in rows :
         row.sequenceNumber = n /\ RecordedLog[n] = row.event
  BY <1>1, <1>2, LogOfNumbered
<1>5. Log!IsRecorded(r) <=> \E n \in DOMAIN RecordedLog : RecordedLog[n] = r
  BY DEF Log!IsRecorded
<1>6. QED
  BY <1>1, <1>3, <1>4, <1>5

\* A step of r that leaves the table alone changes at most what r was told.
LEMMA OnlyTold ==
    ASSUME Inv, NEW r \in Requests, NEW s \in Steps \ {"created"},
           pc[r] \in Open, pc' = [pc EXCEPT ![r] = s],
           \A q \in Requests \ {r} : frame'[q] = frame[q],
           rows' = rows
    PROVE  /\ RecordedLog' = RecordedLog
           /\ Told[r] = "nothing" /\ Told' = [Told EXCEPT ![r] = ToldOf(s)]
           /\ Place' = Place
<1>1. /\ pc \in [Requests -> Steps]
      /\ pc'[r] = s /\ \A q \in Requests \ {r} : pc'[q] = pc[q]
  BY DEF Inv, FramesOK
<1>2. RecordedLog' = RecordedLog
  BY DEF RecordedLog
<1>3. Told[r] = "nothing"
  BY DEF Told, ToldOf, Open, Before, InTransaction
<1>4. Told' = [Told EXCEPT ![r] = ToldOf(s)]
  <2>1. \A q \in Requests : Told'[q] = [Told EXCEPT ![r] = ToldOf(s)][q]
    BY <1>1 DEF Told
  <2>2. QED
    BY <2>1 DEF Told
<1>5. Place' = Place
  <2>1. \A q \in Requests : Place'[q] = Place[q]
    BY <1>1 DEF Place, Open, Before, InTransaction
  <2>2. QED
    BY <2>1 DEF Place
<1>6. QED
  BY <1>2, <1>3, <1>4, <1>5

\* Such a step is none of the log's, a refusal or a break.
LEMMA TellingIsALogStep ==
    ASSUME Inv, NEW r \in Requests, NEW s \in Steps \ {"created"},
           pc[r] \in Open, pc' = [pc EXCEPT ![r] = s],
           s \in {"dropped", "rejected", "vetoed"} => pc[r] # "committed",
           \A q \in Requests \ {r} : frame'[q] = frame[q],
           rows' = rows
    PROVE  [Log!Next]_(Log!logVars)
<1>1. /\ RecordedLog' = RecordedLog
      /\ Told[r] = "nothing" /\ Told' = [Told EXCEPT ![r] = ToldOf(s)]
      /\ Place' = Place
  BY OnlyTold
<1>2. CASE s \in {"dropped", "rejected", "vetoed"}
  <2>1. ~ \E row \in rows : row.event = r
    <3>1. \A row \in rows : row.event \in Requests =>
             pc[row.event] \in {"committed", "created", "failed"}
      BY DEF Inv, EventsOK
    <3>2. pc[r] \notin {"committed", "created", "failed"}
      BY <1>2 DEF Open, Before, InTransaction
    <3>3. QED
      BY <3>1, <3>2
  <2>2. ToldOf(s) = "refused"
    BY <1>2 DEF ToldOf
  <2>3. Log!Refuse(r)
    BY <1>1, <2>1, <2>2, RecordedIsInTheTable DEF Log!Refuse, Told, Place
  <2>4. QED
    BY <2>3 DEF Log!Next
<1>3. CASE s = "failed"
  <2>1. ToldOf(s) = "error"
    BY <1>3 DEF ToldOf
  <2>2. Log!Break(r)
    BY <1>1, <2>1 DEF Log!Break, Told, Place
  <2>3. QED
    BY <2>2 DEF Log!Next
<1>4. CASE s \notin {"dropped", "rejected", "vetoed", "failed"}
  <2>1. ToldOf(s) = "nothing"
    BY <1>4 DEF ToldOf
  <2>2. Told' = Told
    BY <1>1, <2>1 DEF Told
  <2>3. QED
    BY <1>1, <2>2 DEF Log!logVars, Told, Place
<1>5. QED
  BY <1>2, <1>3, <1>4

LEMMA InsertRecords ==
    ASSUME Inv, NEW r \in Requests, Insert(r)
    PROVE  Log!Record(r)
<1> DEFINE N   == Cardinality(rows)
           row == buildAuditChainEvent(r, SourceAppKey(r), AppReference(r), N + 1,
                                       PreviousHash(frame[r].last))
<1>1. pc[r] = "insert" /\ N \in Nat /\ frame[r].last.sequenceNumber = N
  BY FreeNumberIsNext DEF Insert
<1>2. rows' = rows \cup {row}
  BY <1>1 DEF Insert
<1>3. row.sequenceNumber = N + 1 /\ row.event = r
  BY DEF buildAuditChainEvent
<1> HIDE DEF row
<1>4. RecordedLog' = Append(RecordedLog, r)
  <2>1. LogOf(rows \cup {row}) = Append(LogOf(rows), r)
    BY <1>3, NextRowAppends DEF Inv, RowsOK
  <2>2. RecordedLog = LogOf(rows) /\ RecordedLog' = LogOf(rows')
    BY DEF RecordedLog, LogOf
  <2>3. LogOf(rows') = LogOf(rows \cup {row})
    BY <1>2
  <2>4. QED
    BY <2>1, <2>2, <2>3
<1>5. ~ \E x \in rows : x.event = r
  BY <1>1 DEF Inv, EventsOK
<1>6. /\ pc \in [Requests -> Steps]
      /\ \A q \in Requests \ {r} : pc'[q] = pc[q] /\ frame'[q] = frame[q]
      /\ pc'[r] = "committed"
  BY DEF Insert, Goto, Inv, FramesOK
<1>7. Told' = Told /\ Told[r] = "nothing"
  <2>1. ToldOf("insert") = "nothing" /\ ToldOf("committed") = "nothing"
    BY DEF ToldOf
  <2>2. QED
    BY <1>1, <1>6, <2>1 DEF Told
<1>8. Place' = Place
  BY <1>1, <1>6 DEF Place
<1>9. QED
  BY <1>4, <1>5, <1>7, <1>8, RecordedIsInTheTable DEF Log!Record, Told, Place

LEMMA AnswerAcknowledges ==
    ASSUME Inv, NEW r \in Requests, Answer(r)
    PROVE  Log!Acknowledge(r)
<1>1. /\ UNCHANGED <<rows, frame>> /\ pc[r] = "committed"
      /\ pc \in [Requests -> Steps]
      /\ \A q \in Requests \ {r} : pc'[q] = pc[q]
      /\ pc'[r] = "created"
  BY DEF Answer, End, Inv, FramesOK
<1>2. PICK row \in rows : row.event = r /\ row.sequenceNumber = frame[r].number
  BY <1>1 DEF Inv, EventsOK
<1>3. /\ frame[r].number \in DOMAIN RecordedLog
      /\ RecordedLog[frame[r].number] = r
  BY <1>2, RecordedIsInTheTable
<1>4. RecordedLog' = RecordedLog
  BY <1>1 DEF RecordedLog
<1>5. Told[r] = "nothing" /\ Told' = [Told EXCEPT ![r] = "recorded"]
  <2>1. ToldOf("committed") = "nothing" /\ ToldOf("created") = "recorded"
    BY DEF ToldOf
  <2>2. QED
    BY <1>1, <2>1 DEF Told
<1>6. Place' = [Place EXCEPT ![r] = frame[r].number]
  BY <1>1 DEF Place
<1>7. QED
  BY <1>3, <1>4, <1>5, <1>6 DEF Log!Acknowledge, Told, Place

LEMMA InitImplementsLogInit == Init => Log!Init
<1> SUFFICES ASSUME Init PROVE Log!Init
  OBVIOUS
<1>1. RecordedLog = LogOf(rows)
  BY DEF RecordedLog, LogOf
<1>2. RecordedLog \in {<<>>, Legacy}
  BY <1>1, LogOfNone, LogOfBackfilled DEF Init
<1>3. Told = [r \in Requests |-> "nothing"]
  BY DEF Init, Told, ToldOf
<1>4. Place = [r \in Requests |-> 0]
  BY DEF Init, Place
<1>5. QED
  BY <1>2, <1>3, <1>4 DEF Log!Init, Told, Place

LEMMA NextImplementsLogNext ==
    Inv /\ [Next]_vars => [Log!Next]_(Log!logVars)
<1> SUFFICES ASSUME Inv, [Next]_vars PROVE [Log!Next]_(Log!logVars)
  OBVIOUS
<1> USE DEF Open
<1>1. ASSUME NEW r \in Requests, Quiet(r)
      PROVE  [Log!Next]_(Log!logVars)
  <2>1. PICK s \in Before \cup {"rejected", "vetoed"} : pc' = [pc EXCEPT ![r] = s]
    BY <1>1 DEF Quiet
  <2>2. /\ pc[r] \in Open /\ pc[r] # "committed"
        /\ UNCHANGED <<rows, frame>>
    BY <1>1 DEF Quiet, Before
  <2>3. s \in Steps \ {"created"}
    BY DEF Before, Steps, Final
  <2>4. QED
    BY <2>1, <2>2, <2>3, TellingIsALogStep
<1>2. ASSUME NEW r \in Requests, RolledBack(r)
      PROVE  [Log!Next]_(Log!logVars)
  <2>1. PICK s \in {"begin", "dropped", "failed"}, n \in 1 .. MaxAttempts :
           /\ pc' = [pc EXCEPT ![r] = s]
           /\ frame' = [frame EXCEPT ![r] = [NoFrame EXCEPT !.attempt = n]]
    BY <1>2 DEF RolledBack
  <2>2. /\ pc[r] \in Open /\ pc[r] # "committed"
        /\ rows' = rows
    BY <1>2 DEF RolledBack, InTransaction
  <2>3. s \in Steps \ {"created"}
    BY DEF Steps, Final
  <2>4. \A q \in Requests \ {r} : frame'[q] = frame[q]
    BY <2>1 DEF Inv, FramesOK
  <2>5. QED
    BY <2>1, <2>2, <2>3, <2>4, TellingIsALogStep
<1>3. ASSUME NEW r \in Requests, Begin(r) \/ TakeLock(r) \/ ReadLast(r)
      PROVE  [Log!Next]_(Log!logVars)
  <2>1. PICK s \in InTransaction : pc' = [pc EXCEPT ![r] = s]
    BY <1>3 DEF Begin, TakeLock, ReadLast, Goto, InTransaction
  <2>2. pc[r] \in Open /\ rows' = rows
    BY <1>3 DEF Begin, TakeLock, ReadLast, Before, InTransaction
  <2>3. s \in Steps \ {"created"} /\ s \notin {"dropped", "rejected", "vetoed"}
    BY DEF Steps, Final, InTransaction
  <2>4. \A q \in Requests \ {r} : frame'[q] = frame[q]
    BY <1>3 DEF Begin, TakeLock, ReadLast, Inv, FramesOK
  <2>5. QED
    BY <2>1, <2>2, <2>3, <2>4, TellingIsALogStep
<1>4. ASSUME NEW r \in Requests, LoseAnswer(r)
      PROVE  [Log!Next]_(Log!logVars)
  <2>1. pc' = [pc EXCEPT ![r] = "failed"]
    BY <1>4 DEF LoseAnswer, End, AfterLoop
  <2>2. /\ pc[r] \in Open /\ rows' = rows
        /\ \A q \in Requests \ {r} : frame'[q] = frame[q]
    BY <1>4 DEF LoseAnswer, Inv, FramesOK
  <2>3. "failed" \in Steps \ {"created"}
    BY DEF Steps, Final
  <2>4. QED
    BY <2>1, <2>2, <2>3, TellingIsALogStep
<1>5. ASSUME NEW r \in Requests, Insert(r)
      PROVE  [Log!Next]_(Log!logVars)
  BY <1>5, InsertRecords DEF Log!Next
<1>6. ASSUME NEW r \in Requests, Answer(r)
      PROVE  [Log!Next]_(Log!logVars)
  BY <1>6, AnswerAcknowledges DEF Log!Next
<1>7. ASSUME UNCHANGED <<rows, pc, frame>>
      PROVE  [Log!Next]_(Log!logVars)
  BY <1>7 DEF Log!logVars, RecordedLog
<1>8. ASSUME NEW r \in Requests, Handle(r) \/ \E a \in Apps : Arrive(r, a)
      PROVE  [Log!Next]_(Log!logVars)
  <2>1. CASE \/ \E a \in Apps : Arrive(r, a)
             \/ VerifyAuditServiceRequest(r) \/ ValidateCanonicalReferences(r)
             \/ UpsertApp(r) \/ CountReferences(r) \/ DeleteApp(r)
    BY <1>1, <2>1, HandlersAreQuiet
  <2>2. CASE LoseRace(r) \/ LoseReference(r) \/ Abort(r)
    BY <1>2, <2>2, RollbacksRollBack
  <2>3. QED
    BY <1>3, <1>4, <1>5, <1>6, <1>8, <2>1, <2>2, Zenon DEF Handle
<1>9. QED
  BY <1>7, <1>8 DEF Next, ExportManifest, vars

\* The transactions of appendAuditLogUnchecked, with their lock, their numbers
\* read and then written, their retries and their failures, together are the
\* log of HubLog: one list that grows at its end, an event in it once at most,
\* a caller who is told "recorded" is right and one who is refused is, too.
THEOREM Refinement == Spec => ImplementsLog
<1>1. Init => Log!Init
  BY InitImplementsLogInit
<1>2. Inv /\ [Next]_vars => [Log!Next]_(Log!logVars)
  BY NextImplementsLogNext
<1>3. QED
  BY <1>1, <1>2, Invariance, PTL DEF Spec, ImplementsLog, Log!Spec

=============================================================================
