-------------------------- MODULE TierDBPins_proofs --------------------------
(***************************************************************************)
(* A pin that the worker can see stays until the boundary of its           *)
(* transaction, and until then, or until its TTL has passed, its scan can  *)
(* be read: for any transactions and tables, however the transactions      *)
(* overlap and whichever calls fail.                                       *)
(*                                                                         *)
(* The argument is about the gap between what is durable and what the      *)
(* session sees: a COMMIT takes away durable pins that the block has       *)
(* deleted.  Only ReleaseReadPin widens the gap, by a pin whose            *)
(* transaction is at its boundary.                                         *)
(***************************************************************************)
EXTENDS TierDBPins, TierDBAtomicity_proofs

AtBoundary(t) == phase[t] \in {"releasing", "ended"}

Gap(s) == s.base.pins \ s.work.pins

(* From s to r only pins of the gap, or of R, are lost or added to the gap.  *)
Calm(s, r, R) ==
  /\ Gap(r) \subseteq Gap(s) \cup R
  /\ s.base.pins \ r.base.pins \subseteq Gap(s) \cup R

GapIsReleased == \A pin \in Gap(pg) : AtBoundary(pin.txn)

-----------------------------------------------------------------------------
(* The commands of the session. *)

LEMMA CalmIsTransitive ==
  ASSUME NEW s, NEW r, NEW q, NEW R, Calm(s, r, R), Calm(r, q, R)
  PROVE  Calm(s, q, R)
BY DEF Calm

LEMMA CalmCommands ==
  ASSUME NEW s \in PgSessions(Database)
  PROVE  /\ Calm(s, s, {})
         /\ Calm(s, PgBegin(s), {})
         /\ Calm(s, PgError(s), {})
         /\ Calm(s, PgRollback(s), {})
         /\ Calm(s, PgLose(s), {})
         /\ Calm(s, PgCommit(s), {})
BY DEF Calm, Gap, PgSessions, PgBegin, PgError, PgRollback, PgLose, PgCommit

LEMMA CalmStatements ==
  ASSUME NEW s \in PgSessions(Database), NEW rows, NEW pin
  PROVE  /\ Calm(s, WithRows(s, rows), {})
         /\ Calm(s, WithPin(s, pin), {})
         /\ Calm(s, WithoutPin(s, pin), {pin})
<1>1. /\ [s.work EXCEPT !.rows = @ \cup rows].pins = s.work.pins
      /\ [s.work EXCEPT !.pins = @ \cup {pin}].pins = s.work.pins \cup {pin}
      /\ [s.work EXCEPT !.pins = @ \ {pin}].pins = s.work.pins \ {pin}
  BY DEF PgSessions, Database
<1>2. ASSUME NEW db
      PROVE  /\ PgExec(s, db).work = db
             /\ PgExec(s, db).base \in {s.base, db}
  BY DEF PgSessions, PgExec
<1>3. Calm(s, WithRows(s, rows), {})
  BY <1>1, <1>2 DEF Calm, Gap, WithRows
<1>4. Calm(s, WithPin(s, pin), {})
  BY <1>1, <1>2 DEF Calm, Gap, WithPin
<1>5. Calm(s, WithoutPin(s, pin), {pin})
  BY <1>1, <1>2 DEF Calm, Gap, WithoutPin
<1> QED
  BY <1>3, <1>4, <1>5

LEMMA CalmScans ==
  ASSUME NEW s \in PgSessions(Database), NEW pin \in Pin
  PROVE  /\ PinAndRender(s, pin) \in PgSessions(Database)
         /\ Calm(s, PinAndRender(s, pin), {})
         /\ Calm(s, Acquire(s, pin), {})
         /\ Calm(s, Abandon(s), {})
<1>1. /\ PgBegin(s) \in PgSessions(Database)
      /\ \A r \in PgSessions(Database) :
           PinAndRender(r, pin) \in PgSessions(Database) /\ Calm(r, PinAndRender(r, pin), {})
  BY SessionCommands, SessionStatements, CalmStatements, CalmCommands DEF PinAndRender
<1> DEFINE begun == PgBegin(s)
           pinned == PinAndRender(begun, pin)
<1>2. /\ Calm(s, begun, {}) /\ Calm(begun, pinned, {})
      /\ pinned \in PgSessions(Database)
  BY <1>1, CalmCommands
<1>3. Calm(pinned, PgCommit(pinned), {})
  BY <1>2, CalmCommands
<1> HIDE DEF begun, pinned
<1>4. Calm(s, PgCommit(pinned), {})
  BY <1>2, <1>3, CalmIsTransitive
<1>5. Calm(s, Acquire(s, pin), {})
  BY <1>1, <1>4 DEF Acquire, begun, pinned
<1>6. Calm(s, Abandon(s), {})
  BY CalmCommands DEF Abandon
<1> QED
  BY <1>1, <1>5, <1>6

-----------------------------------------------------------------------------
(* The steps of the transactions. *)

(* What a step releases, if anything, is a pin at its boundary.              *)
LEMMA SessionStep ==
  ASSUME TypeOK, [Next]_vars
  PROVE  \E R \in SUBSET Pin : /\ Calm(pg, pg', R)
                               /\ \A pin \in R : AtBoundary(pin.txn)
<1> SUFFICES ASSUME ~Calm(pg, pg', {})
             PROVE  \E pin \in Pin : AtBoundary(pin.txn) /\ Calm(pg, pg', {pin})
  <2>1. {} \in SUBSET Pin /\ \A pin \in {} : AtBoundary(pin.txn)
    OBVIOUS
  <2>2. ASSUME NEW pin \in Pin, AtBoundary(pin.txn), Calm(pg, pg', {pin})
        PROVE  \E R \in SUBSET Pin : Calm(pg, pg', R) /\ \A p \in R : AtBoundary(p.txn)
    <3>1. {pin} \in SUBSET Pin /\ \A p \in {pin} : AtBoundary(p.txn)
      BY <2>2
    <3> QED
      BY <2>2, <3>1
  <2> QED
    BY <2>1, <2>2
<1>0. pg \in PgSessions(Database)
  BY DEF TypeOK
<1>u. pg' # pg
  BY <1>0, CalmCommands
<1>1. PICK t \in Txns : Step(t)
  <2>1. ~ConnectionLost
    BY <1>0, CalmCommands DEF ConnectionLost
  <2> QED
    BY <1>u, <2>1 DEF Next, AllEnded, vars
<1>2. ASSUME NEW table \in Tables PROVE ~GetPinnedScan(t, table)
  BY <1>0, PinRowsArePins, CalmScans DEF GetPinnedScan
<1>3. ASSUME NEW table \in Tables PROVE ~GetPinnedScanFails(t, table)
  <2> DEFINE begun == IF inTxn THEN pg ELSE PgBegin(pg)
             pinned == PinAndRender(begun, PinRow(t, table))
  <2>1. begun \in PgSessions(Database) /\ Calm(pg, begun, {})
    BY <1>0, SessionCommands, CalmCommands
  <2>2. pinned \in PgSessions(Database) /\ Calm(begun, pinned, {})
    BY <2>1, PinRowsArePins, CalmScans
  <2> HIDE DEF begun, pinned
  <2>3. Calm(pg, pinned, {})
    BY <2>1, <2>2, CalmIsTransitive
  <2>4. PgError(begun) \in PgSessions(Database) /\ Calm(pg, PgError(begun), {})
    BY <2>1, SessionCommands, CalmCommands, CalmIsTransitive
  <2>5. Calm(PgError(begun), Abandon(PgError(begun)), {}) /\ Calm(pinned, Abandon(pinned), {})
    BY <2>2, <2>4, CalmCommands DEF Abandon
  <2>6. Calm(pg, Abandon(PgError(begun)), {}) /\ Calm(pg, Abandon(pinned), {})
    BY <2>3, <2>4, <2>5, CalmIsTransitive
  <2>7. PgCommit(pinned) \in PgSessions(Database) /\ Calm(pg, PgCommit(pinned), {})
    BY <2>2, <2>3, SessionCommands, CalmCommands, CalmIsTransitive
  <2>8. Calm(pg, PgLose(PgCommit(pinned)), {})
    BY <2>7, CalmCommands, CalmIsTransitive
  <2> QED
    BY <1>u, <2>6, <2>8 DEF GetPinnedScanFails, begun, pinned
<1>4. ~EnsureWriteTxn(t) /\ ~EnsureWriteTxnFails(t) /\ ~StartTransaction(t) /\ ~EndTransaction(t)
  BY <1>0, <1>u, CalmCommands
     DEF EnsureWriteTxn, TxnBegin, EnsureWriteTxnFails, StartTransaction, EndTransaction, conn
<1>5. ~Chunk(t)
  BY <1>0, CalmStatements DEF Chunk
<1>6. ~ChunkFails(t)
  <2>1. SUFFICES ASSUME ChunkFails(t) PROVE FALSE
    OBVIOUS
  <2>2. PICK done \in SUBSET ChunkRows(t, chunks[t] + 1) :
          pg' = WithRows(pg, done) \/ pg' = PgError(WithRows(pg, done))
    BY <1>u, <2>1 DEF ChunkFails
  <2>3. chunks[t] + 1 \in 1..MaxChunks
    BY <2>1, ConstantsOK DEF ChunkFails, TypeOK
  <2>4. WithRows(pg, done) \in PgSessions(Database) /\ Calm(pg, WithRows(pg, done), {})
    BY <1>0, <2>3, ChunkRowsAreRows, SessionStatements, CalmStatements
  <2>5. Calm(WithRows(pg, done), PgError(WithRows(pg, done)), {})
    BY <2>4, CalmCommands
  <2> QED
    BY <2>2, <2>4, <2>5, CalmIsTransitive
<1>7. ~CommitWrite(t)
  BY <1>0, <1>u, CalmCommands DEF CommitWrite, TxnCommit, conn
<1>8. ~CommitWriteFails(t)
  <2>1. PgCommit(pg) \in PgSessions(Database)
    BY <1>0, SessionCommands
  <2>2. Calm(PgCommit(pg), PgLose(PgCommit(pg)), {})
    BY <2>1, CalmCommands
  <2>3. Calm(pg, PgLose(PgCommit(pg)), {})
    BY <1>0, <2>2, CalmCommands, CalmIsTransitive
  <2> QED
    BY <1>0, <1>u, <2>3, CalmCommands DEF CommitWriteFails
<1>9. ~RollbackWrite(t)
  BY <1>0, <1>u, CalmCommands DEF RollbackWrite, TxnRollback, conn
<1>10. ~ReleasePinsFails(t)
  BY <1>0, CalmCommands DEF ReleasePinsFails
<1>11. PICK table \in Tables : ReleaseReadPin(t, table)
  BY <1>1, <1>2, <1>3, <1>4, <1>5, <1>6, <1>7, <1>8, <1>9, <1>10 DEF Step, FinishBoundary
<1>12. /\ PinRow(t, table) \in Pin
       /\ PinRow(t, table).txn = t
       /\ phase[t] = "releasing"
       /\ Calm(pg, pg', {PinRow(t, table)})
  BY <1>0, <1>11, PinRowsArePins, CalmStatements DEF ReleaseReadPin, PinRow
<1> QED
  BY <1>12 DEF AtBoundary

(* A transaction does not come back from its boundary, becomes active only   *)
(* once, and records pins only when it scans.                                *)
LEMMA PhaseStep ==
  ASSUME TypeOK, [Next]_vars, NEW u \in Txns
  PROVE  /\ AtBoundary(u) => AtBoundary(u)'
         /\ phase'[u] = "active" => phase[u] \in {"new", "active"}
         /\ phase'[u] = "new" => phase[u] = "new"
<1>1. CASE UNCHANGED phase
  BY <1>1 DEF AtBoundary
<1>2. ASSUME NEW t \in Txns, Step(t), phase' # phase
      PROVE  /\ AtBoundary(u) => AtBoundary(u)'
             /\ phase'[u] = "active" => phase[u] \in {"new", "active"}
             /\ phase'[u] = "new" => phase[u] = "new"
  <2>1. \/ phase[t] = "new" /\ phase' = [phase EXCEPT ![t] = "active"]
        \/ phase[t] = "active" /\ phase' = [phase EXCEPT ![t] = "failed"]
        \/ phase' = [phase EXCEPT ![t] = "releasing"]
        \/ phase' = [phase EXCEPT ![t] = "ended"]
    BY <1>2 DEF Step, FinishBoundary, StartTransaction, GetPinnedScan, GetPinnedScanFails,
       EnsureWriteTxn, EnsureWriteTxnFails, Chunk, ChunkFails, CommitWrite, CommitWriteFails,
       RollbackWrite, ReleaseReadPin, ReleasePinsFails, EndTransaction, Invalidate, LeaveWrite
  <2> QED
    BY <2>1 DEF AtBoundary, TypeOK
<1> QED
  BY <1>1, <1>2 DEF Next, ConnectionLost, AllEnded, vars

LEMMA GapStep == TypeOK /\ GapIsReleased /\ [Next]_vars => GapIsReleased'
<1> SUFFICES ASSUME TypeOK, GapIsReleased, [Next]_vars, NEW pin \in Gap(pg')
             PROVE  AtBoundary(pin.txn)'
  BY DEF GapIsReleased, Gap
<1>1. PICK R \in SUBSET Pin : Calm(pg, pg', R) /\ \A p \in R : AtBoundary(p.txn)
  BY SessionStep
<1>2. AtBoundary(pin.txn)
  BY <1>1 DEF Calm, GapIsReleased
<1>3. TypeOK'
  BY TypeStep
<1>4. pin \in Pin
  BY <1>3 DEF TypeOK, PgSessions, Database, Gap
<1>5. pin.txn \in Txns
  BY <1>4 DEF Pin
<1> QED
  BY <1>2, <1>5, PhaseStep

(* No durable pin goes before the boundary of its transaction.               *)
LEMMA PinsStayStep ==
  ASSUME TypeOK, GapIsReleased, [Next]_vars, NEW pin \in pg.base.pins \ pg'.base.pins
  PROVE  AtBoundary(pin.txn)
<1>1. PICK R \in SUBSET Pin : Calm(pg, pg', R) /\ \A p \in R : AtBoundary(p.txn)
  BY SessionStep
<1> QED
  BY <1>1 DEF Calm, GapIsReleased

(* Once the worker can see a pin it sees it until the boundary of the        *)
(* transaction that acquired it, whatever the other transactions of the      *)
(* session do and whichever calls fail.                                      *)
THEOREM VisiblePinsStay == Spec => VisiblePinStays
<1>1. Init => GapIsReleased
  BY DEF Init, GapIsReleased, Gap
<1>2. TypeOK /\ GapIsReleased /\ [Next]_vars =>
        [\A pin \in pg.base.pins \ pg'.base.pins : phase[pin.txn] \in {"releasing", "ended"}]_vars
  BY PinsStayStep DEF AtBoundary
<1> QED
  BY <1>1, <1>2, GapStep, TypeCorrect, PTL DEF Spec, VisiblePinStays

-----------------------------------------------------------------------------
(* The worker beside the transactions. *)

PinnedBefore(t) == phase[t] = "new" => pins[t] = {}

(* What a scan relies on: the pin that the worker sees, and its generation.  *)
Excepted == expired \cup hidden \cup late

Relied(t, table) ==
  phase[t] = "active" /\ PinRow(t, table) \notin Excepted =>
    /\ PinRow(t, table) \in pg.base.pins
    /\ Readable(t, table)

PinsInv ==
  /\ PinsTypeOK
  /\ GapIsReleased
  /\ \A t \in Txns : PinnedBefore(t)
  /\ \A t \in Txns : \A table \in pins[t] : Relied(t, table)

LEMMA PinsInitInv == PinsInit => PinsInv
<1> SUFFICES ASSUME PinsInit PROVE PinsInv
  OBVIOUS
<1>1. TypeOK
  BY TypeInit DEF PinsInit
<1>2. 0 \in Generation
  BY MaxGenerationOK DEF Generation
<1>3. PinsTypeOK
  <2>1. \A pin \in Pin : pin.table \in Tables
    BY DEF Pin
  <2> QED
    BY <1>1, <1>2, <2>1 DEF PinsInit, PinsTypeOK
<1>4. \A t \in Txns : pins[t] = {}
  BY DEF PinsInit, Init
<1>5. GapIsReleased
  BY DEF PinsInit, Init, GapIsReleased, Gap
<1> QED
  BY <1>3, <1>4, <1>5 DEF PinsInv, PinnedBefore

(* Every step that is not the clock's or the worker's is one of              *)
(* TierDBTransaction.                                                        *)
LEMMA PinsStepsAreSteps ==
  ASSUME NEW t \in Txns
  PROVE  /\ OtherStep(t) => [Next]_vars
         /\ LoseConnection => [Next]_vars
<1>1. OtherStep(t) => Step(t)
  BY DEF OtherStep, Step
<1> QED
  BY <1>1 DEF Next, LoseConnection

(* The scan that is acquired is one of a transaction and a table.            *)
LEMMA ScansAreSteps ==
  ASSUME PinsTypeOK, NEW scan \in acquiring
  PROVE  /\ scan.pin \in Pin /\ scan.at \in Generation
         /\ scan.pin.txn \in Txns /\ scan.pin.table \in Tables
         /\ scan.pin = PinRow(scan.pin.txn, scan.pin.table)
         /\ AcquireScan(scan) => [Next]_vars
<1>1. scan.pin \in Pin /\ scan.at \in Generation
  BY DEF PinsTypeOK, Acquisition
<1>2. /\ scan.pin.txn \in Txns /\ scan.pin.table \in Tables
      /\ scan.pin = PinRow(scan.pin.txn, scan.pin.table)
  BY <1>1 DEF Pin, PinRow
<1>3. AcquireScan(scan) => Step(scan.pin.txn)
  BY <1>2 DEF AcquireScan, Step
<1> QED
  BY <1>1, <1>2, <1>3 DEF Next

(* Those steps leave the session and the transactions their invariant.       *)
LEMMA TransactionsStep ==
  ASSUME PinsInv, [Next]_vars
  PROVE  TypeOK' /\ GapIsReleased'
BY TypeStep, GapStep DEF PinsInv, PinsTypeOK

(* A transaction that goes on has its pins where the worker sees them.       *)
LEMMA ReliedStays ==
  ASSUME PinsInv, [Next]_vars, NEW t \in Txns, NEW table \in pins[t],
         Excepted \subseteq Excepted',
         pinnedAt'[PinRow(t, table)] = pinnedAt[PinRow(t, table)],
         UNCHANGED floor
  PROVE  Relied(t, table)'
<1> SUFFICES ASSUME phase'[t] = "active", PinRow(t, table) \notin Excepted'
             PROVE  PinRow(t, table) \in pg'.base.pins /\ Readable(t, table)'
  BY DEF Relied, PinRow
<1>1. phase[t] = "active"
  BY PhaseStep DEF PinsInv, PinsTypeOK, PinnedBefore
<1>2. PinRow(t, table) \in pg.base.pins /\ Readable(t, table)
  BY <1>1 DEF PinsInv, Relied
<1>3. PinRow(t, table) \in pg'.base.pins
  <2>1. ~AtBoundary(PinRow(t, table).txn)
    BY <1>1 DEF PinRow, AtBoundary
  <2> QED
    BY <1>2, <2>1, PinsStayStep DEF PinsInv, PinsTypeOK
<1> QED
  BY <1>2, <1>3 DEF Readable, PinRow

(* Other steps of the transactions record no pin.                            *)
LEMMA OtherPins ==
  ASSUME PinsInv, NEW t \in Txns, OtherStep(t) \/ LoseConnection, NEW u \in Txns
  PROVE  pins'[u] \subseteq pins[u]
<1>1. TypeOK
  BY DEF PinsInv, PinsTypeOK
<1>2. CASE StartTransaction(t) \/ EnsureWriteTxn(t) \/ EnsureWriteTxnFails(t) \/ Chunk(t)
           \/ ChunkFails(t) \/ CommitWrite(t) \/ CommitWriteFails(t) \/ RollbackWrite(t)
  BY <1>1, <1>2 DEF TypeOK, StartTransaction, EnsureWriteTxn, EnsureWriteTxnFails, Chunk,
     ChunkFails, CommitWrite, CommitWriteFails, RollbackWrite, Invalidate, LeaveWrite, reads
<1>3. CASE FinishBoundary(t)
  BY <1>1, <1>3 DEF TypeOK, FinishBoundary, ReleaseReadPin, ReleasePinsFails, EndTransaction,
     Invalidate, LeftToRelease, reads
<1>4. CASE LoseConnection
  BY <1>1, <1>4 DEF TypeOK, LoseConnection, ConnectionLost, Invalidate, reads
<1> QED
  BY <1>2, <1>3, <1>4 DEF OtherStep

LEMMA PinsStep == PinsInv /\ [PinsNext]_allVars => PinsInv'
<1> SUFFICES ASSUME PinsInv, [PinsNext]_allVars PROVE PinsInv'
  OBVIOUS
<1>t. PinsTypeOK /\ TypeOK
  BY DEF PinsInv, PinsTypeOK
<1>g. \A table \in Tables : floor[table] \in Nat /\ published[table] \in Nat
                            /\ floor[table] <= published[table]
  BY <1>t, MaxGenerationOK DEF PinsTypeOK, Generation
<1>p. \A pin \in Pin : pinnedAt[pin] \in Nat /\ pinnedAt[pin] <= published[pin.table]
  BY <1>t, MaxGenerationOK DEF PinsTypeOK, Generation
<1>r. \A t \in Txns : \A table \in pins[t] :
        /\ table \in Tables
        /\ PinRow(t, table) \in Pin
        /\ PinRow(t, table).table = table
  BY <1>t, PinRowsArePins DEF TypeOK, PinRow
(* The steps of the transactions, a scan's apart. *)
<1>o. ASSUME NEW t \in Txns, OtherStep(t) \/ LoseConnection PROVE PinsInv'
  <2>1. [Next]_vars /\ UNCHANGED <<lakeVars, pinVars>>
    BY <1>o, PinsStepsAreSteps DEF OtherStep, LoseConnection
  <2>2. TypeOK' /\ GapIsReleased'
    BY <2>1, TransactionsStep
  <2>3. PinsTypeOK'
    BY <1>t, <2>1, <2>2 DEF PinsTypeOK, lakeVars, pinVars
  <2>4. ASSUME NEW u \in Txns PROVE PinnedBefore(u)'
    BY <1>o, <1>t, <2>1, OtherPins, PhaseStep DEF PinsInv, PinnedBefore
  <2>5. ASSUME NEW u \in Txns, NEW table \in pins'[u] PROVE Relied(u, table)'
    <3>1. Excepted' = Excepted /\ UNCHANGED <<floor, pinnedAt>>
      BY <2>1 DEF Excepted, lakeVars, pinVars
    <3>2. pinnedAt'[PinRow(u, table)] = pinnedAt[PinRow(u, table)]
      BY <3>1
    <3> QED
      BY <1>o, <2>1, <2>5, <3>1, <3>2, OtherPins, ReliedStays
  <2> QED
    BY <2>2, <2>3, <2>4, <2>5 DEF PinsInv
<1>a. ASSUME NEW scan \in acquiring, AcquireScan(scan) PROVE PinsInv'
  <2> DEFINE pin == scan.pin
             t == pin.txn
             table == pin.table
  <2>1. [Next]_vars
    BY <1>a, <1>t, ScansAreSteps
  <2>2. TypeOK' /\ GapIsReleased'
    BY <2>1, TransactionsStep
  <2>3. /\ pin \in Pin /\ t \in Txns /\ table \in Tables /\ pin = PinRow(t, table)
        /\ scan.at \in Generation /\ scan.at \in Nat
    BY <1>t, ScansAreSteps, MaxGenerationOK DEF Generation
  <2>4. /\ acquiring' = {}
        /\ pinnedAt' = [pinnedAt EXCEPT ![pin] = scan.at]
        /\ hidden' = hidden \cup ({pin} \ pg'.base.pins)
        /\ late' = IF scan.at < floor[table] THEN late \cup {pin} ELSE late
        /\ UNCHANGED <<published, floor, expired>>
    BY <1>a DEF AcquireScan, lakeVars
  <2>5. PinsTypeOK'
    <3>1. scan.at <= published[table]
      BY <1>t DEF PinsTypeOK
    <3>2. late' \subseteq Pin
      BY <1>t, <2>3, <2>4 DEF PinsTypeOK
    <3>3. \A other \in Pin : pinnedAt'[other] <= published'[other.table]
      BY <1>t, <2>3, <2>4, <3>1 DEF PinsTypeOK
    <3> QED
      BY <1>t, <2>2, <2>3, <2>4, <3>2, <3>3 DEF PinsTypeOK
  <2>6. \A u \in Txns : pins'[u] \subseteq pins[u] \cup (IF u = t THEN {table} ELSE {})
    BY <1>a, <1>t, <2>3 DEF AcquireScan, GetPinnedScan, GetPinnedScanFails, PinOf, Invalidate,
       reads, TypeOK
  <2>7. phase[t] = "active"
    BY <1>a DEF AcquireScan, GetPinnedScan, GetPinnedScanFails
  <2>8. ASSUME NEW u \in Txns PROVE PinnedBefore(u)'
    BY <1>t, <2>1, <2>6, <2>7, PhaseStep DEF PinsInv, PinnedBefore
  <2>9. ASSUME NEW u \in Txns, NEW other \in pins'[u] PROVE Relied(u, other)'
    <3>1. CASE PinRow(u, other) = pin
      <4>1. u = t /\ other = table
        BY <2>3, <3>1 DEF PinRow
      <4>2. pin \notin late' => scan.at >= floor[table]
        BY <1>g, <2>3, <2>4
      <4>3. pinnedAt'[pin] = scan.at /\ floor'[table] = floor[table]
        BY <1>t, <2>3, <2>4 DEF PinsTypeOK
      <4>4. pin \notin late' => Readable(u, other)'
        BY <3>1, <4>1, <4>2, <4>3 DEF Readable, PinRow
      <4>5. pin \notin hidden' => pin \in pg'.base.pins
        BY <2>4
      <4> QED
        BY <3>1, <4>4, <4>5 DEF Relied, PinRow, Excepted
    <3>2. CASE PinRow(u, other) # pin
      <4>1. other \in pins[u]
        BY <2>3, <2>6, <2>9, <3>2
      <4>2. pinnedAt'[PinRow(u, other)] = pinnedAt[PinRow(u, other)]
        BY <1>t, <1>r, <2>4, <3>2, <4>1 DEF PinsTypeOK
      <4>3. Excepted \subseteq Excepted'
        BY <2>4 DEF Excepted
      <4> QED
        BY <2>1, <2>4, <4>1, <4>2, <4>3, ReliedStays
    <3> QED
      BY <3>1, <3>2
  <2> QED
    BY <2>2, <2>5, <2>8, <2>9 DEF PinsInv
(* The clock and the worker, who leave the transactions alone, and a read. *)
<1>w. ASSUME UNCHANGED vars, PinsTypeOK',
             \A t \in Txns : \A table \in pins[t] : Relied(t, table)'
      PROVE  PinsInv'
  <2>1. UNCHANGED <<pg, phase, pins>>
    BY <1>w DEF vars
  <2> QED
    BY <1>w, <2>1 DEF PinsInv, GapIsReleased, Gap, AtBoundary, PinnedBefore
<1>d. ASSUME NEW t \in Txns, NEW table \in Tables, ReadCutline(t, table) PROVE PinsInv'
  <2> DEFINE scan == [pin |-> PinRow(t, table), at |-> published[table]]
  <2>1. acquiring' = {scan} /\ UNCHANGED <<vars, lakeVars, pinnedAt, hidden, late, expired>>
    BY <1>d DEF ReadCutline, Cutline
  <2>2. scan \in Acquisition /\ scan.pin.table = table
    BY <1>t, PinRowsArePins DEF PinsTypeOK, Acquisition, PinRow
  <2>3. \A s \in acquiring' : s.at <= published[s.pin.table]
    BY <1>g, <2>1, <2>2
  <2>4. acquiring' \subseteq Acquisition /\ \A s, other \in acquiring' : s = other
    BY <2>1, <2>2
  <2> HIDE DEF scan
  <2>5. PinsTypeOK'
    BY <1>t, <2>1, <2>3, <2>4 DEF PinsTypeOK, TypeOK, vars, lakeVars
  <2>6. ASSUME NEW u \in Txns, NEW other \in pins[u] PROVE Relied(u, other)'
    BY <2>1, <2>6 DEF PinsInv, Relied, Readable, PinRow, Excepted, vars, lakeVars
  <2> QED
    BY <1>w, <2>1, <2>5, <2>6
<1>e. ASSUME NEW pin \in Pin, Expire(pin) PROVE PinsInv'
  <2>1. PinsTypeOK'
    BY <1>t, <1>e DEF Expire, PinsTypeOK, TypeOK, vars, lakeVars
  <2>2. ASSUME NEW t \in Txns, NEW table \in pins[t] PROVE Relied(t, table)'
    BY <1>e, <2>2 DEF Expire, PinsInv, Relied, Readable, PinRow, Excepted, vars, lakeVars
  <2> QED
    BY <1>e, <1>w, <2>1, <2>2 DEF Expire
<1>v. ASSUME NEW table \in Tables, Advance(table) PROVE PinsInv'
  <2>1. published[table] + 1 \in Generation
    BY <1>g, <1>v, MaxGenerationOK DEF Advance, Generation
  <2>2. /\ published' \in [Tables -> Generation]
        /\ \A other \in Tables : published[other] <= published'[other]
    BY <1>t, <1>g, <1>v, <2>1 DEF Advance, PinsTypeOK
  <2>3. \A other \in Tables : published'[other] \in Nat
    BY <2>2, MaxGenerationOK DEF Generation
  <2>4. \A other \in Tables : floor[other] <= published'[other]
    BY <1>g, <2>2, <2>3
  <2>5. \A pin \in Pin : pinnedAt[pin] <= published'[pin.table]
    <3>1. \A pin \in Pin : pin.table \in Tables
      BY DEF Pin
    <3> QED
      BY <1>g, <1>p, <2>2, <2>3, <3>1
  <2>s. \A scan \in acquiring : scan.at <= published'[scan.pin.table]
    <3> SUFFICES ASSUME NEW scan \in acquiring PROVE scan.at <= published'[scan.pin.table]
      OBVIOUS
    <3>1. scan.pin.table \in Tables /\ scan.at \in Nat
      BY <1>t, ScansAreSteps, MaxGenerationOK DEF Generation
    <3>2. scan.at <= published[scan.pin.table]
      BY <1>t DEF PinsTypeOK
    <3> QED
      BY <1>g, <2>2, <2>3, <3>1, <3>2
  <2>6. PinsTypeOK'
    BY <1>t, <1>v, <2>2, <2>4, <2>5, <2>s DEF Advance, PinsTypeOK, TypeOK, vars, pinVars
  <2>7. ASSUME NEW t \in Txns, NEW other \in pins[t] PROVE Relied(t, other)'
    BY <1>v, <2>7 DEF Advance, PinsInv, Relied, Readable, PinRow, Excepted, vars, pinVars
  <2> QED
    BY <1>v, <1>w, <2>6, <2>7 DEF Advance, pinVars
<1>c. ASSUME NEW table \in Tables, Reclaim(table) PROVE PinsInv'
  <2>1. floor[table] < published[table] /\ floor' = [floor EXCEPT ![table] = @ + 1]
    BY <1>c DEF Reclaim
  <2>2. floor[table] + 1 \in Generation /\ floor[table] + 1 <= published[table]
    <3>1. published[table] \in Generation
      BY <1>t DEF PinsTypeOK
    <3> QED
      BY <1>g, <2>1, <3>1, MaxGenerationOK DEF Generation
  <2>3. floor' \in [Tables -> Generation] /\ \A other \in Tables : floor'[other] <= published[other]
    BY <1>t, <1>g, <2>1, <2>2 DEF PinsTypeOK
  <2>4. PinsTypeOK'
    BY <1>t, <1>c, <2>3 DEF Reclaim, PinsTypeOK, TypeOK, vars, pinVars
  <2>5. ASSUME NEW t \in Txns, NEW other \in pins[t] PROVE Relied(t, other)'
    <3> DEFINE pin == PinRow(t, other)
    <3>1. SUFFICES ASSUME phase[t] = "active", pin \notin Excepted
                   PROVE  pin \in pg.base.pins /\ pinnedAt[pin] >= floor'[other]
      BY <1>c DEF Reclaim, Relied, Readable, PinRow, Excepted, vars, pinVars
    <3>2. pin \in pg.base.pins /\ pinnedAt[pin] >= floor[other]
      BY <2>5, <3>1 DEF PinsInv, Relied, Readable
    <3>3. other \in Tables /\ pin \in Pin /\ pin.table = other
      BY <1>r, <2>5
    <3>4. CASE other = table
      <4>1. pinnedAt[pin] > floor[table]
        BY <1>c, <3>1, <3>2, <3>3, <3>4 DEF Reclaim, Excepted
      <4>2. floor'[other] = floor[table] + 1
        BY <1>t, <2>1, <3>4 DEF PinsTypeOK
      <4>3. pinnedAt[pin] \in Nat /\ floor[table] \in Nat
        BY <1>p, <1>g, <3>3
      <4> HIDE DEF pin
      <4> QED
        BY <3>2, <4>1, <4>2, <4>3
    <3>5. CASE other # table
      BY <1>t, <2>1, <3>2, <3>3, <3>5 DEF PinsTypeOK
    <3> QED
      BY <3>4, <3>5
  <2> QED
    BY <1>c, <1>w, <2>4, <2>5 DEF Reclaim, pinVars
<1>u. CASE UNCHANGED allVars
  <2>1. PinsTypeOK'
    BY <1>t, <1>u DEF allVars, PinsTypeOK, TypeOK, vars, lakeVars, pinVars
  <2>2. ASSUME NEW t \in Txns, NEW table \in pins[t] PROVE Relied(t, table)'
    BY <1>u, <2>2 DEF allVars, PinsInv, Relied, Readable, PinRow, Excepted, vars, lakeVars,
       pinVars
  <2> QED
    BY <1>u, <1>w, <2>1, <2>2 DEF allVars, pinVars
<1>l. ASSUME LoseConnection PROVE PinsInv'
  <2>1. CASE Txns = {}
    <3>1. TypeOK' /\ GapIsReleased'
      BY <1>l, TransactionsStep DEF LoseConnection, Next
    <3> QED
      BY <1>t, <1>l, <2>1, <3>1 DEF PinsInv, LoseConnection, PinsTypeOK, lakeVars, pinVars
  <2>2. CASE Txns # {}
    BY <1>l, <1>o, <2>2
  <2> QED
    BY <2>1, <2>2
<1> QED
  BY <1>o, <1>a, <1>d, <1>e, <1>v, <1>c, <1>u, <1>l DEF PinsNext, AllEnded, allVars

(* A scan whose pin was durable, and whose generation was not yet reclaimed, *)
(* when it was handed out can be read until its transaction comes to its     *)
(* boundary or the TTL of the pin has passed.                                *)
THEOREM PinnedScansAreReadable == PinsSpec => []GuardedIsReadable
<1>1. PinsInv => GuardedIsReadable
  BY DEF PinsInv, Relied, Excepted, GuardedIsReadable, ReadableUnless
<1> QED
  BY <1>1, PinsInitInv, PinsStep, PTL DEF PinsSpec

(* A pin is never of a generation that was not published, nor is one         *)
(* reclaimed that comes after the cut-line.                                  *)
THEOREM PinsTypesHold == PinsSpec => []PinsTypeOK
<1>1. PinsInv => PinsTypeOK
  BY DEF PinsInv
<1> QED
  BY <1>1, PinsInitInv, PinsStep, PTL DEF PinsSpec

(* Beside the worker and the clock, the session and the transactions do      *)
(* nothing that they do not do alone: what is proved of every behaviour of   *)
(* TierDBTransaction's steps holds there too.  Fairness is left out.         *)
THEOREM PinsRefineTransactions == PinsSpec => Init /\ [][Next]_vars
<1>1. PinsInit => Init
  BY DEF PinsInit
<1>2. PinsTypeOK /\ [PinsNext]_allVars => [Next]_vars
  <2> SUFFICES ASSUME PinsTypeOK, [PinsNext]_allVars PROVE [Next]_vars
    OBVIOUS
  <2>1. ASSUME NEW t \in Txns, OtherStep(t) PROVE [Next]_vars
    BY <2>1, PinsStepsAreSteps
  <2>4. ASSUME NEW scan \in acquiring, AcquireScan(scan) PROVE [Next]_vars
    BY <2>4, ScansAreSteps
  <2>2. CASE LoseConnection \/ AllEnded
    BY <2>2 DEF LoseConnection, Next
  <2>3. CASE \/ \E t \in Txns : \E table \in Tables : ReadCutline(t, table)
             \/ \E pin \in Pin : Expire(pin)
             \/ \E table \in Tables : Advance(table) \/ Reclaim(table)
             \/ UNCHANGED allVars
    BY <2>3 DEF ReadCutline, Expire, Advance, Reclaim, allVars
  <2> QED
    BY <2>1, <2>2, <2>3, <2>4 DEF PinsNext
<1> QED
  BY <1>1, <1>2, PinsTypesHold, PTL DEF PinsSpec

-----------------------------------------------------------------------------
(* Transactions one after the other.                                        *)

(* What each call does to the pins that are durable and that the session     *)
(* sees.                                                                     *)
LEMMA CommandPins ==
  ASSUME NEW s \in PgSessions(Database)
  PROVE  /\ PgBegin(s).base = s.base /\ PgBegin(s).work = s.work
         /\ PgBegin(s).status = IF s.status = "idle" THEN "open" ELSE s.status
         /\ PgError(s).base = s.base /\ PgError(s).work = s.work
         /\ PgError(s).status = IF s.status = "open" THEN "aborted" ELSE s.status
         /\ PgRollback(s).base = s.base /\ PgRollback(s).work = s.base
         /\ PgRollback(s).status = "idle"
         /\ PgLose(s).status = "lost"
         /\ s.status = "open" => PgCommit(s).base = s.work /\ PgCommit(s).work = s.work
         /\ s.status # "open" => PgCommit(s).base = s.base /\ PgCommit(s).work = s.base
         /\ PgCommit(s).status = "idle"
BY DEF PgSessions, PgBegin, PgError, PgRollback, PgLose, PgCommit

LEMMA StatementPins ==
  ASSUME NEW s \in PgSessions(Database), NEW rows, NEW pin
  PROVE  /\ WithRows(s, rows).status = s.status
         /\ WithRows(s, rows).work.pins = s.work.pins
         /\ WithRows(s, rows).base.pins = IF s.status = "open" THEN s.base.pins ELSE s.work.pins
         /\ WithPin(s, pin).status = s.status
         /\ WithPin(s, pin).work.pins = s.work.pins \cup {pin}
         /\ s.status = "open" => WithPin(s, pin).base = s.base
         /\ WithoutPin(s, pin).status = s.status
         /\ WithoutPin(s, pin).work.pins = s.work.pins \ {pin}
         /\ s.status # "open" => WithoutPin(s, pin).base = WithoutPin(s, pin).work
<1>1. /\ [s.work EXCEPT !.rows = @ \cup rows].pins = s.work.pins
      /\ [s.work EXCEPT !.pins = @ \cup {pin}].pins = s.work.pins \cup {pin}
      /\ [s.work EXCEPT !.pins = @ \ {pin}].pins = s.work.pins \ {pin}
  BY DEF PgSessions, Database
<1>2. ASSUME NEW db
      PROVE  /\ PgExec(s, db).work = db /\ PgExec(s, db).status = s.status
             /\ PgExec(s, db).base = IF s.status = "open" THEN s.base ELSE db
  BY DEF PgSessions, PgExec
<1> QED
  BY <1>1, <1>2 DEF WithRows, WithPin, WithoutPin

(* The pins that a scan adds. *)
Added(pin) == IF pin.table \in HotOnly THEN {} ELSE {pin}

LEMMA RenderPins ==
  ASSUME NEW s \in PgSessions(Database), NEW pin \in Pin, s.status = "open"
  PROVE  /\ PinAndRender(s, pin) \in PgSessions(Database)
         /\ PinAndRender(s, pin).status = "open"
         /\ PinAndRender(s, pin).base = s.base
         /\ PinAndRender(s, pin).work.pins = s.work.pins \cup Added(pin)
BY SessionStatements, StatementPins DEF PinAndRender, Added

OneIsOpen == \A t, u \in Txns : Open(t) /\ Open(u) => t = u

LEMMA PhasesOf ==
  ASSUME TypeOK, NEW t \in Txns, Step(t), NEW u \in Txns \ {t}
  PROVE  phase'[u] = phase[u] /\ pins'[u] = pins[u]
<1>1. phase \in [Txns -> {"new", "active", "failed", "releasing", "ended"}] /\ DOMAIN pins = Txns
  BY DEF TypeOK
<1>2. UNCHANGED phase \/ \E p : phase' = [phase EXCEPT ![t] = p]
  BY DEF Step, FinishBoundary, StartTransaction, GetPinnedScan, GetPinnedScanFails,
     EnsureWriteTxn, EnsureWriteTxnFails, Chunk, ChunkFails, CommitWrite, CommitWriteFails,
     RollbackWrite, ReleaseReadPin, ReleasePinsFails, EndTransaction, Invalidate, LeaveWrite
<1>3. UNCHANGED pins \/ \E p : pins' = [pins EXCEPT ![t] = p]
  BY DEF Step, FinishBoundary, StartTransaction, GetPinnedScan, GetPinnedScanFails,
     EnsureWriteTxn, EnsureWriteTxnFails, Chunk, ChunkFails, CommitWrite, CommitWriteFails,
     RollbackWrite, ReleaseReadPin, ReleasePinsFails, EndTransaction, Invalidate, LeaveWrite, reads
<1> QED
  BY <1>1, <1>2, <1>3 DEF TypeOK

LEMMA WhoSteps ==
  ASSUME TypeOK, NEW t \in Txns, Step(t)
  PROVE  StartTransaction(t) \/ Open(t)
BY DEF Step, FinishBoundary, GetPinnedScan, GetPinnedScanFails, EnsureWriteTxn,
   EnsureWriteTxnFails, Chunk, ChunkFails, CommitWrite, CommitWriteFails, RollbackWrite,
   ReleaseReadPin, ReleasePinsFails, EndTransaction, Open

(* While a transaction is open, every step is its own.                       *)
LEMMA StepsAreOwn ==
  ASSUME Discipline = "serial", TypeOK, OneIsOpen, NEW t \in Txns, Step(t)
  PROVE  \A u \in Txns \ {t} : ~Open(u)
<1>1. CASE StartTransaction(t)
  BY <1>1 DEF StartTransaction, MayStart
<1>2. CASE Open(t)
  BY <1>2 DEF OneIsOpen
<1> QED
  BY <1>1, <1>2, WhoSteps

LEMMA OneIsOpenStep ==
  ASSUME Discipline = "serial", TypeOK, OneIsOpen, [Next]_vars
  PROVE  OneIsOpen'
<1>1. ASSUME NEW t \in Txns, Step(t) PROVE OneIsOpen'
  <2>1. \A u \in Txns \ {t} : ~Open(u)'
    BY <1>1, StepsAreOwn, PhasesOf DEF Open
  <2> QED
    BY <2>1 DEF OneIsOpen
<1>2. CASE UNCHANGED phase
  BY <1>2 DEF OneIsOpen, Open
<1> QED
  BY <1>1, <1>2 DEF Next, ConnectionLost, AllEnded, vars


(* What the two invariants below need of a transaction that scans.           *)
LEMMA ScanPins ==
  ASSUME TypeOK, NEW t \in Txns, NEW table \in Tables, GetPinnedScan(t, table)
  PROVE  /\ pg'.work.pins = pg.work.pins \cup Added(PinRow(t, table))
         /\ pins'[t] = pins[t] \cup ({table} \ HotOnly)
         /\ inTxn /\ pg.status = "open" =>
              pg'.status = "open" /\ pg'.base = pg.base
         /\ ~inTxn /\ pg.status = "idle" =>
              pg'.status = "idle" /\ pg'.base = pg'.work
<1> DEFINE pin == PinRow(t, table)
<1>1. pg \in PgSessions(Database) /\ pin \in Pin /\ pg.status \in {"idle", "open"}
  BY PinRowsArePins DEF TypeOK, GetPinnedScan, Answers
<1>2. pg' = Acquire(pg, pin)
  BY DEF GetPinnedScan
<1>3. CASE inTxn
  <2>1. pg' = PinAndRender(pg, pin)
    BY <1>2, <1>3 DEF Acquire
  <2>2. /\ pg'.status = pg.status
        /\ pg'.work.pins = pg.work.pins \cup Added(pin)
        /\ pg.status = "open" => pg'.base = pg.base
    BY <1>1, <2>1, StatementPins DEF PinAndRender, Added
  <2> QED
    BY <1>3, <2>2 DEF GetPinnedScan, PinOf, TypeOK
<1>4. CASE ~inTxn
  <2>1. PICK r : r = PinAndRender(PgBegin(pg), pin)
    OBVIOUS
  <2>2. PgBegin(pg) \in PgSessions(Database) /\ PgBegin(pg).status = "open"
        /\ PgBegin(pg).work = pg.work
    BY <1>1, SessionCommands, CommandPins
  <2>3. /\ r \in PgSessions(Database) /\ r.status = "open"
        /\ r.work.pins = pg.work.pins \cup Added(pin)
    BY <1>1, <2>1, <2>2, RenderPins
  <2>4. pg' = PgCommit(r)
    BY <1>2, <1>4, <2>1 DEF Acquire
  <2>5. pg'.base = r.work /\ pg'.work = r.work /\ pg'.status = "idle"
    BY <2>3, <2>4, CommandPins
  <2> QED
    BY <1>4, <2>3, <2>5 DEF GetPinnedScan, PinOf, TypeOK
<1> QED
  BY <1>3, <1>4

(* A transaction that is not open has no pins, and one that goes on has its  *)
(* own where its session sees them, for nobody else executes a statement.    *)
HeldInv ==
  /\ OneIsOpen
  /\ \A t \in Txns : pins[t] # {} => Open(t)
  /\ PinHeldIsKept

LEMMA HeldStep ==
  ASSUME Discipline = "serial", TypeOK, HeldInv, [Next]_vars
  PROVE  HeldInv'
<1> USE DEF HeldInv
<1>1. OneIsOpen'
  BY OneIsOpenStep
<1>2. CASE UNCHANGED vars
  BY <1>2 DEF vars, OneIsOpen, Open, PinHeldIsKept, Answers
<1>3. CASE ConnectionLost
  <2>1. ~Answers' /\ UNCHANGED <<phase, pins>>
    BY <1>3, CommandPins DEF ConnectionLost, Answers, TypeOK, reads
  <2> QED
    BY <1>1, <2>1 DEF Open, PinHeldIsKept
<1>4. ASSUME NEW t \in Txns, Step(t) PROVE HeldInv'
  <2>0. pg \in PgSessions(Database) /\ pins \in [Txns -> SUBSET (Tables \ HotOnly)]
    BY DEF TypeOK
  <2>1. \A u \in Txns \ {t} : ~Open(u) /\ pins[u] = {} /\ pins'[u] = {} /\ phase'[u] = phase[u]
    BY <1>4, StepsAreOwn, PhasesOf
  <2>2. pins'[t] # {} => Open(t)'
    <3>1. CASE StartTransaction(t)
      BY <3>1 DEF StartTransaction, Open, reads, TypeOK
    <3>2. CASE EndTransaction(t)
      BY <2>0, <3>2 DEF EndTransaction, Released, Open, reads
    <3>3. CASE ~StartTransaction(t) /\ ~EndTransaction(t)
      <4>1. Open(t)
        BY <1>4, <3>3, WhoSteps
      <4>2. UNCHANGED phase \/ \E p \in {"failed", "releasing"} : phase' = [phase EXCEPT ![t] = p]
        BY <1>4, <3>3 DEF Step, FinishBoundary, GetPinnedScan, GetPinnedScanFails,
           EnsureWriteTxn, EnsureWriteTxnFails, Chunk, ChunkFails, CommitWrite, CommitWriteFails,
           RollbackWrite, ReleaseReadPin, ReleasePinsFails, Invalidate, LeaveWrite
      <4> QED
        BY <4>1, <4>2 DEF Open, TypeOK
    <3> QED
      BY <3>1, <3>2, <3>3
  <2>3. ASSUME NEW table \in pins'[t], phase'[t] = "active", Answers'
        PROVE  PinRow(t, table) \in pg'.work.pins
    <3>1. \/ StartTransaction(t) \/ EnsureWriteTxn(t) \/ Chunk(t)
          \/ \E other \in Tables : GetPinnedScan(t, other)
      BY <1>4, <2>3 DEF Step, FinishBoundary, GetPinnedScanFails, EnsureWriteTxnFails, ChunkFails,
         CommitWrite, CommitWriteFails, RollbackWrite, ReleaseReadPin, ReleasePinsFails,
         EndTransaction, Invalidate, LeaveWrite, TypeOK
    <3>2. CASE StartTransaction(t)
      BY <2>3, <3>2 DEF StartTransaction, Open, reads
    <3>3. CASE EnsureWriteTxn(t)
      <4>1. /\ phase[t] = "active" /\ UNCHANGED pins
            /\ pg'.work = pg.work /\ (Answers' => Answers)
        BY <2>0, <3>3, CommandPins DEF EnsureWriteTxn, TxnBegin, Answers, reads
      <4> QED
        BY <2>3, <4>1 DEF PinHeldIsKept
    <3>4. CASE Chunk(t)
      <4>1. /\ phase[t] = "active" /\ UNCHANGED pins /\ Answers
            /\ pg'.work.pins = pg.work.pins
        BY <2>0, <3>4, StatementPins DEF Chunk, reads
      <4> QED
        BY <2>3, <4>1 DEF PinHeldIsKept
    <3>5. ASSUME NEW other \in Tables, GetPinnedScan(t, other)
          PROVE  PinRow(t, table) \in pg'.work.pins
      <4>1. /\ pg'.work.pins = pg.work.pins \cup Added(PinRow(t, other))
            /\ pins'[t] = pins[t] \cup ({other} \ HotOnly)
        BY <3>5, ScanPins
      <4>2. CASE table \in pins[t]
        <5>1. phase[t] = "active" /\ Answers
          BY <3>5 DEF GetPinnedScan
        <5> QED
          BY <4>1, <4>2, <5>1 DEF PinHeldIsKept
      <4>3. CASE table \notin pins[t]
        <5>1. table = other /\ other \notin HotOnly
          BY <2>3, <4>1, <4>3
        <5> QED
          BY <4>1, <5>1 DEF Added, PinRow
      <4> QED
        BY <4>2, <4>3
    <3> QED
      BY <3>1, <3>2, <3>3, <3>4, <3>5
  <2> QED
    BY <1>1, <2>1, <2>2, <2>3 DEF PinHeldIsKept, Answers, PinRow
<1> QED
  BY <1>2, <1>3, <1>4 DEF Next, AllEnded

LEMMA HeldInit == Init => HeldInv
BY DEF Init, HeldInv, OneIsOpen, Open, PinHeldIsKept

(* One transaction after the other keeps the pins it relies on, whatever     *)
(* fails: only a statement or a boundary of another one takes them away.     *)
THEOREM HeldPinsAreKept ==
  ASSUME Discipline = "serial"
  PROVE  Spec => []PinHeldIsKept
<1>1. TypeOK /\ HeldInv /\ [Next]_vars => HeldInv'
  BY HeldStep
<1>2. HeldInv => PinHeldIsKept
  BY DEF HeldInv
<1> QED
  BY <1>1, <1>2, HeldInit, TypeCorrect, PTL DEF Spec

-----------------------------------------------------------------------------
(* Pins are released.                                                       *)

(* A pin row is on the list of its transaction, except one in the block of a *)
(* transaction that failed while it rendered the scan: the block is doomed.  *)
ReleasedInv ==
  pg.status # "lost" =>
    /\ \A pin \in pg.base.pins : pin.table \in pins[pin.txn]
    /\ \A pin \in pg.work.pins :
         \/ pin.table \in pins[pin.txn]
         \/ phase[pin.txn] = "failed" /\ pg.status # "idle"
    /\ pg.status = "idle" => pg.work.pins = pg.base.pins

LEMMA ReleasedInit == Init => ReleasedInv
BY DEF Init, ReleasedInv

(* The only open transaction has the only block: without one of its own, its *)
(* session is at rest.                                                       *)
LEMMA AtRest ==
  ASSUME TypeOK, WriteInv, HeldInv, NEW t \in Txns, Open(t), ~writeActive[t],
         pg.status # "lost"
  PROVE  ~inTxn /\ pg.status = "idle"
<1>1. \A u \in Txns : ~writeActive[u]
  BY DEF WriteInv, WritingIsFlagged, HeldInv, OneIsOpen, Open
<1>2. ~inTxn
  BY <1>1 DEF WriteInv, FlagHasOwner
<1> QED
  BY <1>2 DEF WriteInv, ServerTxnIsTracked, TypeOK, PgSessions, PgStatus

(* A transaction that fails: its pins are those it had, and those that its   *)
(* block has seen more of go with the block.                                 *)
LEMMA FailingKeeps ==
  ASSUME TypeOK, ReleasedInv, NEW t \in Txns, phase[t] # "failed", pg.status # "lost",
         phase' = [phase EXCEPT ![t] = "failed"], UNCHANGED pins,
         pg'.base.pins = pg.base.pins,
         \/ pg'.status = "idle" /\ pg'.work.pins = pg.base.pins
         \/ /\ pg'.status # "idle"
            /\ \A pin \in pg'.work.pins : pin \in pg.work.pins \/ pin.txn = t
         \/ pg' = pg
  PROVE  ReleasedInv'
<1>1. phase'[t] = "failed" /\ \A u \in Txns : phase[u] = "failed" => phase'[u] = "failed"
  BY DEF TypeOK
<1>2. pg.work.pins \subseteq Pin
  BY DEF TypeOK, PgSessions, Database
<1>3. \A pin \in pg.work.pins : pin.txn \in Txns
  BY <1>2 DEF Pin
<1>4. pg.status = "idle" => pg.work.pins = pg.base.pins
  BY DEF ReleasedInv
<1>5. CASE pg'.status = "idle" /\ pg'.work.pins = pg.base.pins
  BY <1>5 DEF ReleasedInv
<1>6. CASE /\ pg'.status # "idle"
           /\ \A pin \in pg'.work.pins : pin \in pg.work.pins \/ pin.txn = t
  BY <1>1, <1>3, <1>6 DEF ReleasedInv
<1>7. CASE pg' = pg
  BY <1>1, <1>3, <1>7 DEF ReleasedInv
<1> QED
  BY <1>5, <1>6, <1>7

LEMMA ScanFailsReleases ==
  ASSUME TypeOK, WriteInv, HeldInv, ReleasedInv,
         NEW t \in Txns, NEW table \in Tables, GetPinnedScanFails(t, table)
  PROVE  ReleasedInv'
<1> DEFINE pin == PinRow(t, table)
<1>1. pg \in PgSessions(Database) /\ pin \in Pin /\ pin.txn = t
  BY PinRowsArePins DEF TypeOK, PinRow
<1>2. /\ phase[t] = "active" /\ phase' = [phase EXCEPT ![t] = "failed"] /\ UNCHANGED pins
  BY DEF GetPinnedScanFails, Invalidate, reads
<1>3. CASE pg' = pg
  <2>1. CASE pg.status = "lost"
    BY <1>3, <2>1 DEF ReleasedInv
  <2>2. CASE pg.status # "lost"
    BY <1>2, <1>3, <2>2, FailingKeeps
  <2> QED
    BY <2>1, <2>2
<1>4. CASE pg' # pg /\ inTxn
  <2>1. /\ Answers
        /\ pg' = PgError(pg) \/ pg' = PinAndRender(pg, pin)
    BY <1>4 DEF GetPinnedScanFails, Abandon
  <2>2. pg.status = "open"
    BY <1>4, <2>1 DEF WriteInv, FlagMeansBlock, Answers
  <2>3. CASE pg' = PgError(pg)
    <3>1. pg'.base = pg.base /\ pg'.work = pg.work /\ pg'.status = "aborted"
      BY <1>1, <2>2, <2>3, CommandPins
    <3> QED
      BY <1>2, <2>2, <3>1, FailingKeeps
  <2>4. CASE pg' = PinAndRender(pg, pin)
    <3>1. /\ pg'.base = pg.base /\ pg'.status = "open"
          /\ pg'.work.pins = pg.work.pins \cup Added(pin)
      BY <1>1, <2>2, <2>4, RenderPins
    <3>2. \A other \in pg'.work.pins : other \in pg.work.pins \/ other.txn = t
      BY <1>1, <3>1 DEF Added
    <3> QED
      BY <1>2, <2>2, <3>1, <3>2, FailingKeeps
  <2> QED
    BY <2>1, <2>3, <2>4
<1>5. CASE pg' # pg /\ ~inTxn
  <2>1. PICK b : b = PgBegin(pg)
    OBVIOUS
  <2>2. PICK r : r = PinAndRender(b, pin)
    OBVIOUS
  <2>3. /\ Answers
        /\ pg' \in {PgRollback(PgError(b)), PgRollback(r), PgLose(PgCommit(r))}
    BY <1>5, <2>1, <2>2 DEF GetPinnedScanFails, Abandon
  <2>4. pg.status = "idle"
    BY <1>5, <2>3 DEF WriteInv, ServerTxnIsTracked, Answers
  <2>5. b \in PgSessions(Database) /\ b.status = "open" /\ b.base = pg.base
    BY <1>1, <2>1, <2>4, SessionCommands, CommandPins
  <2>6. r \in PgSessions(Database) /\ r.base = pg.base
    BY <1>1, <2>2, <2>5, RenderPins
  <2>7. PgError(b) \in PgSessions(Database) /\ PgError(b).base = pg.base
    BY <2>5, SessionCommands, CommandPins
  <2>8. CASE pg' = PgLose(PgCommit(r))
    <3>1. pg'.status = "lost"
      BY <2>6, <2>8, SessionCommands, CommandPins
    <3> QED
      BY <3>1 DEF ReleasedInv
  <2>9. CASE pg' \in {PgRollback(PgError(b)), PgRollback(r)}
    <3>1. pg'.status = "idle" /\ pg'.base = pg.base /\ pg'.work = pg.base
      BY <2>6, <2>7, <2>9, CommandPins
    <3> QED
      BY <1>2, <2>4, <3>1, FailingKeeps
  <2> QED
    BY <2>3, <2>8, <2>9
<1> QED
  BY <1>3, <1>4, <1>5

LEMMA ChunkFailsReleases ==
  ASSUME TypeOK, WriteInv, HeldInv, ReleasedInv,
         NEW t \in Txns, ChunkFails(t)
  PROVE  ReleasedInv'
<1>1. pg \in PgSessions(Database)
  BY DEF TypeOK
<1>2. /\ phase[t] = "active" /\ phase' = [phase EXCEPT ![t] = "failed"] /\ UNCHANGED pins
  BY DEF ChunkFails, Invalidate, reads
<1>3. CASE pg' = pg
  <2>1. CASE pg.status = "lost"
    BY <1>3, <2>1 DEF ReleasedInv
  <2>2. CASE pg.status # "lost"
    BY <1>2, <1>3, <2>2, FailingKeeps
  <2> QED
    BY <2>1, <2>2
<1>4. CASE pg' # pg
  <2>1. Answers /\ writeActive[t]
    BY <1>4 DEF ChunkFails
  <2>2. PICK done \in SUBSET ChunkRows(t, chunks[t] + 1) :
          pg' = WithRows(pg, done) \/ pg' = PgError(WithRows(pg, done))
    BY <1>4 DEF ChunkFails
  <2>3. pg.status = "open"
    BY <2>1 DEF WriteInv, WritingIsFlagged, FlagMeansBlock, Answers
  <2>4. PICK w : w = WithRows(pg, done)
    OBVIOUS
  <2>5. done \subseteq Row
    <3>1. chunks[t] + 1 \in 1..MaxChunks
      BY ConstantsOK DEF ChunkFails, TypeOK
    <3> QED
      BY <2>2, <3>1, ChunkRowsAreRows
  <2>6. /\ w \in PgSessions(Database) /\ w.status = "open"
        /\ w.work.pins = pg.work.pins /\ w.base.pins = pg.base.pins
    BY <1>1, <2>3, <2>4, <2>5, StatementPins, SessionStatements
  <2>7. /\ pg'.status # "idle"
        /\ pg'.work.pins = pg.work.pins /\ pg'.base.pins = pg.base.pins
    BY <2>2, <2>4, <2>6, CommandPins
  <2> QED
    BY <1>2, <2>3, <2>7, FailingKeeps
<1> QED
  BY <1>3, <1>4

(* The boundary's first half leaves a session at rest, or a lost one.        *)
LEMMA DecisionReleases ==
  ASSUME Discipline = "serial", "refuse" \notin Faults,
         TypeOK, WriteInv, HeldInv, ReleasedInv, NEW t \in Txns,
         CommitWrite(t) \/ CommitWriteFails(t) \/ RollbackWrite(t)
  PROVE  ReleasedInv'
<1>1. pg \in PgSessions(Database)
  BY DEF TypeOK
<1>2. UNCHANGED pins /\ Open(t)
  BY DEF CommitWrite, CommitWriteFails, RollbackWrite, LeaveWrite, Open
<1>3. ASSUME pg'.base.pins \in {pg.base.pins, pg.work.pins},
             pg'.base.pins = pg.work.pins => phase[t] = "active" \/ pg.status = "idle",
             pg'.status = "idle", pg'.work = pg'.base, pg.status # "lost"
      PROVE  ReleasedInv'
  <2>1. \A pin \in pg.work.pins : pin.txn \in Txns
    BY <1>1 DEF PgSessions, Database, Pin
  <2>2. phase[t] = "active" => \A u \in Txns : phase[u] # "failed"
    BY <1>2 DEF HeldInv, OneIsOpen, Open
  <2>3. \A pin \in pg'.base.pins : pin.table \in pins[pin.txn]
    BY <1>3, <2>1, <2>2 DEF ReleasedInv
  <2> QED
    BY <1>2, <1>3, <2>3 DEF ReleasedInv
<1>4. CASE pg.status = "lost"
  <2>1. pg' = pg
    BY <1>4 DEF CommitWrite, CommitWriteFails, RollbackWrite, TxnCommit, conn
  <2> QED
    BY <1>4, <2>1 DEF ReleasedInv
<1>5. CASE pg.status # "lost" /\ CommitWriteFails(t)
  <2>1. pg' \in {PgLose(pg), PgLose(PgCommit(pg))}
    BY <1>5 DEF CommitWriteFails
  <2>2. PgCommit(pg) \in PgSessions(Database)
    BY <1>1, SessionCommands
  <2>3. pg'.status = "lost"
    BY <1>1, <2>1, <2>2, CommandPins
  <2> QED
    BY <2>3 DEF ReleasedInv
<1>6. CASE /\ pg.status # "lost" /\ ~writeActive[t]
           /\ CommitWrite(t) \/ RollbackWrite(t)
  <2>1. pg' = pg /\ pg.status = "idle"
    BY <1>2, <1>6, AtRest DEF CommitWrite, RollbackWrite, conn
  <2> QED
    BY <1>2, <2>1 DEF ReleasedInv
<1>7. CASE /\ pg.status # "lost" /\ writeActive[t]
           /\ CommitWrite(t) \/ RollbackWrite(t)
  <2>1. inTxn /\ pg.status \in {"open", "aborted"}
    BY <1>7 DEF WriteInv, WritingIsFlagged, FlagMeansBlock
  <2>2. CASE CommitWrite(t)
    <3>1. phase[t] = "active" /\ pg.status = "open" /\ pg' = PgCommit(pg)
      BY <1>7, <2>1, <2>2 DEF CommitWrite, TxnCommit, WriteInv, BlockHolds, ReadersMayDoom
    <3>2. pg'.base = pg.work /\ pg'.work = pg.work /\ pg'.status = "idle"
      BY <1>1, <3>1, CommandPins
    <3> QED
      BY <1>3, <1>7, <3>1, <3>2
  <2>3. CASE RollbackWrite(t)
    <3>1. pg' = PgRollback(pg)
      BY <1>7, <2>1, <2>3 DEF RollbackWrite, TxnRollback
    <3>2. pg'.base = pg.base /\ pg'.work = pg.base /\ pg'.status = "idle"
      BY <1>1, <3>1, CommandPins
    <3> QED
      BY <1>2, <1>7, <3>2 DEF ReleasedInv
  <2> QED
    BY <1>7, <2>2, <2>3
<1> QED
  BY <1>4, <1>5, <1>6, <1>7

LEMMA ReleaseReleases ==
  ASSUME TypeOK, WriteInv, HeldInv, ReleasedInv, NEW t \in Txns, NEW table \in Tables,
         ReleaseReadPin(t, table)
  PROVE  ReleasedInv'
<1> DEFINE pin == PinRow(t, table)
<1>1. pg \in PgSessions(Database) /\ pin \in Pin /\ pin.txn = t /\ pin.table = table
  BY PinRowsArePins DEF TypeOK, PinRow
<1>2. Open(t) /\ ~writeActive[t] /\ Answers
  BY DEF ReleaseReadPin, Open, WriteInv, WritingIsFlagged
<1>3. pg.status = "idle"
  BY <1>2, AtRest DEF Answers
<1>4. /\ pg'.status = "idle" /\ pg'.work.pins = pg.work.pins \ {pin}
      /\ pg'.base = pg'.work
  BY <1>1, <1>3, StatementPins DEF ReleaseReadPin
<1>5. pg.work.pins \subseteq Pin /\ pg.work.pins = pg.base.pins
  BY <1>1, <1>3 DEF PgSessions, Database, ReleasedInv
<1>6. ASSUME NEW other \in pg.work.pins \ {pin} PROVE other.table \in pins'[other.txn]
  <2>1. other \in Pin /\ other.table \in pins[other.txn]
    BY <1>3, <1>5, <1>6 DEF ReleasedInv
  <2>2. other.txn # t \/ other.table # table
    BY <1>6, <2>1 DEF Pin, PinRow
  <2>3. other.txn \in Txns
    BY <2>1 DEF Pin
  <2> QED
    BY <2>1, <2>2, <2>3 DEF ReleaseReadPin, TypeOK
<1> QED
  BY <1>3, <1>4, <1>5, <1>6 DEF ReleasedInv

LEMMA ReleasedStep ==
  ASSUME Discipline = "serial", "refuse" \notin Faults, "release" \notin Faults,
         TypeOK, WriteInv, HeldInv, ReleasedInv, [Next]_vars
  PROVE  ReleasedInv'
<1>0. pg \in PgSessions(Database) /\ phase \in [Txns -> {"new", "active", "failed", "releasing", "ended"}]
  BY DEF TypeOK
<1>1. ASSUME UNCHANGED <<pg, pins>>,
             \A u \in Txns : phase[u] = "failed" => phase'[u] = "failed"
      PROVE  ReleasedInv'
  <2>1. \A pin \in pg.work.pins : pin.txn \in Txns
    BY <1>0 DEF PgSessions, Database, Pin
  <2> QED
    BY <1>1, <2>1 DEF ReleasedInv
<1>2. CASE UNCHANGED vars
  BY <1>1, <1>2 DEF vars
<1>3. CASE ConnectionLost
  <2>1. pg'.status = "lost"
    BY <1>0, <1>3, CommandPins DEF ConnectionLost
  <2> QED
    BY <2>1 DEF ReleasedInv
<1>4. ASSUME NEW t \in Txns, Step(t) PROVE ReleasedInv'
  <2>1. CASE StartTransaction(t)
    BY <1>0, <1>1, <2>1 DEF StartTransaction, conn, reads
  <2>2. ASSUME NEW table \in Tables, GetPinnedScan(t, table) PROVE ReleasedInv'
    <3>1. /\ pg'.work.pins = pg.work.pins \cup Added(PinRow(t, table))
          /\ pins'[t] = pins[t] \cup ({table} \ HotOnly)
      BY <2>2, ScanPins
    <3>2. UNCHANGED phase /\ Answers
      BY <2>2 DEF GetPinnedScan
    <3>3. \A u \in Txns : pins[u] \subseteq pins'[u]
      BY <3>1, <2>2 DEF GetPinnedScan, TypeOK
    <3>4. pg.work.pins \subseteq Pin /\ pg.base.pins \subseteq Pin
      BY <1>0 DEF PgSessions, Database
    <3>5. \A pin \in Added(PinRow(t, table)) : pin.table \in pins'[pin.txn]
      BY <3>1 DEF Added, PinRow
    <3>6. \A pin \in Pin : pin.table \in pins[pin.txn] => pin.table \in pins'[pin.txn]
      BY <3>3 DEF Pin
    <3>7. CASE inTxn
      <4>1. pg.status = "open"
        BY <3>2, <3>7 DEF WriteInv, FlagMeansBlock, Answers
      <4>2. pg'.status = "open" /\ pg'.base = pg.base
        BY <2>2, <3>7, <4>1, ScanPins
      <4> QED
        BY <3>1, <3>2, <3>4, <3>5, <3>6, <4>1, <4>2 DEF ReleasedInv
    <3>8. CASE ~inTxn
      <4>1. pg.status = "idle"
        BY <3>2, <3>8 DEF WriteInv, ServerTxnIsTracked, Answers
      <4>2. pg'.status = "idle" /\ pg'.base = pg'.work
        BY <2>2, <3>8, <4>1, ScanPins
      <4>3. \A pin \in pg'.work.pins : pin.table \in pins'[pin.txn]
        BY <3>1, <3>4, <3>5, <3>6, <4>1 DEF ReleasedInv
      <4> QED
        BY <4>2, <4>3 DEF ReleasedInv
    <3> QED
      BY <3>7, <3>8
  <2>3. ASSUME NEW table \in Tables, GetPinnedScanFails(t, table) PROVE ReleasedInv'
    BY <2>3, ScanFailsReleases
  <2>4. CASE EnsureWriteTxn(t)
    <3>1. /\ UNCHANGED <<phase, pins>> /\ pg'.base = pg.base /\ pg'.work = pg.work
          /\ pg.status = "lost" => pg'.status = "lost"
          /\ pg.status # "idle" => pg'.status # "idle"
      BY <1>0, <2>4, CommandPins DEF EnsureWriteTxn, TxnBegin, reads
    <3> QED
      BY <3>1 DEF ReleasedInv
  <2>5. CASE EnsureWriteTxnFails(t)
    BY <1>0, <1>1, <2>5 DEF EnsureWriteTxnFails, Invalidate, conn, reads
  <2>6. CASE Chunk(t)
    <3>1. pg.status = "open"
      BY <2>6 DEF Chunk, WriteInv, WritingIsFlagged, FlagMeansBlock, Answers
    <3>2. /\ UNCHANGED <<phase, pins>> /\ pg'.status = "open"
          /\ pg'.base.pins = pg.base.pins /\ pg'.work.pins = pg.work.pins
      BY <1>0, <2>6, <3>1, StatementPins DEF Chunk, reads
    <3> QED
      BY <3>1, <3>2 DEF ReleasedInv
  <2>7. CASE ChunkFails(t)
    BY <2>7, ChunkFailsReleases
  <2>8. CASE CommitWrite(t) \/ CommitWriteFails(t) \/ RollbackWrite(t)
    BY <2>8, DecisionReleases
  <2>9. ASSUME NEW table \in Tables, ReleaseReadPin(t, table) PROVE ReleasedInv'
    BY <2>9, ReleaseReleases
  <2>10. CASE ReleasePinsFails(t)
    <3>1. Open(t) /\ ~writeActive[t] /\ ~Answers
      BY <2>10 DEF ReleasePinsFails, Open, WriteInv, WritingIsFlagged
    <3>2. pg.status = "lost"
      BY <3>1, AtRest DEF Answers
    <3>3. pg'.status = "lost"
      BY <1>0, <2>10, <3>2, CommandPins DEF ReleasePinsFails
    <3> QED
      BY <3>3 DEF ReleasedInv
  <2>11. CASE EndTransaction(t)
    BY <1>0, <1>1, <2>11 DEF EndTransaction, conn, reads
  <2> QED
    BY <1>4, <2>1, <2>2, <2>3, <2>4, <2>5, <2>6, <2>7, <2>8, <2>9, <2>10, <2>11
       DEF Step, FinishBoundary
<1> QED
  BY <1>2, <1>3, <1>4 DEF Next, AllEnded

(* When no transaction is left, no pin row is: the worker is not held back   *)
(* by a pin that nobody remembers, unless a release fails, a COMMIT is        *)
(* refused, the connection breaks, or transactions of one catalog overlap.   *)
THEOREM PinsAreReleased ==
  ASSUME Discipline = "serial", "refuse" \notin Faults, "release" \notin Faults
  PROVE  Spec => []PinsReleased
<1>1. TypeOK /\ HeldInv /\ [Next]_vars => HeldInv'
  BY HeldStep
<1>2. TypeOK /\ WriteInv /\ HeldInv /\ ReleasedInv /\ [Next]_vars => ReleasedInv'
  BY ReleasedStep
<1>3. TypeOK /\ HeldInv /\ ReleasedInv => PinsReleased
  <2> SUFFICES ASSUME TypeOK, HeldInv, ReleasedInv, pg.status # "lost",
                      \A t \in Txns : ~Open(t), NEW pin \in pg.base.pins
               PROVE  FALSE
    BY DEF PinsReleased
  <2>1. pin.txn \in Txns
    BY DEF TypeOK, PgSessions, Database, Pin
  <2> QED
    BY <2>1 DEF HeldInv, ReleasedInv
<1>4. Spec => []WriteInv
  BY WritesAreInductive DEF Ordered
<1> QED
  BY <1>1, <1>2, <1>3, <1>4, HeldInit, ReleasedInit, TypeCorrect, PTL DEF Spec

=============================================================================
