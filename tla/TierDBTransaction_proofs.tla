---------------------- MODULE TierDBTransaction_proofs ----------------------
(***************************************************************************)
(* Proofs about TierDBTransaction for every set of transactions, writers   *)
(* and tables, and every bound on the chunks.                              *)
(***************************************************************************)
EXTENDS TierDBTransaction, TLAPS

-----------------------------------------------------------------------------
(* Type correctness.                                                        *)

(* Every command turns a session over some databases into another one. *)
LEMMA SessionCommands ==
  ASSUME NEW DB, NEW s \in PgSessions(DB)
  PROVE  /\ PgBegin(s) \in PgSessions(DB)
         /\ \A db \in DB : PgExec(s, db) \in PgSessions(DB)
         /\ PgError(s) \in PgSessions(DB)
         /\ PgRollback(s) \in PgSessions(DB)
         /\ PgCommit(s) \in PgSessions(DB)
         /\ PgLose(s) \in PgSessions(DB)
BY DEF PgSessions, PgStatus, PgBegin, PgExec, PgError, PgRollback, PgCommit, PgLose

(* The statements of the connector keep the session over Database. *)
LEMMA SessionStatements ==
  ASSUME NEW s \in PgSessions(Database)
  PROVE  /\ \A rows \in SUBSET Row : WithRows(s, rows) \in PgSessions(Database)
         /\ \A pin \in Pin : WithPin(s, pin) \in PgSessions(Database)
         /\ \A pin \in Pin : WithoutPin(s, pin) \in PgSessions(Database)
         /\ \A pin \in Pin : PinAndRender(s, pin) \in PgSessions(Database)
         /\ \A pin \in Pin : Acquire(s, pin) \in PgSessions(Database)
         /\ Abandon(s) \in PgSessions(Database)
<1>1. s.work \in Database
  BY DEF PgSessions
<1>2. \A rows \in SUBSET Row : WithRows(s, rows) \in PgSessions(Database)
  <2>1. \A rows \in SUBSET Row : [s.work EXCEPT !.rows = @ \cup rows] \in Database
    BY <1>1 DEF Database
  <2> QED BY <2>1, SessionCommands DEF WithRows
<1>3. \A r \in PgSessions(Database) : \A pin \in Pin :
        WithPin(r, pin) \in PgSessions(Database)
  <2>1. \A r \in PgSessions(Database) : \A pin \in Pin :
          [r.work EXCEPT !.pins = @ \cup {pin}] \in Database
    BY DEF Database, PgSessions
  <2> QED BY <2>1, SessionCommands DEF WithPin
<1>4. \A pin \in Pin : WithoutPin(s, pin) \in PgSessions(Database)
  <2>1. \A pin \in Pin : [s.work EXCEPT !.pins = @ \ {pin}] \in Database
    BY <1>1 DEF Database
  <2> QED BY <2>1, SessionCommands DEF WithoutPin
<1>5. \A r \in PgSessions(Database) : \A pin \in Pin :
        PinAndRender(r, pin) \in PgSessions(Database)
  BY <1>3 DEF PinAndRender
<1>6. \A pin \in Pin : Acquire(s, pin) \in PgSessions(Database)
  BY <1>5, SessionCommands DEF Acquire
<1>7. Abandon(s) \in PgSessions(Database)
  BY SessionCommands DEF Abandon
<1> QED BY <1>2, <1>3, <1>4, <1>5, <1>6, <1>7

(* The row statements of a chunk within the bound are in Row. *)
LEMMA ChunkRowsAreRows ==
  ASSUME NEW t \in Txns, NEW n \in 1..MaxChunks
  PROVE  ChunkRows(t, n) \subseteq Row
BY DEF ChunkRows, Row

(* The pin row of a transaction and a table is in Pin. *)
LEMMA PinRowsArePins ==
  ASSUME NEW t \in Txns, NEW table \in Tables
  PROVE  PinRow(t, table) \in Pin
BY DEF PinRow, Pin

(* The initial state is well typed. *)
LEMMA TypeInit == Init => TypeOK
<1> SUFFICES ASSUME Init PROVE TypeOK
  OBVIOUS
<1>1. pg \in PgSessions(Database)
  <2>1. [rows |-> {}, pins |-> {}] \in Database
    BY DEF Database
  <2> QED BY <2>1 DEF Init, PgSessions, PgStatus
<1>2. 0 \in 0..MaxChunks
  BY ConstantsOK
<1> QED BY <1>1, <1>2 DEF Init, TypeOK

(* Each step keeps the state well typed. *)
LEMMA TypeStep == TypeOK /\ [Next]_vars => TypeOK'
<1> SUFFICES ASSUME TypeOK, [Next]_vars PROVE TypeOK'
  OBVIOUS
<1> USE DEF TypeOK
<1>1. ASSUME NEW t \in Txns, Step(t) PROVE TypeOK'
  <2>1. CASE StartTransaction(t)
    BY <2>1 DEF StartTransaction, conn, reads, outcome
  <2>2. ASSUME NEW table \in Tables, GetPinnedScan(t, table) PROVE TypeOK'
    <3>1. pg' \in PgSessions(Database)
      BY <2>2, PinRowsArePins, SessionStatements DEF GetPinnedScan
    <3>2. cached' \in [Txns -> SUBSET Tables]
      BY <2>2 DEF GetPinnedScan
    <3>3. pins' \in [Txns -> SUBSET (Tables \ HotOnly)]
      BY <2>2 DEF GetPinnedScan, PinOf
    <3> QED BY <2>2, <3>1, <3>2, <3>3 DEF GetPinnedScan, outcome
  <2>3. ASSUME NEW table \in Tables, GetPinnedScanFails(t, table) PROVE TypeOK'
    <3> DEFINE begun == IF inTxn THEN pg ELSE PgBegin(pg)
               pinned == PinAndRender(begun, PinRow(t, table))
    <3>1. begun \in PgSessions(Database)
      BY SessionCommands
    <3>2. pinned \in PgSessions(Database)
      BY <3>1, PinRowsArePins, SessionStatements
    <3>3. PgError(begun) \in PgSessions(Database)
      BY <3>1, SessionCommands
    <3>4. PgLose(PgCommit(pinned)) \in PgSessions(Database)
      BY <3>2, SessionCommands
    <3>5. /\ Abandon(PgError(begun)) \in PgSessions(Database)
          /\ Abandon(pinned) \in PgSessions(Database)
      BY <3>2, <3>3, SessionStatements
    <3> HIDE DEF begun, pinned
    <3>6. pg' \in PgSessions(Database)
      BY <2>3, <3>4, <3>5 DEF GetPinnedScanFails, begun, pinned
    <3> QED BY <2>3, <3>6 DEF GetPinnedScanFails, Invalidate, reads, outcome
  <2>4. CASE EnsureWriteTxn(t)
    <3>1. pg' \in PgSessions(Database) /\ inTxn' \in BOOLEAN
      BY <2>4, SessionCommands DEF EnsureWriteTxn, TxnBegin
    <3> QED BY <2>4, <3>1 DEF EnsureWriteTxn, reads, outcome
  <2>5. CASE EnsureWriteTxnFails(t)
    BY <2>5 DEF EnsureWriteTxnFails, Invalidate, conn, reads, outcome
  <2>6. CASE Chunk(t)
    <3>1. chunks[t] + 1 \in 1..MaxChunks
      BY <2>6, ConstantsOK DEF Chunk
    <3>2. pg' \in PgSessions(Database)
      BY <2>6, <3>1, ChunkRowsAreRows, SessionStatements DEF Chunk
    <3> QED BY <2>6, <3>1, <3>2 DEF Chunk, reads, outcome
  <2>7. CASE ChunkFails(t)
    <3>1. chunks[t] + 1 \in 1..MaxChunks
      BY <2>7, ConstantsOK DEF ChunkFails
    <3>2. \A done \in SUBSET ChunkRows(t, chunks[t] + 1) :
            WithRows(pg, done) \in PgSessions(Database)
      BY <3>1, ChunkRowsAreRows, SessionStatements
    <3>3. pg' \in PgSessions(Database)
      <4>1. CASE pg' = pg
        BY <4>1
      <4>2. CASE pg' # pg
        <5>1. PICK done \in SUBSET ChunkRows(t, chunks[t] + 1) :
                pg' = WithRows(pg, done) \/ pg' = PgError(WithRows(pg, done))
          BY <2>7, <4>2 DEF ChunkFails
        <5> QED BY <3>2, <5>1, SessionCommands
      <4> QED BY <4>1, <4>2
    <3> QED BY <2>7, <3>3 DEF ChunkFails, Invalidate, reads, outcome
  <2>8. CASE CommitWrite(t)
    <3>1. pg' \in PgSessions(Database) /\ inTxn' \in BOOLEAN
      <4>1. PgCommit(pg) \in PgSessions(Database)
        BY SessionCommands
      <4>2. pg' \in {pg, PgCommit(pg)} /\ inTxn' \in {inTxn, FALSE}
        BY <2>8 DEF CommitWrite, TxnCommit, conn
      <4> QED BY <4>1, <4>2
    <3> QED BY <2>8, <3>1 DEF CommitWrite, LeaveWrite
  <2>9. CASE CommitWriteFails(t)
    <3>1. pg' \in PgSessions(Database)
      BY <2>9, SessionCommands DEF CommitWriteFails
    <3> QED BY <2>9, <3>1 DEF CommitWriteFails, ReportCommitError, LeaveWrite
  <2>10. CASE RollbackWrite(t)
    <3>1. pg' \in PgSessions(Database) /\ inTxn' \in BOOLEAN
      BY <2>10, SessionCommands DEF RollbackWrite, TxnRollback, conn
    <3> QED BY <2>10, <3>1 DEF RollbackWrite, LeaveWrite
  <2>11. ASSUME NEW table \in Tables, ReleaseReadPin(t, table) PROVE TypeOK'
    <3>1. pg' \in PgSessions(Database)
      BY <2>11, PinRowsArePins, SessionStatements DEF ReleaseReadPin
    <3> QED BY <2>11, <3>1 DEF ReleaseReadPin, outcome
  <2>12. CASE ReleasePinsFails(t)
    <3>1. pg' \in PgSessions(Database)
      BY <2>12, SessionCommands DEF ReleasePinsFails
    <3> QED BY <2>12, <3>1 DEF ReleasePinsFails, LeftToRelease
  <2>13. CASE EndTransaction(t)
    BY <2>13 DEF EndTransaction, conn, reads, outcome
  <2> QED BY <1>1, <2>1, <2>2, <2>3, <2>4, <2>5, <2>6, <2>7, <2>8, <2>9,
             <2>10, <2>11, <2>12, <2>13 DEF Step, FinishBoundary
<1>2. CASE ConnectionLost
  <2>1. pg' \in PgSessions(Database)
    BY <1>2, SessionCommands DEF ConnectionLost
  <2> QED BY <1>2, <2>1 DEF ConnectionLost, reads, outcome
<1>3. CASE UNCHANGED vars
  BY <1>3 DEF vars
<1> QED BY <1>1, <1>2, <1>3 DEF Next, AllEnded

(* The session, in_txn and the members of every TierDBTransaction keep their  *)
(* types; in particular no pin is recorded for a table without a cut-line.   *)
THEOREM TypeCorrect == Spec => []TypeOK
BY TypeInit, TypeStep, PTL DEF Spec

-----------------------------------------------------------------------------
(* Conn::in_txn announces every block that is open on the server.           *)

(* No step leaves a block open on the server without setting in_txn. *)
LEMMA TrackedStep ==
  TypeOK /\ ServerTxnIsTracked /\ [Next]_vars => ServerTxnIsTracked'
<1> SUFFICES ASSUME TypeOK, ServerTxnIsTracked, [Next]_vars
             PROVE  ServerTxnIsTracked'
  OBVIOUS
<1> USE DEF ServerTxnIsTracked
<1>0. pg \in PgSessions(Database)
  BY DEF TypeOK
<1>1. ASSUME NEW t \in Txns, Step(t) PROVE ServerTxnIsTracked'
  <2>1. CASE StartTransaction(t)
    BY <2>1 DEF StartTransaction, conn
  <2>2. ASSUME NEW table \in Tables, GetPinnedScan(t, table)
        PROVE  ServerTxnIsTracked'
    BY <1>0, <2>2 DEF GetPinnedScan, Acquire, PinAndRender, WithPin, PgBegin,
                      PgExec, PgCommit, PgRollback, PgSessions
  <2>3. ASSUME NEW table \in Tables, GetPinnedScanFails(t, table)
        PROVE  ServerTxnIsTracked'
    BY <1>0, <2>3 DEF GetPinnedScanFails, Abandon, PinAndRender, WithPin, PgBegin,
                      PgExec, PgError, PgCommit, PgRollback, PgLose, PgSessions
  <2>4. CASE EnsureWriteTxn(t)
    BY <2>4 DEF EnsureWriteTxn, TxnBegin
  <2>5. CASE EnsureWriteTxnFails(t)
    BY <2>5 DEF EnsureWriteTxnFails, conn
  <2>6. CASE Chunk(t)
    BY <1>0, <2>6 DEF Chunk, WithRows, PgExec, PgSessions
  <2>7. CASE ChunkFails(t)
    BY <1>0, <2>7 DEF ChunkFails, WithRows, PgExec, PgError, PgSessions
  <2>8. CASE CommitWrite(t)
    <3>1. PgCommit(pg).status = "idle"
      BY <1>0 DEF PgCommit, PgRollback, PgSessions
    <3>2. (pg' = pg /\ inTxn' = inTxn) \/ pg' = PgCommit(pg)
      BY <2>8 DEF CommitWrite, TxnCommit, conn
    <3> QED BY <3>1, <3>2
  <2>9. CASE CommitWriteFails(t)
    BY <1>0, <2>9 DEF CommitWriteFails
  <2>10. CASE RollbackWrite(t)
    BY <1>0, <2>10 DEF RollbackWrite, TxnRollback, conn, PgRollback, PgSessions
  <2>11. ASSUME NEW table \in Tables, ReleaseReadPin(t, table)
         PROVE  ServerTxnIsTracked'
    BY <1>0, <2>11 DEF ReleaseReadPin, WithoutPin, PgExec, PgSessions
  <2>12. CASE ReleasePinsFails(t)
    BY <1>0, <2>12 DEF ReleasePinsFails, PgError, PgSessions
  <2>13. CASE EndTransaction(t)
    BY <2>13 DEF EndTransaction, conn
  <2> QED BY <1>1, <2>1, <2>2, <2>3, <2>4, <2>5, <2>6, <2>7, <2>8, <2>9,
             <2>10, <2>11, <2>12, <2>13 DEF Step, FinishBoundary
<1>2. CASE ConnectionLost
  BY <1>0, <1>2 DEF ConnectionLost, PgLose, PgSessions
<1>3. CASE UNCHANGED vars
  BY <1>3 DEF vars
<1> QED BY <1>1, <1>2, <1>3 DEF Next, AllEnded

(* Whatever fails and however transactions overlap, no block of the server   *)
(* is open without in_txn: neither a BEGIN nor a pin's block is ever nested. *)
THEOREM BlocksAreTracked == Spec => []ServerTxnIsTracked
<1>1. Init => ServerTxnIsTracked
  BY DEF Init, ServerTxnIsTracked
<1> QED BY <1>1, TypeCorrect, TrackedStep, PTL DEF Spec

-----------------------------------------------------------------------------
(* in_txn belongs to a transaction.                                         *)

(* A step that leaves the flag and its owners alone, and no block behind. *)
LEMMA FlagKept ==
  ASSUME FlagMeansBlock, FlagHasOwner, UNCHANGED <<inTxn, writeActive>>,
         pg'.status # "lost" =>
           pg.status # "lost" /\ (inTxn => pg'.status \in {pg.status, "aborted"})
  PROVE  FlagMeansBlock' /\ FlagHasOwner'
BY DEF FlagMeansBlock, FlagHasOwner

(* Unless COMMIT is refused, each boundary takes the flag down with the block. *)
LEMMA FlagStep ==
  ASSUME "refuse" \notin Faults, TypeOK, FlagMeansBlock, FlagHasOwner, [Next]_vars
  PROVE  FlagMeansBlock' /\ FlagHasOwner'
<1>0. pg \in PgSessions(Database) /\ writeActive \in [Txns -> BOOLEAN]
  BY DEF TypeOK
<1>1. ASSUME NEW t \in Txns, Step(t) PROVE FlagMeansBlock' /\ FlagHasOwner'
  <2>1. CASE StartTransaction(t) \/ EnsureWriteTxnFails(t) \/ EndTransaction(t)
    <3>1. UNCHANGED <<pg, inTxn, writeActive>>
      BY <2>1 DEF StartTransaction, EnsureWriteTxnFails, Invalidate, EndTransaction, conn
    <3> QED BY <3>1, FlagKept
  <2>2. ASSUME NEW table \in Tables, GetPinnedScan(t, table)
        PROVE  FlagMeansBlock' /\ FlagHasOwner'
    <3>1. UNCHANGED <<inTxn, writeActive>> /\ pg.status # "lost"
      BY <2>2 DEF GetPinnedScan, Answers
    <3>2. inTxn => pg'.status = pg.status
      BY <1>0, <2>2 DEF GetPinnedScan, Acquire, PinAndRender, WithPin, PgExec, PgSessions
    <3> QED BY <3>1, <3>2, FlagKept
  <2>3. ASSUME NEW table \in Tables, GetPinnedScanFails(t, table)
        PROVE  FlagMeansBlock' /\ FlagHasOwner'
    <3>1. UNCHANGED <<inTxn, writeActive>>
      BY <2>3 DEF GetPinnedScanFails, Invalidate
    <3>2. pg'.status # "lost" => pg.status # "lost"
      BY <2>3 DEF GetPinnedScanFails, Answers
    <3>3. inTxn => pg'.status \in {pg.status, "aborted", "lost"}
      BY <1>0, <2>3 DEF GetPinnedScanFails, Abandon, PinAndRender, WithPin, PgExec,
                        PgError, PgSessions
    <3> QED BY <3>1, <3>2, <3>3, FlagKept
  <2>4. CASE EnsureWriteTxn(t)
    <3>1. writeActive'[t]
      BY <1>0, <2>4 DEF EnsureWriteTxn
    <3>2. ~inTxn => pg'.status \in {"open", "aborted"}
      BY <1>0, <2>4 DEF EnsureWriteTxn, TxnBegin, PgBegin, PgSessions, PgStatus
    <3>3. inTxn => pg' = pg
      BY <2>4 DEF EnsureWriteTxn, TxnBegin
    <3> QED BY <3>1, <3>2, <3>3 DEF FlagMeansBlock, FlagHasOwner
  <2>5. CASE Chunk(t)
    <3>1. UNCHANGED <<inTxn, writeActive>> /\ pg'.status = pg.status
      BY <1>0, <2>5 DEF Chunk, WithRows, PgExec, PgSessions
    <3> QED BY <3>1, FlagKept
  <2>6. CASE ChunkFails(t)
    <3>1. UNCHANGED <<inTxn, writeActive>>
      BY <2>6 DEF ChunkFails, Invalidate
    <3>2. /\ pg'.status \in {pg.status, "aborted"}
          /\ pg'.status # "lost" => pg.status # "lost"
      BY <1>0, <2>6 DEF ChunkFails, WithRows, PgExec, PgError, PgSessions, Answers
    <3> QED BY <3>1, <3>2, FlagKept
  <2>7. CASE CommitWrite(t) \/ RollbackWrite(t)
    <3>1. CASE writeActive[t] /\ inTxn /\ pg.status # "lost"
      <4>1. ~inTxn'
        BY <2>7, <3>1 DEF CommitWrite, RollbackWrite, TxnCommit, TxnRollback
      <4> QED BY <4>1 DEF FlagMeansBlock, FlagHasOwner
    <3>2. CASE ~(writeActive[t] /\ inTxn /\ pg.status # "lost")
      <4>1. UNCHANGED <<pg, inTxn>>
        BY <2>7, <3>2 DEF CommitWrite, RollbackWrite, TxnCommit, TxnRollback, conn
      <4>2. \A u \in Txns \ {t} : writeActive'[u] = writeActive[u]
        BY <1>0, <2>7 DEF CommitWrite, RollbackWrite, LeaveWrite
      <4> QED BY <3>2, <4>1, <4>2 DEF FlagMeansBlock, FlagHasOwner
    <3> QED BY <3>1, <3>2
  <2>8. CASE CommitWriteFails(t)
    <3>1. pg'.status = "lost"
      BY <1>0, <2>8, SessionCommands DEF CommitWriteFails, PgLose, PgSessions
    <3> QED BY <3>1 DEF FlagMeansBlock, FlagHasOwner
  <2>9. ASSUME NEW table \in Tables, ReleaseReadPin(t, table)
        PROVE  FlagMeansBlock' /\ FlagHasOwner'
    <3>1. UNCHANGED <<inTxn, writeActive>> /\ pg'.status = pg.status
      BY <1>0, <2>9 DEF ReleaseReadPin, WithoutPin, PgExec, PgSessions
    <3> QED BY <3>1, FlagKept
  <2>10. CASE ReleasePinsFails(t)
    <3>1. /\ UNCHANGED <<inTxn, writeActive>>
          /\ pg'.status \in {pg.status, "aborted"}
          /\ pg'.status # "lost" => pg.status # "lost"
      BY <1>0, <2>10 DEF ReleasePinsFails, PgError, PgSessions
    <3> QED BY <3>1, FlagKept
  <2> QED BY <1>1, <2>1, <2>2, <2>3, <2>4, <2>5, <2>6, <2>7, <2>8, <2>9, <2>10
          DEF Step, FinishBoundary
<1>2. CASE ConnectionLost
  <2>1. pg'.status = "lost"
    BY <1>0, <1>2 DEF ConnectionLost, PgLose, PgSessions
  <2> QED BY <2>1 DEF FlagMeansBlock, FlagHasOwner
<1>3. CASE UNCHANGED vars
  BY <1>3 DEF vars, FlagMeansBlock, FlagHasOwner
<1> QED BY <1>1, <1>2, <1>3 DEF Next, AllEnded

(* However transactions overlap, in_txn never outlives the transactions that *)
(* set it, and a live session that it announces has a block, so that the     *)
(* next EnsureWriteTxn sends its BEGIN: unless the server refuses a COMMIT.  *)
THEOREM FlagsHaveOwners ==
  ASSUME "refuse" \notin Faults
  PROVE  Spec => [](FlagHasOwner /\ FlagMeansBlock)
<1>1. Init => FlagMeansBlock /\ FlagHasOwner
  BY DEF Init, FlagMeansBlock, FlagHasOwner
<1>2. TypeOK /\ FlagMeansBlock /\ FlagHasOwner /\ [Next]_vars
        => FlagMeansBlock' /\ FlagHasOwner'
  BY FlagStep
<1> QED BY <1>1, <1>2, TypeCorrect, PTL DEF Spec

-----------------------------------------------------------------------------
(* Rows that were reported done.                                            *)

(* A transaction without a chunk has written nothing. *)
LEMMA NothingWritten ==
  ASSUME NEW t \in Txns, chunks[t] = 0
  PROVE  Wrote(t) = {}
BY DEF Wrote

(* A chunk that is done adds its rows to what its transaction wrote. *)
LEMMA ChunkExtends ==
  ASSUME TypeOK, TypeOK', NEW t \in Txns, Chunk(t)
  PROVE  /\ Wrote(t)' = Wrote(t) \cup ChunkRows(t, chunks[t] + 1)
         /\ \A u \in Txns \ {t} : Wrote(u)' = Wrote(u)
<1>1. /\ chunks'[t] = chunks[t] + 1 /\ chunks[t] \in Nat
      /\ \A u \in Txns \ {t} : chunks'[u] = chunks[u]
  BY ConstantsOK DEF Chunk, TypeOK
<1>2. 1..(chunks[t] + 1) = (1..chunks[t]) \cup {chunks[t] + 1}
  BY <1>1
<1>3. Wrote(t)' = Wrote(t) \cup ChunkRows(t, chunks[t] + 1)
  BY <1>1, <1>2 DEF Wrote, ChunkRows
<1> QED BY <1>1, <1>3 DEF Wrote

(* Nothing that r's predecessor s could see has gone. *)
Grows(s, r) ==
  /\ s.base.rows \subseteq r.base.rows
  /\ s.work.rows \subseteq r.work.rows

(* No command makes a session see less than what is durable. *)
LEMMA CommandsOnlyAdd ==
  ASSUME NEW s \in PgSessions(Database), OnlyAdds(s)
  PROVE  /\ OnlyAdds(PgBegin(s))
         /\ OnlyAdds(PgError(s))
         /\ OnlyAdds(PgRollback(s))
         /\ OnlyAdds(PgCommit(s))
         /\ OnlyAdds(PgLose(s))
         /\ \A rows \in SUBSET Row : OnlyAdds(WithRows(s, rows))
         /\ \A pin \in Pin : OnlyAdds(PinAndRender(s, pin))
         /\ \A pin \in Pin : OnlyAdds(WithoutPin(s, pin))
<1>1. OnlyAdds(PgBegin(s)) /\ OnlyAdds(PgError(s))
  BY DEF OnlyAdds, PgBegin, PgError, PgSessions
<1>2. OnlyAdds(PgRollback(s)) /\ OnlyAdds(PgLose(s))
  BY DEF OnlyAdds, PgRollback, PgLose, PgSessions
<1>3. OnlyAdds(PgCommit(s))
  BY DEF OnlyAdds, PgRollback, PgCommit, PgSessions
<1>4. \A rows \in SUBSET Row : OnlyAdds(WithRows(s, rows))
  BY DEF OnlyAdds, WithRows, PgExec, PgSessions, Database
<1>5. \A pin \in Pin : OnlyAdds(PinAndRender(s, pin)) /\ OnlyAdds(WithoutPin(s, pin))
  BY DEF OnlyAdds, PinAndRender, WithPin, WithoutPin, PgExec, PgSessions, Database
<1> QED BY <1>1, <1>2, <1>3, <1>4, <1>5

(* Only the end of a block, or of the session, can take rows out of sight. *)
LEMMA CommandsGrow ==
  ASSUME NEW s \in PgSessions(Database), OnlyAdds(s)
  PROVE  /\ Grows(s, PgBegin(s))
         /\ Grows(s, PgError(s))
         /\ \A rows \in SUBSET Row : Grows(s, WithRows(s, rows))
         /\ \A pin \in Pin : Grows(s, PinAndRender(s, pin))
         /\ \A pin \in Pin : Grows(s, WithoutPin(s, pin))
         /\ s.status # "aborted" => Grows(s, PgCommit(s))
         /\ s.status \in {"idle", "lost"} => Grows(s, PgRollback(s)) /\ Grows(s, PgLose(s))
<1>1. Grows(s, PgBegin(s)) /\ Grows(s, PgError(s))
  BY DEF Grows, PgBegin, PgError, PgSessions
<1>2. \A rows \in SUBSET Row : Grows(s, WithRows(s, rows))
  BY DEF OnlyAdds, Grows, WithRows, PgExec, PgSessions, Database
<1>3. \A pin \in Pin : Grows(s, PinAndRender(s, pin)) /\ Grows(s, WithoutPin(s, pin))
  BY DEF OnlyAdds, Grows, PinAndRender, WithPin, WithoutPin, PgExec, PgSessions, Database
<1>4. s.status # "aborted" => Grows(s, PgCommit(s))
  BY DEF OnlyAdds, Grows, PgRollback, PgCommit, PgSessions, PgStatus
<1>5. s.status \in {"idle", "lost"} => Grows(s, PgRollback(s)) /\ Grows(s, PgLose(s))
  BY DEF OnlyAdds, Grows, PgRollback, PgLose, PgSessions
<1> QED BY <1>1, <1>2, <1>3, <1>4, <1>5

(* A pin's own block, and the one that it joins, lose no row. *)
LEMMA AcquireOnlyAdds ==
  ASSUME NEW s \in PgSessions(Database), OnlyAdds(s), NEW pin \in Pin,
         ~inTxn => s.status = "idle"
  PROVE  OnlyAdds(Acquire(s, pin)) /\ Grows(s, Acquire(s, pin))
<1>1. CASE inTxn
  BY <1>1, CommandsOnlyAdd, CommandsGrow DEF Acquire
<1>2. CASE ~inTxn
  <2> DEFINE r == PinAndRender(PgBegin(s), pin)
  <2>1. PgBegin(s) \in PgSessions(Database) /\ PgBegin(s).status = "open"
    BY <1>2, SessionCommands DEF PgBegin, PgSessions
  <2>2. r \in PgSessions(Database) /\ OnlyAdds(r) /\ Grows(PgBegin(s), r)
    BY <2>1, SessionStatements, CommandsOnlyAdd, CommandsGrow
  <2>3. r.status = "open"
    BY <2>1 DEF PinAndRender, WithPin, PgExec, PgSessions
  <2> HIDE DEF r
  <2>4. OnlyAdds(PgCommit(r)) /\ Grows(r, PgCommit(r))
    BY <2>2, <2>3, CommandsOnlyAdd, CommandsGrow
  <2>5. Grows(s, PgBegin(s))
    BY CommandsGrow
  <2>6. Grows(s, PgCommit(r))
    BY <2>2, <2>4, <2>5 DEF Grows
  <2> QED BY <1>2, <2>4, <2>6 DEF Acquire, r
<1> QED BY <1>1, <1>2

(* Neither does an acquisition that fails, wherever it stops. *)
LEMMA AcquireFailsOnlyAdds ==
  ASSUME TypeOK, ServerTxnIsTracked, OnlyAdds(pg),
         NEW t \in Txns, NEW table \in Tables, GetPinnedScanFails(t, table)
  PROVE  OnlyAdds(pg') /\ Grows(pg, pg')
<1> DEFINE begun == IF inTxn THEN pg ELSE PgBegin(pg)
           pinned == PinAndRender(begun, PinRow(t, table))
<1>0. pg \in PgSessions(Database)
  BY DEF TypeOK
<1>1. CASE pg' = pg
  BY <1>1 DEF Grows
<1>2. CASE Answers
  <2>1. begun \in PgSessions(Database) /\ OnlyAdds(begun) /\ Grows(pg, begun)
    BY <1>0, SessionCommands, CommandsOnlyAdd, CommandsGrow DEF Grows
  <2>2. ~inTxn => /\ begun.status = "open"
                  /\ begun.work.rows = begun.base.rows
                  /\ begun.base.rows = pg.base.rows
                  /\ begun.work.rows = pg.work.rows
    BY <1>0, <1>2 DEF Answers, ServerTxnIsTracked, OnlyAdds, PgBegin, PgSessions
  <2> HIDE DEF begun
  <2>3. /\ pinned \in PgSessions(Database) /\ OnlyAdds(pinned) /\ Grows(begun, pinned)
        /\ ~inTxn => pinned.status = "open" /\ pinned.base.rows = pg.base.rows
    <3>1. PinRow(t, table) \in Pin
      BY PinRowsArePins
    <3>2. ~inTxn => pinned.status = "open" /\ pinned.base.rows = begun.base.rows
      BY <2>1, <2>2 DEF PinAndRender, WithPin, PgExec, PgSessions
    <3> QED BY <2>1, <2>2, <3>1, <3>2, SessionStatements, CommandsOnlyAdd, CommandsGrow
  <2> HIDE DEF pinned
  <2>4. CASE pg' = Abandon(PgError(begun))
    <3> DEFINE e == PgError(begun)
    <3>1. e \in PgSessions(Database) /\ OnlyAdds(e) /\ Grows(pg, e)
      BY <2>1, SessionCommands, CommandsOnlyAdd, CommandsGrow DEF Grows
    <3>2. ~inTxn => e.base.rows = pg.base.rows
      BY <2>1, <2>2 DEF PgError, PgSessions
    <3> HIDE DEF e
    <3>3. ~inTxn => PgRollback(e).base.rows = pg.base.rows /\ PgRollback(e).work.rows = pg.work.rows
      BY <2>2, <3>1, <3>2 DEF PgRollback, PgSessions
    <3> QED BY <2>4, <3>1, <3>3, CommandsOnlyAdd DEF Abandon, Grows, e
  <2>5. CASE pg' = Abandon(pinned)
    <3>1. ~inTxn => PgRollback(pinned).base.rows = pg.base.rows
                    /\ PgRollback(pinned).work.rows = pg.work.rows
      BY <2>2, <2>3 DEF PgRollback, PgSessions
    <3> QED BY <2>1, <2>3, <2>5, <3>1, CommandsOnlyAdd DEF Abandon, Grows
  <2>6. CASE ~inTxn /\ pg' = PgLose(PgCommit(pinned))
    <3> DEFINE c == PgCommit(pinned)
    <3>1. c \in PgSessions(Database) /\ OnlyAdds(c) /\ Grows(pinned, c) /\ c.status = "idle"
      BY <2>3, <2>6, SessionCommands, CommandsOnlyAdd, CommandsGrow DEF PgCommit, PgSessions
    <3> HIDE DEF c
    <3>2. OnlyAdds(PgLose(c)) /\ Grows(c, PgLose(c))
      BY <3>1, CommandsOnlyAdd, CommandsGrow
    <3> QED BY <2>1, <2>3, <2>6, <3>1, <3>2 DEF Grows, c
  <2> QED BY <1>2, <2>4, <2>5, <2>6, <1>1 DEF GetPinnedScanFails, begun, pinned
<1> QED BY <1>1, <1>2 DEF GetPinnedScanFails

(* Between the boundaries of transactions, rows only become visible. *)
LEMMA CallsOnlyAdd ==
  ASSUME TypeOK, ServerTxnIsTracked, OnlyAdds(pg), NEW t \in Txns, Step(t)
  PROVE  /\ OnlyAdds(pg')
         /\ CommitWrite(t) \/ CommitWriteFails(t) \/ RollbackWrite(t) \/ Grows(pg, pg')
<1>0. pg \in PgSessions(Database)
  BY DEF TypeOK
<1>1. CASE pg' = pg
  BY <1>1 DEF Grows
<1>2. ASSUME NEW table \in Tables, GetPinnedScan(t, table)
      PROVE  OnlyAdds(pg') /\ Grows(pg, pg')
  <2>1. ~inTxn => pg.status = "idle"
    BY <1>2 DEF GetPinnedScan, Answers, ServerTxnIsTracked
  <2> QED BY <1>0, <1>2, <2>1, PinRowsArePins, AcquireOnlyAdds DEF GetPinnedScan
<1>3. CASE EnsureWriteTxn(t)
  <2>1. pg' = pg \/ pg' = PgBegin(pg)
    BY <1>3 DEF EnsureWriteTxn, TxnBegin
  <2> QED BY <1>0, <1>1, <2>1, CommandsOnlyAdd, CommandsGrow
<1>4. ASSUME NEW rows \in SUBSET Row,
             pg' = WithRows(pg, rows) \/ pg' = PgError(WithRows(pg, rows))
      PROVE  OnlyAdds(pg') /\ Grows(pg, pg')
  <2> DEFINE r == WithRows(pg, rows)
  <2>1. r \in PgSessions(Database) /\ OnlyAdds(r) /\ Grows(pg, r)
    BY <1>0, SessionStatements, CommandsOnlyAdd, CommandsGrow
  <2>2. OnlyAdds(PgError(r)) /\ Grows(r, PgError(r))
    BY <2>1, CommandsOnlyAdd, CommandsGrow
  <2> HIDE DEF r
  <2> QED BY <1>4, <2>1, <2>2 DEF Grows, r
<1>5. CASE Chunk(t)
  <2>1. ChunkRows(t, chunks[t] + 1) \in SUBSET Row
    BY <1>5, ConstantsOK, ChunkRowsAreRows DEF Chunk, TypeOK
  <2> QED BY <1>4, <1>5, <2>1 DEF Chunk
<1>6. CASE ChunkFails(t)
  <2>1. ChunkRows(t, chunks[t] + 1) \in SUBSET Row
    BY <1>6, ConstantsOK, ChunkRowsAreRows DEF ChunkFails, TypeOK
  <2>2. CASE pg' # pg
    <3>1. PICK done \in SUBSET ChunkRows(t, chunks[t] + 1) :
            pg' = WithRows(pg, done) \/ pg' = PgError(WithRows(pg, done))
      BY <1>6, <2>2 DEF ChunkFails
    <3> QED BY <1>4, <2>1, <3>1
  <2> QED BY <1>1, <2>2
<1>7. CASE CommitWrite(t) \/ CommitWriteFails(t) \/ RollbackWrite(t)
  <2>1. pg' \in {pg, PgRollback(pg), PgCommit(pg), PgLose(pg), PgLose(PgCommit(pg))}
    BY <1>7 DEF CommitWrite, CommitWriteFails, RollbackWrite, TxnCommit, TxnRollback, conn
  <2>2. OnlyAdds(PgLose(PgCommit(pg)))
    BY <1>0, SessionCommands, CommandsOnlyAdd
  <2> QED BY <1>0, <1>7, <2>1, <2>2, CommandsOnlyAdd
<1>8. ASSUME NEW table \in Tables, ReleaseReadPin(t, table)
      PROVE  OnlyAdds(pg') /\ Grows(pg, pg')
  BY <1>0, <1>8, PinRowsArePins, CommandsOnlyAdd, CommandsGrow DEF ReleaseReadPin
<1>9. CASE ReleasePinsFails(t)
  BY <1>0, <1>9, CommandsOnlyAdd, CommandsGrow DEF ReleasePinsFails
<1>10. CASE StartTransaction(t) \/ EnsureWriteTxnFails(t) \/ EndTransaction(t)
  BY <1>1, <1>10 DEF StartTransaction, EnsureWriteTxnFails, EndTransaction, conn
<1> QED BY <1>2, <1>3, <1>5, <1>6, <1>7, <1>8, <1>9, <1>10, AcquireFailsOnlyAdds
        DEF Step, FinishBoundary

-----------------------------------------------------------------------------
(* No commit that reports success silently loses a row.                     *)

(* A transaction that was told of a failure stays failed. *)
LEMMA FailuresStay ==
  ASSUME TypeOK, EndsAreRecorded, [Next]_vars, NEW u \in Txns, Failed(u)
  PROVE  Failed(u)'
<1>1. ASSUME NEW t \in Txns, Step(t) PROVE Failed(u)'
  <2>1. CASE UNCHANGED <<verdict, error>> /\ \/ phase'[u] = phase[u]
                                             \/ phase[u] # "failed"
    BY <2>1 DEF Failed
  <2>2. CASE CommitWrite(t) \/ CommitWriteFails(t) \/ RollbackWrite(t)
    <3>1. /\ t # u => phase'[u] = phase[u] /\ verdict'[u] = verdict[u]
          /\ phase[t] = "failed" => verdict'[t] = "rolled_back"
          /\ phase[t] \in {"active", "failed"}
          /\ error[u] => error'[u]
      BY <2>2 DEF CommitWrite, CommitWriteFails, RollbackWrite, ReportCommitError,
                  LeaveWrite, TypeOK
    <3>2. verdict[t] = "none"
      BY <3>1 DEF EndsAreRecorded
    <3> QED BY <3>1, <3>2 DEF Failed
  <2>3. CASE ReleasePinsFails(t)
    BY <2>3 DEF ReleasePinsFails, Failed, TypeOK
  <2>4. ASSUME UNCHANGED <<verdict, error>>,
               phase' = phase \/ \E p \in {"active", "failed", "ended"} :
                 phase[t] \in {"new", "active", "releasing"} /\ phase' = [phase EXCEPT ![t] = p]
        PROVE  Failed(u)'
    BY <2>1, <2>4 DEF TypeOK
  <2> QED BY <1>1, <2>2, <2>3, <2>4
          DEF Step, FinishBoundary, StartTransaction, GetPinnedScan, GetPinnedScanFails,
              EnsureWriteTxn, EnsureWriteTxnFails, Chunk, ChunkFails, ReleaseReadPin,
              EndTransaction, Invalidate, outcome
<1>2. CASE ConnectionLost \/ UNCHANGED vars
  BY <1>2 DEF ConnectionLost, vars, outcome, Failed
<1> QED BY <1>1, <1>2 DEF Next, AllEnded

(* A transaction that is about to fail has failed by the end of the step. *)
LEMMA FailingCalls ==
  ASSUME TypeOK, EndsAreRecorded, NEW t \in Txns,
         \/ \E table \in Tables : GetPinnedScanFails(t, table)
         \/ EnsureWriteTxnFails(t) \/ ChunkFails(t) \/ CommitWriteFails(t)
         \/ RollbackWrite(t) \/ ReleasePinsFails(t)
  PROVE  /\ Failed(t)'
         /\ phase'[t] \in {"failed", "releasing"}
         /\ chunks' = chunks
         /\ verdict'[t] = "committed" => verdict[t] = "committed"
         /\ \A u \in Txns \ {t} : phase'[u] = phase[u] /\ verdict'[u] = verdict[u]
BY DEF GetPinnedScanFails, EnsureWriteTxnFails, ChunkFails, CommitWriteFails,
       RollbackWrite, ReleasePinsFails, Invalidate, LeaveWrite, ReportCommitError,
       outcome, Failed, TypeOK

(* The block is doomed only by a call that fails. *)
LEMMA DoomStep ==
  ASSUME TypeOK, ServerTxnIsTracked, EndsAreRecorded, DoomHasCulprit, [Next]_vars
  PROVE  DoomHasCulprit'
<1>0. pg \in PgSessions(Database)
  BY DEF TypeOK
<1>1. pg.status = "aborted" => DoomHasCulprit'
  BY FailuresStay DEF DoomHasCulprit
<1>2. ASSUME NEW t \in Txns, Step(t), pg.status # "aborted", pg'.status = "aborted"
      PROVE  Failed(t)'
  <2>1. ASSUME NEW table \in Tables, GetPinnedScan(t, table) PROVE FALSE
    BY <1>0, <1>2, <2>1 DEF GetPinnedScan, Acquire, PinAndRender, WithPin, PgBegin,
                            PgExec, PgCommit, PgRollback, PgSessions
  <2>2. ASSUME NEW table \in Tables, ReleaseReadPin(t, table) PROVE FALSE
    BY <1>0, <1>2, <2>2 DEF ReleaseReadPin, WithoutPin, PgExec, PgSessions
  <2>3. ~EnsureWriteTxn(t)
    BY <1>0, <1>2 DEF EnsureWriteTxn, TxnBegin, PgBegin, PgSessions
  <2>4. ~Chunk(t)
    BY <1>0, <1>2 DEF Chunk, WithRows, PgExec, PgSessions
  <2>5. ~CommitWrite(t)
    BY <1>0, <1>2 DEF CommitWrite, TxnCommit, PgCommit, PgRollback, PgSessions, conn
  <2>6. ~StartTransaction(t) /\ ~EndTransaction(t)
    BY <1>2 DEF StartTransaction, EndTransaction, conn
  <2> QED BY <1>2, <2>1, <2>2, <2>3, <2>4, <2>5, <2>6, FailingCalls
          DEF Step, FinishBoundary
<1>3. CASE ConnectionLost
  BY <1>0, <1>3 DEF ConnectionLost, PgLose, PgSessions, DoomHasCulprit
<1>4. CASE UNCHANGED vars
  BY <1>1, <1>4 DEF vars, DoomHasCulprit
<1> QED BY <1>1, <1>2, <1>3, <1>4 DEF Next, AllEnded, DoomHasCulprit

(* The verdict and the error are set at the boundary, and not before; nothing *)
(* is written before EnsureWriteTxn.                                         *)
LEMMA EndsStep ==
  ASSUME TypeOK, EndsAreRecorded, [Next]_vars
  PROVE  EndsAreRecorded'
<1>1. ASSUME NEW t \in Txns, Step(t) PROVE EndsAreRecorded'
  <2>1. CASE StartTransaction(t)
    BY <2>1 DEF StartTransaction, TypeOK, EndsAreRecorded, conn, outcome
  <2>2. CASE EnsureWriteTxn(t)
    BY <2>2 DEF EnsureWriteTxn, TypeOK, EndsAreRecorded, outcome
  <2>3. CASE Chunk(t)
    BY <2>3 DEF Chunk, TypeOK, EndsAreRecorded, outcome
  <2>4. CASE CommitWrite(t) \/ CommitWriteFails(t) \/ RollbackWrite(t)
    BY <2>4 DEF CommitWrite, CommitWriteFails, RollbackWrite, ReportCommitError,
                LeaveWrite, TypeOK, EndsAreRecorded
  <2>5. CASE ReleasePinsFails(t)
    BY <2>5 DEF ReleasePinsFails, TypeOK, EndsAreRecorded
  <2>6. CASE EndTransaction(t)
    BY <2>6 DEF EndTransaction, TypeOK, EndsAreRecorded, outcome
  <2>7. ASSUME phase[t] = "active", Invalidate(t) PROVE EndsAreRecorded'
    BY <2>7 DEF Invalidate, TypeOK, EndsAreRecorded, outcome
  <2>8. CASE \E table \in Tables : GetPinnedScan(t, table) \/ ReleaseReadPin(t, table)
    BY <2>8 DEF GetPinnedScan, ReleaseReadPin, EndsAreRecorded, outcome
  <2> QED BY <1>1, <2>1, <2>2, <2>3, <2>4, <2>5, <2>6, <2>7, <2>8
          DEF Step, FinishBoundary, GetPinnedScanFails, EnsureWriteTxnFails, ChunkFails
<1>2. CASE ConnectionLost \/ UNCHANGED vars
  BY <1>2 DEF ConnectionLost, vars, outcome, EndsAreRecorded
<1> QED BY <1>1, <1>2 DEF Next, AllEnded

(* A step in which no row goes out of sight and none is reported done. *)
LEMMA NothingLost ==
  ASSUME TypeOK, LossInv, [Next]_vars, Grows(pg, pg'), chunks' = chunks,
         pg.status = "lost" /\ inTxn => pg'.status = "lost" /\ inTxn',
         \A u \in Txns : /\ phase'[u] = "active" => phase[u] \in {"new", "active"}
                         /\ verdict'[u] = "committed" => verdict[u] = "committed"
  PROVE  WritesAreSeen' /\ LossIsReported'
<1>1. \A u \in Txns : Wrote(u)' = Wrote(u) /\ (AnotherFailed(u) => AnotherFailed(u)')
  BY FailuresStay DEF Wrote, AnotherFailed, LossInv
<1>2. \A u \in Txns : phase[u] = "new" => Wrote(u) = {}
  BY NothingWritten DEF LossInv, EndsAreRecorded
<1>3. WritesAreSeen'
  BY <1>1, <1>2 DEF WritesAreSeen, LossInv, Grows
<1>4. LossIsReported'
  BY <1>1 DEF LossIsReported, LossInv, Grows
<1> QED BY <1>3, <1>4

(* A step in which a transaction fails: none of the others counts any more. *)
LEMMA BlameTaken ==
  ASSUME TypeOK, LossInv, [Next]_vars, NEW t \in Txns, Failed(t)', chunks' = chunks,
         phase'[t] # "active",
         verdict'[t] = "committed" =>
           verdict[t] = "committed" /\ pg.base.rows \subseteq pg'.base.rows
  PROVE  WritesAreSeen' /\ LossIsReported'
<1>1. \A u \in Txns \ {t} : AnotherFailed(u)'
  BY DEF AnotherFailed
<1>2. Wrote(t)' = Wrote(t) /\ (AnotherFailed(t) => AnotherFailed(t)')
  BY FailuresStay DEF Wrote, AnotherFailed, LossInv
<1> QED BY <1>1, <1>2 DEF WritesAreSeen, LossIsReported, LossInv

(* A chunk that is reported done is in sight of the session. *)
LEMMA ChunkIsSeen ==
  ASSUME TypeOK, TypeOK', LossInv, [Next]_vars, NEW t \in Txns, Chunk(t)
  PROVE  WritesAreSeen' /\ LossIsReported'
<1> DEFINE new == ChunkRows(t, chunks[t] + 1)
<1>1. /\ phase[t] = "active" /\ pg.status # "lost"
      /\ UNCHANGED <<phase, verdict>>
  BY DEF Chunk, Answers, outcome
<1>2. Grows(pg, pg') /\ new \subseteq pg'.work.rows
  <2>1. Grows(pg, pg')
    <3>1. ~CommitWrite(t) /\ ~CommitWriteFails(t) /\ ~RollbackWrite(t)
      BY DEF Chunk, CommitWrite, CommitWriteFails, RollbackWrite, LeaveWrite, TypeOK
    <3> QED BY <3>1, CallsOnlyAdd DEF LossInv, Step
  <2>2. pg'.work.rows = pg.work.rows \cup new
    BY DEF Chunk, WithRows, PgExec, TypeOK, PgSessions, Database
  <2> QED BY <2>1, <2>2
<1>3. \A u \in Txns : AnotherFailed(u) => AnotherFailed(u)'
  BY FailuresStay DEF AnotherFailed, LossInv
<1>4. verdict[t] = "none"
  BY <1>1 DEF LossInv, EndsAreRecorded
<1> HIDE DEF new
<1>5. Wrote(t)' = Wrote(t) \cup new /\ \A u \in Txns \ {t} : Wrote(u)' = Wrote(u)
  BY ChunkExtends DEF new
<1>6. WritesAreSeen'
  BY <1>1, <1>2, <1>3, <1>5 DEF WritesAreSeen, LossInv, Grows
<1>7. LossIsReported'
  BY <1>1, <1>2, <1>3, <1>4, <1>5 DEF LossIsReported, LossInv, Grows
<1> QED BY <1>6, <1>7

(* COMMIT makes durable what the session sees; it loses a block only if the  *)
(* block was doomed, and then by a transaction that has failed.              *)
LEMMA CommitLosesNothing ==
  ASSUME TypeOK, LossInv, [Next]_vars, NEW t \in Txns, CommitWrite(t)
  PROVE  WritesAreSeen' /\ LossIsReported'
<1>0. /\ pg \in PgSessions(Database) /\ OnlyAdds(pg)
      /\ phase[t] = "active" /\ phase'[t] = "releasing"
      /\ verdict[t] = "none" /\ ~error[t]
      /\ \A u \in Txns \ {t} : phase'[u] = phase[u] /\ verdict'[u] = verdict[u]
      /\ chunks' = chunks
  BY DEF CommitWrite, LeaveWrite, TypeOK, LossInv, EndsAreRecorded
<1>1. \A u \in Txns : Wrote(u)' = Wrote(u) /\ (AnotherFailed(u) => AnotherFailed(u)')
  BY <1>0, FailuresStay DEF Wrote, AnotherFailed, LossInv
<1>2. CASE writeActive[t] /\ inTxn /\ pg.status = "aborted"
  <2>1. PICK u \in Txns : Failed(u)
    BY <1>2 DEF LossInv, DoomHasCulprit
  <2>2. \A v \in Txns : phase[v] = "active" => AnotherFailed(v)
    <3>1. \A v \in Txns : phase[v] = "active" => ~Failed(v)
      BY DEF LossInv, EndsAreRecorded, Failed
    <3> QED BY <2>1, <3>1 DEF AnotherFailed
  <2>3. pg'.base.rows = pg.base.rows
    BY <1>0, <1>2 DEF CommitWrite, TxnCommit, PgCommit, PgRollback, PgSessions
  <2>4. WritesAreSeen'
    BY <1>0, <1>1, <2>2 DEF WritesAreSeen
  <2>5. LossIsReported'
    BY <1>0, <1>1, <2>2, <2>3 DEF LossIsReported, LossInv
  <2> QED BY <2>4, <2>5
<1>3. CASE ~(writeActive[t] /\ inTxn /\ pg.status = "aborted")
  <2>1. /\ Grows(pg, pg')
        /\ pg'.status \in {"idle", "lost"}  \/ (~writeActive[t] /\ pg' = pg)
        /\ (pg' = pg /\ inTxn' = inTxn) \/ (pg.status # "lost")
    <3>1. CASE writeActive[t] /\ inTxn
      <4>1. pg' = PgCommit(pg) /\ pg.status # "lost"
        BY <3>1 DEF CommitWrite, TxnCommit
      <4>2. PgCommit(pg).status = "idle"
        BY <1>0 DEF PgCommit, PgRollback, PgSessions
      <4> QED BY <1>0, <1>3, <3>1, <4>1, <4>2, CommandsGrow
    <3>2. CASE ~(writeActive[t] /\ inTxn)
      <4>1. pg' = pg /\ inTxn' = inTxn
        BY <3>2 DEF CommitWrite, TxnCommit, conn
      <4>2. writeActive[t] => pg.status \in {"idle", "lost"}
        BY <1>0, <3>2 DEF LossInv, ServerTxnIsTracked, PgSessions, PgStatus
      <4> QED BY <4>1, <4>2 DEF Grows
    <3> QED BY <3>1, <3>2
  <2>2. ~AnotherFailed(t)' => Wrote(t) \subseteq pg'.base.rows
    <3>1. CASE ~writeActive[t]
      BY <1>0, <3>1, NothingWritten DEF LossInv, EndsAreRecorded
    <3>2. CASE writeActive[t]
      <4>1. pg'.work.rows = pg'.base.rows
        BY <2>1, <3>2, CallsOnlyAdd DEF LossInv, OnlyAdds, Step
      <4>2. ~(pg.status = "lost" /\ inTxn)
        BY <3>2 DEF CommitWrite, TxnCommit
      <4>3. ~AnotherFailed(t)' => Wrote(t) \subseteq pg.work.rows
        BY <1>0, <1>1, <4>2 DEF LossInv, WritesAreSeen
      <4> QED BY <2>1, <4>1, <4>3 DEF Grows
    <3> QED BY <3>1, <3>2
  <2>3. pg.status = "lost" /\ inTxn => pg'.status = "lost" /\ inTxn'
    BY <2>1
  <2>4. WritesAreSeen'
    BY <1>0, <1>1, <2>1, <2>3 DEF WritesAreSeen, LossInv, Grows
  <2>5. LossIsReported'
    BY <1>0, <1>1, <2>1, <2>2 DEF LossIsReported, LossInv, Grows
  <2> QED BY <2>4, <2>5
<1> QED BY <1>2, <1>3

(* A lost connection loses a block only under in_txn, and the client, which   *)
(* never reopens the session, then cannot send the COMMIT.                   *)
LEMMA LostIsKnown ==
  ASSUME TypeOK, LossInv, [Next]_vars, ConnectionLost
  PROVE  OnlyAdds(pg)' /\ WritesAreSeen' /\ LossIsReported'
<1>0. /\ pg \in PgSessions(Database) /\ pg' = PgLose(pg) /\ pg'.status = "lost"
      /\ UNCHANGED <<inTxn, phase, chunks, verdict>>
  BY DEF ConnectionLost, TypeOK, PgLose, PgSessions, outcome
<1>1. \A u \in Txns : Wrote(u)' = Wrote(u) /\ (AnotherFailed(u) => AnotherFailed(u)')
  BY <1>0, FailuresStay DEF Wrote, AnotherFailed, LossInv
<1>2. OnlyAdds(pg)' /\ pg'.base.rows = pg.base.rows
  BY <1>0, CommandsOnlyAdd DEF LossInv, PgLose, PgSessions
<1>3. ~inTxn => Grows(pg, pg')
  <2>1. ~inTxn => pg.status \in {"idle", "lost"}
    BY <1>0 DEF LossInv, ServerTxnIsTracked, PgSessions, PgStatus
  <2> QED BY <1>0, <2>1, CommandsGrow DEF LossInv
<1>4. WritesAreSeen'
  BY <1>0, <1>1, <1>3 DEF WritesAreSeen, LossInv, Grows
<1>5. LossIsReported'
  BY <1>0, <1>1, <1>2 DEF LossIsReported, LossInv
<1> QED BY <1>2, <1>4, <1>5

(* Each call keeps the account of what was written. *)
LEMMA LossStep ==
  ASSUME TypeOK, TypeOK', LossInv, [Next]_vars
  PROVE  LossInv'
<1>1. ServerTxnIsTracked' /\ DoomHasCulprit' /\ EndsAreRecorded'
  BY TrackedStep, DoomStep, EndsStep DEF LossInv
<1>2. ASSUME NEW t \in Txns, Step(t)
      PROVE  OnlyAdds(pg)' /\ WritesAreSeen' /\ LossIsReported'
  <2>1. /\ OnlyAdds(pg)'
        /\ CommitWrite(t) \/ CommitWriteFails(t) \/ RollbackWrite(t) \/ Grows(pg, pg')
    BY <1>2, CallsOnlyAdd DEF LossInv
  <2>2. CASE CommitWrite(t)
    BY <2>1, <2>2, CommitLosesNothing
  <2>3. CASE CommitWriteFails(t) \/ RollbackWrite(t)
    <3>1. verdict'[t] # "committed"
      BY <2>3 DEF CommitWriteFails, RollbackWrite, ReportCommitError, TypeOK
    <3> QED BY <2>1, <2>3, <3>1, FailingCalls, BlameTaken DEF LossInv
  <2>4. CASE Chunk(t)
    BY <2>1, <2>4, ChunkIsSeen
  <2>5. CASE ~CommitWrite(t) /\ ~CommitWriteFails(t) /\ ~RollbackWrite(t) /\ ~Chunk(t)
    <3>1. Grows(pg, pg')
      BY <2>1, <2>5
    <3>2. CASE \/ \E table \in Tables : GetPinnedScanFails(t, table)
               \/ EnsureWriteTxnFails(t) \/ ChunkFails(t) \/ ReleasePinsFails(t)
      BY <2>1, <3>1, <3>2, FailingCalls, BlameTaken DEF LossInv, Grows
    <3>3. CASE ~ \/ \E table \in Tables : GetPinnedScanFails(t, table)
                 \/ EnsureWriteTxnFails(t) \/ ChunkFails(t) \/ ReleasePinsFails(t)
      <4>1. /\ chunks' = chunks /\ verdict' = verdict
            /\ pg.status = "lost" /\ inTxn => pg' = pg /\ inTxn'
        BY <1>2, <2>5, <3>3
           DEF Step, FinishBoundary, StartTransaction, GetPinnedScan, EnsureWriteTxn,
               TxnBegin, ReleaseReadPin, EndTransaction, Answers, conn, outcome
      <4>2. \A u \in Txns : phase'[u] = "active" => phase[u] \in {"new", "active"}
        BY <1>2, <2>5, <3>3
           DEF Step, FinishBoundary, StartTransaction, GetPinnedScan, EnsureWriteTxn,
               ReleaseReadPin, EndTransaction, TypeOK
      <4> QED BY <2>1, <3>1, <4>1, <4>2, NothingLost
    <3> QED BY <3>2, <3>3
  <2> QED BY <2>2, <2>3, <2>4, <2>5
<1>3. CASE ConnectionLost
  BY <1>1, <1>3, LostIsKnown DEF LossInv
<1>4. CASE UNCHANGED vars
  <2>1. /\ Grows(pg, pg') /\ OnlyAdds(pg)'
        /\ UNCHANGED <<pg, inTxn, phase, chunks, verdict>>
    BY <1>4 DEF vars, Grows, LossInv
  <2> QED BY <1>1, <2>1, NothingLost DEF LossInv
<1> QED BY <1>1, <1>2, <1>3, <1>4 DEF Next, AllEnded, LossInv

(* "the whole DuckDB transaction must report failure, not silently drop      *)
(* writes" (tierdb_transaction_manager.cpp:22), with no assumption on the    *)
(* application or on what may fail: a row that was reported done and that a  *)
(* commit reporting success has not made durable was lost to a failure that  *)
(* another transaction of the shared session was told of.                    *)
THEOREM LossesAreReported == Spec => []LossIsReported
<1>1. ASSUME Init PROVE LossInv
  <2>1. OnlyAdds(pg) /\ ServerTxnIsTracked /\ DoomHasCulprit
    BY <1>1 DEF Init, OnlyAdds, ServerTxnIsTracked, DoomHasCulprit
  <2>2. EndsAreRecorded
    BY <1>1 DEF Init, EndsAreRecorded
  <2>3. WritesAreSeen /\ LossIsReported
    BY <1>1 DEF Init, WritesAreSeen, LossIsReported
  <2> QED BY <2>1, <2>2, <2>3 DEF LossInv
<1>2. TypeOK /\ TypeOK' /\ LossInv /\ [Next]_vars => LossInv'
  BY LossStep
<1>3. LossInv => LossIsReported
  BY DEF LossInv
<1> QED BY <1>1, <1>2, <1>3, TypeCorrect, PTL DEF Spec

=============================================================================
