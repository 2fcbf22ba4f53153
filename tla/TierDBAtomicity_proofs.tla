----------------------- MODULE TierDBAtomicity_proofs -----------------------
(***************************************************************************)
(* The writes of a transaction are atomic under the assumption Ordered: the *)
(* boundary implements AtomicTxns.  Under Sheltered they are durable, too.  *)
(***************************************************************************)
EXTENDS TierDBTransaction_proofs

(* What the invariant sees of a session is the same in both. *)
SameRows(s, r) ==
  /\ r.status = s.status
  /\ r.base.rows = s.base.rows
  /\ r.work.rows = s.work.rows

-----------------------------------------------------------------------------
(* Rows.                                                                    *)

(* Rows reported done by a transaction's chunks are rows of that transaction. *)
LEMMA WroteIsOwn ==
  ASSUME TypeOK, NEW t \in Txns
  PROVE  Wrote(t) \subseteq RowsOf(t)
BY ConstantsOK DEF TypeOK, Wrote, RowsOf

(* Two transactions never write the same row statement. *)
LEMMA OwnRowsAreApart ==
  ASSUME NEW t \in Txns, NEW u \in Txns, t # u
  PROVE  RowsOf(t) \cap RowsOf(u) = {}
BY DEF RowsOf

-----------------------------------------------------------------------------
(* Commands about pins leave the rows alone.                                *)

(* The INSERT and the DELETE of a pin row touch no heap or delta row. *)
LEMMA PinStatementsKeepRows ==
  ASSUME NEW s \in PgSessions(Database), NEW pin \in Pin,
         s.status = "open" \/ s.work.rows = s.base.rows
  PROVE  /\ SameRows(s, PinAndRender(s, pin))
         /\ SameRows(s, WithoutPin(s, pin))
BY DEF SameRows, PinAndRender, WithPin, WithoutPin, PgExec, PgSessions, Database

(* A pin's own block begins and ends inside the call. *)
LEMMA AcquireKeepsRows ==
  ASSUME TypeOK, WriteInv, Answers, NEW pin \in Pin
  PROVE  SameRows(pg, Acquire(pg, pin))
<1>0. pg \in PgSessions(Database)
  BY DEF TypeOK
<1>1. CASE inTxn
  <2>1. pg.status = "open"
    BY <1>1 DEF WriteInv, FlagMeansBlock, Answers
  <2> QED BY <1>0, <1>1, <2>1, PinStatementsKeepRows DEF Acquire
<1>2. CASE ~inTxn
  <2>1. pg.status = "idle" /\ pg.work.rows = pg.base.rows
    BY <1>2 DEF WriteInv, ServerTxnIsTracked, BlockHolds, Answers
  <2>2. /\ PgBegin(pg) \in PgSessions(Database)
        /\ PgBegin(pg).status = "open"
        /\ PgBegin(pg).work.rows = pg.work.rows
        /\ PgBegin(pg).base.rows = pg.base.rows
    BY <1>0, <2>1, SessionCommands DEF PgBegin, PgSessions
  <2> DEFINE r == PinAndRender(PgBegin(pg), pin)
  <2>3. SameRows(PgBegin(pg), r) /\ r \in PgSessions(Database)
    BY <2>2, PinStatementsKeepRows, SessionStatements
  <2> HIDE DEF r
  <2>4. PgCommit(r) = [r EXCEPT !.status = "idle", !.base = r.work]
    BY <2>2, <2>3 DEF PgCommit, SameRows
  <2>5. SameRows(pg, PgCommit(r))
    BY <2>1, <2>2, <2>3, <2>4 DEF SameRows, PgSessions
  <2> QED BY <1>2, <2>5 DEF Acquire, r
<1> QED BY <1>1, <1>2

-----------------------------------------------------------------------------
(* The invariant is inductive.                                              *)

(* A fresh connection (Conn::connect) satisfies the invariant. *)
LEMMA WriteInit == Init => WriteInv
<1> SUFFICES ASSUME Init PROVE WriteInv
  OBVIOUS
<1>1. AtMostOneOpen
  BY ConstantsOK DEF Init, AtMostOneOpen, Open
<1>2. WritingIsFlagged /\ FlagMeansBlock /\ FlagHasOwner /\ ServerTxnIsTracked
  BY DEF Init, WritingIsFlagged, FlagMeansBlock, FlagHasOwner, ServerTxnIsTracked
<1>3. BlockHolds
  BY DEF Init, BlockHolds
<1>4. Undecided
  BY DEF Init, Undecided
<1>5. CommitIsWhole /\ RollbackLeavesNothing
  BY DEF Init, CommitIsWhole, RollbackLeavesNothing
<1> QED BY <1>1, <1>2, <1>3, <1>4, <1>5 DEF WriteInv

(* A step that keeps the rows and decides nothing.  Every lemma on a step also *)
(* says what becomes of the durable rows, for the refinement below.           *)
LEMMA QuietStep ==
  ASSUME TypeOK, TypeOK', WriteInv, SameRows(pg, pg'),
         UNCHANGED <<inTxn, writeActive, chunks, verdict>>,
         \A u \in Txns : \/ phase'[u] = phase[u]
                         \/ phase[u] = "active" /\ phase'[u] = "failed"
                         \/ phase[u] = "releasing" /\ phase'[u] = "ended"
  PROVE  /\ WriteInv'
         /\ pg'.base.rows = pg.base.rows
<1>1. \A u \in Txns : Wrote(u)' = Wrote(u)
  BY DEF Wrote
<1>2. \A u \in Txns : Open(u)' => Open(u)
  BY DEF Open
<1>3. AtMostOneOpen'
  BY <1>2, ConstantsOK DEF WriteInv, AtMostOneOpen
<1>4. WritingIsFlagged'
  BY DEF WriteInv, WritingIsFlagged
<1>5. FlagMeansBlock' /\ FlagHasOwner' /\ ServerTxnIsTracked'
  BY DEF WriteInv, FlagMeansBlock, FlagHasOwner, ServerTxnIsTracked, SameRows
<1>6. BlockHolds'
  BY <1>1 DEF WriteInv, BlockHolds, WritingIsFlagged, SameRows
<1>7. Undecided'
  BY DEF WriteInv, Undecided, SameRows
<1>8. CommitIsWhole' /\ RollbackLeavesNothing'
  BY <1>1 DEF WriteInv, CommitIsWhole, RollbackLeavesNothing, SameRows
<1> QED BY <1>3, <1>4, <1>5, <1>6, <1>7, <1>8 DEF WriteInv, SameRows

(* A step in which the transaction t fails, and the durable rows are kept. *)
LEMMA FailingStep ==
  ASSUME TypeOK, TypeOK', WriteInv, NEW t \in Txns,
         phase[t] = "active",
         phase' = [phase EXCEPT ![t] = "failed"],
         UNCHANGED <<inTxn, writeActive, chunks, verdict>>,
         pg'.base.rows = pg.base.rows,
         pg'.status \in {"idle", "lost"} => pg'.work.rows = pg.base.rows,
         inTxn /\ pg'.status # "lost" => pg'.status \in {"open", "aborted"},
         pg'.status \in {"open", "aborted"} => inTxn,
         inTxn /\ pg'.status # "lost" => pg.status # "lost",
         inTxn => \/ writeActive[t]
                  \/ SameRows(pg, pg')
                  \/ ReadersMayDoom /\ pg'.status = "aborted"
  PROVE  /\ WriteInv'
         /\ pg'.base.rows = pg.base.rows
<1>0. phase'[t] = "failed" /\ \A u \in Txns \ {t} : phase'[u] = phase[u]
  BY DEF TypeOK
<1>1. \A u \in Txns : Wrote(u)' = Wrote(u)
  BY DEF Wrote
<1>2. \A u \in Txns : Open(u)' => Open(u)
  BY <1>0 DEF Open
<1>3. AtMostOneOpen'
  BY <1>2, ConstantsOK DEF WriteInv, AtMostOneOpen
<1>4. WritingIsFlagged'
  BY <1>0 DEF WriteInv, WritingIsFlagged
<1>5. FlagMeansBlock' /\ FlagHasOwner' /\ ServerTxnIsTracked'
  BY DEF WriteInv, FlagMeansBlock, FlagHasOwner, ServerTxnIsTracked
<1>6. BlockHolds'
  <2> SUFFICES ASSUME NEW u \in Txns, writeActive'[u]
               PROVE  /\ pg'.status = "open" /\ phase'[u] = "active" =>
                           pg'.work.rows = pg'.base.rows \cup Wrote(u)'
                      /\ pg'.status = "aborted" => phase'[u] = "failed" \/ ReadersMayDoom
    BY DEF BlockHolds
  <2>1. CASE u = t
    BY <1>0, <2>1
  <2>2. CASE u # t
    <3>1. inTxn /\ u \in Writers /\ Open(u)
      BY DEF WriteInv, WritingIsFlagged, Open
    <3>2. ~writeActive[t]
      BY <2>2, <3>1 DEF WriteInv, WritingIsFlagged, AtMostOneOpen, Open
    <3>3. SameRows(pg, pg') \/ (ReadersMayDoom /\ pg'.status = "aborted")
      BY <3>1, <3>2
    <3> QED BY <1>0, <1>1, <2>2, <3>3 DEF WriteInv, BlockHolds, SameRows
  <2> QED BY <2>1, <2>2
<1>7. Undecided'
  BY <1>0 DEF WriteInv, Undecided
<1>8. CommitIsWhole' /\ RollbackLeavesNothing'
  BY <1>1 DEF WriteInv, CommitIsWhole, RollbackLeavesNothing
<1> QED BY <1>3, <1>4, <1>5, <1>6, <1>7, <1>8 DEF WriteInv

(* A step at which the transaction t meets its boundary: rows of t alone may *)
(* become durable, and the block of t, if it had one, is gone.               *)
LEMMA BoundaryStep ==
  ASSUME TypeOK, TypeOK', WriteInv, NEW t \in Txns,
         phase[t] \in {"active", "failed"},
         phase' = [phase EXCEPT ![t] = "releasing"],
         writeActive' = [writeActive EXCEPT ![t] = FALSE],
         UNCHANGED chunks,
         NEW decision \in {"committed", "commit_failed", "rolled_back"},
         verdict' = [verdict EXCEPT ![t] = decision],
         pg'.base.rows \in {pg.base.rows, pg.base.rows \cup Wrote(t)},
         decision = "committed" => \/ Wrote(t) \subseteq pg'.base.rows
                                   \/ ReadersMayDoom /\ pg'.base.rows = pg.base.rows,
         decision = "rolled_back" => pg'.base.rows = pg.base.rows,
         \/ ~writeActive[t] /\ pg' = pg /\ inTxn' = inTxn
         \/ /\ writeActive[t]
            /\ pg'.status \in {"idle", "lost"}
            /\ pg'.work.rows = pg'.base.rows
            /\ pg'.status = "lost" \/ ~inTxn'
  PROVE  WriteInv'
<1>0. /\ phase'[t] = "releasing" /\ ~writeActive'[t] /\ verdict'[t] = decision
      /\ \A u \in Txns \ {t} : /\ phase'[u] = phase[u]
                               /\ writeActive'[u] = writeActive[u]
                               /\ verdict'[u] = verdict[u]
  BY DEF TypeOK
<1>1. \A u \in Txns : Wrote(u)' = Wrote(u)
  BY DEF Wrote
<1>2. \A u \in Txns : Open(u)' => Open(u)
  BY <1>0 DEF Open
<1>3. AtMostOneOpen'
  BY <1>2, ConstantsOK DEF WriteInv, AtMostOneOpen
<1>4. writeActive[t] => \A u \in Txns : ~writeActive'[u]
  BY <1>0 DEF WriteInv, WritingIsFlagged, AtMostOneOpen, Open
<1>5. WritingIsFlagged'
  BY <1>0, <1>4 DEF WriteInv, WritingIsFlagged
<1>6. FlagMeansBlock' /\ FlagHasOwner' /\ ServerTxnIsTracked'
  <2>1. CASE ~writeActive[t] /\ pg' = pg /\ inTxn' = inTxn
    BY <1>0, <2>1 DEF WriteInv, FlagMeansBlock, FlagHasOwner, ServerTxnIsTracked
  <2>2. CASE pg'.status \in {"idle", "lost"} /\ (pg'.status = "lost" \/ ~inTxn')
    BY <2>2 DEF FlagMeansBlock, FlagHasOwner, ServerTxnIsTracked
  <2> QED BY <2>1, <2>2
<1>7. BlockHolds'
  <2>1. CASE ~writeActive[t] /\ pg' = pg
    BY <1>0, <1>1, <2>1 DEF WriteInv, BlockHolds
  <2>2. CASE writeActive[t] /\ pg'.work.rows = pg'.base.rows
    BY <1>4, <2>2 DEF BlockHolds
  <2> QED BY <2>1, <2>2
<1>8. \A u \in Txns \ {t} :
        pg'.base.rows \cap RowsOf(u) = pg.base.rows \cap RowsOf(u)
  BY WroteIsOwn, OwnRowsAreApart
<1>9. Undecided'
  BY <1>0, <1>8 DEF WriteInv, Undecided
<1>10. verdict[t] = "none" /\ pg.base.rows \cap RowsOf(t) = {}
  BY DEF WriteInv, Undecided
<1>11. CommitIsWhole'
  <2> SUFFICES ASSUME NEW u \in Txns, verdict'[u] = "committed"
               PROVE  \/ Wrote(u)' \subseteq pg'.base.rows
                      \/ ReadersMayDoom /\ pg'.base.rows \cap RowsOf(u) = {}
    BY DEF CommitIsWhole
  <2>1. CASE u = t
    BY <1>0, <1>1, <1>10, <2>1
  <2>2. CASE u # t
    <3>1. pg.base.rows \subseteq pg'.base.rows
      OBVIOUS
    <3> QED BY <1>0, <1>1, <1>8, <2>2, <3>1 DEF WriteInv, CommitIsWhole
  <2> QED BY <2>1, <2>2
<1>12. RollbackLeavesNothing'
  BY <1>0, <1>8, <1>10 DEF WriteInv, RollbackLeavesNothing
<1> QED BY <1>3, <1>5, <1>6, <1>7, <1>9, <1>11, <1>12 DEF WriteInv

(* StartTransaction: the discipline keeps the writers apart. *)
LEMMA StartStep ==
  ASSUME Ordered, TypeOK, TypeOK', WriteInv, NEW t \in Txns, StartTransaction(t)
  PROVE  /\ WriteInv'
         /\ pg'.base.rows = pg.base.rows
<1>0. /\ phase[t] = "new" /\ phase'[t] = "active"
      /\ \A u \in Txns \ {t} : phase'[u] = phase[u]
      /\ UNCHANGED <<pg, inTxn, writeActive, chunks, verdict>>
  BY DEF StartTransaction, TypeOK, conn, outcome
<1>1. \A u \in Txns : Wrote(u)' = Wrote(u)
  BY <1>0 DEF Wrote
<1>2. AtMostOneOpen'
  <2>1. \A u \in Txns \ {t} : Open(u)' = Open(u)
    BY <1>0 DEF Open
  <2>2. CASE Discipline = "serial"
    <3>1. \A u \in Txns : ~Open(u)
      BY <2>2 DEF StartTransaction, MayStart
    <3> QED BY <2>1, <3>1, ConstantsOK DEF AtMostOneOpen
  <2>3. CASE Discipline = "one_writer"
    <3>1. t \in Writers => \A u \in Writers : ~Open(u)
      BY <2>3 DEF StartTransaction, MayStart
    <3> QED BY <2>1, <2>3, <3>1, ConstantsOK DEF WriteInv, AtMostOneOpen
  <2> QED BY <2>2, <2>3 DEF Ordered
<1>3. ~writeActive[t]
  BY <1>0 DEF WriteInv, WritingIsFlagged
<1>4. WritingIsFlagged'
  BY <1>0, <1>3 DEF WriteInv, WritingIsFlagged
<1>5. FlagMeansBlock' /\ FlagHasOwner' /\ ServerTxnIsTracked'
  BY <1>0 DEF WriteInv, FlagMeansBlock, FlagHasOwner, ServerTxnIsTracked
<1>6. BlockHolds'
  BY <1>0, <1>1, <1>3 DEF WriteInv, BlockHolds
<1>7. Undecided'
  BY <1>0 DEF WriteInv, Undecided
<1>8. CommitIsWhole' /\ RollbackLeavesNothing'
  BY <1>0, <1>1 DEF WriteInv, CommitIsWhole, RollbackLeavesNothing
<1> QED BY <1>0, <1>2, <1>4, <1>5, <1>6, <1>7, <1>8 DEF WriteInv

(* GetPinnedScan touches pin rows only, in the open block or in its own. *)
LEMMA ScanStep ==
  ASSUME TypeOK, TypeOK', WriteInv,
         NEW t \in Txns, NEW table \in Tables, GetPinnedScan(t, table)
  PROVE  /\ WriteInv'
         /\ pg'.base.rows = pg.base.rows
<1>1. SameRows(pg, pg')
  BY AcquireKeepsRows, PinRowsArePins DEF GetPinnedScan
<1> QED BY <1>1, QuietStep DEF GetPinnedScan, outcome

(* A reader's error dooms the block that in_txn announces: its own, where     *)
(* transactions are serial, and otherwise the writer's.                      *)
LEMMA ScanFailsStep ==
  ASSUME Ordered, TypeOK, TypeOK', WriteInv,
         NEW t \in Txns, NEW table \in Tables, GetPinnedScanFails(t, table)
  PROVE  /\ WriteInv'
         /\ pg'.base.rows = pg.base.rows
<1> DEFINE begun == IF inTxn THEN pg ELSE PgBegin(pg)
           pinned == PinAndRender(begun, PinRow(t, table))
<1>0. /\ pg \in PgSessions(Database)
      /\ phase[t] = "active"
      /\ phase' = [phase EXCEPT ![t] = "failed"]
      /\ UNCHANGED <<inTxn, writeActive, chunks, verdict>>
  BY DEF GetPinnedScanFails, Invalidate, outcome, TypeOK
<1>1. \A u \in Txns : phase'[u] = phase[u] \/ (phase[u] = "active" /\ phase'[u] = "failed")
  BY <1>0 DEF TypeOK
<1>2. CASE pg' = pg
  BY <1>0, <1>1, <1>2, QuietStep DEF SameRows
<1>3. ASSUME Answers
      PROVE  /\ begun \in PgSessions(Database)
             /\ begun.status = "open"
             /\ begun.base.rows = pg.base.rows
             /\ begun.work.rows = pg.work.rows
             /\ ~inTxn => pg.status = "idle" /\ pg.work.rows = pg.base.rows
             /\ inTxn => pg.status = "open"
  <2>1. CASE inTxn
    BY <1>0, <1>3, <2>1 DEF WriteInv, FlagMeansBlock, Answers
  <2>2. CASE ~inTxn
    <3>1. pg.status = "idle" /\ pg.work.rows = pg.base.rows
      BY <1>3, <2>2 DEF WriteInv, ServerTxnIsTracked, BlockHolds, Answers
    <3>2. begun = PgBegin(pg) /\ PgBegin(pg) \in PgSessions(Database)
      BY <1>0, <2>2, SessionCommands
    <3>3. /\ PgBegin(pg).status = "open"
          /\ PgBegin(pg).base = pg.base
          /\ PgBegin(pg).work = pg.work
      BY <1>0, <3>1 DEF PgBegin, PgSessions
    <3> QED BY <2>2, <3>1, <3>2, <3>3
  <2> QED BY <2>1, <2>2
<1> HIDE DEF begun
<1>4. CASE "read" \in Faults /\ Answers /\ pg' = Abandon(PgError(begun))
  <2>1. pg'.base.rows = pg.base.rows
    BY <1>3, <1>4 DEF Abandon, PgError, PgRollback, PgSessions
  <2>2. CASE inTxn
    <3>1. pg'.status = "aborted"
      BY <1>3, <1>4, <2>2 DEF Abandon, PgError, PgSessions
    <3>2. writeActive[t] \/ ReadersMayDoom
      <4>1. Discipline = "serial" \/ ReadersMayDoom
        BY <1>4 DEF Ordered, ReadersMayDoom
      <4>2. PICK u \in Txns : writeActive[u]
        BY <1>3, <1>4, <2>2 DEF WriteInv, FlagHasOwner
      <4>3. Discipline = "serial" => u = t
        BY <1>0, <4>2 DEF WriteInv, AtMostOneOpen, WritingIsFlagged, Open
      <4> QED BY <4>1, <4>2, <4>3
    <3>3. pg.status # "lost"
      BY <1>3, <1>4, <2>2
    <3> QED BY <1>0, <2>1, <2>2, <3>1, <3>2, <3>3, FailingStep
  <2>3. CASE ~inTxn
    <3>1. pg'.status = "idle" /\ pg'.work.rows = pg'.base.rows
      BY <1>3, <1>4, <2>3 DEF Abandon, PgError, PgRollback, PgSessions
    <3> QED BY <1>0, <2>1, <2>3, <3>1, FailingStep
  <2> QED BY <2>2, <2>3
<1>5. ASSUME Answers
      PROVE  SameRows(begun, pinned) /\ pinned \in PgSessions(Database)
  BY <1>3, <1>5, PinRowsArePins, PinStatementsKeepRows, SessionStatements
<1> HIDE DEF pinned
<1>6. CASE "render" \in Faults /\ Answers /\ pg' = Abandon(pinned)
  <2>1. SameRows(pg, pg')
    <3>1. CASE inTxn
      BY <1>3, <1>5, <1>6, <3>1 DEF Abandon, SameRows
    <3>2. CASE ~inTxn
      BY <1>3, <1>5, <1>6, <3>2 DEF Abandon, PgRollback, SameRows, PgSessions
    <3> QED BY <3>1, <3>2
  <2> QED BY <1>0, <1>1, <2>1, QuietStep
<1>7. CASE "lost" \in Faults /\ Answers /\ ~inTxn /\ pg' = PgLose(PgCommit(pinned))
  <2>1. PgCommit(pinned) = [pinned EXCEPT !.status = "idle", !.base = pinned.work]
    BY <1>3, <1>5, <1>7 DEF SameRows, PgCommit
  <2>2. /\ pg'.status = "lost"
        /\ pg'.base.rows = pg.base.rows
        /\ pg'.work.rows = pg.base.rows
    BY <1>3, <1>5, <1>7, <2>1 DEF SameRows, PgLose, PgSessions
  <2> QED BY <1>0, <1>7, <2>2, FailingStep
<1> QED BY <1>2, <1>4, <1>6, <1>7 DEF GetPinnedScanFails, begun, pinned

(* EnsureWriteTxn: the one writer finds no flag set, and begins the block. *)
LEMMA EnsureWriteTxnStep ==
  ASSUME TypeOK, TypeOK', WriteInv, NEW t \in Txns, EnsureWriteTxn(t)
  PROVE  /\ WriteInv'
         /\ pg'.base.rows = pg.base.rows
<1>0. /\ t \in Writers /\ phase[t] = "active" /\ ~writeActive[t]
      /\ writeActive'[t] /\ inTxn'
      /\ \A u \in Txns \ {t} : writeActive'[u] = writeActive[u]
      /\ UNCHANGED <<phase, chunks, verdict>>
  BY DEF EnsureWriteTxn, TxnBegin, TypeOK, outcome
<1>1. \A u \in Txns : Wrote(u)' = Wrote(u)
  BY <1>0 DEF Wrote
<1>2. \A u \in Txns \ {t} : ~writeActive[u]
  BY <1>0 DEF WriteInv, WritingIsFlagged, AtMostOneOpen, Open
<1>3. inTxn => pg.status = "lost"
  BY <1>0, <1>2 DEF WriteInv, FlagHasOwner
<1>4. ~inTxn => pg.status = "idle"
  BY DEF WriteInv, ServerTxnIsTracked, EnsureWriteTxn, TxnBegin, TypeOK,
         PgSessions, PgStatus
<1>5. /\ pg'.status \in {"open", "lost"}
      /\ pg'.work.rows = pg'.base.rows
      /\ pg'.base.rows = pg.base.rows
  BY <1>3, <1>4 DEF EnsureWriteTxn, TxnBegin, PgBegin, TypeOK, PgSessions,
                    WriteInv, BlockHolds
<1>6. Wrote(t) = {}
  BY <1>0, NothingWritten DEF WriteInv, Undecided
<1>7. AtMostOneOpen'
  BY <1>0 DEF WriteInv, AtMostOneOpen, Open
<1>8. WritingIsFlagged'
  BY <1>0, <1>2 DEF WriteInv, WritingIsFlagged
<1>9. FlagMeansBlock' /\ FlagHasOwner' /\ ServerTxnIsTracked'
  BY <1>0, <1>5 DEF FlagMeansBlock, FlagHasOwner, ServerTxnIsTracked
<1>10. BlockHolds'
  BY <1>0, <1>1, <1>2, <1>5, <1>6 DEF BlockHolds
<1>11. Undecided'
  BY <1>0, <1>5 DEF WriteInv, Undecided
<1>12. CommitIsWhole' /\ RollbackLeavesNothing'
  BY <1>0, <1>1, <1>5 DEF WriteInv, CommitIsWhole, RollbackLeavesNothing
<1> QED BY <1>5, <1>7, <1>8, <1>9, <1>10, <1>11, <1>12 DEF WriteInv

(* A chunk's row statements run in the block of its own transaction. *)
LEMMA ChunkStep ==
  ASSUME TypeOK, TypeOK', WriteInv, NEW t \in Txns, Chunk(t)
  PROVE  /\ WriteInv'
         /\ pg'.base.rows = pg.base.rows
<1> DEFINE new == ChunkRows(t, chunks[t] + 1)
<1>0. /\ phase[t] = "active" /\ writeActive[t]
      /\ \A u \in Txns \ {t} : chunks'[u] = chunks[u]
      /\ UNCHANGED <<inTxn, phase, writeActive, verdict>>
  BY DEF Chunk, TypeOK, outcome
<1>1. pg.status = "open"
  BY <1>0 DEF WriteInv, WritingIsFlagged, FlagMeansBlock, Chunk, Answers
<1>2. pg'.status = "open" /\ pg'.base.rows = pg.base.rows
      /\ pg'.work.rows = pg.work.rows \cup new
  BY <1>1 DEF Chunk, WithRows, PgExec, TypeOK, PgSessions, Database
<1>3. \A u \in Txns \ {t} : ~writeActive[u]
  BY <1>0 DEF WriteInv, WritingIsFlagged, AtMostOneOpen, Open
<1>4. AtMostOneOpen'
  BY <1>0 DEF WriteInv, AtMostOneOpen, Open
<1>5. WritingIsFlagged'
  BY <1>0 DEF WriteInv, WritingIsFlagged
<1>6. FlagMeansBlock' /\ FlagHasOwner' /\ ServerTxnIsTracked'
  BY <1>0, <1>1, <1>2 DEF WriteInv, FlagMeansBlock, FlagHasOwner, ServerTxnIsTracked
<1>7. BlockHolds'
  <2>1. pg'.work.rows = pg'.base.rows \cup Wrote(t)'
    BY <1>0, <1>1, <1>2, ChunkExtends DEF WriteInv, BlockHolds
  <2> QED BY <1>0, <1>2, <1>3, <2>1 DEF BlockHolds
<1>8. Undecided'
  BY <1>0, <1>2 DEF WriteInv, Undecided
<1>9. CommitIsWhole' /\ RollbackLeavesNothing'
  <2>1. verdict[t] = "none"
    BY <1>0 DEF WriteInv, Undecided
  <2> QED BY <1>0, <1>2, <2>1, ChunkExtends
          DEF WriteInv, CommitIsWhole, RollbackLeavesNothing
<1> QED BY <1>2, <1>4, <1>5, <1>6, <1>7, <1>8, <1>9 DEF WriteInv

(* A chunk that fails dooms its own transaction, whatever it executed. *)
LEMMA ChunkFailsStep ==
  ASSUME TypeOK, TypeOK', WriteInv, NEW t \in Txns, ChunkFails(t)
  PROVE  /\ WriteInv'
         /\ pg'.base.rows = pg.base.rows
<1>0. /\ phase[t] = "active" /\ writeActive[t] /\ inTxn
      /\ phase' = [phase EXCEPT ![t] = "failed"]
      /\ UNCHANGED <<inTxn, writeActive, chunks, verdict>>
  BY DEF ChunkFails, Invalidate, outcome, WriteInv, WritingIsFlagged
<1>1. CASE pg' = pg
  <2>1. \A u \in Txns : phase'[u] = phase[u] \/ (phase[u] = "active" /\ phase'[u] = "failed")
    BY <1>0 DEF TypeOK
  <2> QED BY <1>0, <1>1, <2>1, QuietStep DEF SameRows
<1>2. ASSUME NEW done \in SUBSET ChunkRows(t, chunks[t] + 1), Answers,
             pg' = WithRows(pg, done) \/ pg' = PgError(WithRows(pg, done))
      PROVE  WriteInv' /\ pg'.base.rows = pg.base.rows
  <2>1. pg.status = "open"
    BY <1>0, <1>2 DEF WriteInv, FlagMeansBlock, Answers
  <2>2. pg'.status \in {"open", "aborted"} /\ pg'.base.rows = pg.base.rows
    BY <1>2, <2>1 DEF WithRows, PgExec, PgError, TypeOK, PgSessions
  <2> QED BY <1>0, <2>1, <2>2, FailingStep
<1> QED BY <1>1, <1>2 DEF ChunkFails

(* CommitWrite makes durable what its transaction wrote, and nothing else, or *)
(* nothing where a reader has doomed the block.                              *)
LEMMA CommitStep ==
  ASSUME TypeOK, TypeOK', WriteInv, NEW t \in Txns, CommitWrite(t)
  PROVE  /\ WriteInv'
         /\ \/ pg'.base.rows = pg.base.rows \cup Wrote(t)
            \/ ReadersMayDoom /\ pg'.base.rows = pg.base.rows
<1>0. /\ phase[t] = "active"
      /\ phase' = [phase EXCEPT ![t] = "releasing"]
      /\ writeActive' = [writeActive EXCEPT ![t] = FALSE]
      /\ UNCHANGED chunks
      /\ verdict' = [verdict EXCEPT ![t] = "committed"]
  BY DEF CommitWrite, LeaveWrite
<1>1. CASE writeActive[t]
  <2>1. inTxn /\ pg.status # "lost" /\ pg' = PgCommit(pg) /\ ~inTxn'
    BY <1>1 DEF CommitWrite, TxnCommit, WriteInv, WritingIsFlagged
  <2>2. \/ pg.status = "open"
        \/ pg.status = "aborted" /\ ReadersMayDoom
    BY <1>0, <1>1, <2>1 DEF WriteInv, FlagMeansBlock, BlockHolds
  <2>3. /\ pg'.status = "idle"
        /\ pg'.work.rows = pg'.base.rows
        /\ \/ pg'.base.rows = pg.base.rows \cup Wrote(t)
           \/ ReadersMayDoom /\ pg'.base.rows = pg.base.rows
    <3>1. CASE pg.status = "open"
      BY <1>0, <1>1, <2>1, <3>1 DEF PgCommit, TypeOK, PgSessions, WriteInv, BlockHolds
    <3>2. CASE pg.status = "aborted" /\ ReadersMayDoom
      BY <2>1, <3>2 DEF PgCommit, PgRollback, TypeOK, PgSessions
    <3> QED BY <2>2, <3>1, <3>2
  <2> QED BY <1>0, <1>1, <2>1, <2>3, BoundaryStep
<1>2. CASE ~writeActive[t]
  <2>1. pg' = pg /\ inTxn' = inTxn
    BY <1>2 DEF CommitWrite, conn
  <2>2. Wrote(t) = {}
    BY <1>0, <1>2, NothingWritten DEF WriteInv, Undecided
  <2> QED BY <1>0, <1>2, <2>1, <2>2, BoundaryStep
<1> QED BY <1>1, <1>2

(* A COMMIT that breaks makes all that its transaction wrote durable, or none. *)
LEMMA CommitFailsStep ==
  ASSUME Ordered, TypeOK, TypeOK', WriteInv, NEW t \in Txns, CommitWriteFails(t)
  PROVE  /\ WriteInv'
         /\ pg'.base.rows \in {pg.base.rows, pg.base.rows \cup Wrote(t)}
<1>0. /\ phase[t] = "active" /\ writeActive[t] /\ inTxn /\ inTxn'
      /\ phase' = [phase EXCEPT ![t] = "releasing"]
      /\ writeActive' = [writeActive EXCEPT ![t] = FALSE]
      /\ UNCHANGED chunks
      /\ verdict' = [verdict EXCEPT ![t] = "commit_failed"]
  BY DEF CommitWriteFails, ReportCommitError, LeaveWrite
<1>1. /\ pg'.status = "lost"
      /\ pg'.work.rows = pg'.base.rows
      /\ pg'.base.rows \in {pg.base.rows, pg.base.rows \cup Wrote(t)}
  <2>1. CASE pg.status = "lost" /\ pg' = pg
    BY <2>1 DEF WriteInv, BlockHolds
  <2>2. CASE pg.status # "lost" /\ pg' \in {PgLose(pg), PgLose(PgCommit(pg))}
    <3>1. pg.status \in {"open", "aborted"}
      BY <1>0, <2>2 DEF WriteInv, FlagMeansBlock
    <3>2. pg.status = "open" => pg.work.rows = pg.base.rows \cup Wrote(t)
      BY <1>0 DEF WriteInv, BlockHolds
    <3>3. CASE pg' = PgLose(pg)
      BY <3>3 DEF PgLose, TypeOK, PgSessions
    <3>4. CASE pg.status = "open" /\ pg' = PgLose(PgCommit(pg))
      BY <3>2, <3>4 DEF PgLose, PgCommit, TypeOK, PgSessions
    <3>5. CASE pg.status = "aborted" /\ pg' = PgLose(PgCommit(pg))
      BY <3>5 DEF PgLose, PgCommit, PgRollback, TypeOK, PgSessions
    <3> QED BY <2>2, <3>1, <3>3, <3>4, <3>5
  <2> QED BY <2>1, <2>2 DEF CommitWriteFails, Ordered
<1> QED BY <1>0, <1>1, BoundaryStep

(* RollbackWrite discards the block of its transaction, and no other. *)
LEMMA RollbackStep ==
  ASSUME TypeOK, TypeOK', WriteInv, NEW t \in Txns, RollbackWrite(t)
  PROVE  /\ WriteInv'
         /\ pg'.base.rows = pg.base.rows
<1>0. /\ phase[t] \in {"active", "failed"}
      /\ phase' = [phase EXCEPT ![t] = "releasing"]
      /\ writeActive' = [writeActive EXCEPT ![t] = FALSE]
      /\ UNCHANGED chunks
      /\ verdict' = [verdict EXCEPT ![t] = "rolled_back"]
  BY DEF RollbackWrite, LeaveWrite
<1>1. CASE writeActive[t]
  <2>1. inTxn
    BY <1>1 DEF WriteInv, WritingIsFlagged
  <2>2. \/ pg.status = "lost" /\ pg' = pg
        \/ pg' = PgRollback(pg) /\ ~inTxn'
    BY <1>1, <2>1 DEF RollbackWrite, TxnRollback, conn
  <2>3. /\ pg'.status = "lost" \/ (pg'.status = "idle" /\ ~inTxn')
        /\ pg'.work.rows = pg'.base.rows
        /\ pg'.base.rows = pg.base.rows
    <3>1. CASE pg.status = "lost" /\ pg' = pg
      BY <3>1 DEF WriteInv, BlockHolds
    <3>2. CASE pg' = PgRollback(pg) /\ ~inTxn'
      BY <3>2 DEF PgRollback, TypeOK, PgSessions
    <3> QED BY <2>2, <3>1, <3>2
  <2> QED BY <1>0, <1>1, <2>3, BoundaryStep
<1>2. CASE ~writeActive[t]
  <2>1. pg' = pg /\ inTxn' = inTxn
    BY <1>2 DEF RollbackWrite, conn
  <2> QED BY <1>0, <1>2, <2>1, BoundaryStep
<1> QED BY <1>1, <1>2

(* ReleaseReadPin touches pin rows only. *)
LEMMA ReleaseStep ==
  ASSUME TypeOK, TypeOK', WriteInv,
         NEW t \in Txns, NEW table \in Tables, ReleaseReadPin(t, table)
  PROVE  /\ WriteInv'
         /\ pg'.base.rows = pg.base.rows
<1>0. pg \in PgSessions(Database)
  BY DEF TypeOK
<1>1. pg.status = "open" \/ pg.work.rows = pg.base.rows
  BY DEF ReleaseReadPin, Answers, WriteInv, BlockHolds
<1>2. SameRows(pg, pg')
  BY <1>0, <1>1, PinRowsArePins, PinStatementsKeepRows DEF ReleaseReadPin
<1> QED BY <1>2, QuietStep DEF ReleaseReadPin, outcome

(* A failed release dooms the writer's block, where there can be one beside it. *)
LEMMA ReleaseFailsStep ==
  ASSUME Ordered, TypeOK, TypeOK', WriteInv, NEW t \in Txns, ReleasePinsFails(t)
  PROVE  /\ WriteInv'
         /\ pg'.base.rows = pg.base.rows
<1>0. /\ pg \in PgSessions(Database)
      /\ UNCHANGED <<inTxn, phase, writeActive, chunks, verdict>>
  BY DEF ReleasePinsFails, TypeOK
<1>1. CASE pg.status # "open"
  <2>1. pg' = pg
    BY <1>0, <1>1 DEF ReleasePinsFails, PgError, PgSessions
  <2> QED BY <1>0, <2>1, QuietStep DEF SameRows
<1>2. CASE pg.status = "open"
  <2>1. ReadersMayDoom
    <3>1. SUFFICES ASSUME Discipline = "serial" PROVE FALSE
      BY <1>2 DEF ReleasePinsFails, Answers, Ordered, ReadersMayDoom
    <3>2. PICK u \in Txns : writeActive[u]
      BY <1>2 DEF WriteInv, ServerTxnIsTracked, FlagHasOwner
    <3>3. u = t
      BY <3>1, <3>2 DEF ReleasePinsFails, WriteInv, WritingIsFlagged, AtMostOneOpen, Open
    <3> QED BY <3>2, <3>3 DEF ReleasePinsFails, WriteInv, WritingIsFlagged
  <2>2. pg'.status = "aborted" /\ pg'.base.rows = pg.base.rows
    BY <1>0, <1>2 DEF ReleasePinsFails, PgError, PgSessions
  <2>3. \A u \in Txns : Wrote(u)' = Wrote(u)
    BY <1>0 DEF Wrote
  <2>4. AtMostOneOpen' /\ WritingIsFlagged'
    BY <1>0 DEF WriteInv, AtMostOneOpen, WritingIsFlagged, Open
  <2>5. FlagMeansBlock' /\ FlagHasOwner' /\ ServerTxnIsTracked'
    BY <1>0, <1>2, <2>2 DEF WriteInv, FlagMeansBlock, FlagHasOwner, ServerTxnIsTracked
  <2>6. BlockHolds'
    BY <2>1, <2>2 DEF BlockHolds
  <2>7. Undecided'
    BY <1>0, <2>2 DEF WriteInv, Undecided
  <2>8. CommitIsWhole' /\ RollbackLeavesNothing'
    BY <1>0, <2>2, <2>3 DEF WriteInv, CommitIsWhole, RollbackLeavesNothing
  <2> QED BY <2>2, <2>4, <2>5, <2>6, <2>7, <2>8 DEF WriteInv
<1> QED BY <1>1, <1>2

(* A lost connection discards the block, and the client never reopens it. *)
LEMMA LostStep ==
  ASSUME TypeOK, TypeOK', WriteInv, ConnectionLost
  PROVE  WriteInv' /\ pg'.base.rows = pg.base.rows
<1>0. UNCHANGED <<inTxn, phase, writeActive, chunks, verdict>>
  BY DEF ConnectionLost, outcome
<1>1. /\ pg'.status = "lost"
      /\ pg'.work.rows = pg'.base.rows
      /\ pg'.base.rows = pg.base.rows
  BY DEF ConnectionLost, PgLose, TypeOK, PgSessions
<1>2. \A u \in Txns : Wrote(u)' = Wrote(u)
  BY <1>0 DEF Wrote
<1>3. AtMostOneOpen' /\ WritingIsFlagged'
  BY <1>0 DEF WriteInv, AtMostOneOpen, WritingIsFlagged, Open
<1>4. FlagMeansBlock' /\ FlagHasOwner' /\ ServerTxnIsTracked' /\ BlockHolds'
  BY <1>1 DEF FlagMeansBlock, FlagHasOwner, ServerTxnIsTracked, BlockHolds
<1>5. Undecided'
  BY <1>0, <1>1 DEF WriteInv, Undecided
<1>6. CommitIsWhole' /\ RollbackLeavesNothing'
  BY <1>0, <1>1, <1>2 DEF WriteInv, CommitIsWhole, RollbackLeavesNothing
<1> QED BY <1>1, <1>3, <1>4, <1>5, <1>6 DEF WriteInv

(* Each step of the boundary preserves the invariant. *)
LEMMA WriteStep ==
  ASSUME Ordered, TypeOK, TypeOK', WriteInv, [Next]_vars
  PROVE  WriteInv'
<1>1. ASSUME NEW t \in Txns, Step(t) PROVE WriteInv'
  <2>1. CASE EnsureWriteTxnFails(t)
    <3>1. \A u \in Txns : phase'[u] = phase[u] \/ (phase[u] = "active" /\ phase'[u] = "failed")
      BY <2>1 DEF EnsureWriteTxnFails, Invalidate, TypeOK
    <3> QED BY <2>1, <3>1, QuietStep
            DEF EnsureWriteTxnFails, Invalidate, conn, outcome, SameRows
  <2>2. CASE EndTransaction(t)
    <3>1. \A u \in Txns : phase'[u] = phase[u] \/ (phase[u] = "releasing" /\ phase'[u] = "ended")
      BY <2>2 DEF EndTransaction, TypeOK
    <3> QED BY <2>2, <3>1, QuietStep DEF EndTransaction, conn, outcome, SameRows
  <2> QED BY <1>1, <2>1, <2>2, StartStep, ScanStep, ScanFailsStep, EnsureWriteTxnStep,
             ChunkStep, ChunkFailsStep, CommitStep, CommitFailsStep, RollbackStep,
             ReleaseStep, ReleaseFailsStep DEF Step, FinishBoundary
<1>2. CASE ConnectionLost
  BY <1>2, LostStep
<1>3. CASE UNCHANGED vars
  <2>1. SameRows(pg, pg') /\ UNCHANGED <<inTxn, phase, writeActive, chunks, verdict>>
    BY <1>3 DEF vars, SameRows
  <2> QED BY <2>1, QuietStep
<1> QED BY <1>1, <1>2, <1>3 DEF Next, AllEnded

(* The inductive invariant of the writes: under Ordered, in_txn, the block on *)
(* the server and write_active of the one writer always agree, and the block *)
(* holds exactly the rows that its owner was told are done.                 *)
THEOREM WritesAreInductive ==
  ASSUME Ordered PROVE Spec => []WriteInv
<1>1. TypeOK /\ TypeOK' /\ WriteInv /\ [Next]_vars => WriteInv'
  BY WriteStep
<1> QED BY <1>1, WriteInit, TypeCorrect, PTL DEF Spec

(* "if the heap/delta commit fails the whole DuckDB transaction must report   *)
(* failure, not silently drop writes" (tierdb_transaction_manager.cpp:21):   *)
(* once CommitWrite has returned, what its chunks reported done is durable.  *)
(* That no statement of a reader beside the writer fails is needed.          *)
THEOREM CommitsAreDurable ==
  ASSUME Sheltered PROVE Spec => []CommitIsDurable
<1>1. WriteInv => CommitIsDurable
  BY DEF WriteInv, CommitIsWhole, CommitIsDurable, Sheltered
<1>2. Spec => []WriteInv
  BY WritesAreInductive DEF Sheltered
<1> QED BY <1>1, <1>2, PTL

(* "ROLLBACK discards every write in the transaction" (tierdb_txn.test:18):   *)
(* after RollbackWrite no row of the transaction is durable, those of a      *)
(* half-executed chunk included.                                            *)
THEOREM RollbacksLeaveNothing ==
  ASSUME Ordered PROVE Spec => []RollbackLeavesNothing
<1>1. WriteInv => RollbackLeavesNothing
  BY DEF WriteInv
<1> QED BY <1>1, WritesAreInductive, PTL

(* EnsureWriteTxn puts a server block under every chunk of the transaction   *)
(* until its own boundary, so that no row statement autocommits.            *)
THEOREM WritesStayInsideTxn ==
  ASSUME Ordered PROVE Spec => []WritesRunInsideTxn
<1>1. WriteInv => WritesRunInsideTxn
  BY DEF WriteInv, WritingIsFlagged, FlagMeansBlock, WritesRunInsideTxn
<1> QED BY <1>1, WritesAreInductive, PTL

-----------------------------------------------------------------------------
(* The boundary implements AtomicTxns.                                      *)

(* Nothing is durable, buffered or decided at first. *)
LEMMA AbstractInit == Init => A!Init
<1> SUFFICES ASSUME Init PROVE A!Init
  OBVIOUS
<1>1. \A t \in Txns : Wrote(t) = {}
  BY NothingWritten DEF Init
<1>2. AbsBuffer = [t \in Txns |-> {}]
  BY <1>1 DEF AbsBuffer
<1>3. AbsResult = [t \in Txns |-> "open"]
  BY DEF Init, AbsResult, Result
<1> QED BY <1>2, <1>3 DEF Init, A!Init

(* A step that decides nothing and writes nothing is a stutter. *)
LEMMA AbstractStutter ==
  ASSUME pg'.base.rows = pg.base.rows, UNCHANGED <<chunks, verdict>>
  PROVE  UNCHANGED A!vars
BY DEF A!vars, AbsBuffer, AbsResult, Result, Wrote

(* A boundary maps to the step that decides the transaction in the same way. *)
LEMMA AbstractBoundary ==
  ASSUME TypeOK, WriteInv, NEW t \in Txns, phase[t] \in {"active", "failed"},
         UNCHANGED chunks,
         NEW decision \in {"committed", "commit_failed", "rolled_back"},
         verdict' = [verdict EXCEPT ![t] = decision]
  PROVE  /\ AbsResult[t] = "open"
         /\ AbsResult' = [AbsResult EXCEPT ![t] = Result(decision)]
         /\ AbsBuffer' = AbsBuffer
         /\ AbsBuffer[t] = Wrote(t)
<1>1. verdict[t] = "none"
  BY DEF WriteInv, Undecided
<1>2. AbsResult[t] = "open"
  BY <1>1 DEF AbsResult, Result
<1>3. AbsResult' = [AbsResult EXCEPT ![t] = Result(decision)]
  BY DEF AbsResult, TypeOK
<1>4. AbsBuffer' = AbsBuffer /\ AbsBuffer[t] = Wrote(t)
  BY DEF AbsBuffer, Wrote
<1> QED BY <1>2, <1>3, <1>4

(* Each step is a step of AtomicTxns, or a stutter. *)
LEMMA AbstractStep ==
  ASSUME Ordered, TypeOK, TypeOK', WriteInv, [Next]_vars
  PROVE  [A!Next]_(A!vars)
<1>1. ASSUME NEW t \in Txns, Step(t) PROVE [A!Next]_(A!vars)
  <2>1. CASE StartTransaction(t)
    BY <2>1, StartStep, AbstractStutter DEF StartTransaction, outcome
  <2>2. ASSUME NEW table \in Tables, GetPinnedScan(t, table) PROVE [A!Next]_(A!vars)
    BY <2>2, ScanStep, AbstractStutter DEF GetPinnedScan, outcome
  <2>3. ASSUME NEW table \in Tables, GetPinnedScanFails(t, table)
        PROVE  [A!Next]_(A!vars)
    BY <2>3, ScanFailsStep, AbstractStutter DEF GetPinnedScanFails, Invalidate, outcome
  <2>4. CASE EnsureWriteTxn(t)
    BY <2>4, EnsureWriteTxnStep, AbstractStutter DEF EnsureWriteTxn, outcome
  <2>5. CASE EnsureWriteTxnFails(t)
    BY <2>5, AbstractStutter DEF EnsureWriteTxnFails, Invalidate, conn, outcome
  <2>6. CASE Chunk(t)
    <3> DEFINE new == ChunkRows(t, chunks[t] + 1)
    <3>1. pg'.base.rows = pg.base.rows
      BY <2>6, ChunkStep
    <3>2. AbsBuffer' = [AbsBuffer EXCEPT ![t] = @ \cup new]
      BY <2>6, ChunkExtends DEF AbsBuffer
    <3>3. AbsResult[t] = "open" /\ AbsResult' = AbsResult
      BY <2>6 DEF Chunk, outcome, WriteInv, Undecided, AbsResult, Result
    <3>4. new \in SUBSET RowsOf(t)
      BY <2>6, ConstantsOK DEF Chunk, ChunkRows, RowsOf, TypeOK
    <3>5. A!Write(t)
      BY <3>1, <3>2, <3>3, <3>4 DEF A!Write
    <3> QED BY <3>5 DEF A!Next
  <2>7. CASE ChunkFails(t)
    BY <2>7, ChunkFailsStep, AbstractStutter DEF ChunkFails, Invalidate, outcome
  <2>8. CASE CommitWrite(t)
    <3>1. /\ phase[t] = "active" /\ UNCHANGED chunks
          /\ verdict' = [verdict EXCEPT ![t] = "committed"]
      BY <2>8 DEF CommitWrite, LeaveWrite
    <3>2. CASE pg'.base.rows = pg.base.rows \cup Wrote(t)
      <4>1. A!Commit(t)
        BY <3>1, <3>2, AbstractBoundary DEF A!Commit, Result
      <4> QED BY <4>1 DEF A!Next
    <3>3. CASE ReadersMayDoom /\ pg'.base.rows = pg.base.rows
      <4>1. A!Drop(t)
        BY <3>1, <3>3, AbstractBoundary DEF A!Drop, Result
      <4> QED BY <4>1 DEF A!Next
    <3> QED BY <2>8, <3>2, <3>3, CommitStep
  <2>9. CASE CommitWriteFails(t)
    <3>1. /\ phase[t] = "active" /\ UNCHANGED chunks
          /\ verdict' = [verdict EXCEPT ![t] = "commit_failed"]
      BY <2>9 DEF CommitWriteFails, ReportCommitError, LeaveWrite
    <3>2. A!FailToCommit(t)
      BY <2>9, <3>1, CommitFailsStep, AbstractBoundary DEF A!FailToCommit, Result
    <3> QED BY <3>2 DEF A!Next
  <2>10. CASE RollbackWrite(t)
    <3>1. /\ phase[t] \in {"active", "failed"} /\ UNCHANGED chunks
          /\ verdict' = [verdict EXCEPT ![t] = "rolled_back"]
      BY <2>10 DEF RollbackWrite, LeaveWrite
    <3>2. A!Abort(t)
      BY <2>10, <3>1, RollbackStep, AbstractBoundary DEF A!Abort, Result
    <3> QED BY <3>2 DEF A!Next
  <2>11. ASSUME NEW table \in Tables, ReleaseReadPin(t, table) PROVE [A!Next]_(A!vars)
    BY <2>11, ReleaseStep, AbstractStutter DEF ReleaseReadPin, outcome
  <2>12. CASE ReleasePinsFails(t)
    BY <2>12, ReleaseFailsStep, AbstractStutter DEF ReleasePinsFails
  <2>13. CASE EndTransaction(t)
    BY <2>13, AbstractStutter DEF EndTransaction, conn, outcome
  <2> QED BY <1>1, <2>1, <2>2, <2>3, <2>4, <2>5, <2>6, <2>7, <2>8, <2>9,
             <2>10, <2>11, <2>12, <2>13 DEF Step, FinishBoundary
<1>2. CASE ConnectionLost
  BY <1>2, LostStep, AbstractStutter DEF ConnectionLost, outcome
<1>3. CASE UNCHANGED vars
  BY <1>3, AbstractStutter DEF vars
<1> QED BY <1>1, <1>2, <1>3 DEF Next, AllEnded

(* "every chunk and statement of this DuckDB transaction lands atomically"    *)
(* (tierdb_transaction.hpp:28): CommitTransaction and RollbackTransaction    *)
(* implement AtomicTxns, so that a transaction lands whole, at its own       *)
(* commit, or not at all, however readers overlap the writer and fail.       *)
THEOREM BoundaryIsAtomic ==
  ASSUME Ordered PROVE Spec => ImplementsAtomicTxns
<1>1. TypeOK /\ TypeOK' /\ WriteInv /\ [Next]_vars => [A!Next]_(A!vars)
  BY AbstractStep
<1> QED BY <1>1, AbstractInit, TypeCorrect, WritesAreInductive, PTL
        DEF Spec, A!Spec, ImplementsAtomicTxns

=============================================================================
