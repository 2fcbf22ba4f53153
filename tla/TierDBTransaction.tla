-------------------------- MODULE TierDBTransaction --------------------------
(***************************************************************************)
(* The transaction boundary of an attached TierDB database.                *)
(*                                                                         *)
(* Every DuckDB transaction on the attached database has its own           *)
(* TierDBTransaction (cached scans, read pins, write_active), but all of   *)
(* them go through the one TierDBClient of the catalog, hence through one  *)
(* Postgres session and one flag, Conn::in_txn.  conn_lock makes a call of *)
(* the client atomic and nothing makes two calls atomic, so each action    *)
(* below is one call, together with the C++ that runs around it without    *)
(* touching shared state.                                                  *)
(*                                                                         *)
(* Some definitions are preceded by variants of themselves that no action  *)
(* uses: each makes a mistake that the properties at the end must notice.  *)
(***************************************************************************)
EXTENDS PgSession, Integers

CONSTANTS
  Txns,        \* DuckDB transactions, each started at most once
  Writers,     \* those that execute INSERT, UPDATE or DELETE
  Tables,      \* registered tables
  HotOnly,     \* those without a cut-line: their reads take no pin
  MaxChunks,   \* bound: DML chunks of a transaction
  Discipline,  \* how the application overlaps transactions
  Faults       \* which calls may fail

(* A discipline is a promise of the application, not of the code:           *)
(*   serial      one transaction at a time, as in test/sql                  *)
(*   one_writer  any readers, and at most one writer at a time              *)
(*   free        no promise                                                 *)
(* A fault of kind                                                          *)
(*   chunk    is a failed row statement, payload check or lake write        *)
(*   read     is a failed statement while a pin is acquired                 *)
(*   render   is an error of the connector's own, before or after the pin    *)
(*            row was inserted: the server knows nothing of it               *)
(*   refuse   is a COMMIT that the server answers with an error             *)
(*   release  is a failed DELETE of a pin row                               *)
(*   lost     is a broken connection, between calls and inside a COMMIT     *)
ASSUME ConstantsOK ==
  /\ Writers \subseteq Txns
  /\ HotOnly \subseteq Tables
  /\ MaxChunks \in Nat
  /\ Discipline \in {"serial", "one_writer", "free"}
  /\ Faults \subseteq {"chunk", "read", "render", "refuse", "release", "lost"}

(* A chunk's row statements, told apart only by where they land.  *)
Part == {"heap", "delta"}

Row == [txn : Txns, chunk : 1..MaxChunks, part : Part]
Pin == [txn : Txns, table : Tables]
Database == [rows : SUBSET Row, pins : SUBSET Pin]

RowsOf(t) == [txn : {t}, chunk : 1..MaxChunks, part : Part]
ChunkRows(t, c) == [txn : {t}, chunk : {c}, part : Part]

VARIABLES
  pg,          \* the Postgres session behind Conn::client
  inTxn,       \* Conn::in_txn
  phase,       \* where DuckDB is in each transaction
  writeActive, \* TierDBTransaction::write_active
  cached,      \* TierDBTransaction::scan_by_table
  pins,        \* TierDBTransaction::pins, by table
  chunks,      \* chunks that were reported done
  verdict,     \* what the boundary did with the writes
  error        \* the ErrorData of CommitTransaction

vars == <<pg, inTxn, phase, writeActive, cached, pins, chunks, verdict, error>>
conn == <<pg, inTxn>>
reads == <<cached, pins>>
outcome == <<verdict, error>>

TypeOK ==
  /\ pg \in PgSessions(Database)
  /\ inTxn \in BOOLEAN
  /\ phase \in [Txns -> {"new", "active", "failed", "releasing", "ended"}]
  /\ writeActive \in [Txns -> BOOLEAN]
  /\ cached \in [Txns -> SUBSET Tables]
  /\ pins \in [Txns -> SUBSET (Tables \ HotOnly)]
  /\ chunks \in [Txns -> 0..MaxChunks]
  /\ verdict \in [Txns -> {"none", "committed", "commit_failed", "rolled_back"}]
  /\ error \in [Txns -> BOOLEAN]

Init ==
  /\ pg = [status |-> "idle", base |-> [rows |-> {}, pins |-> {}],
           work |-> [rows |-> {}, pins |-> {}]]
  /\ inTxn = FALSE
  /\ phase = [t \in Txns |-> "new"]
  /\ writeActive = [t \in Txns |-> FALSE]
  /\ cached = [t \in Txns |-> {}]
  /\ pins = [t \in Txns |-> {}]
  /\ chunks = [t \in Txns |-> 0]
  /\ verdict = [t \in Txns |-> "none"]
  /\ error = [t \in Txns |-> FALSE]

Open(t) == phase[t] \in {"active", "failed", "releasing"}

(* The row writes that DuckDB was told are done. *)
Wrote(t) == [txn : {t}, chunk : 1..chunks[t], part : Part]

PinRow(t, table) == [txn |-> t, table |-> table]

WithRows(s, rows) == PgExec(s, [s.work EXCEPT !.rows = @ \cup rows])
WithPin(s, pin) == PgExec(s, [s.work EXCEPT !.pins = @ \cup {pin}])
WithoutTablePins(s, pin) ==
  PgExec(s, [s.work EXCEPT !.pins = {p \in @ : p.table # pin.table}])
WithoutPin(s, pin) == PgExec(s, [s.work EXCEPT !.pins = @ \ {pin}])

Answers == pg.status \in {"idle", "open"}

(* An exception leaves DuckDB's transaction invalidated: it can only be     *)
(* rolled back.                                                             *)
Invalidate(t) ==
  /\ phase' = [phase EXCEPT ![t] = "failed"]
  /\ UNCHANGED <<writeActive, reads, chunks, outcome>>

-----------------------------------------------------------------------------
(* Starting a transaction and reading.                                      *)

MayStart(t) ==
  CASE Discipline = "serial" -> \A u \in Txns : ~Open(u)
    [] Discipline = "one_writer" ->
         t \in Writers => \A u \in Writers : ~Open(u)
    [] Discipline = "free" -> TRUE

StartTransaction(t) ==
  /\ phase[t] = "new"
  /\ MayStart(t)
  /\ phase' = [phase EXCEPT ![t] = "active"]
  /\ UNCHANGED <<conn, writeActive, reads, chunks, outcome>>

(* pin_and_render: the pin is inserted only when there is a cut-line. *)
PinAndRender(s, pin) == IF pin.table \in HotOnly THEN s ELSE WithPin(s, pin)

(* A pin joins the transaction block that in_txn announces, whoever opened  *)
(* it; otherwise it gets a short block of its own.                          *)
AcquireNested(s, pin) == PgCommit(PinAndRender(PgBegin(s), pin))
AcquireUncommitted(s, pin) == PinAndRender(IF inTxn THEN s ELSE PgBegin(s), pin)
AcquireRolledBack(s, pin) ==
  IF inTxn THEN PinAndRender(s, pin)
           ELSE PgRollback(PinAndRender(PgBegin(s), pin))
Acquire(s, pin) ==
  IF inTxn THEN PinAndRender(s, pin)
           ELSE PgCommit(PinAndRender(PgBegin(s), pin))

(* After an error only a block of its own is rolled back. *)
AbandonAnyBlock(s) == PgRollback(s)
Abandon(s) == IF inTxn THEN s ELSE PgRollback(s)

(* has_pin decides whether the transaction records a pin. *)
PinOfEveryScan(table) == {table}
PinOf(table) == {table} \ HotOnly

GetPinnedScan(t, table) ==
  /\ phase[t] = "active"
  /\ table \notin cached[t]
  /\ Answers
  /\ pg' = Acquire(pg, PinRow(t, table))
  /\ cached' = [cached EXCEPT ![t] = @ \cup {table}]
  /\ pins' = [pins EXCEPT ![t] = @ \cup PinOf(table)]
  /\ UNCHANGED <<inTxn, phase, writeActive, chunks, outcome>>

(* The last alternative is a connection that breaks inside the COMMIT of the *)
(* short block: the pin is durable, and DuckDB is told that it is not.       *)
GetPinnedScanFails(t, table) ==
  LET begun == IF inTxn THEN pg ELSE PgBegin(pg)
      pinned == PinAndRender(begun, PinRow(t, table)) IN
  /\ phase[t] = "active"
  /\ table \notin cached[t]
  /\ \/ (~Answers \/ "render" \in Faults) /\ pg' = pg
     \/ "read" \in Faults /\ Answers /\ pg' = Abandon(PgError(begun))
     \/ "render" \in Faults /\ Answers /\ pg' = Abandon(pinned)
     \/ "lost" \in Faults /\ Answers /\ ~inTxn /\ pg' = PgLose(PgCommit(pinned))
  /\ Invalidate(t)
  /\ UNCHANGED inTxn

-----------------------------------------------------------------------------
(* Writing: Sink calls EnsureWriteTxn, then the chunk function.             *)

(* txn_begin returns early when in_txn is set, without asking the server.   *)
TxnBeginSkipped == inTxn' = TRUE /\ pg' = pg
TxnBegin ==
  /\ inTxn \/ pg.status # "lost"
  /\ pg' = IF inTxn THEN pg ELSE PgBegin(pg)
  /\ inTxn' = TRUE

EnsureWriteTxn(t) ==
  /\ t \in Writers
  /\ phase[t] = "active"
  /\ ~writeActive[t]
  /\ TxnBegin
  /\ writeActive' = [writeActive EXCEPT ![t] = TRUE]
  /\ UNCHANGED <<phase, reads, chunks, outcome>>

EnsureWriteTxnFails(t) ==
  /\ t \in Writers
  /\ phase[t] = "active"
  /\ ~writeActive[t]
  /\ ~inTxn /\ pg.status = "lost"
  /\ Invalidate(t)
  /\ UNCHANGED conn

Chunk(t) ==
  /\ phase[t] = "active"
  /\ writeActive[t]
  /\ chunks[t] < MaxChunks
  /\ Answers
  /\ pg' = WithRows(pg, ChunkRows(t, chunks[t] + 1))
  /\ chunks' = [chunks EXCEPT ![t] = @ + 1]
  /\ UNCHANGED <<inTxn, phase, writeActive, reads, outcome>>

(* A chunk stops at its first error: some of its row statements were        *)
(* executed, and the server refused the next one, or the connector raised   *)
(* the error itself and the server knows nothing of it.                     *)
ChunkFails(t) ==
  /\ phase[t] = "active"
  /\ writeActive[t]
  /\ chunks[t] < MaxChunks
  /\ \/ ~Answers /\ pg' = pg
     \/ /\ "chunk" \in Faults /\ Answers
        /\ \E done \in SUBSET ChunkRows(t, chunks[t] + 1) :
             \/ pg' = WithRows(pg, done)
             \/ /\ done # ChunkRows(t, chunks[t] + 1)
                /\ pg' = PgError(WithRows(pg, done))
  /\ Invalidate(t)
  /\ UNCHANGED inTxn

-----------------------------------------------------------------------------
(* The boundary: CommitTransaction and RollbackTransaction.                 *)

(* Both clear write_active before they call the client, then release pins.  *)
LeaveWrite(t) ==
  /\ phase' = [phase EXCEPT ![t] = "releasing"]
  /\ writeActive' = [writeActive EXCEPT ![t] = FALSE]
  /\ cached' = [cached EXCEPT ![t] = {}]
  /\ UNCHANGED <<pins, chunks>>

(* txn_commit and txn_rollback are no-ops without in_txn, and clear it only *)
(* after the server has answered.                                           *)
TxnCommit ==
  IF inTxn THEN pg.status # "lost" /\ pg' = PgCommit(pg) /\ inTxn' = FALSE
           ELSE UNCHANGED conn

TxnRollbackSkipped == UNCHANGED conn
TxnRollbackKeepsFlag == pg' = PgRollback(pg) /\ UNCHANGED inTxn
TxnRollback ==
  IF inTxn THEN pg.status # "lost" /\ pg' = PgRollback(pg) /\ inTxn' = FALSE
           ELSE UNCHANGED conn

CommitWrite(t) ==
  /\ phase[t] = "active"
  /\ IF writeActive[t] THEN TxnCommit ELSE UNCHANGED conn
  /\ verdict' = [verdict EXCEPT ![t] = "committed"]
  /\ LeaveWrite(t)
  /\ UNCHANGED error

SwallowCommitError(t) ==
  /\ verdict' = [verdict EXCEPT ![t] = "committed"]
  /\ UNCHANGED error
ReportCommitError(t) ==
  /\ verdict' = [verdict EXCEPT ![t] = "commit_failed"]
  /\ error' = [error EXCEPT ![t] = TRUE]

(* A failed COMMIT keeps in_txn, and the RollbackWrite of the handler finds  *)
(* write_active already cleared, so it does nothing.  When the connection    *)
(* breaks inside COMMIT the server may or may not have committed.            *)
CommitWriteFails(t) ==
  /\ phase[t] = "active"
  /\ writeActive[t] /\ inTxn
  /\ \/ pg.status = "lost" /\ pg' = pg
     \/ "refuse" \in Faults /\ pg.status = "open" /\ pg' = PgRollback(pg)
     \/ /\ "lost" \in Faults /\ pg.status # "lost"
        /\ pg' \in {PgLose(pg), PgLose(PgCommit(pg))}
  /\ ReportCommitError(t)
  /\ LeaveWrite(t)
  /\ UNCHANGED inTxn

(* Errors of the rollback are swallowed; on a lost connection in_txn stays.  *)
RollbackWrite(t) ==
  /\ phase[t] \in {"active", "failed"}
  /\ IF writeActive[t] /\ pg.status # "lost" THEN TxnRollback
                                             ELSE UNCHANGED conn
  /\ verdict' = [verdict EXCEPT ![t] = "rolled_back"]
  /\ LeaveWrite(t)
  /\ UNCHANGED error

(* A pin's DELETE joins the transaction block that happens to be open. *)
ReleaseReadPin(t, table) ==
  /\ phase[t] = "releasing"
  /\ table \in pins[t]
  /\ Answers
  /\ pg' = WithoutPin(pg, PinRow(t, table))
  /\ pins' = [pins EXCEPT ![t] = @ \ {table}]
  /\ UNCHANGED <<inTxn, phase, writeActive, cached, chunks, outcome>>

(* The first failure ends ReleasePins: the other pins are forgotten.  Only  *)
(* the commit reports it.                                                   *)
RetryAllPins(t) == pins[t]
LeftToRelease(t) == {}

ReleasePinsFails(t) ==
  /\ phase[t] = "releasing"
  /\ pins[t] # {}
  /\ ~Answers \/ "release" \in Faults
  /\ pg' = PgError(pg)
  /\ pins' = [pins EXCEPT ![t] = LeftToRelease(t)]
  /\ error' = [error EXCEPT ![t] = @ \/ verdict[t] # "rolled_back"]
  /\ UNCHANGED <<inTxn, phase, writeActive, cached, chunks, verdict>>

ReleasedUnlessRolledBack(t) == pins[t] = {} \/ verdict[t] = "rolled_back"
Released(t) == pins[t] = {}

EndTransaction(t) ==
  /\ phase[t] = "releasing"
  /\ Released(t)
  /\ phase' = [phase EXCEPT ![t] = "ended"]
  /\ UNCHANGED <<conn, writeActive, reads, chunks, outcome>>

(* The server or the network drops the connection between two calls. *)
ConnectionLost ==
  /\ "lost" \in Faults
  /\ pg.status # "lost"
  /\ pg' = PgLose(pg)
  /\ UNCHANGED <<inTxn, phase, writeActive, reads, chunks, outcome>>

(* Bound of the model: every transaction of Txns has run. *)
AllEnded ==
  /\ \A t \in Txns : phase[t] = "ended"
  /\ UNCHANGED vars

FinishBoundary(t) ==
  \/ \E table \in Tables : ReleaseReadPin(t, table)
  \/ ReleasePinsFails(t)
  \/ EndTransaction(t)

Step(t) ==
  \/ StartTransaction(t)
  \/ \E table \in Tables : GetPinnedScan(t, table)
  \/ \E table \in Tables : GetPinnedScanFails(t, table)
  \/ EnsureWriteTxn(t)
  \/ EnsureWriteTxnFails(t)
  \/ Chunk(t)
  \/ ChunkFails(t)
  \/ CommitWrite(t)
  \/ CommitWriteFails(t)
  \/ RollbackWrite(t)
  \/ FinishBoundary(t)

Next == (\E t \in Txns : Step(t)) \/ ConnectionLost \/ AllEnded

(* DuckDB runs a boundary it has entered to its end. *)
Fairness == \A t \in Txns : WF_vars(FinishBoundary(t))

Spec == Init /\ [][Next]_vars /\ Fairness

-----------------------------------------------------------------------------
(* Properties of the writes.                                                *)

(* "if the heap/delta commit fails the whole DuckDB transaction must report  *)
(* failure, not silently drop writes" (tierdb_transaction_manager.cpp:21):   *)
(* once CommitTransaction has got past CommitWrite without an exception,     *)
(* every row of every chunk that was reported done is durable, and stays so. *)
CommitIsDurable ==
  \A t \in Txns : verdict[t] = "committed" => Wrote(t) \subseteq pg.base.rows

(* "ROLLBACK discards every write in the transaction" (tierdb_txn.test:18):  *)
(* after RollbackTransaction has passed RollbackWrite, no row of the         *)
(* transaction is durable, a row of a half-executed chunk included.          *)
RollbackLeavesNothing ==
  \A t \in Txns : verdict[t] = "rolled_back" => pg.base.rows \cap RowsOf(t) = {}

(* "writes span statements" inside a block (catalog.rs:14), and "the         *)
(* connection state resets on the next transaction"                          *)
(* (tierdb_transaction_manager.cpp:29): a transaction that has gone through  *)
(* EnsureWriteTxn has a server block under it until its own boundary, so no  *)
(* chunk of it autocommits.                                                  *)
WritesRunInsideTxn ==
  \A t \in Txns : writeActive[t] => pg.status # "idle"

(* Conn::in_txn "is true while a caller-managed write transaction is open"   *)
(* (catalog.rs:14): a block that is open on the server between two calls is  *)
(* announced by the flag, so no BEGIN is ever nested (scan.rs:55), and the   *)
(* block of a pin never outlives its call.                                   *)
ServerTxnIsTracked ==
  pg.status \in {"open", "aborted"} => inTxn

(* The other direction: the flag never outlives the transaction that set it. *)
(* A flag left behind would make the next transaction skip its BEGIN.        *)
FlagHasOwner ==
  inTxn /\ pg.status # "lost" => \E t \in Txns : writeActive[t]

(* A transaction fails, and the application is told of it, when a call of it *)
(* throws, when it is rolled back, or when its commit reports an error.      *)
Failed(t) == phase[t] = "failed" \/ verdict[t] = "rolled_back" \/ error[t]
AnotherFailed(t) == \E u \in Txns \ {t} : Failed(u)

(* "not silently drop writes" (tierdb_transaction_manager.cpp:22), of the    *)
(* session as a whole: however transactions overlap and whatever fails, a    *)
(* commit that reported success is without a row that was reported done only *)
(* if another transaction on the session has failed, and knows it.           *)
LossIsReported ==
  \A t \in Txns :
    verdict[t] = "committed" /\ ~AnotherFailed(t) => Wrote(t) \subseteq pg.base.rows

(* How a boundary's decision reads in AtomicTxns. *)
Result(decision) ==
  CASE decision = "none" -> "open"
    [] decision = "committed" -> "committed"
    [] decision = "rolled_back" -> "aborted"
    [] decision = "commit_failed" -> "failed"

AbsBuffer == [t \in Txns |-> Wrote(t)]
AbsResult == [t \in Txns |-> Result(verdict[t])]

(* A reader whose statement fails dooms the block of the one writer, whose   *)
(* COMMIT then rolls back without an error.                                  *)
ReadersMayDoom == Discipline = "one_writer" /\ Faults \cap {"read", "release"} # {}

A == INSTANCE AtomicTxns
       WITH store <- pg.base.rows, buffer <- AbsBuffer, result <- AbsResult,
            MayDrop <- ReadersMayDoom

(* "every chunk and statement of this DuckDB transaction lands atomically"   *)
(* (tierdb_transaction.hpp:28): the boundary implements AtomicTxns.  Durable *)
(* rows appear in one step, at the commit of their own transaction, and no   *)
(* call of another transaction on the shared session brings them forward.   *)
ImplementsAtomicTxns == A!Spec

-----------------------------------------------------------------------------
(* The inductive invariant behind LossIsReported, which assumes nothing: what *)
(* an undisturbed transaction has written is in the session's view, and a    *)
(* block is doomed only by a transaction that has failed.                    *)

(* A session sees what is durable, and more of it only inside a block. *)
OnlyAdds(s) ==
  /\ s.base.rows \subseteq s.work.rows
  /\ s.status \in {"idle", "lost"} => s.work.rows = s.base.rows

DoomHasCulprit == pg.status = "aborted" => \E t \in Txns : Failed(t)

EndsAreRecorded ==
  \A t \in Txns :
    /\ phase[t] \in {"new", "active", "failed"} => verdict[t] = "none" /\ ~error[t]
    /\ phase[t] = "new" \/ (phase[t] = "active" /\ ~writeActive[t]) => chunks[t] = 0

WritesAreSeen ==
  \A t \in Txns : phase[t] = "active" /\ ~AnotherFailed(t) =>
    Wrote(t) \subseteq pg.work.rows \/ (pg.status = "lost" /\ inTxn)

LossInv ==
  /\ ServerTxnIsTracked
  /\ OnlyAdds(pg)
  /\ DoomHasCulprit
  /\ EndsAreRecorded
  /\ WritesAreSeen
  /\ LossIsReported

-----------------------------------------------------------------------------
(* The inductive invariant behind the other properties of the writes.  It    *)
(* holds under the assumption Ordered: COMMIT is not refused, and there is   *)
(* one writer at a time.  Durability also needs that no statement of a       *)
(* reader beside the writer fails: Sheltered.                                *)

Ordered == "refuse" \notin Faults /\ Discipline \in {"serial", "one_writer"}

Sheltered == Ordered /\ ~ReadersMayDoom

AtMostOneOpen ==
  /\ \A t, u \in Writers : Open(t) /\ Open(u) => t = u
  /\ Discipline = "serial" => \A t, u \in Txns : Open(t) /\ Open(u) => t = u

WritingIsFlagged ==
  \A t \in Txns :
    writeActive[t] => t \in Writers /\ phase[t] \in {"active", "failed"} /\ inTxn

FlagMeansBlock ==
  inTxn /\ pg.status # "lost" => pg.status \in {"open", "aborted"}

(* What the block holds is what its owner was told, unless it is doomed.  *)
BlockHolds ==
  /\ pg.status \in {"idle", "lost"} => pg.work.rows = pg.base.rows
  /\ \A t \in Txns : writeActive[t] =>
       /\ pg.status = "open" /\ phase[t] = "active" =>
            pg.work.rows = pg.base.rows \cup Wrote(t)
       /\ pg.status = "aborted" => phase[t] = "failed" \/ ReadersMayDoom

Undecided ==
  \A t \in Txns :
    /\ verdict[t] = "none" <=> phase[t] \in {"new", "active", "failed"}
    /\ verdict[t] = "none" /\ ~writeActive[t] => chunks[t] = 0
    /\ verdict[t] = "none" => pg.base.rows \cap RowsOf(t) = {}

(* A commit makes all of its rows durable, or none where a reader can doom it. *)
CommitIsWhole ==
  \A t \in Txns : verdict[t] = "committed" =>
    \/ Wrote(t) \subseteq pg.base.rows
    \/ ReadersMayDoom /\ pg.base.rows \cap RowsOf(t) = {}

WriteInv ==
  /\ AtMostOneOpen
  /\ WritingIsFlagged
  /\ FlagMeansBlock
  /\ FlagHasOwner
  /\ ServerTxnIsTracked
  /\ BlockHolds
  /\ Undecided
  /\ CommitIsWhole
  /\ RollbackLeavesNothing

-----------------------------------------------------------------------------
(* Properties of the pins.                                                  *)

(* A pin that a transaction relies on is a row of the session, or of a block *)
(* that is doomed, until the transaction reaches its boundary: what a failed *)
(* statement or an earlier boundary has rolled back is never a pin of it.    *)
PinHeldIsKept ==
  \A t \in Txns : \A table \in pins[t] :
    phase[t] = "active" /\ Answers => PinRow(t, table) \in pg.work.pins

(* Once the worker can see a pin, it sees it until the transaction that      *)
(* acquired it has come to its boundary, whatever the other transactions of  *)
(* the shared session commit, roll back or release meanwhile.                *)
VisiblePinStays ==
  [][\A pin \in pg.base.pins \ pg'.base.pins :
       phase[pin.txn] \in {"releasing", "ended"}]_vars

(* ReleasePins "releases every pin this transaction acquired"                *)
(* (tierdb_transaction.hpp:25): when no transaction is left, no pin row is,  *)
(* and the worker is not held back until a TTL expires.                      *)
PinsReleased ==
  pg.status # "lost" /\ (\A t \in Txns : ~Open(t)) => pg.base.pins = {}

(* A boundary that was entered ends, however the pins' release goes: no      *)
(* pin is retried for ever, and no transaction waits for another one.        *)
BoundaryCompletes ==
  \A t \in Txns : phase[t] = "releasing" ~> phase[t] = "ended"

==============================================================================
