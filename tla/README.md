# A verification project for the TierDB DuckDB extension

TierDB keeps a table in tiers: recent ("hot") rows in a Postgres heap, old
("cold") rows in a lake, and changes of cold rows in an overlay, the table
`tierdb.delta`. A *cut-line* on the table's tier key separates hot from cold.
The extension attaches a TierDB database to DuckDB: DuckDB reads one merged table
and writes to whichever tier a row belongs to. A worker, which is not part of
the repository, moves the cut-line. A *direct* table has no overlay: its cold
rows are written to the lake by lake statements.

This directory holds TLA+ modules translated from the source, the TLC
configurations that check them on small instances, and proofs for TLAPS of what
holds for every instance.

## 1. Inventory

| Component | Source | State | Operations | Interacts with |
|---|---|---|---|---|
| Transaction boundary | `src/storage/tierdb_transaction*.cpp` | per DuckDB transaction: `scan_by_table`, `pins`, `write_active` | start, pin a scan, begin the write transaction, commit, roll back, release pins | DuckDB calls it from several threads; it calls the client |
| Client and connection | `src/storage/tierdb_client.cpp`, `tierdb-core-ffi/src/catalog.rs`, `lib.rs` | one per attached catalog: the Postgres session, `Conn::in_txn`, `conn_lock` | one call at a time: begin, commit, rollback, acquire and release a pin, DML chunks, look-ups | shared by **all** transactions of the catalog |
| Read pins and merged scan | `tierdb-core-ffi/src/scan.rs`, `src/storage/tierdb_table.cpp` | rows of `tierdb.read_pins` | acquire (joins an open block or opens a short one), render, release, expire | worker (pins hold it back); the rendered SQL runs on another connection |
| DML routing | `tierdb-core-ffi/src/write.rs`, `src/storage/tierdb_{insert,update,delete}.cpp` | heap, delta, lake | `insert_chunk`, `update_chunk`, `delete_chunk` for tiered, mirrored and direct tables; retention guard | reads the cut-line that the worker moves |
| DML planning | `src/storage/tierdb_catalog.cpp` | none | `PlanInsert`, `PlanDelete`, `PlanUpdate` | decides which rows and keys reach a sink |
| Direct-mode lake statements | `tierdb_client.cpp:272`, `write.rs:77` | lake table, advisory lock | `take_lake_lock`, `TierDBExecuteLakeDml` with a bounded retry | commits outside the Postgres transaction, beside other processes and maintenance |
| Catalog and schema caches | `tierdb_catalog.cpp`, `tierdb_schema.cpp` | `schemas`, `tables`, their two locks | load, look up, scan with a callback | client look-ups, made under a lock; DuckDB keeps pointers to entries |
| Cut-line worker | not in the repository | `tierdb.cutline`, lake snapshots | move the cut-line, expire, compact | commits beside every statement |
| C ABI, values and types, extension loading | `abi.rs`, `tierdb_json.cpp`, `tierdb_extension.cpp`, `tierdb_storage.cpp` | none worth a model | conversion and registration | |

What is hard here:

* **Concurrency.** `conn_lock` makes one call of the client atomic, and nothing
  makes two calls atomic. Every DuckDB transaction of a catalog goes through one
  Postgres session and one flag. Threads fill the caches beside each other.
* **Failure.** A statement fails in the middle of a chunk, a pin fails in
  somebody's block, COMMIT is refused, the connection breaks before or inside
  COMMIT, a release fails, a lake statement fails with or without effect, the
  process dies between a lake commit and COMMIT. Most handlers swallow what they
  catch.
* **Ordering.** `write_active` is cleared before the call that may fail, removals
  come before writes, lake commits come before COMMIT, and pins are released after it.
* **Stale state.** A chunk reads the cut-line and acts on it later, a scan is
  frozen for a whole transaction, a list of tables is older than the lock it is
  used under.

What makes each part correct: the boundary makes a transaction's writes atomic
and durable and leaves neither a flag, nor a block, nor a pin behind; what a
pinned scan reads is not reclaimed, and no pin stops the worker for good; the
three tiers behave as one table with a primary key, wherever the cut-line goes; a
chunk of a direct table is not durable without its lake statements, and
these run in order, once, and not among those of another process; an entry that
DuckDB points to lives on, and look-ups and lists miss nothing.

## 2. Modules

```
PgSession                commands on a Postgres session (external)
   |      \
   |       TierDBLake ................. TierDBLake_proofs, TierDBLakeLegs_proofs
   |
TierDBTransaction ---- INSTANCE AtomicTxns      what the boundary promises
   |      \............................ TierDBTransaction_proofs, TierDBAtomicity_proofs
TierDBPins ............................ TierDBPins_proofs (on TierDBAtomicity_proofs)

TierDBRouting            where a row lives; the halves of a chunk; the merged read
   |
TierDBWrite ---------- INSTANCE LogicalTable    what the tiers promise
          \............................ TierDBWrite_proofs, TierDBTable_proofs

TierDBCatalog ......................... TierDBCatalog_proofs

MCTierDBTransaction, MCTierDBPins, MCTierDBLake, MCTierDBWrite, MCTierDBCatalog
                         instances for TLC
```

`TierDBPins` composes the transactions of a session with the worker: it extends
`TierDBTransaction`, and each of its steps is a step of that module or
of the worker. The proofs about `TierDBTransaction` carry over to it. The other three are
linked by what they assume of each other: `TierDBWrite` takes a statement's
block and its commit as atomic, which is what `TierDBTransaction` is about, and
`TierDBLake` has transactions with a session each, so that exclusion between
processes does not mix with transactions that share a session.

### TierDBTransaction

| State | Code |
|---|---|
| `pg` (`status`, `base`, `work`) | the session behind `Conn::client`: whether a block is open or aborted, what is durable, what the session sees |
| `inTxn` | `Conn::in_txn` |
| `writeActive`, `cached`, `pins` | the members of `TierDBTransaction` |
| `phase` | where DuckDB is: running statements, invalidated by an exception, inside the boundary, done |
| `chunks` | how many chunks were reported done |
| `verdict`, `error` | what `CommitWrite` or `RollbackWrite` did, and the `ErrorData` of the commit |

An action is one call of the client, with the C++ around it that touches no
shared state. `GetPinnedScan` is the whole of `acquire_scan`, whose BEGIN, pin and
COMMIT happen under one hold of `conn_lock`; that makes them one step for the
catalog's other calls, and `TierDBPins` takes them apart for the worker. A boundary is several
actions, `CommitWrite` or `RollbackWrite`, one `ReleaseReadPin` per pin and
`EndTransaction`, because other transactions get the lock in between. Every call has
a failing twin, and `Faults` says which ones an instance includes. A row write is
told apart only by its transaction, its chunk and the tier it lands in.

`Discipline` is a promise of the application and not of the code: `serial` (one
transaction at a time, as in `test/sql`), `one_writer` (any readers beside one
writer) or `free`.

### TierDBPins

| State | Code |
|---|---|
| `published` | the cut-line and lake snapshot of each table, by its number (a *generation*) |
| `floor` | the oldest generation that the worker has left readable |
| `acquiring` | the `acquire_scan` that holds `conn_lock`, with the generation it has read |
| `pinnedAt` | the generation in a row of `tierdb.read_pins`, and in the SQL rendered with it |
| `hidden` | pins that were not durable when `acquire_scan` returned |
| `late` | pins whose generation had been reclaimed when `acquire_scan` returned |
| `expired` | pins older than `READ_PIN_TTL_SECS` |

`acquire_scan` is two steps. `ReadCutline` is its read of the cut-line, and `AcquireScan` the rest:
`GetPinnedScan`, or its failure, with the generation that was read. `conn_lock`, held over both,
keeps the catalog's own calls out of the time between. It does not keep the worker
out, and neither does REPEATABLE READ, which freezes what the block reads and locks none of it.
A table without a cut-line (`HotOnly`) takes no pin. The worker
(`Advance`, `Reclaim`) is another session: it sees durable pins only, and
reclaims a generation when each durable pin on the table has expired or is of a
later one. The pin row and its COMMIT are one step: nobody but the session sees the row before
it is committed, and the worker's steps in between are the same as steps before the row.

`tierdb_transaction.hpp:22` says "Direct-mode tables carry an attach_sql instead of a pin". What
`pin_and_render` does depends on the cut-line and not on the mode: it inserts
a pin whenever there is a cut-line. The model follows the code.

### TierDBRouting and TierDBWrite

A row is `[key, tk, val]`. `DeleteRows` and `WriteRows` are `delete_rows` and
`write_rows` for tiered tables: routing by the cut-line, the floor of the heap
DELETE, tombstones, replacement of the delta entry by key.

| State | Code |
|---|---|
| `heap`, `delta`, `lake` | the heap and `tierdb.delta`, as committed, and the lake snapshot of the cut-line |
| `cut`, `line` | `tier_key_hi` and `retention_line` of `tierdb.cutline` |
| `work` | heap and delta as the statement's own block sees them |
| `stmt`, `todo` | the pairs `[old, new]` of the statement, and those no chunk has handled |
| `seen` | `cutline` and `retention_line` as the chunk has read them |

A statement is a set of pairs. A chunk takes up to `ChunkRows` of them, any ones,
since DuckDB says nothing of order and may hand on chunks that are not full; its three steps are
`ReadCutline`, `ReadRetentionLine` and `RunChunk` (or `Fail`, which rolls the statement
back). `RunChunk` applies `InsertChunk`, `DeleteChunk` or `UpdateChunk`, the row
statements of `insert_chunk`, `delete_chunk` and `update_chunk`. A table without a
cut-line is one whose cut-line is below every tier key: all rows
are hot and the floor excludes none. Likewise for a retention line that is NULL.

External, and modelled by how the code uses them: `route`, `heap_insert_from_jsonb_sql`
(whether it replaces a row with the same key or fails is not this repository's
to say: both may happen), the rendered merged read (from the tests of `scan.rs` and
`test/sql/tierdb_read.test`) and the worker. The worker moves rows below the new
cut-line into the lake, folding the delta, and may or may not evict them from the heap;
it raises the retention line and expires rows in two steps, since
`tierdb_write.test` shows rows below the line that are still readable. It is
charitable: it never commits while a block has uncommitted rows.

`WorkerRaces` lets the worker commit between a chunk's reads and its row
statements. Without `FreeKeys` a statement keeps two promises that the code needs and does
not check: it writes no key that another row of the table has, on either side of the cut-line,
and no chunk writes a key that a later chunk removes (`KeysApart`).

### TierDBLake

| State | Code |
|---|---|
| `pg` | each process's session; a row stands for the row statements of a chunk |
| `lakeLocks` | the advisory locks of `lake_commit_lock_sql` |
| `phase`, `plan` | where each transaction is, and the chunks it has started |
| `next`, `attempt` | the two loops of `TierDBExecuteLakeDml`: the statement in `lake_sql`, and the attempt at it |
| `lakeLog` | the commits of each lake table, in their order |

A chunk is `StartChunk` (its row statements), `TakeLakeLock`, and the loop
`RunLakeSql`, `LakeConflict` and `LakeError`; then come `Commit`, `CommitFails` or `Rollback`, and at any
time `ConnectionLost` and `Crash`. The row statements precede the
lock, as they do in `write.rs`; the lock goes with the block. Postgres breaks a
cycle of waits (`Deadlocked`). A conflict, which maintenance causes without taking
the lock, is a refused commit and has no effect, so that a retry is safe; any other
error may or may not have had one. The code tells the two apart by the text of the error
("409", "Conflict" or "CommitFailed", `tierdb_client.cpp:298`). The fault `misread` is an error after a
commit whose text contains one of these: the statement is tried again, and a log entry
(`misread`) remembers it. An addition that is repeated leaves its key twice, in the model as in the
code, and the properties except just these repetitions.
`lake_upsert` is a removal and an addition by primary key, and all rows of a table have one
key here: that is where a second addition hurts. A failed ATTACH is a
`LakeError` before the first statement. A lake commit that arrives after its
process is gone is not modelled. No ROLLBACK takes lake commits back: a
transaction that fails after its lake leg leaves them in the lake, in
the model as in the code.

### TierDBCatalog

| State | Code |
|---|---|
| `registry` | `tierdb.tables`, changed by its owner at any time |
| `schemaLock`, `schemasLoaded`, `schemas` | members of `TierDBCatalog` |
| `tableLock`, `tables` | members of each `TierDBSchemaEntry`; an entry is told apart by the thread that made it |
| `handedOut` | entries that DuckDB has bare pointers to |
| `call` | where each thread is in `LookupEntry`, `Scan` or the `Scan` without a context |
| `steady` | what has been registered since the thread's call began |

Each lock is a step of its own, and so is each call of the client under it.
`tables` is a `case_insensitive_map_t`, and Postgres is asked for
the exact spelling; hence a look-up in another spelling than the registered one finds a table only
if somebody has cached it before, and of two tables whose names differ in case one shadows the
other. `LookupFinds` speaks of exact spellings. Schemas
are loaded once and entries are kept as they are: a schema whose first table is registered later is not
found, and changed columns are not noticed. That a table is not
registered is recognised by the text of the error (`tierdb_client.cpp:75`). The
callback of a scan only takes entries. `ListTables` also returns an empty list, and no
error, for an answer that is no JSON (`tierdb_client.cpp:49`); the answer is what this repository's own
`abi.rs` has serialised, and the model leaves that case out. `conn_lock` is waited for under both
locks and is not among the locks of the model: whoever holds it waits for none of them.

### Abstract specifications

`AtomicTxns`: a transaction's writes become durable in one step, at its commit, or
never; a failed commit may do either. Its `MayDrop` lets a commit that reports success have
dropped the writes, whole: the code does that where a reader beside the writer may fail
(`ReadersMayDoom`), and the mapping sets `MayDrop` only there. `LogicalTable`: a set of rows; a
statement takes effect at once and as announced, or fails; rows go otherwise only
by expiry. Both are checked as properties of the detailed specification under a
refinement mapping, and both are proved.

## 3. Runs

| Run | Result | Question | Properties |
|---|---|---|---|
| `txn_serial` | holds | Two transactions, two tables (one hot-only), all faults but a refused COMMIT and a failed release. Is each atomic, and does it leave nothing to the next? | `TypeOK`, `CommitIsDurable`, `RollbackLeavesNothing`, `WritesRunInsideTxn`, `FlagHasOwner`, `PinHeldIsKept`, `PinsReleased`, `ImplementsAtomicTxns` |
| `txn_one_writer` | holds | Three transactions, one writer at a time, all faults but a refused COMMIT. Are writes atomic although readers share the session and fail on it, and does every boundary end? | `WriteInv`, `LossIsReported`, `ImplementsAtomicTxns`, `BoundaryCompletes` |
| `pins` | holds | Two writers that overlap freely, all faults, the TTL and the worker. What remains true of their blocks and rows; do pins protect what they should, and no longer than they should? | `PinsTypeOK`, `GuardedIsReadable`, `ServerTxnIsTracked`, `LossIsReported`, `VisiblePinStays`, `ReclaimCatchesUp` |
| `write_tiered` | holds | Statements of up to two rows in one or two chunks beside the worker. Are the tiers one table? | `TypeOK`, `OneRowPerKey`, `WrittenIsThere`, `RemovedIsGone`, `ImplementsLogicalTable` |
| `write_versions` | holds | One row in every version over three tier keys: expired, cold and hot. Does a stale or an expired version return? | `OverlayIsCold`, `ExpiredStaysAway`, `ImplementsLogicalTable` |
| `lake` | holds | Two processes, two direct tables, all faults. Are lake commits ordered, whole, apart and bounded? | `TypeOK`, `LakeRunsInOrder`, `CommittedIsWhole`, `LakeCommitsAreSerial`, `OneLakeRowPerKey`, `LakeWriteEnds` |
| `catalog` | holds | Two threads, two schemas, two spellings, a changing registry and failing calls. Are the caches safe and complete? | `TypeOK`, `HandedOutAreLive`, `ListIsComplete`, `LookupFinds`, `LocksAreOwned`, `LocksAreFreed` |
| `txn_overlap` | violated | Rows of a transaction that rolled back are durable: the other writer's COMMIT ended the shared block | `RollbackLeavesNothing` |
| `pins_hidden` | violated | A scan after a write of its own transaction: its pin is in the write block, where the worker cannot see it, and what the scan reads is reclaimed | `TimelyPinnedIsReadable` |
| `pins_race` | violated | The worker publishes and reclaims between `acquire_scan`'s read of the cut-line and the COMMIT of its pin: the scan is handed out with a durable pin on what is gone | `VisiblyPinnedIsReadable` |
| `write_race` | violated | A DELETE acts on a cut-line that the worker has moved: the row stays and is counted as deleted | `RemovedIsGone` |
| `write_upsert` | violated | An INSERT of a key from the other side of the cut-line leaves two rows with one key | `OneRowPerKey` |

A violated run checks one property that quotes a comment or a test of the
repository; `PROJECT.json` lists what the code does instead. Each of them turns on
one circumstance that the passing runs exclude, so that each passing run also says
under which conditions the promise does hold: of the pins, `GuardedIsReadable` is the promise
without the scans of `pins_hidden` and of `pins_race`. Four circumstances more delimit them:

* `CommitIsDurable` is checked without readers beside the writer (`txn_serial`). A reader's statement that
  fails on the server while a writer's block is open aborts that block, and the writer's COMMIT is then a
  rollback that raises no error: the commit reports success and its rows are gone. `txn_one_writer` has
  this fault, and shows what is left of the promise: the rows go whole (`CommitIsWhole` in `WriteInv`,
  `MayDrop` in `ImplementsAtomicTxns`), and somebody was told, if not the writer (`LossIsReported`).
* In both of the atomicity runs COMMIT is not refused. If it is, `in_txn` stays set
  and `write_active` is already cleared, so that the next transaction believes in a block that is
  gone and its writes are durable one by one, before its boundary. `pins` has the refused COMMIT, and shows
  that even so no block escapes `in_txn` and no lost row goes unreported.
* In `lake` a statement that was committed and taken for a conflict is repeated. `tierdb_client.cpp:289` says "the statement
  failed whole, so a bounded retry is safe"; `LakeRunsInOrder` and `OneLakeRowPerKey` except what the repetition does.
* In the `write_` runs a chunk writes no key that a later chunk removes
  (`KeysApart`). An UPDATE that moves keys along may do so, and the later chunk then deletes what the earlier one wrote:
  removals come before writes in a chunk, not in a statement.

Every passing property is also checked against a mistaken variant of a definition
(`AcquireNested`, `UpdateChunkReversed`, `OnErrorRetry`, `NotRegisteredKeepsLock` and so on, next to the definition
each one perturbs), which must violate it.

**Bounds.** Two transactions meet in every order of calls, and a third one lets a reader
meet a finished writer and a running one. One or two chunks distinguish a chunk that is
done from one that is half executed. Two tables distinguish a table with a
pin from one without, and two direct tables let processes wait for each other. Two
generations distinguish a pin that is current from one that is overtaken or reclaimed; with one chunk of
each of two writers, `pins` has a boundary of the one between any two calls of the other. Two keys suffice for rows of a statement to meet each other, and two
tier keys for the cut-line to lie below, between and above them; the three tier
keys of `write_versions` are one expired, one cold and one hot at a time. With two rows
and chunks of two, `write_tiered` has key swaps inside a chunk as well as statements over two chunks.
`lake` has INSERTs (an upsert, two commits) and DELETEs (one); an UPDATE is a
DELETE and an INSERT in the same loop, a chunk of hot rows passes the loop by, and the proofs cover both. One misread commit is enough, since a
second one repeats the same harm. Three attempts are the code's own number. One name in two
spellings is enough for every collision of the map, and two schemas for a
list that goes from one to the next.
`MaxChunks`, `MaxRows`, `ChunkRows`, `MaxGeneration` and `MaxMisread` are the only caps; keys are
interchangeable in `write_tiered`, which uses that symmetry. Deadlock is checked in every run: the stutter
`AllEnded` marks the intended end of the transactions.

**Fairness.**

| Property | Weak fairness of | Because |
|---|---|---|
| `BoundaryCompletes` | `FinishBoundary` of each transaction | `CommitTransaction` and `RollbackTransaction` are straight-line functions: the thread that has called one runs to its return |
| `ReclaimCatchesUp` | `Expire` of each pin, `Reclaim` of each table | time passes, and the worker goes on with what it may do; of the transactions nothing is assumed |
| `LakeWriteEnds` | `LakeLoop` of each transaction | a sink in its loop is not suspended; which outcome an attempt has is left open |
| `LocksAreFreed` | `Step` of each thread | a thread that has called the catalog goes on. This takes it that calls of the client return, although one may wait for `conn_lock` while a chunk holds that and waits for a lake lock. `std::mutex` promises no fairness among those who wait, so the property is that each lock is free again and again, and not that everybody gets it |

Nothing is assumed of statements, of starts, of COMMIT or of moves of the cut-line.

## 4. Proofs

The proofs hold for all constants that satisfy the modules' assumptions: any sets of
transactions, tables, keys, threads, any faults and any bounds.

**Boundary.** `TierDBTransaction_proofs` assumes nothing of the application's
discipline:

* `TypeCorrect` (`TypeOK`) and `BlocksAreTracked` (`ServerTxnIsTracked`), which is
  inductive together with the types.
* `FlagsHaveOwners` (`FlagHasOwner`, and `FlagMeansBlock`: an announced session that
  lives has a block): a flag that nobody owns would make the next writer skip its
  BEGIN. It assumes that COMMIT is not refused, and the circumstance above shows
  why.
* `LossesAreReported` (`LossIsReported`), without any assumption: free overlap,
  every fault, a shared block that somebody else commits or rolls back. The property
  is far from inductive. `LossInv` adds that the session's view has all that is
  durable (`OnlyAdds`), that a doomed block has a culprit who knows it
  (`DoomHasCulprit`), that a decision fits its phase (`EndsAreRecorded`), and that
  an active transaction sees each row it was told is done, unless another transaction
  has failed or the session is lost with `in_txn` set, so that COMMIT will raise an
  error (`WritesAreSeen`). The argument: a block disappears without COMMIT only
  by a ROLLBACK, an error or a lost session. Failures are never forgotten
  (`FailuresStay`), nothing but those takes rows from the session's view
  (`NothingLost`, `CommandsOnlyAdd`), and whoever is behind one of them is `Failed`
  from then on (`BlameTaken`).

`TierDBAtomicity_proofs` assumes `Ordered`: COMMIT is not refused, and either
transactions are serial or one writer is open at a time. `txn_overlap` and the
refused COMMIT show why. Readers may overlap the writer, and fail. It proves
`WritesAreInductive`, `RollbacksLeaveNothing`, `WritesStayInsideTxn` and
`BoundaryIsAtomic` (the refinement of `AtomicTxns`). `CommitsAreDurable` needs
`Sheltered` in addition, that no reader beside the writer fails. None of these is
inductive: that a commit makes the right rows durable depends on what the block
holds, hence on who began it. `WriteInv` adds what ties the three copies of "a write
transaction is open" together: at most one open writer (`AtMostOneOpen`),
`write_active` implies the flag (`WritingIsFlagged`), the flag implies a block
(`FlagMeansBlock`) and an owner (`FlagHasOwner`), the block holds exactly the rows
its owner was told are done unless it is doomed (`BlockHolds`), an undecided
transaction has nothing durable (`Undecided`), and a commit is whole or dropped
(`CommitIsWhole`). One lemma per action rests on three lemmas on kinds of steps:
`QuietStep` (rows untouched), `FailingStep` (a transaction is doomed) and
`BoundaryStep` (a block ends). Each lemma on an action also says what becomes of the
durable rows, which is what the refinement needs.

**Pins.** By `PinsRefineTransactions` each step of `TierDBPins`, beside the worker and
the clock, is one of `TierDBTransaction`'s or leaves its variables alone; the
theorems above use no more than that, so they hold there too. Fairness, which
speaks of `ENABLED`, is not refined. Otherwise
`TierDBPins_proofs` has three arguments.

* For any discipline and any faults: `PinsTypesHold` (`PinsTypeOK`),
  `VisiblePinsStay` (`VisiblePinStays`, an action property) and
  `PinnedScansAreReadable` (`GuardedIsReadable`: of the scans whose pin was durable and
  whose generation was left when they were handed out, whatever the worker did
  between the read of the cut-line and the COMMIT). None is inductive: the
  worker spares a generation because of a pin that is durable, and a durable pin may
  be deleted in somebody's block and come back with its rollback. `GapIsReleased`
  says that a durable pin which the session's own view has lost belongs to a
  transaction at its boundary, and `PinsInv` adds that a pin that a scan relies on
  (its transaction active, the pin not expired, not hidden and not late) is durable
  and of a generation that is left.
* `HeldPinsAreKept` (`PinHeldIsKept`) assumes serial transactions: then nobody else
  executes a statement (`StepsAreOwn`), and only the transaction's own error takes
  its pins out of the session's view.
* `PinsAreReleased` (`PinsReleased`) assumes in addition that COMMIT is not refused
  and that no release fails; a session that is lost is excepted by the property. It
  needs `WriteInv`: a boundary that has dealt with the writes has a session at rest
  (`AtRest`), so that each release is durable at once. `ReleasedInv` says that a pin
  row is on its transaction's list, but for a pin whose scan failed to render inside
  a block, and that block is doomed.

**Tiers.** The theorems say as little of the circumstances as their argument allows;
every one needs at least one tier key.

* `TierDBWrite_proofs`: `OverlaysAreCold` (`OverlayIsCold`), for any keys and also
  when the worker commits inside a chunk. It is not inductive, because a chunk
  routes by a cut-line that it read before: `OverlayInv` adds that the block's own
  view of the overlay is cold (`WorkOverlayIsCold`), and that a cut-line that was
  read is never above the one that holds (`SeenIsPast`), since cut-lines only rise.
  What a chunk sends to the overlay as cold then still is.
* `TierDBTable_proofs`, `~WorkerRaces`: `RemovedAreGone` (`RemovedIsGone`) and
  `ExpiredStayAway` (`ExpiredStaysAway`), whatever keys the statements give, upserts
  across the cut-line and double keys included. The lines that a chunk has read are
  then the ones that hold (`SeenIsCurrent`), and `LiveInv` bounds what a block reads
  from above: nothing that the chunks done so far have not left or written
  (`BlockReadsNoMore`).
* With `~FreeKeys` besides: `TableTypes` (`TypeOK`), `KeysAreUnique`
  (`OneRowPerKey`), `WritesAreThere` (`WrittenIsThere`) and `TiersAreOneTable`, the
  refinement of `LogicalTable`. `write_upsert` shows why.

For the last group the bound must be an equation. The invariant `TableInv` says what
a block reads after any of the statement's chunks: the table with exactly these
chunks done (`BlockReads`). For that to be inductive the rows of a statement must
have distinct keys (`PairsAreApart`), and what is left of it may neither meet a row
with its key nor remove one that was written (`StatementFits`). The lemmas
`DeleteReads` and `WriteReads` say what the two halves of a chunk do to the merged
read, for any heap, overlay and lake: the rows go, and the rows come, whichever side
of the cut-line they are on. `ChunkReads` joins them. `MoveStep` is the worker's:
its moves leave the merged read alone.

**Lake.** `TierDBLake_proofs`: `LakeTypes` and `LakeIsSerial`
(`LakeCommitsAreSerial`). The log alone does not say who may still append to it;
`LakeInv` adds that locks exclude (`LocksExclude`), that who has written a table and
may go on holds its lock (`WritersHoldLocks`), and that whoever was followed by
another writes no more (`OvertakenIsOver`). `TierDBLakeLegs_proofs`:
`CommitsAreWhole` (`CommittedIsWhole`), from `LegsInv`, by which the block of a
running transaction holds exactly the chunks it has started and their lake legs are
done but for the rest of the one in progress; `LakeIsOrdered` (`LakeRunsInOrder`),
from `OrderInv`: no commit is ahead of its loop, and none is of the statement in
progress but those that were misread (`StepIsOver`); and `LakeKeysAreUnique`
(`OneLakeRowPerKey`), from both orders: the commits before an addition are those of
the same loop (serial) up to the removal that the addition follows in its chunk's
statements, and misread commits of the addition itself.

**Caches.** `TierDBCatalog_proofs`: `CatalogTypes`, `EntriesStayValid`
(`HandedOutAreLive`), `ListsAreComplete` (`ListIsComplete`), `LookupsFind`
(`LookupFinds`) and `LocksHaveOwners` (`LocksAreOwned`). The invariant has three
parts. By `CallOK` a thread that is about to insert an entry holds the lock of its
schema and has found nothing under the key since it took the lock, so that the
insertion frees nothing. By `AnswerInv` a list has each steady table still ahead of
it, or has come past an entry with its key. By `LockInv` the locks are held by
exactly the threads that are inside what they guard, and a thread that looks up a
table goes on to the lock of that table's schema; that nobody waits with a lock in
hand makes a ring of waits impossible, for any number of threads and schemas. That
the locks come free again is the liveness property `LocksAreFreed`.

Only model-checked: liveness (`BoundaryCompletes`, `ReclaimCatchesUp`,
`LakeWriteEnds`, `LocksAreFreed`), since fairness is defined by `ENABLED`, which the
prover does not treat. Every other property of a passing run is the statement of a
theorem.

## 5. Not modelled

* Mirrored tables: which sides a chunk writes is decided by `Mode::plan_insert` and
  `Mode::plan_delete` of tierdb-core, whose source is not in the repository.
* Several statements per transaction in `TierDBWrite`: the scan of a later statement runs on other
  connections, which do not see the transaction's uncommitted rows, and is
  rendered once per table. `TierDBPins` has the frozen scan, without rows.
* The payloads of lake statements (`lake_delete` by key or by row), and transactions
  of one session on direct tables: the advisory lock is the session's, and excludes
  nothing between them.
* The loss of a session while a lake loop runs is in the model, and the properties of
  exclusion except it: the lock is gone and the loop goes on, and the code has no answer.
* Column lists and types of cached entries, and an ALTER TABLE between the two queries
  of a look-up.
* JSON cells, type names, SQL text, the C ABI, loading and ATTACH options: pure
  conversions, or run once, without a protocol.

## 6. Plan

1. Done: `TierDBTransaction`, `TierDBPins`, `TierDBRouting`, `TierDBWrite`, `TierDBLake`, `TierDBCatalog`,
   with proofs of all their safety properties.
2. Left: mirrored tables, once the plans of tierdb-core are at hand, and transactions of
   several statements over `TierDBWrite`.
