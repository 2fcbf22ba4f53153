----------------------------- MODULE TierDBLake -----------------------------
(***************************************************************************)
(* Cold writes of direct-mode tables.                                      *)
(*                                                                         *)
(* A chunk of a direct table has two legs.  Its row statements run in the  *)
(* transaction block of the process's own Postgres session, as they do for *)
(* every table.  Its lake statements come back to the sink in lake_sql and *)
(* are executed by TierDBExecuteLakeDml on a DuckDB connection of its own, *)
(* where each of them commits to the Iceberg table by itself, long before  *)
(* the block does.  An advisory lock of the block keeps the lake commits   *)
(* of different processes apart; maintenance does not take it.             *)
(*                                                                         *)
(* Each transaction here belongs to a process, and so to a session, of its *)
(* own: TierDBTransaction is about transactions that share one.            *)
(*                                                                         *)
(* Some definitions are preceded by variants of themselves that no action  *)
(* uses: each makes a mistake that the properties at the end must notice.  *)
(***************************************************************************)
EXTENDS PgSession, Integers, Sequences, FiniteSets

CONSTANTS
  Txns,       \* DuckDB transactions, each in a process of its own
  Tables,     \* direct-mode tables
  Chunks,     \* the DML chunks that a transaction may run
  MaxChunks,  \* bound: chunks of a transaction
  MaxMisread, \* bound: commits that are taken for conflicts, of all transactions
  Faults      \* what may go wrong

(* A fault of kind                                                          *)
(*   chunk     is an error of a chunk call, on the server or before it      *)
(*   lake      is an error of ATTACH or of a lake statement; the catalog    *)
(*             may have committed the statement all the same                *)
(*   conflict  is a commit that the catalog refuses, because maintenance    *)
(*             has committed meanwhile                                      *)
(*   misread   is an error after the catalog has committed the statement,   *)
(*             whose text the sink takes for a conflict's                   *)
(*   refuse    is a COMMIT that Postgres answers with an error              *)
(*   lost      is a broken Postgres connection                              *)
(*   crash     is the end of a process                                      *)
ASSUME ConstantsOK ==
  /\ MaxChunks \in Nat /\ MaxMisread \in Nat
  /\ Chunks \subseteq [table : Tables, kind : {"hot", "delete", "insert", "update"}]
  /\ Faults \subseteq {"chunk", "lake", "conflict", "misread", "refuse", "lost", "crash"}

(* The lake statements of a chunk.  lake_upsert replaces rows by primary    *)
(* key, a removal and an addition; an UPDATE is lake_delete, then           *)
(* lake_upsert.  All rows of a table have one key here.                     *)
LakeSql(kind) ==
  CASE kind = "hot" -> << >>
    [] kind = "delete" -> <<"remove">>
    [] kind = "insert" -> <<"remove", "add">>
    [] kind = "update" -> <<"remove", "remove", "add">>

MaxAttempts == 3

Ended == {"committed", "commit_failed", "rolled_back", "crashed"}

VARIABLES
  pg,         \* each process's Postgres session; a row stands for a chunk
  lakeLocks,  \* advisory locks held: lake_commit_lock_sql
  phase,      \* where each transaction is
  plan,       \* the chunks that it has started
  next,       \* position in lake_sql of the chunk in progress
  attempt,    \* attempt at that statement
  lakeLog     \* the commits of each lake table, in their order

vars == <<pg, lakeLocks, phase, plan, next, attempt, lakeLog>>
server == <<pg, lakeLocks>>
loop == <<next, attempt>>

Lock == [table : Tables, txn : Txns]
LakeCommit == [txn : Txns, chunk : 1..MaxChunks, step : 1..3, misread : BOOLEAN]

TypeOK ==
  /\ pg \in [Txns -> PgSessions(SUBSET (1..MaxChunks))]
  /\ lakeLocks \subseteq Lock
  /\ phase \in [Txns -> {"active", "locking", "lake", "failed"} \cup Ended]
  /\ plan \in [Txns -> Seq(Chunks)] /\ \A t \in Txns : Len(plan[t]) <= MaxChunks
  /\ next \in [Txns -> 1..3]
  /\ attempt \in [Txns -> 1..MaxAttempts]
  /\ lakeLog \in [Tables -> Seq(LakeCommit)]

Init ==
  /\ pg = [t \in Txns |-> [status |-> "idle", base |-> {}, work |-> {}]]
  /\ lakeLocks = {}
  /\ phase = [t \in Txns |-> "active"]
  /\ plan = [t \in Txns |-> << >>]
  /\ next = [t \in Txns |-> 1]
  /\ attempt = [t \in Txns |-> 1]
  /\ lakeLog = [table \in Tables |-> << >>]

Live(t) == phase[t] \notin Ended
Lost(t) == pg[t].status = "lost"
Current(t) == plan[t][Len(plan[t])]

Goto(t, p) == phase' = [phase EXCEPT ![t] = p]
Session(t, s) == pg' = [pg EXCEPT ![t] = s]

(* A transaction-level advisory lock goes with the block that took it: at   *)
(* its end, at an error on the server, and with the connection.             *)
ReleaseLocks(t) == lakeLocks' = {l \in lakeLocks : l.txn # t}

-----------------------------------------------------------------------------
(* The chunk call: EnsureWriteTxn, the row statements, take_lake_lock.      *)

StartChunk(t, chunk) ==
  /\ phase[t] = "active"
  /\ Len(plan[t]) < MaxChunks
  /\ ~Lost(t)
  /\ LET s == PgBegin(pg[t]) IN
       Session(t, PgExec(s, s.work \cup {Len(plan[t]) + 1}))
  /\ plan' = [plan EXCEPT ![t] = Append(@, chunk)]
  /\ Goto(t, IF LakeSql(chunk.kind) = << >> THEN "active" ELSE "locking")
  /\ UNCHANGED <<lakeLocks, loop, lakeLog>>

ChunkFails(t) ==
  /\ phase[t] = "active"
  /\ Len(plan[t]) < MaxChunks
  /\ \/ Lost(t) /\ UNCHANGED server
     \/ /\ "chunk" \in Faults /\ ~Lost(t)
        /\ Session(t, PgBegin(pg[t])) /\ UNCHANGED lakeLocks
     \/ /\ "chunk" \in Faults /\ ~Lost(t)
        /\ Session(t, PgError(PgBegin(pg[t]))) /\ ReleaseLocks(t)
  /\ Goto(t, "failed")
  /\ UNCHANGED <<plan, loop, lakeLog>>

(* The transaction whose block holds the lock that t waits for. *)
Holders(table) == {l.txn : l \in {k \in lakeLocks : k.table = table}}
BlockersNever(t) == {}
Blockers(t) == Holders(Current(t).table) \ {t}

TakeLakeLock(t) ==
  /\ phase[t] = "locking"
  /\ ~Lost(t)
  /\ Blockers(t) = {}
  /\ lakeLocks' = lakeLocks \cup {[table |-> Current(t).table, txn |-> t]}
  /\ Goto(t, "lake")
  /\ UNCHANGED <<pg, plan, loop, lakeLog>>

(* Postgres ends the wait of one transaction of a cycle. *)
Deadlocked(t) ==
  \E S \in SUBSET Txns :
    /\ t \in S
    /\ \A u \in S : phase[u] = "locking" /\ ~Lost(u) /\ Blockers(u) \cap S # {}

LockWaitFails(t) ==
  /\ phase[t] = "locking"
  /\ \/ Lost(t) /\ UNCHANGED server
     \/ Deadlocked(t) /\ Session(t, PgError(pg[t])) /\ ReleaseLocks(t)
  /\ Goto(t, "failed")
  /\ UNCHANGED <<plan, loop, lakeLog>>

-----------------------------------------------------------------------------
(* TierDBExecuteLakeDml: the attach, then each statement with its retries.  *)
(* next and attempt are its locals.                                         *)

CommitToLake(t, misread) ==
  lakeLog' = [lakeLog EXCEPT ![Current(t).table] =
    Append(@, [txn |-> t, chunk |-> Len(plan[t]), step |-> next[t], misread |-> misread])]

Return(t, p) ==
  /\ Goto(t, p)
  /\ next' = [next EXCEPT ![t] = 1]
  /\ attempt' = [attempt EXCEPT ![t] = 1]

RunLakeSql(t) ==
  /\ phase[t] = "lake"
  /\ CommitToLake(t, FALSE)
  /\ IF next[t] < Len(LakeSql(Current(t).kind))
       THEN /\ next' = [next EXCEPT ![t] = @ + 1]
            /\ attempt' = [attempt EXCEPT ![t] = 1]
            /\ UNCHANGED phase
       ELSE Return(t, "active")
  /\ UNCHANGED <<server, plan>>

(* What a failed attempt leads to. *)
Retry(t) ==
  /\ attempt[t] < MaxAttempts
  /\ attempt' = [attempt EXCEPT ![t] = @ + 1]
  /\ UNCHANGED <<phase, next>>
GiveUp(t) == Return(t, "failed")

OnConflictOnceMore(t) ==
  \/ /\ attempt[t] <= MaxAttempts
     /\ attempt' = [attempt EXCEPT ![t] = @ + 1]
     /\ UNCHANGED <<phase, next>>
  \/ attempt[t] > MaxAttempts /\ GiveUp(t)
OnConflictForEver(t) ==
  /\ attempt' = [attempt EXCEPT ![t] = (@ % MaxAttempts) + 1]
  /\ UNCHANGED <<phase, next>>
OnConflictSkip(t) ==
  \/ Retry(t)
  \/ attempt[t] = MaxAttempts /\ Return(t, "active")
OnConflict(t) ==
  \/ Retry(t)
  \/ attempt[t] = MaxAttempts /\ GiveUp(t)

OnErrorRetry(t) == OnConflict(t)
OnError(t) == GiveUp(t)

(* Bound of the model: commits taken for conflicts. *)
Misread ==
  UNION {{table} \X {i \in DOMAIN lakeLog[table] : lakeLog[table][i].misread} : table \in Tables}

(* The catalog refuses the commit whole.  The sink knows a conflict by the   *)
(* substrings "409", "Conflict" and "CommitFailed", which another error may  *)
(* have in its text, after a commit too.                                     *)
LakeConflict(t) ==
  /\ phase[t] = "lake"
  /\ \/ "conflict" \in Faults /\ UNCHANGED lakeLog
     \/ "misread" \in Faults /\ Cardinality(Misread) < MaxMisread /\ CommitToLake(t, TRUE)
  /\ OnConflict(t)
  /\ UNCHANGED <<server, plan>>

(* Any other error says nothing of what the catalog has done; a failed      *)
(* attach is an error before the first statement.                           *)
LakeError(t) ==
  /\ phase[t] = "lake"
  /\ "lake" \in Faults
  /\ CommitToLake(t, FALSE) \/ UNCHANGED lakeLog
  /\ OnError(t)
  /\ UNCHANGED <<server, plan>>

-----------------------------------------------------------------------------
(* The boundary, and the ends nobody asked for.                             *)

Commit(t) ==
  /\ phase[t] = "active"
  /\ ~Lost(t) \/ plan[t] = << >>
  /\ IF Lost(t) THEN UNCHANGED pg ELSE Session(t, PgCommit(pg[t]))
  /\ ReleaseLocks(t)
  /\ Goto(t, "committed")
  /\ UNCHANGED <<plan, loop, lakeLog>>

CommitFails(t) ==
  /\ phase[t] = "active"
  /\ plan[t] # << >>
  /\ \/ Lost(t) /\ UNCHANGED pg
     \/ "refuse" \in Faults /\ ~Lost(t) /\ Session(t, PgRollback(pg[t]))
     \/ "lost" \in Faults /\ ~Lost(t) /\ Session(t, PgLose(PgCommit(pg[t])))
  /\ ReleaseLocks(t)
  /\ Goto(t, "commit_failed")
  /\ UNCHANGED <<plan, loop, lakeLog>>

Rollback(t) ==
  /\ phase[t] \in {"active", "failed"}
  /\ IF Lost(t) THEN UNCHANGED pg ELSE Session(t, PgRollback(pg[t]))
  /\ ReleaseLocks(t)
  /\ Goto(t, "rolled_back")
  /\ UNCHANGED <<plan, loop, lakeLog>>

(* The server discards the block and its locks; DuckDB goes on until it     *)
(* next calls Postgres, and the lake statements do not.                     *)
ConnectionLost(t) ==
  /\ "lost" \in Faults
  /\ Live(t) /\ ~Lost(t)
  /\ Session(t, PgLose(pg[t]))
  /\ ReleaseLocks(t)
  /\ UNCHANGED <<phase, plan, loop, lakeLog>>

Crash(t) ==
  /\ "crash" \in Faults
  /\ Live(t)
  /\ IF Lost(t) THEN UNCHANGED pg ELSE Session(t, PgRollback(pg[t]))
  /\ ReleaseLocks(t)
  /\ Goto(t, "crashed")
  /\ UNCHANGED <<plan, loop, lakeLog>>

(* Bound of the model: every transaction of Txns has run. *)
AllEnded == (\A t \in Txns : ~Live(t)) /\ UNCHANGED vars

LakeLoop(t) == RunLakeSql(t) \/ LakeConflict(t) \/ LakeError(t)

Step(t) ==
  \/ \E chunk \in Chunks : StartChunk(t, chunk)
  \/ ChunkFails(t)
  \/ TakeLakeLock(t)
  \/ LockWaitFails(t)
  \/ LakeLoop(t)
  \/ Commit(t)
  \/ CommitFails(t)
  \/ Rollback(t)
  \/ ConnectionLost(t)
  \/ Crash(t)

Next == (\E t \in Txns : Step(t)) \/ AllEnded

(* A sink that runs its lake statements is not suspended between them.      *)
Fairness == \A t \in Txns : WF_vars(LakeLoop(t))

Spec == Init /\ [][Next]_vars /\ Fairness

-----------------------------------------------------------------------------
(* Properties.                                                              *)

Op(e) == LakeSql(plan[e.txn][e.chunk].kind)[e.step]
IsStep(e, t, c, s) == e.txn = t /\ e.chunk = c /\ e.step = s

After(e, f) ==
  e.chunk > f.chunk \/ (e.chunk = f.chunk /\ e.step > f.step)
Repeats(e, f) ==
  f.misread /\ e.chunk = f.chunk /\ e.step = f.step

InOrder(log) ==
  /\ \A i, j \in DOMAIN log :
       i < j /\ log[i].txn = log[j].txn => After(log[j], log[i]) \/ Repeats(log[j], log[i])
  /\ \A j \in DOMAIN log : log[j].step > 1 =>
       \E i \in DOMAIN log : IsStep(log[i], log[j].txn, log[j].chunk, log[j].step - 1)

(* "the statement failed whole, so a bounded retry is safe"                  *)
(* (tierdb_client.cpp:290): the lake commits of a transaction are its        *)
(* statements in their order; none is left out before a later one of its     *)
(* chunk, and none is committed twice, but for one that was taken for a      *)
(* conflict.                                                                 *)
LakeRunsInOrder == \A table \in Tables : InOrder(lakeLog[table])

LakeStepDone(t, c, s) ==
  LET log == lakeLog[plan[t][c].table] IN
  \E i \in DOMAIN log : IsStep(log[i], t, c, s)

LakeLegDone(t, c) ==
  \A s \in DOMAIN LakeSql(plan[t][c].kind) : LakeStepDone(t, c, s)

(* "lake statements the caller must execute before committing" (write.rs:85, *)
(* client.hpp:43): wherever the row statements of a chunk are durable, after *)
(* a COMMIT whose answer was lost as well, all its lake statements are; and  *)
(* a commit that DuckDB reports covers every chunk.                          *)
CommittedIsWhole ==
  \A t \in Txns :
    /\ \A c \in pg[t].base : LakeLegDone(t, c)
    /\ phase[t] = "committed" => pg[t].base = DOMAIN plan[t]

(* "Serializes lake commits per table" (write.rs:77): between two commits of *)
(* one transaction on a table no other one commits there, however many       *)
(* statements and chunks they are apart, unless one of the two has lost its  *)
(* session, and with it the lock.                                            *)
LakeCommitsAreSerial ==
  \A table \in Tables : LET log == lakeLog[table] IN
    \A i, j, k \in DOMAIN log :
      i < j /\ j < k /\ log[i].txn = log[k].txn /\ log[j].txn # log[i].txn
        => Lost(log[i].txn) \/ Lost(log[j].txn)

(* What a reader of the table sees: the additions that no later removal has  *)
(* taken away.                                                               *)
LakeRows(table) ==
  LET log == lakeLog[table] IN
  {i \in DOMAIN log : /\ Op(log[i]) = "add"
                      /\ \A j \in DOMAIN log : j > i => Op(log[j]) # "remove"}

(* lake_upsert is a removal and an addition by primary key, in two commits:  *)
(* a key is nevertheless never twice in a table, after any failures, retries *)
(* and crashes, unless a session was lost or an addition that had been       *)
(* committed was taken for a conflict and repeated.                          *)
OneLakeRowPerKey ==
  (\A t \in Txns : ~Lost(t)) =>
    \A table \in Tables : \A i, j \in LakeRows(table) :
      i < j => lakeLog[table][i].misread

(* The retry is bounded: a lake write comes to an end although maintenance   *)
(* makes every attempt a conflict.                                           *)
LakeWriteEnds == \A t \in Txns : phase[t] = "lake" ~> phase[t] # "lake"

-----------------------------------------------------------------------------
(* The inductive invariant behind LakeCommitsAreSerial: a transaction that   *)
(* may still write a table it has written holds the lock of that table.      *)

MayWrite(t) == phase[t] \in {"active", "locking", "lake"} /\ ~Lost(t)
HasWritten(t, table) == \E i \in DOMAIN lakeLog[table] : lakeLog[table][i].txn = t
HoldsLock(t, table) == [table |-> table, txn |-> t] \in lakeLocks

LocksExclude ==
  \A t, u \in Txns : \A table \in Tables :
    HoldsLock(t, table) /\ HoldsLock(u, table) => t = u

WritersHoldLocks ==
  \A t \in Txns :
    /\ phase[t] \in {"locking", "lake"} => plan[t] # << >>
    /\ phase[t] = "lake" /\ ~Lost(t) => HoldsLock(t, Current(t).table)
    /\ \A table \in Tables :
         HasWritten(t, table) /\ MayWrite(t) => HoldsLock(t, table)

(* Whoever was followed by another transaction writes no more. *)
OvertakenIsOver ==
  \A table \in Tables : LET log == lakeLog[table] IN
    \A i, j \in DOMAIN log :
      i < j /\ log[i].txn # log[j].txn /\ MayWrite(log[i].txn) => Lost(log[j].txn)

LakeInv ==
  /\ LocksExclude
  /\ WritersHoldLocks
  /\ OvertakenIsOver
  /\ LakeCommitsAreSerial

(***************************************************************************)
(* The inductive invariant behind CommittedIsWhole: as long as a           *)
(* transaction runs, nothing of it is durable, its block holds exactly the *)
(* chunks it has started, and their lake legs are done, but for what is    *)
(* left of the one in progress.                                            *)
(***************************************************************************)

BlockIsPlan(t) ==
  phase[t] \in {"active", "locking", "lake"} /\ ~Lost(t) =>
    /\ pg[t].work = DOMAIN plan[t]
    /\ pg[t].status = IF plan[t] = << >> THEN "idle" ELSE "open"

LegsAreRun(t) ==
  phase[t] \in {"active", "locking", "lake"} =>
    /\ \A c \in DOMAIN plan[t] :
         phase[t] = "active" \/ c < Len(plan[t]) => LakeLegDone(t, c)
    /\ phase[t] # "lake" => next[t] = 1
    /\ phase[t] = "lake" =>
         \A s \in 1..3 : s < next[t] => LakeStepDone(t, Len(plan[t]), s)

LegsOf(t) ==
  /\ Live(t) => pg[t].base = {}
  /\ BlockIsPlan(t)
  /\ LegsAreRun(t)
  /\ \A c \in pg[t].base : c \in DOMAIN plan[t] /\ LakeLegDone(t, c)
  /\ phase[t] = "committed" => pg[t].base = DOMAIN plan[t]

LegsInv == \A t \in Txns : LegsOf(t)

StepIsOver(e, n) == e.step < n \/ (e.misread /\ e.step = n)

(* What LakeRunsInOrder rests on besides: no commit of a transaction is ahead *)
(* of its loop.                                                              *)
LogFollowsLoop(t) ==
  \A table \in Tables : LET log == lakeLog[table] IN
    \A i \in DOMAIN log : log[i].txn = t =>
      /\ log[i].chunk <= Len(plan[t])
      /\ phase[t] = "locking" => log[i].chunk < Len(plan[t])
      /\ phase[t] = "lake" /\ log[i].chunk = Len(plan[t]) => StepIsOver(log[i], next[t])

OrderInv == (\A t \in Txns : LogFollowsLoop(t)) /\ LakeRunsInOrder

=============================================================================
