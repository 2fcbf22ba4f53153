-------------------------- MODULE TierDBLake_proofs --------------------------
(***************************************************************************)
(* The lake commits of a table are serial, for any transactions, tables,   *)
(* chunks and faults.                                                      *)
(***************************************************************************)
EXTENDS TierDBLake, TLAPS

Inv == TypeOK /\ LakeInv

(* What each command leaves of a session: its type, and whether it is lost.  *)
LEMMA SessionCalls ==
  ASSUME NEW D, NEW s \in PgSessions(D), NEW d \in D
  PROVE  /\ PgBegin(s) \in PgSessions(D)
         /\ PgExec(s, d) \in PgSessions(D)
         /\ PgError(s) \in PgSessions(D)
         /\ PgRollback(s) \in PgSessions(D)
         /\ PgCommit(s) \in PgSessions(D)
         /\ PgLose(s) \in PgSessions(D)
BY DEF PgSessions, PgStatus, PgBegin, PgExec, PgError, PgRollback, PgCommit, PgLose

LEMMA SessionStatus ==
  ASSUME NEW D, NEW s \in PgSessions(D)
  PROVE  /\ PgBegin(s) \in PgSessions(D)
         /\ PgBegin(s).status = "lost" <=> s.status = "lost"
         /\ PgError(s).status = "lost" <=> s.status = "lost"
         /\ PgLose(s).status = "lost"
BY DEF PgSessions, PgStatus, PgBegin, PgError, PgLose

(* The statements of a chunk are at most three. *)
LEMMA LakeSqlType ==
  ASSUME NEW kind \in {"hot", "delete", "insert", "update"}
  PROVE  Len(LakeSql(kind)) \in 0..3
BY DEF LakeSql

LEMMA CurrentType ==
  ASSUME TypeOK, NEW t \in Txns, plan[t] # << >>
  PROVE  /\ Current(t) \in Chunks
         /\ Current(t).table \in Tables
         /\ Current(t).kind \in {"hot", "delete", "insert", "update"}
         /\ Len(plan[t]) \in 1..MaxChunks
<1>1. Len(plan[t]) \in Nat /\ Len(plan[t]) <= MaxChunks /\ Len(plan[t]) > 0
  BY ConstantsOK DEF TypeOK
<1>2. Current(t) \in Chunks
  BY <1>1 DEF TypeOK, Current
<1> QED
  BY <1>1, <1>2, ConstantsOK

LEMMA LogEntries ==
  ASSUME TypeOK, NEW table \in Tables
  PROVE  /\ lakeLog[table] \in Seq(LakeCommit)
         /\ \A i \in DOMAIN lakeLog[table] : lakeLog[table][i].txn \in Txns
<1>1. lakeLog[table] \in Seq(LakeCommit)
  BY DEF TypeOK
<1>2. \A i \in DOMAIN lakeLog[table] : lakeLog[table][i] \in LakeCommit
  BY <1>1
<1> QED
  BY <1>1, <1>2 DEF LakeCommit

(* An action that neither writes the lake nor lets a transaction write more *)
(* than before keeps the invariant, if writers keep their locks.            *)
LEMMA QuietStep ==
  ASSUME Inv, NEW t \in Txns,
         UNCHANGED lakeLog,
         \A u \in Txns \ {t} :
           phase'[u] = phase[u] /\ plan'[u] = plan[u] /\ pg'[u] = pg[u],
         Lost(t) => Lost(t)',
         MayWrite(t)' => MayWrite(t),
         lakeLocks' = lakeLocks \/ (ReleaseLocks(t) /\ ~MayWrite(t)'),
         phase'[t] \in {"locking", "lake"} => plan'[t] # << >>,
         phase'[t] = "lake" =>
           phase[t] = "lake" /\ Current(t)' = Current(t)
  PROVE  LakeInv'
<1> USE DEF Inv
<1>1. \A u \in Txns : /\ Lost(u) => Lost(u)'
                      /\ MayWrite(u)' => MayWrite(u)
  BY DEF Lost, MayWrite
<1>2. \A u \in Txns, table \in Tables : HasWritten(u, table)' <=> HasWritten(u, table)
  BY DEF HasWritten
<1>3. \A u \in Txns, table \in Tables : HoldsLock(u, table)' => HoldsLock(u, table)
  BY DEF HoldsLock, ReleaseLocks
<1>4. \A u \in Txns, table \in Tables :
        HoldsLock(u, table) /\ MayWrite(u)' => HoldsLock(u, table)'
  BY DEF HoldsLock, ReleaseLocks
<1>5. LocksExclude'
  BY <1>3 DEF LakeInv, LocksExclude
<1>6. WritersHoldLocks'
  <2> SUFFICES ASSUME NEW u \in Txns
               PROVE  /\ phase'[u] \in {"locking", "lake"} => plan'[u] # << >>
                      /\ phase'[u] = "lake" /\ ~Lost(u)' => HoldsLock(u, Current(u).table)'
                      /\ \A table \in Tables :
                           HasWritten(u, table)' /\ MayWrite(u)' => HoldsLock(u, table)'
    BY DEF WritersHoldLocks
  <2>1. phase'[u] \in {"locking", "lake"} => plan'[u] # << >>
    BY DEF LakeInv, WritersHoldLocks
  <2>2. ASSUME phase'[u] = "lake", ~Lost(u)'
        PROVE  HoldsLock(u, Current(u).table)'
    <3>1. phase[u] = "lake" /\ Current(u)' = Current(u)
      BY <2>2 DEF Current
    <3>2. Current(u).table \in Tables
      BY <3>1, CurrentType DEF LakeInv, WritersHoldLocks
    <3>3. HoldsLock(u, Current(u).table)
      BY <2>2, <3>1, <1>1 DEF LakeInv, WritersHoldLocks
    <3>4. HoldsLock(u, Current(u).table)'  <=>
            [table |-> Current(u).table, txn |-> u] \in lakeLocks'
      BY <3>1 DEF HoldsLock
    <3>5. MayWrite(u)'
      BY <2>2 DEF MayWrite
    <3> QED
      BY <3>2, <3>3, <3>4, <3>5, <1>4 DEF HoldsLock
  <2>3. ASSUME NEW table \in Tables, HasWritten(u, table)', MayWrite(u)'
        PROVE  HoldsLock(u, table)'
    BY <2>3, <1>1, <1>2, <1>4 DEF LakeInv, WritersHoldLocks
  <2> QED
    BY <2>1, <2>2, <2>3
<1>7. \A table \in Tables : \A i \in DOMAIN lakeLog[table] : lakeLog[table][i].txn \in Txns
  BY LogEntries
<1>8. OvertakenIsOver'
  BY <1>1, <1>7 DEF LakeInv, OvertakenIsOver
<1>9. LakeCommitsAreSerial'
  BY <1>1, <1>7 DEF LakeInv, LakeCommitsAreSerial
<1> QED
  BY <1>5, <1>6, <1>8, <1>9 DEF LakeInv

(* A lake commit keeps the invariant: its transaction holds the table's lock, *)
(* or has lost its session.                                                   *)
LEMMA CommitStep ==
  ASSUME Inv, NEW t \in Txns, NEW misread \in BOOLEAN,
         phase[t] = "lake",
         CommitToLake(t, misread),
         UNCHANGED <<server, plan>>,
         \A u \in Txns \ {t} : phase'[u] = phase[u],
         phase'[t] \in {"lake", "active", "failed"}
  PROVE  LakeInv'
<1> DEFINE T == Current(t).table
           log == lakeLog[T]
           e == [txn |-> t, chunk |-> Len(plan[t]), step |-> next[t], misread |-> misread]
<1> USE DEF Inv
<1>1. /\ plan[t] # << >>
      /\ Lost(t) \/ HoldsLock(t, T)
  BY DEF LakeInv, WritersHoldLocks
<1>2. T \in Tables /\ Len(plan[t]) \in 1..MaxChunks
  BY <1>1, CurrentType
<1>3. log \in Seq(LakeCommit) /\ e \in LakeCommit
  BY <1>2, LogEntries DEF LakeCommit, TypeOK
<1>4. lakeLog' = [lakeLog EXCEPT ![T] = Append(log, e)]
  BY DEF CommitToLake
<1> HIDE DEF T, log, e
<1>5. /\ \A table \in Tables \ {T} : lakeLog'[table] = lakeLog[table]
      /\ DOMAIN log = 1..Len(log) /\ Len(log) \in Nat
      /\ DOMAIN lakeLog'[T] = 1..(Len(log) + 1)
      /\ \A i \in DOMAIN log : lakeLog'[T][i] = lakeLog[T][i]
      /\ lakeLog'[T][Len(log) + 1] = e
  <2>1. lakeLog'[T] = Append(log, e)
    BY <1>2, <1>4 DEF TypeOK
  <2> QED
    BY <1>2, <1>3, <1>4, <2>1 DEF TypeOK, log
<1>6. e.txn = t
  BY DEF e
<1>7. \A u \in Txns : /\ Lost(u)' <=> Lost(u)
                      /\ MayWrite(u)' => MayWrite(u)
                      /\ \A table \in Tables : HoldsLock(u, table)' <=> HoldsLock(u, table)
  BY DEF Lost, MayWrite, HoldsLock, server
<1>8. \A u \in Txns, table \in Tables :
        HasWritten(u, table)' => HasWritten(u, table) \/ (u = t /\ table = T)
  BY <1>5, <1>6 DEF HasWritten, log
<1>9. LocksExclude'
  BY <1>7 DEF LakeInv, LocksExclude
<1>10. WritersHoldLocks'
  <2> SUFFICES ASSUME NEW u \in Txns
               PROVE  /\ phase'[u] \in {"locking", "lake"} => plan'[u] # << >>
                      /\ phase'[u] = "lake" /\ ~Lost(u)' => HoldsLock(u, Current(u).table)'
                      /\ \A table \in Tables :
                           HasWritten(u, table)' /\ MayWrite(u)' => HoldsLock(u, table)'
    BY DEF WritersHoldLocks
  <2>1. phase'[u] \in {"locking", "lake"} => plan'[u] # << >>
    BY DEF LakeInv, WritersHoldLocks
  <2>2. ASSUME phase'[u] = "lake", ~Lost(u)'
        PROVE  HoldsLock(u, Current(u).table)'
    <3>1. phase[u] = "lake"
      BY <2>2
    <3>2. HoldsLock(u, Current(u).table)
      BY <2>2, <3>1, <1>7 DEF LakeInv, WritersHoldLocks
    <3> QED
      BY <3>2 DEF HoldsLock, Current, server
  <2>3. ASSUME NEW table \in Tables, HasWritten(u, table)', MayWrite(u)'
        PROVE  HoldsLock(u, table)'
    <3>1. MayWrite(u) /\ ~Lost(u)
      BY <2>3, <1>7 DEF MayWrite
    <3> QED
      BY <2>3, <3>1, <1>1, <1>2, <1>7, <1>8 DEF LakeInv, WritersHoldLocks
  <2> QED
    BY <2>1, <2>2, <2>3
<1>11. \A i \in DOMAIN log : /\ lakeLog[T][i].txn \in Txns
                             /\ HasWritten(lakeLog[T][i].txn, T)
  BY <1>2, LogEntries DEF log, HasWritten
<1>12. \A table \in Tables : \A i \in DOMAIN lakeLog[table] : lakeLog[table][i].txn \in Txns
  BY LogEntries
<1>13. OvertakenIsOver'
  <2> SUFFICES ASSUME NEW table \in Tables,
                      NEW i \in DOMAIN lakeLog'[table], NEW j \in DOMAIN lakeLog'[table],
                      i < j, lakeLog'[table][i].txn # lakeLog'[table][j].txn,
                      MayWrite(lakeLog[table][i].txn)'
               PROVE  Lost(lakeLog[table][j].txn)'
    BY DEF OvertakenIsOver
  <2>1. CASE table # T
    BY <2>1, <1>5, <1>7, <1>12 DEF LakeInv, OvertakenIsOver
  <2>2. CASE table = T /\ j \in DOMAIN log
    <3>1. i \in DOMAIN log
      BY <2>2, <1>5
    <3> QED
      BY <2>2, <3>1, <1>2, <1>5, <1>7, <1>11 DEF LakeInv, OvertakenIsOver, log
  <2>3. CASE table = T /\ j = Len(log) + 1
    <3>1. i \in DOMAIN log
      BY <2>3, <1>5
    <3> DEFINE u == lakeLog[T][i].txn
    <3>2. u # t /\ u \in Txns /\ MayWrite(u) /\ HasWritten(u, T)
      BY <2>3, <3>1, <1>5, <1>6, <1>7, <1>11
    <3>3. HoldsLock(u, T)
      BY <3>2, <1>2 DEF LakeInv, WritersHoldLocks
    <3>4. Lost(t)
      BY <3>2, <3>3, <1>1, <1>2 DEF LakeInv, LocksExclude
    <3> QED
      BY <3>4, <2>3, <1>5, <1>6, <1>7
  <2> QED
    BY <2>1, <2>2, <2>3, <1>5
<1>14. LakeCommitsAreSerial'
  <2> SUFFICES ASSUME NEW table \in Tables,
                      NEW i \in DOMAIN lakeLog'[table], NEW j \in DOMAIN lakeLog'[table],
                      NEW k \in DOMAIN lakeLog'[table],
                      i < j, j < k,
                      lakeLog'[table][i].txn = lakeLog'[table][k].txn,
                      lakeLog'[table][j].txn # lakeLog'[table][i].txn
               PROVE  Lost(lakeLog[table][i].txn)' \/ Lost(lakeLog[table][j].txn)'
    BY DEF LakeCommitsAreSerial
  <2>1. CASE table # T
    BY <2>1, <1>5, <1>7, <1>12 DEF LakeInv, LakeCommitsAreSerial
  <2>2. CASE table = T /\ k \in DOMAIN log
    <3>1. i \in DOMAIN log /\ j \in DOMAIN log
      BY <2>2, <1>5
    <3> QED
      BY <2>2, <3>1, <1>2, <1>5, <1>7, <1>11 DEF LakeInv, LakeCommitsAreSerial, log
  <2>3. CASE table = T /\ k = Len(log) + 1
    <3>1. i \in DOMAIN log /\ j \in DOMAIN log
      BY <2>3, <1>5
    <3>2. lakeLog[T][i].txn = t /\ lakeLog[T][j].txn # t
      BY <2>3, <3>1, <1>5, <1>6
    <3>3. Lost(t) \/ MayWrite(t)
      BY DEF MayWrite
    <3>4. Lost(t) \/ Lost(lakeLog[T][j].txn)
      BY <3>1, <3>2, <3>3, <1>2 DEF LakeInv, OvertakenIsOver, log
    <3> QED
      BY <2>3, <3>1, <3>2, <3>4, <1>5, <1>7, <1>11
  <2> QED
    BY <2>1, <2>2, <2>3, <1>5
<1> QED
  BY <1>9, <1>10, <1>13, <1>14 DEF LakeInv

-----------------------------------------------------------------------------
(* Type correctness.                                                        *)

LEMMA TypeInit == Init => TypeOK
<1> SUFFICES ASSUME Init PROVE TypeOK
  OBVIOUS
<1>1. [status |-> "idle", base |-> {}, work |-> {}] \in PgSessions(SUBSET (1..MaxChunks))
  BY DEF PgSessions, PgStatus
<1>2. << >> \in Seq(Chunks) /\ << >> \in Seq(LakeCommit) /\ Len(<< >>) = 0
  OBVIOUS
<1>3. \A t \in Txns : plan[t] = << >>
  BY DEF Init
<1>4. \A t \in Txns : Len(plan[t]) <= MaxChunks
  BY <1>2, <1>3, ConstantsOK
<1> QED
  BY <1>1, <1>2, <1>4 DEF Init, TypeOK, MaxAttempts

(* Every command of a session keeps the type of all of them. *)
LEMMA SessionType ==
  ASSUME TypeOK, NEW t \in Txns,
         NEW s \in PgSessions(SUBSET (1..MaxChunks)), Session(t, s)
  PROVE  pg' \in [Txns -> PgSessions(SUBSET (1..MaxChunks))]
BY DEF TypeOK, Session

LEMMA CommitToLakeType ==
  ASSUME TypeOK, NEW t \in Txns, plan[t] # << >>,
         NEW misread \in BOOLEAN, CommitToLake(t, misread)
  PROVE  lakeLog' \in [Tables -> Seq(LakeCommit)]
<1>1. Current(t).table \in Tables /\ Len(plan[t]) \in 1..MaxChunks
  BY CurrentType
<1>2. [txn |-> t, chunk |-> Len(plan[t]), step |-> next[t], misread |-> misread] \in LakeCommit
  BY <1>1 DEF LakeCommit, TypeOK
<1> QED
  BY <1>1, <1>2, LogEntries DEF CommitToLake, TypeOK

LoopType ==
  /\ next \in [Txns -> 1..3]
  /\ attempt \in [Txns -> 1..MaxAttempts]
  /\ phase \in [Txns -> {"active", "locking", "lake", "failed"} \cup Ended]

(* The loop is left with its locals reset. *)
LEMMA ReturnType ==
  ASSUME TypeOK, NEW t \in Txns, NEW p \in {"active", "failed"}, Return(t, p)
  PROVE  LoopType'
BY DEF TypeOK, Return, Goto, LoopType, MaxAttempts

(* A retry is counted up to the bound. *)
LEMMA RetryType ==
  ASSUME TypeOK, NEW t \in Txns, Retry(t)
  PROVE  LoopType'
<1>1. attempt[t] + 1 \in 1..MaxAttempts
  <2>1. attempt[t] \in 1..MaxAttempts /\ MaxAttempts \in Nat
    BY DEF TypeOK, MaxAttempts
  <2>2. attempt[t] < MaxAttempts
    BY DEF Retry
  <2> QED
    BY <2>1, <2>2
<1>2. attempt' = [attempt EXCEPT ![t] = attempt[t] + 1]
  BY DEF Retry
<1>3. attempt' \in [Txns -> 1..MaxAttempts]
  BY <1>1, <1>2 DEF TypeOK
<1> QED
  BY <1>3 DEF TypeOK, Retry, LoopType

LEMMA TypeStep == Inv /\ [Next]_vars => TypeOK'
<1> SUFFICES ASSUME Inv, [Next]_vars PROVE TypeOK'
  OBVIOUS
<1> USE DEF Inv
<1>1. ASSUME NEW t \in Txns, Step(t) PROVE TypeOK'
  <2> DEFINE Sessions == PgSessions(SUBSET (1..MaxChunks))
             PgType == pg' \in [Txns -> Sessions]
             LocksType == lakeLocks' \subseteq Lock
  <2>1. /\ pg[t] \in Sessions
        /\ \A s \in Sessions : /\ PgBegin(s) \in Sessions
                                /\ PgError(s) \in Sessions
                                /\ PgRollback(s) \in Sessions
                                /\ PgCommit(s) \in Sessions
                                /\ PgLose(s) \in Sessions
                                /\ \A d \in SUBSET (1..MaxChunks) : PgExec(s, d) \in Sessions
                                /\ s.work \in SUBSET (1..MaxChunks)
    BY SessionCalls DEF TypeOK, PgSessions
  <2>2. \A s \in Sessions : Session(t, s) => PgType
    BY SessionType
  <2>3. UNCHANGED lakeLocks \/ ReleaseLocks(t) => LocksType
    BY DEF TypeOK, ReleaseLocks
  <2>4. UNCHANGED pg => PgType
    BY DEF TypeOK
  <2>5. MaxAttempts = 3 /\ \A n \in 1..3 : n < 3 => n + 1 \in 1..3
    BY DEF MaxAttempts
  <2> HIDE DEF Sessions
  <2>6. ASSUME NEW chunk \in Chunks, StartChunk(t, chunk) PROVE TypeOK'
    <3> DEFINE s == PgBegin(pg[t])
    <3>1. Len(plan[t]) + 1 \in 1..MaxChunks
      BY <2>6, ConstantsOK DEF StartChunk, TypeOK
    <3>2. PgExec(s, s.work \cup {Len(plan[t]) + 1}) \in Sessions
      BY <2>1, <3>1
    <3>3. PgType
      BY <2>2, <2>6, <3>2 DEF StartChunk
    <3>4. /\ plan' \in [Txns -> Seq(Chunks)]
          /\ \A u \in Txns : Len(plan'[u]) <= MaxChunks
      <4>1. plan' = [plan EXCEPT ![t] = Append(plan[t], chunk)]
        BY <2>6 DEF StartChunk
      <4>2. /\ Append(plan[t], chunk) \in Seq(Chunks)
            /\ Len(Append(plan[t], chunk)) = Len(plan[t]) + 1
        BY DEF TypeOK
      <4> QED
        BY <3>1, <4>1, <4>2 DEF TypeOK
    <3>5. phase' \in [Txns -> {"active", "locking", "lake", "failed"} \cup Ended]
      BY <2>6 DEF StartChunk, Goto, TypeOK
    <3> QED
      BY <2>6, <3>3, <3>4, <3>5 DEF StartChunk, TypeOK, loop, Sessions
  <2>7. CASE ChunkFails(t)
    <3>1. PgType
      BY <2>1, <2>2, <2>4, <2>7 DEF ChunkFails, server
    <3>2. LocksType
      BY <2>3, <2>7 DEF ChunkFails, server
    <3> QED
      BY <2>7, <3>1, <3>2 DEF ChunkFails, TypeOK, Goto, loop, Sessions
  <2>8. CASE TakeLakeLock(t)
    <3>1. plan[t] # << >>
      BY <2>8 DEF TakeLakeLock, LakeInv, WritersHoldLocks
    <3>2. [table |-> Current(t).table, txn |-> t] \in Lock
      BY <3>1, CurrentType DEF Lock
    <3>3. LocksType
      BY <2>8, <3>2 DEF TakeLakeLock, TypeOK
    <3> QED
      BY <2>8, <3>3 DEF TakeLakeLock, TypeOK, Goto, loop
  <2>9. CASE LockWaitFails(t)
    <3>1. PgType
      BY <2>1, <2>2, <2>4, <2>9 DEF LockWaitFails, server
    <3>2. LocksType
      BY <2>3, <2>9 DEF LockWaitFails, server
    <3> QED
      BY <2>9, <3>1, <3>2 DEF LockWaitFails, TypeOK, Goto, loop, Sessions
  <2>10. CASE RunLakeSql(t)
    <3>1. plan[t] # << >>
      BY <2>10 DEF RunLakeSql, LakeInv, WritersHoldLocks
    <3>2. lakeLog' \in [Tables -> Seq(LakeCommit)]
      BY <2>10, <3>1, CommitToLakeType DEF RunLakeSql
    <3>3. Len(LakeSql(Current(t).kind)) \in 0..3
      BY <3>1, CurrentType, LakeSqlType
    <3>4. LoopType'
      <4>1. CASE next[t] < Len(LakeSql(Current(t).kind))
        <5>1. next[t] \in 1..3
          BY DEF TypeOK
        <5>2. next[t] + 1 \in 1..3
          <6>1. \A n \in 0..3, m \in 1..3 : m < n => m + 1 \in 1..3
            OBVIOUS
          <6> QED
            BY <3>3, <4>1, <5>1, <6>1, Zenon
        <5>3. /\ next' = [next EXCEPT ![t] = next[t] + 1]
              /\ attempt' = [attempt EXCEPT ![t] = 1]
              /\ UNCHANGED phase
          BY <2>10, <4>1 DEF RunLakeSql
        <5>4. next' \in [Txns -> 1..3]
          BY <5>2, <5>3 DEF TypeOK
        <5>5. attempt' \in [Txns -> 1..MaxAttempts]
          BY <2>5, <5>3 DEF TypeOK
        <5> QED
          BY <5>3, <5>4, <5>5 DEF TypeOK, LoopType
      <4>2. CASE ~(next[t] < Len(LakeSql(Current(t).kind)))
        BY <2>10, <4>2, ReturnType DEF RunLakeSql
      <4> QED
        BY <4>1, <4>2
    <3> QED
      BY <2>10, <3>2, <3>4 DEF RunLakeSql, TypeOK, LoopType, server
  <2>11. CASE LakeConflict(t)
    <3>1. LoopType'
      BY <2>11, RetryType, ReturnType DEF LakeConflict, OnConflict, GiveUp
    <3>2. plan[t] # << >>
      BY <2>11 DEF LakeConflict, LakeInv, WritersHoldLocks
    <3>3. lakeLog' \in [Tables -> Seq(LakeCommit)]
      BY <2>11, <3>2, CommitToLakeType DEF LakeConflict, TypeOK
    <3> QED
      BY <2>11, <3>1, <3>3 DEF LakeConflict, TypeOK, LoopType, server
  <2>12. CASE LakeError(t)
    <3>1. plan[t] # << >>
      BY <2>12 DEF LakeError, LakeInv, WritersHoldLocks
    <3>2. lakeLog' \in [Tables -> Seq(LakeCommit)]
      BY <2>12, <3>1, CommitToLakeType DEF LakeError, TypeOK
    <3>3. LoopType'
      BY <2>12, ReturnType DEF LakeError, OnError, GiveUp
    <3> QED
      BY <2>12, <3>2, <3>3 DEF LakeError, TypeOK, LoopType, server
  <2>13. ASSUME NEW p \in Ended, Goto(t, p), PgType, ReleaseLocks(t),
                UNCHANGED <<plan, loop, lakeLog>>
         PROVE  TypeOK'
    BY <2>3, <2>13 DEF Goto, TypeOK, loop, Sessions
  <2>14. CASE Commit(t)
    <3>1. PgType
      BY <2>1, <2>2, <2>4, <2>14 DEF Commit
    <3> QED
      BY <2>13, <2>14, <3>1 DEF Commit, Ended
  <2>15. CASE CommitFails(t)
    <3>1. PgType
      BY <2>1, <2>2, <2>4, <2>15 DEF CommitFails
    <3> QED
      BY <2>13, <2>15, <3>1 DEF CommitFails, Ended
  <2>16. CASE Rollback(t)
    <3>1. PgType
      BY <2>1, <2>2, <2>4, <2>16 DEF Rollback
    <3> QED
      BY <2>13, <2>16, <3>1 DEF Rollback, Ended
  <2>17. CASE ConnectionLost(t)
    <3>1. PgType
      BY <2>1, <2>2, <2>17 DEF ConnectionLost
    <3> QED
      BY <2>3, <2>17, <3>1 DEF ConnectionLost, TypeOK, loop, Sessions
  <2>18. CASE Crash(t)
    <3>1. PgType
      BY <2>1, <2>2, <2>4, <2>18 DEF Crash
    <3> QED
      BY <2>13, <2>18, <3>1 DEF Crash, Ended
  <2> QED
    BY <1>1, <2>6, <2>7, <2>8, <2>9, <2>10, <2>11, <2>12, <2>14, <2>15, <2>16, <2>17, <2>18
       DEF Step, LakeLoop
<1>2. ASSUME UNCHANGED vars PROVE TypeOK'
  BY <1>2 DEF vars, TypeOK
<1> QED
  BY <1>1, <1>2 DEF Next, AllEnded

-----------------------------------------------------------------------------
(* The invariant.                                                           *)

LEMMA InvInit == Init => LakeInv
<1> SUFFICES ASSUME Init PROVE LakeInv
  OBVIOUS
<1>1. LocksExclude
  BY DEF Init, LocksExclude, HoldsLock
<1>2. \A table \in Tables : DOMAIN lakeLog[table] = {}
  BY DEF Init
<1>3. WritersHoldLocks
  BY <1>2 DEF Init, WritersHoldLocks, HasWritten
<1> QED
  BY <1>1, <1>2, <1>3 DEF LakeInv, OvertakenIsOver, LakeCommitsAreSerial

(* The lock is taken when no other transaction has it. *)
LEMMA LockStep ==
  ASSUME Inv, NEW t \in Txns, TakeLakeLock(t)
  PROVE  LakeInv'
<1> DEFINE T == Current(t).table
           lock == [table |-> T, txn |-> t]
<1> USE DEF Inv
<1>1. plan[t] # << >>
  BY DEF TakeLakeLock, LakeInv, WritersHoldLocks
<1>2. T \in Tables
  BY <1>1, CurrentType
<1>3. lakeLocks' = lakeLocks \cup {lock}
  BY DEF TakeLakeLock
<1>4. \A u \in Txns : u # t => ~HoldsLock(u, T)
  BY DEF TakeLakeLock, Blockers, Holders, HoldsLock
<1> HIDE DEF T, lock
<1>5. \A u \in Txns, table \in Tables :
        HoldsLock(u, table)' <=> HoldsLock(u, table) \/ (u = t /\ table = T)
  BY <1>3 DEF HoldsLock, lock
<1>6. \A u \in Txns : /\ Lost(u)' <=> Lost(u)
                      /\ MayWrite(u)' <=> MayWrite(u)
                      /\ \A table \in Tables : HasWritten(u, table)' <=> HasWritten(u, table)
  BY DEF TakeLakeLock, Goto, TypeOK, Lost, MayWrite, HasWritten
<1>7. LocksExclude'
  BY <1>2, <1>4, <1>5 DEF LakeInv, LocksExclude
<1>8. WritersHoldLocks'
  <2> SUFFICES ASSUME NEW u \in Txns
               PROVE  /\ phase'[u] \in {"locking", "lake"} => plan'[u] # << >>
                      /\ phase'[u] = "lake" /\ ~Lost(u)' => HoldsLock(u, Current(u).table)'
                      /\ \A table \in Tables :
                           HasWritten(u, table)' /\ MayWrite(u)' => HoldsLock(u, table)'
    BY DEF WritersHoldLocks
  <2>1. plan' = plan /\ phase' = [phase EXCEPT ![t] = "lake"]
    BY DEF TakeLakeLock, Goto
  <2>2. phase'[u] \in {"locking", "lake"} => plan'[u] # << >>
    BY <1>1, <2>1 DEF LakeInv, WritersHoldLocks, TypeOK
  <2>3. ASSUME phase'[u] = "lake", ~Lost(u)'
        PROVE  HoldsLock(u, Current(u).table)'
    <3>1. CASE u = t
      BY <3>1, <1>3, <2>1 DEF HoldsLock, Current, lock, T
    <3>2. CASE u # t
      <4>1. phase[u] = "lake" /\ ~Lost(u)
        BY <3>2, <2>1, <2>3, <1>6 DEF TypeOK
      <4>2. HoldsLock(u, Current(u).table)
        BY <4>1 DEF LakeInv, WritersHoldLocks
      <4> QED
        BY <4>2, <1>3, <2>1 DEF HoldsLock, Current
    <3> QED
      BY <3>1, <3>2
  <2>4. ASSUME NEW table \in Tables, HasWritten(u, table)', MayWrite(u)'
        PROVE  HoldsLock(u, table)'
    BY <2>4, <1>5, <1>6 DEF LakeInv, WritersHoldLocks
  <2> QED
    BY <2>2, <2>3, <2>4
<1>9. \A table \in Tables : \A i \in DOMAIN lakeLog[table] : lakeLog[table][i].txn \in Txns
  BY LogEntries
<1>10. lakeLog' = lakeLog
  BY DEF TakeLakeLock
<1>11. OvertakenIsOver'
  BY <1>6, <1>9, <1>10 DEF LakeInv, OvertakenIsOver
<1>12. LakeCommitsAreSerial'
  BY <1>6, <1>9, <1>10 DEF LakeInv, LakeCommitsAreSerial
<1> QED
  BY <1>7, <1>8, <1>11, <1>12 DEF LakeInv

LEMMA InvStep == Inv /\ [Next]_vars => LakeInv'
<1> SUFFICES ASSUME Inv, [Next]_vars PROVE LakeInv'
  OBVIOUS
<1> USE DEF Inv
<1>1. ASSUME NEW t \in Txns, Step(t) PROVE LakeInv'
  <2>1. /\ pg[t] \in PgSessions(SUBSET (1..MaxChunks))
        /\ \A s : Session(t, s) => pg'[t] = s /\ \A u \in Txns \ {t} : pg'[u] = pg[u]
        /\ \A p : Goto(t, p) => phase'[t] = p /\ \A u \in Txns \ {t} : phase'[u] = phase[u]
    BY DEF TypeOK, Session, Goto
  <2>2. /\ PgBegin(pg[t]) \in PgSessions(SUBSET (1..MaxChunks))
        /\ PgBegin(pg[t]).status = "lost" <=> Lost(t)
        /\ PgError(PgBegin(pg[t])).status = "lost" <=> Lost(t)
        /\ PgError(pg[t]).status = "lost" <=> Lost(t)
        /\ PgLose(pg[t]).status = "lost"
    <3>1. PgBegin(pg[t]) \in PgSessions(SUBSET (1..MaxChunks))
      BY <2>1, SessionStatus
    <3> QED
      BY <2>1, <3>1, SessionStatus DEF Lost
  <2>3. ASSUME NEW chunk \in Chunks, StartChunk(t, chunk) PROVE LakeInv'
    <3>1. /\ plan' = [plan EXCEPT ![t] = Append(plan[t], chunk)]
          /\ Append(plan[t], chunk) # << >>
      <4>1. plan[t] \in Seq(Chunks)
        BY DEF TypeOK
      <4>2. Len(Append(plan[t], chunk)) = Len(plan[t]) + 1 /\ Len(plan[t]) \in Nat
        BY <4>1
      <4>3. Append(plan[t], chunk) # << >>
        BY <4>2
      <4> QED
        BY <2>3, <4>3 DEF StartChunk
    <3>2. plan'[t] # << >> /\ \A u \in Txns \ {t} : plan'[u] = plan[u]
      BY <3>1 DEF TypeOK
    <3>3. MayWrite(t) /\ phase'[t] \in {"active", "locking"}
      BY <2>1, <2>3 DEF StartChunk, MayWrite
    <3> QED
      BY <2>1, <2>3, <3>2, <3>3, QuietStep DEF StartChunk
  <2>4. CASE ChunkFails(t)
    <3>1. Lost(t) => Lost(t)'
      BY <2>1, <2>4 DEF ChunkFails, Lost, server
    <3>2. phase'[t] = "failed" /\ ~MayWrite(t)'
      BY <2>1, <2>4 DEF ChunkFails, MayWrite
    <3>3. /\ lakeLocks' = lakeLocks \/ ReleaseLocks(t)
          /\ \A u \in Txns \ {t} : pg'[u] = pg[u]
      BY <2>1, <2>4 DEF ChunkFails, server
    <3> QED
      BY <2>1, <2>4, <3>1, <3>2, <3>3, QuietStep DEF ChunkFails
  <2>5. CASE LockWaitFails(t)
    <3>1. Lost(t) => Lost(t)'
      BY <2>1, <2>2, <2>5 DEF LockWaitFails, Lost, server
    <3>2. phase'[t] = "failed" /\ ~MayWrite(t)'
      BY <2>1, <2>5 DEF LockWaitFails, MayWrite
    <3>3. /\ lakeLocks' = lakeLocks \/ ReleaseLocks(t)
          /\ \A u \in Txns \ {t} : pg'[u] = pg[u]
      BY <2>1, <2>5 DEF LockWaitFails, server
    <3> QED
      BY <2>1, <2>5, <3>1, <3>2, <3>3, QuietStep DEF LockWaitFails
  <2>6. ASSUME \/ Commit(t) \/ CommitFails(t) \/ Rollback(t) \/ Crash(t)
        PROVE  LakeInv'
    <3>1. phase'[t] \in Ended /\ ~MayWrite(t)' /\ ReleaseLocks(t)
      BY <2>1, <2>6 DEF Commit, CommitFails, Rollback, Crash, MayWrite, Ended
    <3>2. (Lost(t) => Lost(t)') /\ \A u \in Txns \ {t} : pg'[u] = pg[u]
      BY <2>1, <2>6 DEF Commit, CommitFails, Rollback, Crash, Lost
    <3>3. /\ \A u \in Txns \ {t} : phase'[u] = phase[u]
          /\ plan' = plan /\ lakeLog' = lakeLog
      BY <2>1, <2>6 DEF Commit, CommitFails, Rollback, Crash
    <3> QED
      BY <3>1, <3>2, <3>3, QuietStep DEF Ended
  <2>7. CASE ConnectionLost(t)
    <3>1. Lost(t)' /\ ~MayWrite(t)' /\ \A u \in Txns \ {t} : pg'[u] = pg[u]
      BY <2>1, <2>2, <2>7 DEF ConnectionLost, Lost, MayWrite
    <3>2. /\ phase' = phase /\ plan' = plan /\ lakeLog' = lakeLog
          /\ ReleaseLocks(t)
      BY <2>7 DEF ConnectionLost
    <3>3. /\ Current(t)' = Current(t)
          /\ phase'[t] \in {"locking", "lake"} => plan'[t] # << >>
      BY <3>2 DEF Current, LakeInv, WritersHoldLocks
    <3> QED
      BY <3>1, <3>2, <3>3, QuietStep
  <2>8. CASE TakeLakeLock(t)
    BY <2>8, LockStep
  <2>9. CASE RunLakeSql(t)
    <3>1. /\ phase'[t] \in {"lake", "active"}
          /\ \A u \in Txns \ {t} : phase'[u] = phase[u]
      BY <2>1, <2>9 DEF RunLakeSql, Return
    <3> QED
      BY <2>9, <3>1, CommitStep DEF RunLakeSql
  <2>10. CASE LakeConflict(t)
    <3>1. /\ phase'[t] \in {"lake", "failed"} /\ phase[t] = "lake"
          /\ \A u \in Txns \ {t} : phase'[u] = phase[u]
      BY <2>1, <2>10 DEF LakeConflict, OnConflict, Retry, GiveUp, Return
    <3>2. CASE CommitToLake(t, TRUE)
      BY <2>10, <3>1, <3>2, CommitStep DEF LakeConflict
    <3>3. CASE UNCHANGED lakeLog
      <4>1. pg' = pg /\ lakeLocks' = lakeLocks /\ plan' = plan
        BY <2>10 DEF LakeConflict, server
      <4>2. /\ Lost(t) => Lost(t)'
            /\ MayWrite(t)' => MayWrite(t)
            /\ Current(t)' = Current(t)
            /\ plan[t] # << >>
        BY <3>1, <4>1 DEF Lost, MayWrite, Current, LakeInv, WritersHoldLocks
      <4> QED
        BY <3>1, <3>3, <4>1, <4>2, QuietStep
    <3> QED
      BY <2>10, <3>2, <3>3 DEF LakeConflict
  <2>11. CASE LakeError(t)
    <3>1. /\ phase'[t] = "failed" /\ phase[t] = "lake"
          /\ \A u \in Txns \ {t} : phase'[u] = phase[u]
      BY <2>1, <2>11 DEF LakeError, OnError, GiveUp, Return
    <3>2. CASE CommitToLake(t, FALSE)
      BY <2>11, <3>1, <3>2, CommitStep DEF LakeError
    <3>3. CASE UNCHANGED lakeLog
      <4>1. pg' = pg /\ lakeLocks' = lakeLocks /\ plan' = plan
        BY <2>11 DEF LakeError, server
      <4>2. (Lost(t) => Lost(t)') /\ ~MayWrite(t)'
        BY <3>1, <4>1 DEF Lost, MayWrite
      <4> QED
        BY <3>1, <3>3, <4>1, <4>2, QuietStep
    <3> QED
      BY <2>11, <3>2, <3>3 DEF LakeError
  <2> QED
    BY <1>1, <2>3, <2>4, <2>5, <2>6, <2>7, <2>8, <2>9, <2>10, <2>11 DEF Step, LakeLoop
<1>2. ASSUME UNCHANGED vars PROVE LakeInv'
  BY <1>2 DEF vars, LakeInv, LocksExclude, WritersHoldLocks, OvertakenIsOver,
       LakeCommitsAreSerial, Lost, MayWrite, HasWritten, HoldsLock, Current
<1> QED
  BY <1>1, <1>2 DEF Next, AllEnded

-----------------------------------------------------------------------------
(* Results.                                                                 *)

LEMMA LakeInvariant == Spec => []Inv
<1>1. Init => Inv
  BY TypeInit, InvInit DEF Inv
<1>2. Inv /\ [Next]_vars => Inv'
  BY TypeStep, InvStep DEF Inv
<1> QED
  BY <1>1, <1>2, PTL DEF Spec

(* Sessions, locks, loops and logs keep their types: no statement is tried  *)
(* more than MaxAttempts times.                                             *)
THEOREM LakeTypes == Spec => []TypeOK
<1>1. Inv => TypeOK
  BY DEF Inv
<1> QED
  BY <1>1, LakeInvariant, PTL

(* take_lake_lock serializes the lake commits of a table, for any number of *)
(* processes, tables and statements, whatever fails.                        *)
THEOREM LakeIsSerial == Spec => []LakeCommitsAreSerial
<1>1. Inv => LakeCommitsAreSerial
  BY DEF Inv, LakeInv
<1> QED
  BY <1>1, LakeInvariant, PTL

=============================================================================
