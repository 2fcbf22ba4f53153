----------------------- MODULE TierDBLakeLegs_proofs -----------------------
(***************************************************************************)
(* What is durable in Postgres is in the lake, and the lake is written in  *)
(* order, for any transactions, tables, chunks and faults.                 *)
(***************************************************************************)
EXTENDS TierDBLake_proofs

(* A lake table is only appended to. *)
LogGrows ==
  \A table \in Tables : \A i \in DOMAIN lakeLog[table] :
    i \in DOMAIN lakeLog'[table] /\ lakeLog'[table][i] = lakeLog[table][i]

LEMMA ChunkType ==
  ASSUME TypeOK, NEW t \in Txns, NEW c \in DOMAIN plan[t]
  PROVE  /\ plan[t][c] \in Chunks
         /\ plan[t][c].table \in Tables
         /\ plan[t][c].kind \in {"hot", "delete", "insert", "update"}
<1>1. plan[t] \in Seq(Chunks)
  BY DEF TypeOK
<1>2. plan[t][c] \in Chunks
  BY <1>1
<1> QED
  BY <1>2, ConstantsOK

LEMMA LakeSqlSteps ==
  ASSUME NEW kind \in {"hot", "delete", "insert", "update"},
         NEW s \in DOMAIN LakeSql(kind)
  PROVE  s \in 1..3 /\ s <= Len(LakeSql(kind))
BY DEF LakeSql

(* A lake commit that has been made stays made, and so does a leg. *)
LEMMA StepStays ==
  ASSUME TypeOK, LogGrows, NEW t \in Txns, NEW c \in DOMAIN plan[t], NEW s,
         plan'[t][c] = plan[t][c],
         LakeStepDone(t, c, s)
  PROVE  LakeStepDone(t, c, s)'
<1>1. plan[t][c].table \in Tables
  BY ChunkType
<1> QED
  BY <1>1 DEF LogGrows, LakeStepDone, IsStep

LEMMA LegStays ==
  ASSUME TypeOK, LogGrows, NEW t \in Txns, NEW c \in DOMAIN plan[t],
         plan'[t][c] = plan[t][c],
         LakeLegDone(t, c)
  PROVE  LakeLegDone(t, c)'
BY StepStays DEF LakeLegDone

(* The commit of the statement that is next. *)
LEMMA CommitGrows ==
  ASSUME TypeOK, NEW t \in Txns, plan[t] # << >>,
         NEW misread \in BOOLEAN, CommitToLake(t, misread),
         NEW c, c = Len(plan[t]), NEW n, n = next[t]
  PROVE  /\ LogGrows
         /\ plan' = plan => LakeStepDone(t, c, n)'
<1> DEFINE T == Current(t).table
           log == lakeLog[T]
           e == [txn |-> t, chunk |-> c, step |-> n, misread |-> misread]
<1>1. T \in Tables /\ T = plan[t][c].table
  BY CurrentType DEF Current
<1>2. log \in Seq(LakeCommit)
  BY <1>1, LogEntries
<1>3. lakeLog' = [lakeLog EXCEPT ![T] = Append(log, e)]
  BY DEF CommitToLake
<1> HIDE DEF T, e
<1>4. /\ \A table \in Tables \ {T} : lakeLog'[table] = lakeLog[table]
      /\ lakeLog'[T] = Append(log, e)
  BY <1>1, <1>3 DEF TypeOK
<1>5. /\ \A i \in DOMAIN log : i \in DOMAIN Append(log, e) /\ Append(log, e)[i] = log[i]
      /\ Len(log) + 1 \in DOMAIN Append(log, e)
      /\ Append(log, e)[Len(log) + 1] = e
  BY <1>2
<1>6. LogGrows
  BY <1>4, <1>5 DEF LogGrows
<1>7. \E i \in DOMAIN lakeLog'[T] : lakeLog'[T][i] = e
  BY <1>4, <1>5
<1>8. ASSUME plan' = plan PROVE LakeStepDone(t, c, n)'
  <2>1. plan'[t][c].table = T
    BY <1>1, <1>8
  <2>2. lakeLog'[plan'[t][c].table] = lakeLog'[T]
    BY <2>1
  <2> QED
    BY <1>7, <2>1, <2>2 DEF LakeStepDone, IsStep, e
<1> QED
  BY <1>6, <1>8

(* The transactions that a step is not about, and one that only loses its   *)
(* session.                                                                 *)
LEMMA OthersStay ==
  ASSUME Inv, LogGrows, NEW u \in Txns, LegsOf(u),
         phase'[u] = phase[u], plan'[u] = plan[u],
         next'[u] = next[u],
         pg'[u] = pg[u] \/ (Lost(u)' /\ pg'[u].base = pg[u].base)
  PROVE  LegsOf(u)'
<1>1. TypeOK /\ (phase[u] = "lake" => plan[u] # << >>)
  BY DEF Inv, LakeInv, WritersHoldLocks
<1>2. \A c \in DOMAIN plan[u] : LakeLegDone(u, c) => LakeLegDone(u, c)'
  BY <1>1, LegStays
<1>3. BlockIsPlan(u)'
  BY DEF LegsOf, BlockIsPlan, Lost
<1>4. phase[u] = "lake" =>
        \A s \in 1..3 : s < next[u] => LakeStepDone(u, Len(plan[u]), s)'
  <2> SUFFICES ASSUME phase[u] = "lake", NEW s \in 1..3, s < next[u]
               PROVE  LakeStepDone(u, Len(plan[u]), s)'
    OBVIOUS
  <2>1. PICK c : c = Len(plan[u])
    OBVIOUS
  <2>2. c \in DOMAIN plan[u]
    BY <1>1, <2>1, CurrentType DEF TypeOK
  <2>3. LakeStepDone(u, c, s)
    BY <2>1 DEF LegsOf, LegsAreRun
  <2>4. LakeStepDone(u, c, s)'
    BY <1>1, <2>2, <2>3, StepStays
  <2>5. Len(plan'[u]) = c
    BY <2>1
  <2> QED
    BY <2>4, <2>5
<1>5. LegsAreRun(u)'
  BY <1>2, <1>4 DEF LegsOf, LegsAreRun
<1> QED
  BY <1>2, <1>3, <1>5 DEF LegsOf, Live

(* A step that ends or dooms a transaction, or loses its session, and       *)
(* leaves plan and lake alone: what it makes durable, if anything, is what   *)
(* the block of an active transaction held.                                  *)
LEMMA LeavingStep ==
  ASSUME Inv, LegsInv, NEW t \in Txns, LogGrows, UNCHANGED plan,
         \A u \in Txns \ {t} :
           phase'[u] = phase[u] /\ next'[u] = next[u] /\ pg'[u] = pg[u],
         phase'[t] \in Ended \cup {"failed"},
         phase'[t] = "failed" => pg'[t].base = pg[t].base /\ Live(t),
         pg'[t].base = pg[t].base \/ (pg'[t].base = DOMAIN plan[t] /\ phase[t] = "active"),
         phase'[t] = "committed" => pg'[t].base = DOMAIN plan[t]
  PROVE  LegsInv'
<1>1. LegsOf(t) /\ TypeOK
  BY DEF LegsInv, Inv
<1>2. \A c \in DOMAIN plan[t] : LakeLegDone(t, c) => LakeLegDone(t, c)'
  BY <1>1, LegStays
<1>3. phase'[t] \notin {"active", "locking", "lake"}
  BY DEF Ended
<1>4. BlockIsPlan(t)' /\ LegsAreRun(t)'
  BY <1>3 DEF BlockIsPlan, LegsAreRun
<1>5. Live(t)' => pg'[t].base = {}
  BY <1>1 DEF LegsOf, Live
<1>6. \A c \in pg'[t].base : c \in DOMAIN plan[t] /\ LakeLegDone(t, c)
  BY <1>1 DEF LegsOf, LegsAreRun
<1>7. LegsOf(t)'
  BY <1>2, <1>4, <1>5, <1>6 DEF LegsOf
<1>8. \A u \in Txns \ {t} : LegsOf(u)'
  BY OthersStay DEF LegsInv
<1> QED
  BY <1>7, <1>8 DEF LegsInv

(* EnsureWriteTxn and the row statements: the block holds one chunk more. *)
LEMMA StartStep ==
  ASSUME Inv, LegsInv, NEW t \in Txns, NEW chunk \in Chunks, StartChunk(t, chunk)
  PROVE  LegsInv'
<1> DEFINE n == Len(plan[t])
           s == PgBegin(pg[t])
<1>1. LegsOf(t) /\ TypeOK
  BY DEF LegsInv, Inv
<1>2. plan[t] \in Seq(Chunks) /\ n \in Nat
  BY <1>1 DEF TypeOK
<1>3. /\ phase[t] = "active" /\ ~Lost(t)
      /\ plan' = [plan EXCEPT ![t] = Append(plan[t], chunk)]
      /\ phase' = [phase EXCEPT ![t] =
                    IF LakeSql(chunk.kind) = << >> THEN "active" ELSE "locking"]
      /\ pg' = [pg EXCEPT ![t] = PgExec(s, s.work \cup {n + 1})]
      /\ next' = next /\ lakeLog' = lakeLog
  BY DEF StartChunk, Goto, Session, loop
<1>4. /\ plan'[t] = Append(plan[t], chunk)
      /\ phase'[t] = IF LakeSql(chunk.kind) = << >> THEN "active" ELSE "locking"
      /\ pg'[t] = PgExec(s, s.work \cup {n + 1})
      /\ \A u \in Txns \ {t} :
           phase'[u] = phase[u] /\ plan'[u] = plan[u] /\ next'[u] = next[u] /\ pg'[u] = pg[u]
  BY <1>1, <1>3 DEF TypeOK
<1>5. /\ DOMAIN plan'[t] = DOMAIN plan[t] \cup {n + 1}
      /\ plan'[t] # << >>
      /\ Len(plan'[t]) = n + 1
      /\ plan'[t][n + 1] = chunk
      /\ DOMAIN plan[t] = 1..n
      /\ \A c \in DOMAIN plan[t] : plan'[t][c] = plan[t][c]
  BY <1>2, <1>4
<1>6. /\ pg[t] \in PgSessions(SUBSET (1..MaxChunks))
      /\ pg[t].work = DOMAIN plan[t] /\ pg[t].status \in {"idle", "open"}
      /\ pg[t].base = {}
  BY <1>1, <1>3 DEF TypeOK, LegsOf, BlockIsPlan, Live, Ended
<1>7. /\ pg'[t].base = {} /\ pg'[t].work = DOMAIN plan'[t]
      /\ pg'[t].status = "open"
  BY <1>4, <1>5, <1>6 DEF PgBegin, PgExec, PgSessions
<1> HIDE DEF n, s
<1>8. LogGrows
  BY <1>3 DEF LogGrows
<1>9. BlockIsPlan(t)'
  BY <1>5, <1>7 DEF BlockIsPlan
<1>10. \A c \in DOMAIN plan[t] : LakeLegDone(t, c)'
  BY <1>1, <1>3, <1>5, <1>8, LegStays DEF LegsOf, LegsAreRun
<1>11. LegsAreRun(t)'
  <2>1. next'[t] = 1 /\ phase'[t] # "lake"
    BY <1>1, <1>3, <1>4 DEF LegsOf, LegsAreRun
  <2>2. \A c \in DOMAIN plan'[t] :
          phase'[t] = "active" \/ c < Len(plan'[t]) => LakeLegDone(t, c)'
    <3> SUFFICES ASSUME NEW c \in DOMAIN plan'[t],
                        phase'[t] = "active" \/ c < Len(plan'[t])
                 PROVE  LakeLegDone(t, c)'
      OBVIOUS
    <3>1. CASE c \in DOMAIN plan[t]
      BY <1>10, <3>1
    <3>2. CASE c \notin DOMAIN plan[t]
      <4>1. c = n + 1 /\ phase'[t] = "active"
        BY <1>2, <1>5, <3>2 DEF n
      <4>2. LakeSql(plan'[t][c].kind) = << >>
        BY <1>4, <1>5, <4>1
      <4> QED
        BY <4>2 DEF LakeLegDone
    <3> QED
      BY <3>1, <3>2
  <2> QED
    BY <2>1, <2>2 DEF LegsAreRun
<1>12. LegsOf(t)'
  BY <1>4, <1>7, <1>9, <1>11 DEF LegsOf
<1>13. \A u \in Txns \ {t} : LegsOf(u)'
  BY <1>4, <1>8, OthersStay DEF LegsInv
<1> QED
  BY <1>12, <1>13 DEF LegsInv

(* A lake statement that has committed, with others of its leg to come or   *)
(* as the last one.                                                         *)
LEMMA RunStep ==
  ASSUME Inv, LegsInv, NEW t \in Txns, RunLakeSql(t)
  PROVE  LegsInv'
<1>1. LegsOf(t) /\ TypeOK /\ phase[t] = "lake" /\ plan[t] # << >>
  BY DEF LegsInv, Inv, RunLakeSql, LakeInv, WritersHoldLocks
<1>2. plan' = plan /\ pg' = pg
  BY DEF RunLakeSql, server
<1>3. PICK c : c = Len(plan[t])
  OBVIOUS
<1>4. PICK n : n = next[t]
  OBVIOUS
<1>5. /\ c \in DOMAIN plan[t]
      /\ DOMAIN plan[t] = 1..c
      /\ n \in 1..3
      /\ Current(t) = plan[t][c]
      /\ Len(LakeSql(plan[t][c].kind)) \in 0..3
  <2>1. c \in DOMAIN plan[t] /\ DOMAIN plan[t] = 1..c /\ n \in 1..3
    BY <1>1, <1>3, <1>4, CurrentType DEF TypeOK
  <2> QED
    BY <1>1, <1>3, <2>1, ChunkType, LakeSqlType DEF Current
<1>6. LogGrows /\ LakeStepDone(t, c, n)'
  BY <1>1, <1>2, <1>3, <1>4, CommitGrows DEF RunLakeSql
<1>7. \A s \in 1..3 : s <= n => LakeStepDone(t, c, s)'
  <2> SUFFICES ASSUME NEW s \in 1..3, s <= n PROVE LakeStepDone(t, c, s)'
    OBVIOUS
  <2>1. CASE s = n
    BY <1>6, <2>1
  <2>2. CASE s # n
    <3>1. s < n
      BY <1>5, <2>2
    <3>2. LakeStepDone(t, c, s)
      BY <1>1, <1>3, <1>4, <3>1 DEF LegsOf, LegsAreRun
    <3> QED
      BY <1>1, <1>2, <1>5, <1>6, <3>2, StepStays
  <2> QED
    BY <2>1, <2>2
<1>8. \A d \in DOMAIN plan[t] : d < c => LakeLegDone(t, d)'
  BY <1>1, <1>2, <1>3, <1>6, LegStays DEF LegsOf, LegsAreRun
<1>9. \A u \in Txns \ {t} : /\ phase'[u] = phase[u] /\ plan'[u] = plan[u]
                            /\ next'[u] = next[u] /\ pg'[u] = pg[u]
  BY <1>1, <1>2 DEF RunLakeSql, Return, Goto, TypeOK
<1>10. CASE n < Len(LakeSql(plan[t][c].kind))
  <2>1. next'[t] = n + 1 /\ phase'[t] = "lake"
    BY <1>1, <1>3, <1>4, <1>5, <1>10 DEF RunLakeSql, TypeOK
  <2>2. \A s \in 1..3 : s < n + 1 => s <= n
    BY <1>5
  <2>3. LegsAreRun(t)'
    BY <1>2, <1>3, <1>7, <1>8, <2>1, <2>2 DEF LegsAreRun
  <2>4. LegsOf(t)'
    BY <1>1, <1>2, <2>1, <2>3 DEF LegsOf, BlockIsPlan, Lost, Live, Ended
  <2> QED
    BY <1>6, <1>9, <2>4, OthersStay DEF LegsInv
<1>11. CASE ~(n < Len(LakeSql(plan[t][c].kind)))
  <2>1. next'[t] = 1 /\ phase'[t] = "active"
    BY <1>1, <1>3, <1>4, <1>5, <1>11 DEF RunLakeSql, Return, Goto, TypeOK
  <2>2. \A s \in DOMAIN LakeSql(plan[t][c].kind) : s \in 1..3 /\ s <= n
    <3>1. plan[t][c].kind \in {"hot", "delete", "insert", "update"}
      BY <1>1, <1>5, ChunkType
    <3>2. \A s \in DOMAIN LakeSql(plan[t][c].kind) :
            s \in 1..3 /\ s <= Len(LakeSql(plan[t][c].kind))
      BY <3>1, LakeSqlSteps
    <3> QED
      BY <1>5, <1>11, <3>2
  <2>3. LakeLegDone(t, c)'
    BY <1>2, <1>7, <2>2 DEF LakeLegDone
  <2>4. \A d \in DOMAIN plan[t] : d = c \/ d < c
    BY <1>5
  <2>5. LegsAreRun(t)'
    BY <1>2, <1>8, <2>1, <2>3, <2>4 DEF LegsAreRun
  <2>6. LegsOf(t)'
    BY <1>1, <1>2, <2>1, <2>5 DEF LegsOf, BlockIsPlan, Lost, Live, Ended
  <2> QED
    BY <1>6, <1>9, <2>6, OthersStay DEF LegsInv
<1> QED
  BY <1>10, <1>11

(* What each command makes durable. *)
LEMMA Durable ==
  ASSUME NEW D, NEW s \in PgSessions(D)
  PROVE  /\ PgBegin(s).base = s.base
         /\ PgError(s).base = s.base
         /\ PgError(PgBegin(s)).base = s.base
         /\ PgRollback(s).base = s.base
         /\ PgLose(s).base = s.base
         /\ PgLose(s).status = "lost"
         /\ PgCommit(s).base = IF s.status = "open" THEN s.work ELSE s.base
         /\ PgLose(PgCommit(s)).base = PgCommit(s).base
BY DEF PgSessions, PgBegin, PgError, PgRollback, PgLose, PgCommit

LEMMA LegsInit == Init => LegsInv
BY DEF Init, LegsInv, LegsOf, BlockIsPlan, LegsAreRun, Live, Lost, Ended

LEMMA LegsStep == Inv /\ LegsInv /\ [Next]_vars => LegsInv'
<1> SUFFICES ASSUME Inv, LegsInv, [Next]_vars PROVE LegsInv'
  OBVIOUS
<1> USE DEF Inv
<1>1. ASSUME NEW t \in Txns, Step(t) PROVE LegsInv'
  <2> DEFINE Others == \A u \in Txns \ {t} :
                phase'[u] = phase[u] /\ next'[u] = next[u] /\ pg'[u] = pg[u]
  <2>1. /\ pg[t] \in PgSessions(SUBSET (1..MaxChunks))
        /\ \A s : Session(t, s) => pg'[t] = s /\ \A u \in Txns \ {t} : pg'[u] = pg[u]
        /\ \A p : Goto(t, p) => phase'[t] = p /\ \A u \in Txns \ {t} : phase'[u] = phase[u]
        /\ \A p : Return(t, p) =>
             /\ phase'[t] = p
             /\ \A u \in Txns \ {t} : phase'[u] = phase[u] /\ next'[u] = next[u]
    BY DEF TypeOK, Session, Goto, Return
  <2>2. /\ PgBegin(pg[t]).base = pg[t].base
        /\ PgError(pg[t]).base = pg[t].base
        /\ PgError(PgBegin(pg[t])).base = pg[t].base
        /\ PgRollback(pg[t]).base = pg[t].base
        /\ PgLose(pg[t]).base = pg[t].base
        /\ PgLose(pg[t]).status = "lost"
        /\ PgCommit(pg[t]).base = IF pg[t].status = "open" THEN pg[t].work ELSE pg[t].base
        /\ PgLose(PgCommit(pg[t])).base = PgCommit(pg[t]).base
    BY <2>1, Durable
  <2>3. LegsOf(t)
    BY DEF LegsInv
  <2>4. ASSUME UNCHANGED <<phase, plan, next, lakeLog>>,
               \A u \in Txns \ {t} : pg'[u] = pg[u],
               pg'[t] = pg[t] \/ (Lost(t)' /\ pg'[t].base = pg[t].base)
        PROVE  LegsInv'
    BY <2>4, OthersStay DEF LegsInv, LogGrows
  <2>5. ASSUME Others, UNCHANGED <<plan, lakeLog>>, Live(t),
               phase'[t] = "failed", pg'[t].base = pg[t].base
        PROVE  LegsInv'
    BY <2>5, LeavingStep DEF LogGrows
  <2>6. CASE \E chunk \in Chunks : StartChunk(t, chunk)
    BY <2>6, StartStep
  <2>7. CASE ChunkFails(t)
    <3>1. Others /\ phase'[t] = "failed" /\ UNCHANGED <<plan, lakeLog>> /\ Live(t)
      BY <2>1, <2>7 DEF ChunkFails, server, loop, Live, Ended
    <3>2. pg'[t].base = pg[t].base
      BY <2>1, <2>2, <2>7 DEF ChunkFails, server
    <3> QED
      BY <2>5, <3>1, <3>2
  <2>8. CASE TakeLakeLock(t)
    <3>1. /\ phase[t] = "locking" /\ phase'[t] = "lake"
          /\ \A u \in Txns \ {t} : phase'[u] = phase[u]
          /\ UNCHANGED <<pg, plan, next, lakeLog>>
      BY <2>1, <2>8 DEF TakeLakeLock, loop
    <3>2. LogGrows
      BY <3>1 DEF LogGrows
    <3>3. next[t] = 1 /\ plan[t] \in Seq(Chunks)
      BY <2>3, <3>1 DEF LegsOf, LegsAreRun, TypeOK
    <3>4. \A c \in DOMAIN plan[t] : c < Len(plan[t]) => LakeLegDone(t, c)'
      BY <2>3, <3>1, <3>2, LegStays DEF LegsOf, LegsAreRun
    <3>5. LegsAreRun(t)'
      BY <3>1, <3>3, <3>4 DEF LegsAreRun
    <3>6. LegsOf(t)'
      BY <2>3, <3>1, <3>5 DEF LegsOf, BlockIsPlan, Live, Lost, Ended
    <3> QED
      BY <3>1, <3>2, <3>6, OthersStay DEF LegsInv
  <2>9. CASE LockWaitFails(t)
    <3>1. Others /\ phase'[t] = "failed" /\ UNCHANGED <<plan, lakeLog>> /\ Live(t)
      BY <2>1, <2>9 DEF LockWaitFails, server, loop, Live, Ended
    <3>2. pg'[t].base = pg[t].base
      BY <2>1, <2>2, <2>9 DEF LockWaitFails, server
    <3> QED
      BY <2>5, <3>1, <3>2
  <2>10. CASE RunLakeSql(t)
    BY <2>10, RunStep
  <2>11. CASE LakeConflict(t)
    <3>1. phase[t] = "lake" /\ UNCHANGED <<pg, plan>> /\ plan[t] # << >>
      BY <2>11 DEF LakeConflict, server, LakeInv, WritersHoldLocks
    <3>2. LogGrows
      BY <2>11, <3>1, CommitGrows DEF LakeConflict, LogGrows
    <3>3. CASE Retry(t)
      <4>1. UNCHANGED <<phase, next>>
        BY <3>3 DEF Retry
      <4>2. \A u \in Txns : LegsOf(u)'
        BY <3>1, <3>2, <4>1, OthersStay DEF LegsInv
      <4> QED
        BY <4>2 DEF LegsInv
    <3>4. CASE GiveUp(t)
      <4>1. Others /\ phase'[t] = "failed"
        BY <2>1, <3>1, <3>4 DEF GiveUp
      <4> QED
        BY <3>1, <3>2, <4>1, LeavingStep DEF Live, Ended
    <3> QED
      BY <2>11, <3>3, <3>4 DEF LakeConflict, OnConflict
  <2>12. CASE LakeError(t)
    <3>1. /\ Others /\ phase[t] = "lake" /\ phase'[t] = "failed"
          /\ UNCHANGED <<pg, plan>> /\ plan[t] # << >>
      BY <2>1, <2>12 DEF LakeError, OnError, GiveUp, server, LakeInv, WritersHoldLocks
    <3>2. LogGrows
      BY <2>12, <3>1, CommitGrows DEF LakeError, LogGrows
    <3> QED
      BY <3>1, <3>2, LeavingStep DEF Live, Ended
  <2>13. ASSUME Others, UNCHANGED <<plan, lakeLog>>, phase'[t] \in Ended,
                \/ pg'[t].base = pg[t].base /\ phase'[t] # "committed"
                \/ pg'[t].base = DOMAIN plan[t] /\ phase[t] = "active"
         PROVE  LegsInv'
    BY <2>13, LeavingStep DEF LogGrows, Ended
  <2>14. phase[t] = "active" =>
           /\ pg[t].base = {}
           /\ plan[t] = << >> => DOMAIN plan[t] = {}
           /\ ~Lost(t) => PgCommit(pg[t]).base = DOMAIN plan[t]
    <3> SUFFICES ASSUME phase[t] = "active"
                 PROVE  /\ pg[t].base = {}
                        /\ plan[t] = << >> => DOMAIN plan[t] = {}
                        /\ ~Lost(t) => PgCommit(pg[t]).base = DOMAIN plan[t]
      OBVIOUS
    <3>1. pg[t].base = {}
      BY <2>3 DEF LegsOf, Live, Ended
    <3>2. plan[t] = << >> => DOMAIN plan[t] = {}
      OBVIOUS
    <3>3. ~Lost(t) => /\ pg[t].work = DOMAIN plan[t]
                      /\ pg[t].status = IF plan[t] = << >> THEN "idle" ELSE "open"
      BY <2>3 DEF LegsOf, BlockIsPlan
    <3>4. CASE plan[t] = << >>
      BY <2>2, <3>1, <3>2, <3>3, <3>4
    <3>5. CASE plan[t] # << >>
      BY <2>2, <3>1, <3>3, <3>5
    <3> QED
      BY <3>4, <3>5
  <2>15. CASE Commit(t)
    <3>1. /\ Others /\ UNCHANGED <<plan, lakeLog>>
          /\ phase[t] = "active" /\ phase'[t] = "committed"
      BY <2>1, <2>15 DEF Commit, loop
    <3>2. CASE Lost(t)
      <4>1. pg' = pg /\ DOMAIN plan[t] = {}
        BY <2>15, <2>14, <3>1, <3>2 DEF Commit
      <4>2. pg'[t].base = DOMAIN plan[t]
        BY <2>14, <3>1, <4>1
      <4> QED
        BY <2>13, <3>1, <4>2 DEF Ended
    <3>3. CASE ~Lost(t)
      <4>1. PgCommit(pg[t]).base = DOMAIN plan[t]
        BY <2>14, <3>1, <3>3
      <4> QED
        BY <2>1, <2>13, <2>15, <3>1, <3>3, <4>1 DEF Commit, Ended
    <3> QED
      BY <3>2, <3>3
  <2>16. CASE CommitFails(t)
    <3>1. /\ Others /\ UNCHANGED <<plan, lakeLog>>
          /\ phase[t] = "active" /\ phase'[t] = "commit_failed"
      BY <2>1, <2>16 DEF CommitFails, loop
    <3>2. ~Lost(t) => PgCommit(pg[t]).base = DOMAIN plan[t]
      BY <2>14, <3>1
    <3>3. pg'[t].base = pg[t].base \/ pg'[t].base = DOMAIN plan[t]
      BY <2>1, <2>2, <2>16, <3>2 DEF CommitFails
    <3> QED
      BY <2>13, <3>1, <3>3 DEF Ended
  <2>17. CASE Rollback(t)
    <3>1. Others /\ UNCHANGED <<plan, lakeLog>> /\ phase'[t] = "rolled_back"
      BY <2>1, <2>17 DEF Rollback, loop
    <3>2. pg'[t].base = pg[t].base
      BY <2>1, <2>2, <2>17 DEF Rollback
    <3> QED
      BY <2>13, <3>1, <3>2 DEF Ended
  <2>18. CASE ConnectionLost(t)
    <3>1. pg'[t].base = pg[t].base /\ Lost(t)'
      BY <2>1, <2>2, <2>18 DEF ConnectionLost, Lost
    <3>2. /\ UNCHANGED <<phase, plan, next, lakeLog>>
          /\ \A u \in Txns \ {t} : pg'[u] = pg[u]
      BY <2>1, <2>18 DEF ConnectionLost, loop
    <3> QED
      BY <2>4, <3>1, <3>2
  <2>19. CASE Crash(t)
    <3>1. Others /\ UNCHANGED <<plan, lakeLog>> /\ phase'[t] = "crashed"
      BY <2>1, <2>19 DEF Crash, loop
    <3>2. pg'[t].base = pg[t].base
      BY <2>1, <2>2, <2>19 DEF Crash
    <3> QED
      BY <2>13, <3>1, <3>2 DEF Ended
  <2> QED
    BY <1>1, <2>6, <2>7, <2>8, <2>9, <2>10, <2>11, <2>12, <2>15, <2>16, <2>17, <2>18, <2>19
       DEF Step, LakeLoop
<1>2. ASSUME UNCHANGED vars PROVE LegsInv'
  <2>1. LogGrows
    BY <1>2 DEF vars, LogGrows
  <2> QED
    BY <1>2, <2>1, OthersStay DEF vars, LegsInv
<1> QED
  BY <1>1, <1>2 DEF Next, AllEnded

(* The lake leg of a chunk is complete before the block that holds its row   *)
(* statements can become durable, whatever fails, and a commit that DuckDB   *)
(* reports covers every chunk.                                               *)
THEOREM CommitsAreWhole == Spec => []CommittedIsWhole
<1>1. Init => LegsInv
  BY LegsInit
<1>2. Inv /\ LegsInv /\ [Next]_vars => LegsInv'
  BY LegsStep
<1>3. LegsInv => CommittedIsWhole
  BY DEF LegsInv, LegsOf, CommittedIsWhole
<1> QED
  BY <1>1, <1>2, <1>3, LakeInvariant, PTL DEF Spec

-----------------------------------------------------------------------------
(* Order.                                                                   *)

LEMMA EntryType ==
  ASSUME TypeOK, NEW table \in Tables, NEW i \in DOMAIN lakeLog[table]
  PROVE  lakeLog[table][i] \in LakeCommit
<1>1. lakeLog[table] \in Seq(LakeCommit)
  BY DEF TypeOK
<1> QED
  BY <1>1

(* Entries of a log can be compared. *)
LEMMA EntryFields ==
  ASSUME NEW e \in LakeCommit
  PROVE  e.txn \in Txns /\ e.chunk \in Int /\ e.step \in Int
<1>1. e.chunk \in 1..MaxChunks /\ e.step \in 1..3 /\ e.txn \in Txns
  BY DEF LakeCommit
<1> QED
  BY <1>1, ConstantsOK

(* A step that writes no lake and moves the loop of one transaction on. *)
LEMMA QuietOrder ==
  ASSUME TypeOK, OrderInv, NEW t \in Txns, UNCHANGED lakeLog,
         \A u \in Txns \ {t} :
           phase'[u] = phase[u] /\ plan'[u] = plan[u] /\ next'[u] = next[u],
         \/ plan'[t] = plan[t] /\ phase'[t] \notin {"locking", "lake"}
         \/ plan'[t] = plan[t] /\ phase'[t] = phase[t] /\ next'[t] = next[t]
         \/ plan'[t] = plan[t] /\ phase'[t] = "lake" /\ phase[t] = "locking"
         \/ Len(plan'[t]) = Len(plan[t]) + 1 /\ phase'[t] # "lake"
  PROVE  OrderInv'
<1>1. ASSUME NEW u \in Txns, NEW table \in Tables, NEW i \in DOMAIN lakeLog[table],
             lakeLog[table][i].txn = u
      PROVE  /\ lakeLog[table][i].chunk <= Len(plan'[u])
             /\ phase'[u] = "locking" => lakeLog[table][i].chunk < Len(plan'[u])
             /\ phase'[u] = "lake" /\ lakeLog[table][i].chunk = Len(plan'[u])
                  => StepIsOver(lakeLog[table][i], next'[u])
  <2>1. /\ lakeLog[table][i].chunk <= Len(plan[u])
        /\ phase[u] = "locking" => lakeLog[table][i].chunk < Len(plan[u])
        /\ phase[u] = "lake" /\ lakeLog[table][i].chunk = Len(plan[u])
             => StepIsOver(lakeLog[table][i], next[u])
    BY <1>1 DEF OrderInv, LogFollowsLoop
  <2>2. lakeLog[table][i].chunk \in Int /\ Len(plan[u]) \in Int
    <3>1. lakeLog[table][i].chunk \in 1..MaxChunks
      BY EntryType DEF LakeCommit
    <3>2. plan[u] \in Seq(Chunks)
      BY DEF TypeOK
    <3> QED
      BY <3>1, <3>2, ConstantsOK
  <2> QED
    BY <2>1, <2>2
<1>2. \A u \in Txns : LogFollowsLoop(u)'
  BY <1>1 DEF LogFollowsLoop
<1>3. LakeRunsInOrder'
  BY DEF OrderInv, LakeRunsInOrder
<1> QED
  BY <1>2, <1>3 DEF OrderInv

(* The commit of the statement that is next comes after all others of its   *)
(* transaction, and right after the one before it in its leg.               *)
LEMMA CommitOrder ==
  ASSUME Inv, LegsInv, OrderInv, NEW t \in Txns, phase[t] = "lake",
         NEW misread \in BOOLEAN, CommitToLake(t, misread), UNCHANGED plan,
         \A u \in Txns \ {t} : phase'[u] = phase[u] /\ next'[u] = next[u],
         phase'[t] # "locking",
         phase'[t] = "lake" => next'[t] = next[t] + 1 \/ (misread /\ next'[t] = next[t])
  PROVE  OrderInv'
<1> DEFINE T == Current(t).table
           log == lakeLog[T]
           c == Len(plan[t])
           n == next[t]
           e == [txn |-> t, chunk |-> c, step |-> n, misread |-> misread]
<1>1. TypeOK /\ plan[t] # << >> /\ LegsOf(t)
  BY DEF Inv, LakeInv, WritersHoldLocks, LegsInv
<1>2. T \in Tables /\ T = plan[t][c].table /\ c \in 1..MaxChunks /\ n \in 1..3
  BY <1>1, CurrentType DEF Current, TypeOK
<1>3. /\ log \in Seq(LakeCommit) /\ Len(log) \in Nat
      /\ \A i \in DOMAIN log : log[i] \in LakeCommit
      /\ DOMAIN log = 1..Len(log)
  BY <1>1, <1>2, EntryType, LogEntries
<1>4. lakeLog' = [lakeLog EXCEPT ![T] = Append(log, e)]
  BY DEF CommitToLake
<1>5. \A i \in DOMAIN log : log[i].txn = t =>
        log[i].chunk <= c /\ (log[i].chunk = c => StepIsOver(log[i], n))
  BY <1>2 DEF OrderInv, LogFollowsLoop
<1>6. n > 1 => \E i \in DOMAIN log : IsStep(log[i], t, c, n - 1)
  <2>1. n > 1 => n - 1 \in 1..3 /\ n - 1 < n
    BY <1>2
  <2> QED
    BY <1>1, <1>2, <2>1 DEF LegsOf, LegsAreRun, LakeStepDone
<1>7. \A table \in Tables : \A i \in DOMAIN lakeLog[table] : lakeLog[table][i] \in LakeCommit
  BY <1>1, EntryType
<1>8. PICK m : m = n
  OBVIOUS
<1>9. PICK f : f = e
  OBVIOUS
<1>10. PICK old : old = log
  OBVIOUS
<1>11. PICK ice : ice = T
  OBVIOUS
<1>12. PICK d : d = c
  OBVIOUS
<1>13. /\ f = [txn |-> t, chunk |-> d, step |-> m, misread |-> misread]
       /\ d \in 1..MaxChunks /\ m \in 1..3
       /\ ice \in Tables
  BY <1>2, <1>8, <1>9, <1>11, <1>12
<1>14. /\ \A table \in Tables \ {ice} : lakeLog'[table] = lakeLog[table]
       /\ lakeLog'[ice] = Append(old, f)
       /\ lakeLog[ice] = old
  BY <1>1, <1>2, <1>4, <1>9, <1>10, <1>11 DEF TypeOK
<1>15. /\ old \in Seq(LakeCommit) /\ Len(old) \in Nat
       /\ \A i \in DOMAIN old : old[i] \in LakeCommit
       /\ DOMAIN old = 1..Len(old)
  BY <1>3, <1>10
<1>16. \A i \in DOMAIN old : old[i].txn = t =>
        old[i].chunk <= d /\ (old[i].chunk = d => StepIsOver(old[i], m))
  BY <1>5, <1>8, <1>10, <1>12
<1>17. m > 1 => \E i \in DOMAIN old : IsStep(old[i], t, d, m - 1)
  BY <1>6, <1>8, <1>10, <1>12
<1>18. /\ Len(plan'[t]) = d
       /\ phase'[t] = "lake" => next'[t] = m + 1 \/ (misread /\ next'[t] = m)
  BY <1>8, <1>12
<1> HIDE DEF T, log, c, n, e
<1>19. /\ DOMAIN Append(old, f) = 1..(Len(old) + 1)
       /\ \A i \in 1..Len(old) : Append(old, f)[i] = old[i]
       /\ Append(old, f)[Len(old) + 1] = f
  BY <1>15
<1>20. \A i, j \in DOMAIN Append(old, f) :
         i < j /\ Append(old, f)[i].txn = Append(old, f)[j].txn
           => \/ After(Append(old, f)[j], Append(old, f)[i])
              \/ Repeats(Append(old, f)[j], Append(old, f)[i])
  <2> SUFFICES ASSUME NEW i \in DOMAIN Append(old, f), NEW j \in DOMAIN Append(old, f),
                      i < j, Append(old, f)[i].txn = Append(old, f)[j].txn
               PROVE  \/ After(Append(old, f)[j], Append(old, f)[i])
                      \/ Repeats(Append(old, f)[j], Append(old, f)[i])
    OBVIOUS
  <2>1. i \in 1..Len(old) /\ Append(old, f)[i] = old[i]
    BY <1>15, <1>19
  <2>2. CASE j = Len(old) + 1
    <3>1. old[i].txn = t
      BY <1>13, <1>19, <2>1, <2>2
    <3>2. old[i].chunk \in Int /\ old[i].step \in Int
      <4>1. old[i] \in LakeCommit
        BY <1>15, <2>1
      <4> QED
        BY <4>1, EntryFields
    <3>3. \/ old[i].chunk < d
          \/ old[i].chunk = d /\ old[i].step < m
          \/ old[i].chunk = d /\ old[i].step = m /\ old[i].misread
      <4>1. old[i].chunk <= d /\ (old[i].chunk = d => StepIsOver(old[i], m))
        BY <1>15, <1>16, <2>1, <3>1
      <4> QED
        BY <1>13, <3>2, <4>1 DEF StepIsOver
    <3>4. Append(old, f)[i] = old[i] /\ Append(old, f)[j] = f
      BY <1>19, <2>1, <2>2
    <3>5. f.chunk = d /\ f.step = m
      BY <1>13
    <3> QED
      BY <1>13, <3>2, <3>3, <3>4, <3>5 DEF After, Repeats
  <2>3. CASE j # Len(old) + 1
    <3>1. j \in DOMAIN old /\ i \in DOMAIN old /\ Append(old, f)[j] = old[j]
      BY <1>15, <1>19, <2>1, <2>3
    <3> QED
      BY <1>13, <1>14, <2>1, <3>1 DEF OrderInv, LakeRunsInOrder, InOrder
  <2> QED
    BY <2>2, <2>3
<1>21. \A j \in DOMAIN Append(old, f) : Append(old, f)[j].step > 1 =>
         \E i \in DOMAIN Append(old, f) :
           IsStep(Append(old, f)[i], Append(old, f)[j].txn, Append(old, f)[j].chunk,
                  Append(old, f)[j].step - 1)
  <2> SUFFICES ASSUME NEW j \in DOMAIN Append(old, f), Append(old, f)[j].step > 1
               PROVE  \E i \in DOMAIN Append(old, f) :
                        IsStep(Append(old, f)[i], Append(old, f)[j].txn,
                               Append(old, f)[j].chunk, Append(old, f)[j].step - 1)
    OBVIOUS
  <2>1. CASE j = Len(old) + 1
    <3>1. m > 1 /\ Append(old, f)[j] = f
      BY <1>13, <1>19, <2>1
    <3>2. PICK i \in DOMAIN old : IsStep(old[i], t, d, m - 1)
      BY <1>17, <3>1
    <3>3. f.txn = t /\ f.chunk = d /\ f.step = m
      BY <1>13
    <3> QED
      BY <1>15, <1>19, <3>1, <3>2, <3>3
  <2>2. CASE j # Len(old) + 1
    <3>1. j \in DOMAIN old /\ Append(old, f)[j] = old[j]
      BY <1>15, <1>19, <2>2
    <3>2. \E i \in DOMAIN old : IsStep(old[i], old[j].txn, old[j].chunk, old[j].step - 1)
      BY <1>13, <1>14, <3>1 DEF OrderInv, LakeRunsInOrder, InOrder
    <3> QED
      BY <1>15, <1>19, <3>1, <3>2
  <2> QED
    BY <2>1, <2>2
<1>22. LakeRunsInOrder'
  <2>1. InOrder(Append(old, f))
    BY <1>20, <1>21 DEF InOrder
  <2>2. \A table \in Tables : InOrder(lakeLog[table]) => InOrder(lakeLog'[table])
    BY <1>14, <2>1
  <2> QED
    BY <2>2 DEF OrderInv, LakeRunsInOrder
<1>23. ASSUME NEW u \in Txns, NEW table \in Tables, NEW i \in DOMAIN lakeLog'[table],
              lakeLog'[table][i].txn = u
       PROVE  /\ lakeLog'[table][i].chunk <= Len(plan'[u])
              /\ phase'[u] = "locking" => lakeLog'[table][i].chunk < Len(plan'[u])
              /\ phase'[u] = "lake" /\ lakeLog'[table][i].chunk = Len(plan'[u])
                   => StepIsOver(lakeLog'[table][i], next'[u])
  <2>1. CASE table = ice /\ i = Len(old) + 1
    <3>1. lakeLog'[table][i] = f /\ u = t
      BY <1>13, <1>14, <1>19, <1>23, <2>1
    <3> QED
      BY <1>13, <1>18, <3>1, ConstantsOK DEF StepIsOver
  <2>2. CASE ~(table = ice /\ i = Len(old) + 1)
    <3>1. i \in DOMAIN lakeLog[table] /\ lakeLog'[table][i] = lakeLog[table][i]
      BY <1>14, <1>15, <1>19, <2>2
    <3>2. /\ lakeLog[table][i].chunk <= Len(plan[u])
          /\ phase[u] = "locking" => lakeLog[table][i].chunk < Len(plan[u])
          /\ phase[u] = "lake" /\ lakeLog[table][i].chunk = Len(plan[u])
               => StepIsOver(lakeLog[table][i], next[u])
      BY <1>23, <3>1 DEF OrderInv, LogFollowsLoop
    <3>3. CASE u = t
      <4>1. lakeLog[table][i].step \in Int
        BY <1>7, <3>1 DEF LakeCommit
      <4>2. Len(plan[t]) = d /\ next[t] = m
        BY <1>8, <1>12 DEF c, n
      <4> QED
        BY <1>13, <1>18, <3>1, <3>2, <3>3, <4>1, <4>2 DEF StepIsOver
    <3>4. CASE u # t
      BY <3>1, <3>2, <3>4
    <3> QED
      BY <3>3, <3>4
  <2> QED
    BY <2>1, <2>2
<1>24. \A u \in Txns : LogFollowsLoop(u)'
  BY <1>23 DEF LogFollowsLoop
<1> QED
  BY <1>22, <1>24 DEF OrderInv

LEMMA OrderInit == Init => OrderInv
<1> SUFFICES ASSUME Init PROVE OrderInv
  OBVIOUS
<1>1. \A table \in Tables : DOMAIN lakeLog[table] = {}
  BY DEF Init
<1> QED
  BY <1>1 DEF OrderInv, LogFollowsLoop, LakeRunsInOrder, InOrder

LEMMA OrderStep == Inv /\ LegsInv /\ OrderInv /\ [Next]_vars => OrderInv'
<1> SUFFICES ASSUME Inv, LegsInv, OrderInv, [Next]_vars PROVE OrderInv'
  OBVIOUS
<1>1. TypeOK
  BY DEF Inv
<1>2. ASSUME NEW t \in Txns, Step(t) PROVE OrderInv'
  <2>1. /\ \A p : Goto(t, p) => phase'[t] = p /\ \A u \in Txns \ {t} : phase'[u] = phase[u]
        /\ \A p : Return(t, p) =>
             /\ phase'[t] = p
             /\ \A u \in Txns \ {t} : phase'[u] = phase[u] /\ next'[u] = next[u]
    BY <1>1 DEF TypeOK, Goto, Return
  <2>2. ASSUME NEW chunk \in Chunks, StartChunk(t, chunk) PROVE OrderInv'
    <3>1. plan' = [plan EXCEPT ![t] = Append(plan[t], chunk)] /\ plan[t] \in Seq(Chunks)
      BY <1>1, <2>2 DEF StartChunk, TypeOK
    <3>2. Len(plan'[t]) = Len(plan[t]) + 1 /\ \A u \in Txns \ {t} : plan'[u] = plan[u]
      BY <1>1, <3>1 DEF TypeOK
    <3>3. /\ phase'[t] # "lake" /\ UNCHANGED <<next, lakeLog>>
          /\ \A u \in Txns \ {t} : phase'[u] = phase[u]
      BY <2>1, <2>2 DEF StartChunk, loop
    <3> QED
      BY <1>1, <3>2, <3>3, QuietOrder
  <2>3. CASE \/ ChunkFails(t) \/ LockWaitFails(t) \/ Commit(t) \/ CommitFails(t)
             \/ Rollback(t) \/ Crash(t)
    <3>1. /\ phase'[t] \notin {"locking", "lake"} /\ UNCHANGED <<plan, next, lakeLog>>
          /\ \A u \in Txns \ {t} : phase'[u] = phase[u]
      BY <2>1, <2>3 DEF ChunkFails, LockWaitFails, Commit, CommitFails, Rollback, Crash, loop
    <3> QED
      BY <1>1, <3>1, QuietOrder
  <2>4. CASE TakeLakeLock(t)
    <3>1. /\ phase'[t] = "lake" /\ phase[t] = "locking" /\ UNCHANGED <<plan, next, lakeLog>>
          /\ \A u \in Txns \ {t} : phase'[u] = phase[u]
      BY <2>1, <2>4 DEF TakeLakeLock, loop
    <3> QED
      BY <1>1, <3>1, QuietOrder
  <2>5. CASE ConnectionLost(t)
    <3>1. UNCHANGED <<phase, plan, next, lakeLog>>
      BY <2>5 DEF ConnectionLost, loop
    <3> QED
      BY <1>1, <3>1, QuietOrder
  <2>6. CASE RunLakeSql(t)
    <3>1. phase[t] = "lake" /\ CommitToLake(t, FALSE) /\ UNCHANGED plan
      BY <2>6 DEF RunLakeSql
    <3>2. \/ UNCHANGED phase /\ next' = [next EXCEPT ![t] = next[t] + 1]
          \/ Return(t, "active")
      BY <2>6 DEF RunLakeSql
    <3>3. /\ \A u \in Txns \ {t} : phase'[u] = phase[u] /\ next'[u] = next[u]
          /\ phase'[t] # "locking"
          /\ phase'[t] = "lake" => next'[t] = next[t] + 1
      BY <1>1, <2>1, <3>1, <3>2 DEF TypeOK
    <3> QED
      BY <3>1, <3>3, CommitOrder
  <2>7. CASE LakeConflict(t)
    <3>1. /\ phase[t] = "lake" /\ UNCHANGED plan
          /\ \A u \in Txns \ {t} : phase'[u] = phase[u] /\ next'[u] = next[u]
          /\ \/ phase'[t] = "lake" /\ next'[t] = next[t]
             \/ phase'[t] = "failed"
      BY <2>1, <2>7 DEF LakeConflict, OnConflict, Retry, GiveUp
    <3>2. CASE CommitToLake(t, TRUE)
      <4>1. phase'[t] # "locking" /\ (phase'[t] = "lake" => TRUE /\ next'[t] = next[t])
        BY <3>1
      <4> QED
        BY <3>1, <3>2, <4>1, CommitOrder
    <3>3. CASE UNCHANGED lakeLog
      <4>1. \/ plan'[t] = plan[t] /\ phase'[t] \notin {"locking", "lake"}
            \/ plan'[t] = plan[t] /\ phase'[t] = phase[t] /\ next'[t] = next[t]
        BY <3>1
      <4>2. \A u \in Txns \ {t} :
              phase'[u] = phase[u] /\ plan'[u] = plan[u] /\ next'[u] = next[u]
        BY <3>1
      <4> QED
        BY <1>1, <3>3, <4>1, <4>2, QuietOrder
    <3> QED
      BY <2>7, <3>2, <3>3 DEF LakeConflict
  <2>8. CASE LakeError(t)
    <3>1. /\ phase[t] = "lake" /\ phase'[t] = "failed" /\ UNCHANGED plan
          /\ \A u \in Txns \ {t} : phase'[u] = phase[u] /\ next'[u] = next[u]
      BY <2>1, <2>8 DEF LakeError, OnError, GiveUp
    <3>2. CASE CommitToLake(t, FALSE)
      BY <3>1, <3>2, CommitOrder
    <3>3. CASE UNCHANGED lakeLog
      BY <1>1, <3>1, <3>3, QuietOrder
    <3> QED
      BY <2>8, <3>2, <3>3 DEF LakeError
  <2> QED
    BY <1>2, <2>2, <2>3, <2>4, <2>5, <2>6, <2>7, <2>8 DEF Step, LakeLoop
<1>3. ASSUME UNCHANGED vars PROVE OrderInv'
  BY <1>3 DEF vars, OrderInv, LogFollowsLoop, LakeRunsInOrder
<1> QED
  BY <1>2, <1>3 DEF Next, AllEnded

(* The lake commits of a transaction are its statements in their order: a    *)
(* bounded retry never leaves one out before a later one, and runs none      *)
(* twice that the sink has not taken for a conflict after its commit.        *)
THEOREM LakeIsOrdered == Spec => []LakeRunsInOrder
<1>1. Init => LegsInv /\ OrderInv
  BY LegsInit, OrderInit
<1>2. Inv /\ LegsInv /\ OrderInv /\ [Next]_vars => LegsInv' /\ OrderInv'
  BY LegsStep, OrderStep
<1>3. OrderInv => LakeRunsInOrder
  BY DEF OrderInv
<1> QED
  BY <1>1, <1>2, <1>3, LakeInvariant, PTL DEF Spec

-----------------------------------------------------------------------------
(* Keys.                                                                    *)

(* A loop is at a statement that its chunk has, and so is every commit.      *)
LoopAtStep(t) ==
  phase[t] \in {"locking", "lake"} => next[t] <= Len(LakeSql(Current(t).kind))

EntryIsStep(e) ==
  /\ e.chunk \in DOMAIN plan[e.txn]
  /\ e.step \in DOMAIN LakeSql(plan[e.txn][e.chunk].kind)

StepsExist ==
  /\ \A t \in Txns : LoopAtStep(t)
  /\ \A table \in Tables : \A i \in DOMAIN lakeLog[table] : EntryIsStep(lakeLog[table][i])

LEMMA LakeSqlDomain ==
  ASSUME NEW kind \in {"hot", "delete", "insert", "update"}
  PROVE  /\ DOMAIN LakeSql(kind) = 1..Len(LakeSql(kind))
         /\ Len(LakeSql(kind)) \in 0..3
         /\ LakeSql(kind) # << >> => Len(LakeSql(kind)) >= 1
         /\ \A s \in DOMAIN LakeSql(kind) :
              LakeSql(kind)[s] = "add" => s > 1 /\ LakeSql(kind)[s - 1] = "remove"
<1>1. CASE kind = "hot"
  BY <1>1 DEF LakeSql
<1>2. CASE kind = "delete"
  BY <1>2 DEF LakeSql
<1>3. CASE kind = "insert"
  BY <1>3 DEF LakeSql
<1>4. CASE kind = "update"
  BY <1>4 DEF LakeSql
<1> QED
  BY <1>1, <1>2, <1>3, <1>4

(* A step that writes no lake; plans grow.                                  *)
LEMMA QuietSteps ==
  ASSUME TypeOK, StepsExist, NEW t \in Txns, UNCHANGED lakeLog,
         \A u \in Txns \ {t} :
           phase'[u] = phase[u] /\ plan'[u] = plan[u] /\ next'[u] = next[u],
         \/ plan'[t] = plan[t]
         \/ \E chunk \in Chunks : plan'[t] = Append(plan[t], chunk),
         LoopAtStep(t)'
  PROVE  StepsExist'
<1>1. ASSUME NEW u \in Txns, NEW c \in DOMAIN plan[u]
      PROVE  c \in DOMAIN plan'[u] /\ plan'[u][c] = plan[u][c]
  <2>1. plan[u] \in Seq(Chunks)
    BY DEF TypeOK
  <2>2. ASSUME NEW chunk \in Chunks, plan'[u] = Append(plan[u], chunk)
        PROVE  c \in DOMAIN plan'[u] /\ plan'[u][c] = plan[u][c]
    BY <2>1, <2>2
  <2> QED
    BY <2>2
<1>2. ASSUME NEW table \in Tables, NEW i \in DOMAIN lakeLog[table]
      PROVE  EntryIsStep(lakeLog[table][i])'
  <2>1. lakeLog[table][i].txn \in Txns
    BY LogEntries
  <2>2. EntryIsStep(lakeLog[table][i])
    BY DEF StepsExist
  <2> QED
    BY <1>1, <2>1, <2>2 DEF EntryIsStep
<1>3. ASSUME NEW u \in Txns \ {t} PROVE LoopAtStep(u)'
  BY <1>3 DEF StepsExist, LoopAtStep, Current
<1> QED
  BY <1>2, <1>3 DEF StepsExist

LEMMA CommitSteps ==
  ASSUME Inv, StepsExist, NEW t \in Txns, phase[t] = "lake",
         NEW misread \in BOOLEAN, CommitToLake(t, misread), UNCHANGED plan,
         \A u \in Txns \ {t} : phase'[u] = phase[u] /\ next'[u] = next[u],
         LoopAtStep(t)'
  PROVE  StepsExist'
<1>1. TypeOK /\ plan[t] # << >>
  BY DEF Inv, LakeInv, WritersHoldLocks
<1>2. PICK ice : ice = Current(t).table
  OBVIOUS
<1>3. PICK log : log = lakeLog[ice]
  OBVIOUS
<1>4. PICK e : e = [txn |-> t, chunk |-> Len(plan[t]), step |-> next[t], misread |-> misread]
  OBVIOUS
<1>5. ice \in Tables /\ lakeLog' = [lakeLog EXCEPT ![ice] = Append(log, e)]
  BY <1>1, <1>2, <1>3, <1>4, CurrentType DEF CommitToLake
<1>6. log \in Seq(LakeCommit)
  BY <1>1, <1>3, <1>5, LogEntries
<1>7. EntryIsStep(e)
  <2>1. /\ plan[t] \in Seq(Chunks) /\ Len(plan[t]) \in 1..MaxChunks
        /\ Current(t).kind \in {"hot", "delete", "insert", "update"}
    BY <1>1, CurrentType DEF TypeOK
  <2>2. Len(plan[t]) \in DOMAIN plan[t] /\ Current(t) = plan[t][Len(plan[t])]
    BY <2>1, ConstantsOK DEF Current
  <2>3. next[t] <= Len(LakeSql(Current(t).kind)) /\ next[t] \in 1..3
    BY <1>1 DEF StepsExist, LoopAtStep, TypeOK
  <2>4. next[t] \in DOMAIN LakeSql(Current(t).kind)
    BY <2>1, <2>3, LakeSqlDomain
  <2> QED
    BY <1>4, <2>2, <2>4 DEF EntryIsStep
<1>8. ASSUME NEW table \in Tables, NEW i \in DOMAIN lakeLog'[table]
      PROVE  EntryIsStep(lakeLog'[table][i])
  <2>1. CASE table = ice
    <3>1. lakeLog'[table] = Append(log, e)
      BY <1>1, <1>5, <2>1 DEF TypeOK
    <3>2. \/ i \in DOMAIN log /\ lakeLog'[table][i] = log[i]
          \/ lakeLog'[table][i] = e
      BY <1>6, <1>8, <3>1
    <3> QED
      BY <1>3, <1>5, <1>7, <3>2 DEF StepsExist
  <2>2. CASE table # ice
    BY <1>1, <1>5, <2>2 DEF TypeOK, StepsExist
  <2> QED
    BY <2>1, <2>2
<1>9. ASSUME NEW u \in Txns \ {t} PROVE LoopAtStep(u)'
  BY <1>9 DEF StepsExist, LoopAtStep, Current
<1> QED
  BY <1>8, <1>9 DEF StepsExist, EntryIsStep

LEMMA StepsInit == Init => StepsExist
<1> SUFFICES ASSUME Init PROVE StepsExist
  OBVIOUS
<1>1. \A table \in Tables : DOMAIN lakeLog[table] = {}
  BY DEF Init
<1> QED
  BY <1>1 DEF Init, StepsExist, LoopAtStep

LEMMA StepsStep == Inv /\ LegsInv /\ StepsExist /\ [Next]_vars => StepsExist'
<1> SUFFICES ASSUME Inv, LegsInv, StepsExist, [Next]_vars PROVE StepsExist'
  OBVIOUS
<1>1. TypeOK
  BY DEF Inv
<1>2. ASSUME NEW t \in Txns, Step(t) PROVE StepsExist'
  <2>1. /\ \A p : Goto(t, p) => phase'[t] = p /\ \A u \in Txns \ {t} : phase'[u] = phase[u]
        /\ \A p : Return(t, p) =>
             /\ phase'[t] = p
             /\ \A u \in Txns \ {t} : phase'[u] = phase[u] /\ next'[u] = next[u]
    BY <1>1 DEF TypeOK, Goto, Return
  <2>2. ASSUME NEW chunk \in Chunks, StartChunk(t, chunk) PROVE StepsExist'
    <3>1. plan' = [plan EXCEPT ![t] = Append(plan[t], chunk)] /\ plan[t] \in Seq(Chunks)
      BY <1>1, <2>2 DEF StartChunk, TypeOK
    <3>2. /\ plan'[t] = Append(plan[t], chunk)
          /\ \A u \in Txns \ {t} : plan'[u] = plan[u]
      BY <1>1, <3>1 DEF TypeOK
    <3>3. Current(t)' = chunk
      BY <3>1, <3>2 DEF Current
    <3>4. /\ UNCHANGED <<next, lakeLog>>
          /\ \A u \in Txns \ {t} : phase'[u] = phase[u]
          /\ phase'[t] = IF LakeSql(chunk.kind) = << >> THEN "active" ELSE "locking"
      BY <2>1, <2>2 DEF StartChunk, loop
    <3>5. next[t] = 1
      BY <2>2 DEF StartChunk, LegsInv, LegsOf, LegsAreRun
    <3>6. chunk.kind \in {"hot", "delete", "insert", "update"}
      BY ConstantsOK
    <3>7. LoopAtStep(t)'
      BY <3>3, <3>4, <3>5, <3>6, LakeSqlDomain DEF LoopAtStep
    <3> QED
      BY <1>1, <3>2, <3>4, <3>7, QuietSteps
  <2>3. CASE \/ ChunkFails(t) \/ LockWaitFails(t) \/ Commit(t) \/ CommitFails(t)
             \/ Rollback(t) \/ Crash(t)
    <3>1. /\ phase'[t] \notin {"locking", "lake"} /\ UNCHANGED <<plan, next, lakeLog>>
          /\ \A u \in Txns \ {t} : phase'[u] = phase[u]
      BY <2>1, <2>3 DEF ChunkFails, LockWaitFails, Commit, CommitFails, Rollback, Crash, loop
    <3> QED
      BY <1>1, <3>1, QuietSteps DEF LoopAtStep
  <2>4. CASE TakeLakeLock(t) \/ ConnectionLost(t)
    <3>1. /\ UNCHANGED <<plan, next, lakeLog>>
          /\ \A u \in Txns \ {t} : phase'[u] = phase[u]
          /\ phase'[t] \in {"locking", "lake"} => phase[t] \in {"locking", "lake"}
      BY <2>1, <2>4 DEF TakeLakeLock, ConnectionLost, loop
    <3>2. LoopAtStep(t)'
      BY <3>1 DEF StepsExist, LoopAtStep, Current
    <3> QED
      BY <1>1, <3>1, <3>2, QuietSteps
  <2>5. CASE RunLakeSql(t)
    <3>1. /\ phase[t] = "lake" /\ CommitToLake(t, FALSE) /\ UNCHANGED plan
          /\ \A u \in Txns \ {t} : phase'[u] = phase[u] /\ next'[u] = next[u]
      BY <1>1, <2>1, <2>5 DEF RunLakeSql, TypeOK
    <3>2. \/ next[t] < Len(LakeSql(Current(t).kind)) /\ next'[t] = next[t] + 1
          \/ phase'[t] = "active"
      BY <1>1, <2>1, <2>5 DEF RunLakeSql, TypeOK
    <3>3. /\ plan[t] # << >> /\ next[t] \in 1..3
      BY <1>1, <3>1 DEF Inv, LakeInv, WritersHoldLocks, TypeOK
    <3>4. Len(LakeSql(Current(t).kind)) \in 0..3
      BY <1>1, <3>3, CurrentType, LakeSqlDomain
    <3>5. LoopAtStep(t)'
      BY <3>1, <3>2, <3>3, <3>4 DEF LoopAtStep, Current
    <3> QED
      BY <3>1, <3>5, CommitSteps
  <2>6. CASE LakeConflict(t)
    <3>1. /\ phase[t] = "lake" /\ UNCHANGED plan
          /\ \A u \in Txns \ {t} : phase'[u] = phase[u] /\ next'[u] = next[u]
          /\ \/ phase'[t] = "lake" /\ next'[t] = next[t]
             \/ phase'[t] = "failed"
      BY <2>1, <2>6 DEF LakeConflict, OnConflict, Retry, GiveUp
    <3>2. LoopAtStep(t)'
      BY <3>1 DEF StepsExist, LoopAtStep, Current
    <3>3. CASE CommitToLake(t, TRUE)
      BY <3>1, <3>2, <3>3, CommitSteps
    <3>4. CASE UNCHANGED lakeLog
      BY <1>1, <3>1, <3>2, <3>4, QuietSteps
    <3> QED
      BY <2>6, <3>3, <3>4 DEF LakeConflict
  <2>7. CASE LakeError(t)
    <3>1. /\ phase[t] = "lake" /\ phase'[t] = "failed" /\ UNCHANGED plan
          /\ \A u \in Txns \ {t} : phase'[u] = phase[u] /\ next'[u] = next[u]
      BY <2>1, <2>7 DEF LakeError, OnError, GiveUp
    <3>2. LoopAtStep(t)'
      BY <3>1 DEF LoopAtStep
    <3>3. CASE CommitToLake(t, FALSE)
      BY <3>1, <3>2, <3>3, CommitSteps
    <3>4. CASE UNCHANGED lakeLog
      BY <1>1, <3>1, <3>2, <3>4, QuietSteps
    <3> QED
      BY <2>7, <3>3, <3>4 DEF LakeError
  <2> QED
    BY <1>2, <2>2, <2>3, <2>4, <2>5, <2>6, <2>7 DEF Step, LakeLoop
<1>3. ASSUME UNCHANGED vars PROVE StepsExist'
  BY <1>3 DEF vars, StepsExist, LoopAtStep, EntryIsStep, Current
<1> QED
  BY <1>2, <1>3 DEF Next, AllEnded

(* The removal that belongs to an addition is the commit of its transaction  *)
(* before it, and nobody else's addition comes in between: two that are left *)
(* are one statement, which was repeated.                                    *)
LEMMA AdditionsFollowRemovals ==
  ASSUME Inv, StepsExist, LakeRunsInOrder, LakeCommitsAreSerial, \A t \in Txns : ~Lost(t),
         NEW table \in Tables, NEW i \in LakeRows(table), NEW j \in LakeRows(table), i < j
  PROVE  lakeLog[table][i].misread
<1>1. PICK log : log = lakeLog[table]
  OBVIOUS
<1>2. /\ log \in Seq(LakeCommit) /\ DOMAIN log \subseteq Nat
      /\ \A k \in DOMAIN log : log[k] \in LakeCommit /\ EntryIsStep(log[k])
  <2>1. log \in Seq(LakeCommit)
    BY <1>1, LogEntries DEF Inv
  <2>2. \A k \in DOMAIN log : log[k] \in LakeCommit
    BY <2>1
  <2> QED
    BY <1>1, <2>1, <2>2 DEF StepsExist
<1>3. \A k \in DOMAIN log : log[k].txn \in Txns /\ log[k].chunk \in Int /\ log[k].step \in 1..3
  BY <1>2, ConstantsOK DEF LakeCommit
<1>4. /\ i \in DOMAIN log /\ j \in DOMAIN log
      /\ Op(log[i]) = "add" /\ Op(log[j]) = "add"
      /\ \A k \in DOMAIN log : k > i => Op(log[k]) # "remove"
  BY <1>1 DEF LakeRows
<1>5. InOrder(log)
  BY <1>1 DEF LakeRunsInOrder
<1>6. /\ log[j].step > 1
      /\ LakeSql(plan[log[j].txn][log[j].chunk].kind)[log[j].step - 1] = "remove"
  <2>1. plan[log[j].txn][log[j].chunk].kind \in {"hot", "delete", "insert", "update"}
    BY <1>2, <1>3, <1>4, ChunkType DEF EntryIsStep, Inv
  <2> QED
    BY <1>2, <1>4, <2>1, LakeSqlDomain DEF EntryIsStep, Op
<1>7. PICK m \in DOMAIN log : IsStep(log[m], log[j].txn, log[j].chunk, log[j].step - 1)
  BY <1>4, <1>5, <1>6 DEF InOrder
<1>8. log[m].txn = log[j].txn /\ log[m].chunk = log[j].chunk /\ log[j].step = log[m].step + 1
  BY <1>3, <1>4, <1>7 DEF IsStep
<1>9. Op(log[m]) = "remove"
  <2>1. log[m].step = log[j].step - 1
    BY <1>3, <1>4, <1>8
  <2> QED
    BY <1>6, <1>8, <2>1 DEF Op
<1>10. m < i
  <2>1. ~(m > i) /\ m # i
    BY <1>4, <1>9
  <2> QED
    BY <1>2, <1>4, <2>1
<1>11. CASE log[i].txn = log[m].txn
  <2>1. /\ After(log[i], log[m]) \/ Repeats(log[i], log[m])
        /\ After(log[j], log[i]) \/ Repeats(log[j], log[i])
    BY <1>4, <1>5, <1>8, <1>10, <1>11 DEF InOrder
  <2>2. ~Repeats(log[i], log[m])
    BY <1>4, <1>9, <1>11 DEF Repeats, Op
  <2>3. ~(After(log[i], log[m]) /\ After(log[j], log[i]))
    BY <1>3, <1>4, <1>8 DEF After
  <2> QED
    BY <1>1, <2>1, <2>2, <2>3 DEF Repeats
<1>12. CASE log[i].txn # log[m].txn
  <2>1. Lost(log[m].txn) \/ Lost(log[i].txn)
    BY <1>1, <1>4, <1>8, <1>10, <1>12 DEF LakeCommitsAreSerial
  <2> QED
    BY <1>3, <1>4, <2>1
<1> QED
  BY <1>11, <1>12

(* lake_upsert never leaves a key twice in a lake table, after any failures, *)
(* retries, refusals and crashes, unless a session was lost or an addition   *)
(* that had been committed was taken for a conflict.                         *)
THEOREM LakeKeysAreUnique == Spec => []OneLakeRowPerKey
<1>1. Init => LegsInv /\ OrderInv /\ StepsExist
  BY LegsInit, OrderInit, StepsInit
<1>2. Inv /\ LegsInv /\ OrderInv /\ StepsExist /\ [Next]_vars
        => LegsInv' /\ OrderInv' /\ StepsExist'
  BY LegsStep, OrderStep, StepsStep
<1>3. Inv /\ OrderInv /\ StepsExist => OneLakeRowPerKey
  <2> SUFFICES ASSUME Inv, OrderInv, StepsExist, \A t \in Txns : ~Lost(t),
                      NEW table \in Tables, NEW i \in LakeRows(table),
                      NEW j \in LakeRows(table), i < j
               PROVE  lakeLog[table][i].misread
    BY DEF OneLakeRowPerKey
  <2>1. LakeRunsInOrder /\ LakeCommitsAreSerial
    BY DEF OrderInv, Inv, LakeInv
  <2> QED
    BY <2>1, AdditionsFollowRemovals
<1> QED
  BY <1>1, <1>2, <1>3, LakeInvariant, PTL DEF Spec

=============================================================================
