-------------------------- MODULE TierDBWrite_proofs --------------------------
(***************************************************************************)
(* Proofs about TierDBWrite for every set of keys, tier keys and values,   *)
(* every size of a statement and of a chunk.                               *)
(***************************************************************************)
EXTENDS TierDBWrite, WellFoundedInduction, TLAPS

ColdUpserts(delta_, T) == \A d \in delta_ : d.op = "upsert" => ~Hot(d, T)

(* The mark of a line that no chunk has read is no place of a line. *)
LEMMA NotReadIsNoCut == NotRead \notin Cuts
BY TierKeysAreNaturals DEF NotRead, Cuts

(* The lines of a new table lie at its smallest tier key. *)
LEMMA LowestIsCut ==
  ASSUME TierKeys # {}
  PROVE  Lowest \in Cuts
<1>1. Cuts \subseteq Nat
  <2>1. \A tk \in TierKeys : tk \in Nat /\ tk + 1 \in Nat
    BY TierKeysAreNaturals
  <2> QED BY <2>1 DEF Cuts
<1>2. Cuts # {}
  BY DEF Cuts
<1>3. PICK tk \in Cuts : \A other \in Cuts : <<other, tk>> \notin OpToRel(<, Nat)
  BY <1>1, <1>2, NatLessThanWellFounded, WFMin
<1>4. \A other \in Cuts : tk <= other
  <2> SUFFICES ASSUME NEW other \in Cuts, other < tk
               PROVE  FALSE
    BY <1>1
  <2>1. <<other, tk>> \in Nat \X Nat
    BY <1>1
  <2>2. <<other, tk>> \in OpToRel(<, Nat)
    BY <2>1, Zenon DEF OpToRel
  <2> QED BY <1>3, <2>2
<1> QED BY <1>4 DEF Lowest

(* Every line is a natural number, and the mark of an unread one is below it. *)
LEMMA CutsAreNaturals ==
  /\ Cuts \subseteq Nat
  /\ \A T \in Cuts : NotRead <= T
<1>1. \A tk \in TierKeys : tk \in Nat /\ tk + 1 \in Nat
  BY TierKeysAreNaturals
<1>2. Cuts \subseteq Nat
  BY <1>1 DEF Cuts
<1> QED BY <1>2 DEF NotRead

(* A row that was cold for a cut-line is cold for every later one. *)
LEMMA ColdStaysCold ==
  ASSUME NEW rows \in SUBSET Row, NEW T \in Int, NEW cut_ \in Int, T <= cut_
  PROVE  \A r \in ColdRows(rows, T) : ~Hot(Upsert(r), cut_)
<1> SUFFICES ASSUME NEW r \in ColdRows(rows, T)
             PROVE  ~Hot(Upsert(r), cut_)
  OBVIOUS
<1>1. r.tk \in Nat /\ ~(r.tk >= T)
  BY TierKeysAreNaturals DEF ColdRows, Hot, Row
<1> QED BY <1>1 DEF Hot, Upsert

(* write_rows, given a cut-line that is not above the one that holds, puts   *)
(* only cold rows into the overlay, and delete_rows puts no row there at all. *)
LEMMA ChunkKeepsOverlayCold ==
  ASSUME NEW db, NEW rows, NEW T \in Int, NEW cut_ \in Int, T <= cut_,
         ColdUpserts(db.delta, cut_)
  PROVE  /\ ColdUpserts(DeleteRows(db, rows, T).delta, cut_)
         /\ rows \subseteq Row => ColdUpserts(WriteRows(db, rows, T).delta, cut_)
<1>1. ColdUpserts(DeleteRows(db, rows, T).delta, cut_)
  BY DEF ColdUpserts, DeleteRows, Without, Tombstone
<1>2. ASSUME rows \subseteq Row
      PROVE  ColdUpserts(WriteRows(db, rows, T).delta, cut_)
  <2>1. \A r \in ColdRows(rows, T) : ~Hot(Upsert(r), cut_)
    BY <1>2, ColdStaysCold
  <2> QED BY <2>1 DEF ColdUpserts, WriteRows, Without
<1> QED BY <1>1, <1>2

(* A table without rows has a cold overlay, and no chunk has read anything. *)
LEMMA OverlayInit ==
  ASSUME TierKeys # {}
  PROVE  Init => OverlayInv
<1>1. Lowest \in Cuts /\ NotRead <= Lowest
  BY LowestIsCut, CutsAreNaturals
<1> QED BY <1>1 DEF Init, OverlayInv, OverlayIsCold, WorkOverlayIsCold, SeenIsPast,
                    NothingSeen, News

(* A statement writes rows of the table's type. *)
LEMMA WritesAreRows ==
  ASSUME OverlayInv, Insert \/ Delete \/ Update
  PROVE  OverlayInv'
<1>1. PICK pairs : Begin(pairs) /\ \A p \in pairs : p.new \subseteq Row
  <2>1. CASE Insert
    BY <2>1 DEF Insert
  <2>2. CASE Delete
    BY <2>2 DEF Delete
  <2>3. CASE Update
    <3>1. PICK rows \in SUBSET Visible : \E image \in [rows -> Row] :
            Begin({[old |-> {r}, new |-> {image[r]}] : r \in rows})
      BY <2>3 DEF Update
    <3> QED BY <3>1
  <2> QED BY <2>1, <2>2, <2>3
<1>2. /\ stmt' = pairs /\ todo' = pairs
      /\ UNCHANGED <<delta, work, cut, line, seen>>
  BY <1>1 DEF Begin, tiers
<1>3. News(stmt)' \subseteq Row
  BY <1>1, <1>2 DEF News
<1>4. SeenIsPast'
  BY <1>2, <1>3 DEF OverlayInv, SeenIsPast
<1> QED BY <1>2, <1>4 DEF OverlayInv, OverlayIsCold, WorkOverlayIsCold

LEMMA SeenIsInt ==
  ASSUME OverlayInv
  PROVE  seen.cut \in Int /\ cut \in Int /\ seen.cut <= cut /\ NotRead <= cut
<1>1. seen.cut \in Cuts \cup {NotRead} /\ cut \in Cuts /\ seen.cut <= cut
  BY DEF OverlayInv, SeenIsPast
<1>2. NotRead \in Int
  BY DEF NotRead
<1>3. cut \in Int /\ NotRead <= cut
  BY <1>1, CutsAreNaturals
<1>4. \A T \in Cuts : T \in Int
  BY CutsAreNaturals
<1>5. seen.cut \in Int
  BY <1>1, <1>2, <1>4, Zenon
<1> QED BY <1>1, <1>3, <1>5

(* The worker folds the delta, and never lowers the cut-line: a chunk that   *)
(* has read one routes by a cut-line of the past.                            *)
LEMMA WorkerStep ==
  ASSUME OverlayInv, NEW heap2, NEW lake2, NEW cut2 \in Cuts, cut <= cut2,
         Worker(heap2, lake2, cut2)
  PROVE  OverlayInv'
<1>1. delta' = {} /\ work'.delta = {}
  BY DEF Worker
<1>2. cut' = cut2 /\ UNCHANGED <<line, seen, stmt, todo>>
  BY DEF Worker
<1>3. seen.cut \in Int /\ cut \in Int /\ cut2 \in Int
  BY SeenIsInt, CutsAreNaturals
<1>4. News(stmt)' = News(stmt)
  BY <1>2 DEF News
<1>5. SeenIsPast'
  BY <1>2, <1>3, <1>4 DEF OverlayInv, SeenIsPast
<1> QED BY <1>1, <1>5 DEF OverlayInv, OverlayIsCold, WorkOverlayIsCold

(* A chunk routes by the cut-line that holds, or by one of the past. *)
LEMMA RunChunkStep ==
  ASSUME OverlayInv, RunChunk
  PROVE  OverlayInv'
<1>1. seen.cut \in Int /\ cut \in Int /\ seen.cut <= cut
  BY SeenIsInt
<1>2. ColdUpserts(work.delta, cut)
  BY DEF OverlayInv, WorkOverlayIsCold, ColdUpserts
<1>3. PICK chunk \in Chunks : work' = ApplyChunk(chunk) /\ todo' = todo \ chunk
  BY DEF RunChunk
<1>4. News(chunk) \subseteq Row
  BY DEF Chunks, News, OverlayInv, SeenIsPast
<1>5. /\ ColdUpserts(InsertChunk(chunk).delta, cut)
      /\ ColdUpserts(DeleteChunk(chunk).delta, cut)
      /\ ColdUpserts(UpdateChunk(chunk).delta, cut)
  BY <1>1, <1>2, <1>4, ChunkKeepsOverlayCold DEF InsertChunk, DeleteChunk, UpdateChunk
<1>6. ColdUpserts(work'.delta, cut)
  BY <1>3, <1>5 DEF ApplyChunk
<1>7. /\ seen' = NothingSeen
      /\ UNCHANGED <<delta, cut, line, stmt>>
  BY DEF RunChunk, tiers
<1>8. SeenIsPast'
  <2>1. News(stmt)' = News(stmt)
    BY <1>7 DEF News
  <2>2. NotRead <= cut
    BY SeenIsInt
  <2> QED BY <1>3, <1>7, <2>1, <2>2 DEF OverlayInv, SeenIsPast, NothingSeen
<1> QED BY <1>6, <1>7, <1>8
        DEF OverlayInv, OverlayIsCold, WorkOverlayIsCold, ColdUpserts

(* Each step of a statement and of the worker preserves the invariant. *)
LEMMA OverlayStep ==
  ASSUME OverlayInv, [Next]_vars
  PROVE  OverlayInv'
<1>1. CASE UNCHANGED vars
  BY <1>1 DEF vars, OverlayInv, OverlayIsCold, WorkOverlayIsCold, SeenIsPast, News
<1>2. CASE ReadCutline \/ ReadRetentionLine
  <2>1. UNCHANGED <<delta, work, cut, line, stmt, todo>> /\ News(stmt)' = News(stmt)
    BY <1>2 DEF ReadCutline, ReadRetentionLine, tiers, News
  <2>2. cut \in Int
    BY CutsAreNaturals DEF OverlayInv, SeenIsPast
  <2>3. SeenIsPast'
    BY <1>2, <2>1, <2>2 DEF ReadCutline, ReadRetentionLine, OverlayInv, SeenIsPast
  <2> QED BY <2>1, <2>3 DEF OverlayInv, OverlayIsCold, WorkOverlayIsCold
<1>3. CASE Fail
  <2>1. /\ UNCHANGED <<delta, cut, line>>
        /\ work'.delta = delta
        /\ seen' = NothingSeen /\ stmt' = {} /\ todo' = {}
    BY <1>3 DEF Fail, Committed, tiers
  <2>2. NotRead <= cut
    BY SeenIsInt
  <2> QED BY <2>1, <2>2 DEF OverlayInv, OverlayIsCold, WorkOverlayIsCold, SeenIsPast,
                            NothingSeen, News
<1>4. CASE Commit
  <2>1. delta' = work.delta /\ UNCHANGED <<work, cut, line, todo, seen>>
        /\ todo = {} /\ stmt' = {}
    BY <1>4 DEF Commit
  <2> QED BY <2>1 DEF OverlayInv, OverlayIsCold, WorkOverlayIsCold, SeenIsPast, News
<1>5. CASE Advance \/ Compact \/ Expire
  <2>1. cut \in Cuts /\ cut <= cut /\ \A T \in Cuts : T > cut => cut <= T
    BY CutsAreNaturals DEF OverlayInv, SeenIsPast
  <2> QED BY <1>5, <2>1, WorkerStep DEF Advance, Compact, Expire
<1>6. CASE RaiseRetentionLine
  <2>1. line' \in Cuts /\ UNCHANGED <<delta, work, cut, seen, stmt, todo>>
    BY <1>6 DEF RaiseRetentionLine
  <2> QED BY <2>1 DEF OverlayInv, OverlayIsCold, WorkOverlayIsCold, SeenIsPast, News
<1> QED BY <1>1, <1>2, <1>3, <1>4, <1>5, <1>6, WritesAreRows, RunChunkStep DEF Next

(* write_rows never leaves a row in the overlay on the hot side of the       *)
(* cut-line, where no merged read finds it: not even when the worker commits *)
(* between a chunk's read of the cut-line and its row statements, because    *)
(* the cut-line only rises.                                                  *)
THEOREM OverlaysAreCold ==
  ASSUME TierKeys # {}
  PROVE  Spec => []OverlayIsCold
<1>1. OverlayInv /\ [Next]_vars => OverlayInv'
  BY OverlayStep
<1>2. OverlayInv => OverlayIsCold
  BY DEF OverlayInv
<1> QED BY <1>1, <1>2, OverlayInit, PTL DEF Spec

===============================================================================
