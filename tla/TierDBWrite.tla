------------------------------ MODULE TierDBWrite ------------------------------
(***************************************************************************)
(* INSERT, UPDATE and DELETE on one tiered table, beside the worker that    *)
(* moves the cut-line.                                                      *)
(*                                                                         *)
(* A statement is a DuckDB transaction of its own.  UPDATE and DELETE read  *)
(* the rows they change through the merged read; DuckDB then hands the rows *)
(* to Sink in chunks, and each chunk is one call of the connector.  A chunk *)
(* reads the cut-line, reads the retention line, and executes its row       *)
(* statements in the transaction's block; CommitTransaction ends the block. *)
(* The worker is another session and no part of the repository.             *)
(***************************************************************************)
EXTENDS TierDBRouting, FiniteSets

CONSTANTS
  MaxRows,    \* bound: rows of a statement
  ChunkRows,  \* rows of a chunk: DuckDB's vector size
  FreeKeys,   \* may a write meet a row with its key that it does not replace?
  WorkerRaces \* may the worker commit while a chunk is under way?

ASSUME WriteConstantsOK ==
  /\ MaxRows \in Nat /\ ChunkRows \in Nat \ {0}
  /\ FreeKeys \in BOOLEAN /\ WorkerRaces \in BOOLEAN

VARIABLES
  heap,    \* the heap relation, as committed
  delta,   \* tierdb.delta, as committed
  lake,    \* the lake snapshot that the cut-line names
  cut,     \* tierdb.cutline: tier_key_hi
  line,    \* tierdb.cutline: retention_line
  work,    \* heap and delta as the statement's block sees them
  stmt,    \* the statement's pairs [old, new]
  todo,    \* those that no chunk has handled yet
  seen     \* the cut-line and the retention line that the chunk has read

vars == <<heap, delta, lake, cut, line, work, stmt, todo, seen>>
tiers == <<heap, delta, lake, cut, line>>

Cuts == TierKeys \cup {tk + 1 : tk \in TierKeys}
NotRead == -1
NothingSeen == [cut |-> NotRead, line |-> NotRead]
OneOrNone == {{r} : r \in Row} \cup {{}}

(* An UPDATE hands on the routing columns of the old row beside the new one; *)
(* an INSERT has no old row, and a DELETE no new one.                       *)
Pair == [old : OneOrNone, new : OneOrNone]

TypeOK ==
  /\ heap \subseteq Row /\ DistinctKeys(heap)
  /\ delta \subseteq DeltaEntry /\ DistinctKeys(delta)
  /\ lake \subseteq Row /\ DistinctKeys(lake)
  /\ cut \in Cuts /\ line \in Cuts
  /\ work \in [heap : SUBSET Row, delta : SUBSET DeltaEntry]
  /\ DistinctKeys(work.heap) /\ DistinctKeys(work.delta)
  /\ stmt \subseteq Pair /\ todo \subseteq stmt
  /\ seen \in [cut : Cuts \cup {NotRead}, line : Cuts \cup {NotRead}]

Lowest == CHOOSE tk \in Cuts : \A other \in Cuts : tk <= other

Init ==
  /\ heap = {} /\ delta = {} /\ lake = {}
  /\ cut = Lowest /\ line = Lowest
  /\ work = [heap |-> {}, delta |-> {}]
  /\ stmt = {} /\ todo = {} /\ seen = NothingSeen

Committed == [heap |-> heap, delta |-> delta]
Visible == MergedRead(heap, delta, lake, cut)

Olds(pairs) == UNION {p.old : p \in pairs}
News(pairs) == UNION {p.new : p \in pairs}

-----------------------------------------------------------------------------
(* A statement begins: the rows to write are known.                         *)

Begin(pairs) ==
  /\ stmt = {}
  /\ stmt' = pairs
  /\ todo' = pairs
  /\ UNCHANGED <<tiers, work, seen>>

Insert ==
  \E rows \in SUBSET Row :
    /\ rows # {} /\ Cardinality(rows) <= MaxRows /\ DistinctKeys(rows)
    /\ FreeKeys \/ KeysOf(rows) \cap KeysOf(Visible) = {}
    /\ Begin({[old |-> {}, new |-> {r}] : r \in rows})

Delete ==
  \E rows \in SUBSET Visible :
    /\ rows # {} /\ Cardinality(rows) <= MaxRows
    /\ Begin({[old |-> {r}, new |-> {}] : r \in rows})

Update ==
  \E rows \in SUBSET Visible :
    /\ rows # {} /\ Cardinality(rows) <= MaxRows
    /\ \E image \in [rows -> Row] :
         /\ \A r, s \in rows : image[r].key = image[s].key => r = s
         /\ \/ FreeKeys
            \/ {image[r].key : r \in rows} \cap KeysOf(Visible \ rows) = {}
         /\ Begin({[old |-> {r}, new |-> {image[r]}] : r \in rows})

-----------------------------------------------------------------------------
(* One chunk.                                                               *)

ReadCutline ==
  /\ todo # {}
  /\ seen.cut = NotRead
  /\ seen' = [seen EXCEPT !.cut = cut]
  /\ UNCHANGED <<tiers, work, stmt, todo>>

ReadRetentionLine ==
  /\ seen.cut # NotRead /\ seen.line = NotRead
  /\ seen' = [seen EXCEPT !.line = line]
  /\ UNCHANGED <<tiers, work, stmt, todo>>

(* DuckDB may hand on a chunk that is not full. *)
Chunks == {chunk \in SUBSET todo : chunk # {} /\ Cardinality(chunk) <= ChunkRows}

(* The promise that FreeKeys takes back, for one chunk: it writes no key     *)
(* that a chunk after it removes.                                            *)
KeysApart(chunk) ==
  FreeKeys \/ KeysOf(News(chunk)) \cap KeysOf(Olds(todo \ chunk)) = {}

Rejected(chunk) ==
  RetentionRejects(Olds(chunk) \cup News(chunk), seen.cut, seen.line)

InsertChunk(chunk) == WriteRows(work, News(chunk), seen.cut)
DeleteChunk(chunk) == DeleteRows(work, Olds(chunk), seen.cut)

(* Every removal first, then every write. *)
UpdateChunkReversed(chunk) ==
  DeleteRows(WriteRows(work, News(chunk), seen.cut), Olds(chunk), seen.cut)
UpdateChunk(chunk) ==
  WriteRows(DeleteRows(work, Olds(chunk), seen.cut), News(chunk), seen.cut)

ApplyChunk(chunk) ==
  CASE Olds(chunk) = {} -> InsertChunk(chunk)
    [] Olds(chunk) # {} /\ News(chunk) = {} -> DeleteChunk(chunk)
    [] OTHER -> UpdateChunk(chunk)

(* The heap INSERT of the library meets a row with its key: what it does    *)
(* then, replace the row or fail, is not this repository's to say.          *)
HeapConflict(chunk) ==
  LET left == DeleteRows(work, Olds(chunk), seen.cut).heap IN
  \E r \in News(chunk) : Hot(r, seen.cut) /\ r.key \in KeysOf(left)

RunChunk ==
  /\ seen.line # NotRead
  /\ \E chunk \in Chunks :
       /\ KeysApart(chunk)
       /\ ~Rejected(chunk)
       /\ work' = ApplyChunk(chunk)
       /\ todo' = todo \ chunk
  /\ seen' = NothingSeen
  /\ UNCHANGED <<tiers, stmt>>

(* An error of any chunk rolls the whole statement back. *)
Fail ==
  /\ seen.line # NotRead
  /\ \E chunk \in Chunks : Rejected(chunk) \/ HeapConflict(chunk)
  /\ work' = Committed
  /\ stmt' = {} /\ todo' = {} /\ seen' = NothingSeen
  /\ UNCHANGED tiers

Commit ==
  /\ stmt # {} /\ todo = {}
  /\ heap' = work.heap /\ delta' = work.delta
  /\ stmt' = {}
  /\ UNCHANGED <<lake, cut, line, work, todo, seen>>

-----------------------------------------------------------------------------
(* The worker (external).  It waits for a block that has written, so that it *)
(* meets a statement only before its first row, and it keeps what the merged *)
(* read shows, except that rows below the retention line expire.            *)

Worker(heap2, lake2, cut2) ==
  /\ work = Committed
  /\ todo = stmt
  /\ seen = NothingSeen \/ WorkerRaces
  /\ heap' = heap2 /\ delta' = {} /\ lake' = lake2 /\ cut' = cut2
  /\ work' = [heap |-> heap2, delta |-> {}]
  /\ UNCHANGED <<line, stmt, todo, seen>>

(* Hot rows go cold: the delta is folded into a new lake snapshot, together *)
(* with the heap rows that the cut-line passes.  They may stay in the heap. *)
Advance ==
  \E T \in Cuts :
    /\ T > cut
    /\ \E heap2 \in {heap, {h \in heap : Hot(h, T)}} :
         Worker(heap2,
                ColdRead(delta, lake, cut) \cup {h \in heap : Hot(h, cut) /\ ~Hot(h, T)},
                T)

Compact ==
  /\ delta # {}
  /\ Worker(heap, ColdRead(delta, lake, cut), cut)

(* The line is raised first; a lake snapshot without the rows follows later, *)
(* and until then the merged read still shows them.                         *)
RaiseRetentionLine ==
  /\ seen = NothingSeen \/ WorkerRaces
  /\ work = Committed /\ todo = stmt
  /\ line' \in {L \in Cuts : L > line /\ L <= cut}
  /\ UNCHANGED <<heap, delta, lake, cut, work, stmt, todo, seen>>

Expire ==
  /\ \E r \in ColdRead(delta, lake, cut) : r.tk < line
  /\ Worker(heap, {r \in ColdRead(delta, lake, cut) : r.tk >= line}, cut)

Next ==
  \/ Insert \/ Delete \/ Update
  \/ ReadCutline \/ ReadRetentionLine \/ RunChunk \/ Fail \/ Commit
  \/ Advance \/ Compact \/ RaiseRetentionLine \/ Expire

Spec == Init /\ [][Next]_vars

-----------------------------------------------------------------------------
(* Properties.                                                              *)

(* A primary key names at most one row of the merged read, on whichever side *)
(* of the seam its versions lie.                                            *)
OneRowPerKey == DistinctKeys(Visible)

(* What a chunk has written is on the side of the cut-line where the merged  *)
(* read looks for it: an overlay row is cold.                               *)
OverlayIsCold == \A d \in delta : d.op = "upsert" => ~Hot(d, cut)

(* The inductive invariant behind it, whatever the worker does: the overlay  *)
(* that the statement's own block sees is cold as well, because a cut-line   *)
(* that a chunk has read is never above the one that holds, and the worker   *)
(* waits for a block that has written.                                       *)
WorkOverlayIsCold == \A d \in work.delta : d.op = "upsert" => ~Hot(d, cut)

SeenIsPast ==
  /\ cut \in Cuts /\ line \in Cuts
  /\ seen \in [cut : Cuts \cup {NotRead}, line : Cuts \cup {NotRead}]
  /\ seen.cut <= cut
  /\ todo \subseteq stmt /\ News(stmt) \subseteq Row

OverlayInv == OverlayIsCold /\ WorkOverlayIsCold /\ SeenIsPast

(* "rows this old have been expired from the lake" (write.rs:58): a row that *)
(* appears in the merged read is not below the retention line, so what has   *)
(* expired stays away, on either side of a move of the cut-line.            *)
ExpiredStaysAway == [][\A r \in Visible' \ Visible : r.tk >= line']_vars

(* The three tiers implement one logical table: a statement takes effect at  *)
(* its commit, as announced and as a whole, and no move of the cut-line      *)
(* between statements, or between a statement's scan and its chunks, shows.  *)
Table == INSTANCE LogicalTable WITH rows <- Visible
ImplementsLogicalTable == Table!Spec

(* What the statement's own block reads once its last chunk is done.        *)
Handled == stmt # {} /\ todo = {}
WorkRead == MergedRead(work.heap, work.delta, lake, cut)

(* "The floor guards a hot delete against a row that has since gone cold"    *)
(* (write.rs:307): a row that UPDATE or DELETE was told to remove, and that  *)
(* was reported removed, is not in the table any more.                      *)
RemovedIsGone ==
  Handled => \A r \in WorkRead : r \notin Olds(stmt) \ News(stmt)

(* "Doing all the removals first keeps a same-key move from deleting the row *)
(* it just wrote" (write.rs:270): each row that a statement has written, and *)
(* reported, is in the table.                                                *)
WrittenIsThere == Handled => News(stmt) \subseteq WorkRead

-----------------------------------------------------------------------------
(* The inductive invariants behind these properties, unless the worker races. *)

Done == stmt \ todo

(* The lines that a chunk has read are the ones that hold. *)
SeenIsCurrent ==
  /\ cut \in Cuts /\ line \in Cuts
  /\ seen \in [cut : Cuts \cup {NotRead}, line : Cuts \cup {NotRead}]
  /\ seen.cut # NotRead => seen.cut = cut
  /\ seen.line # NotRead => seen.cut # NotRead /\ seen.line = line

(* Whatever keys the statements give: a block never reads a row that the     *)
(* chunks done so far have not left or written, and what they have written   *)
(* has not expired.                                                          *)
BlockReadsNoMore == WorkRead \subseteq (Visible \ Olds(Done)) \cup News(Done)

LiveInv ==
  /\ heap \subseteq Row /\ delta \subseteq DeltaEntry /\ lake \subseteq Row
  /\ work \in [heap : SUBSET Row, delta : SUBSET DeltaEntry]
  /\ stmt \subseteq Pair /\ todo \subseteq stmt
  /\ SeenIsCurrent
  /\ line <= cut
  /\ BlockReadsNoMore
  /\ \A r \in News(Done) : r.tk >= line

(* Unless keys are free: after any chunks of a statement its block reads as   *)
(* the table with exactly these chunks done, and what is left of the          *)
(* statement neither meets a row with its key nor removes one that was        *)
(* written.                                                                   *)
BlockReads ==
  /\ WorkRead = (Visible \ Olds(Done)) \cup News(Done)
  /\ todo = stmt => work = Committed

PairsAreApart ==
  \A p, q \in stmt :
    \/ KeysOf(p.old) \cap KeysOf(q.old) # {}
    \/ KeysOf(p.new) \cap KeysOf(q.new) # {}
    => p = q

StatementFits ==
  /\ KeysOf(News(stmt)) \cap KeysOf(Visible \ Olds(stmt)) = {}
  /\ KeysOf(News(Done)) \cap KeysOf(Olds(todo)) = {}
  /\ \A r \in Olds(stmt) : r \in Visible \/ r.tk < line
  /\ \A r \in Olds(Done) \cup News(Done) : r.tk >= line

TableInv ==
  /\ TypeOK
  /\ SeenIsCurrent
  /\ line <= cut
  /\ OneRowPerKey
  /\ PairsAreApart
  /\ StatementFits
  /\ BlockReads

==============================================================================
