---------------------------- MODULE TierDBRouting ----------------------------
(***************************************************************************)
(* Where a row lives, as the connector sees it.  A row is [key, tk, val]:  *)
(* primary key, tier key, the rest.  The cut-line T splits the tier keys:  *)
(* at and above T a row is hot and lives in the Postgres heap, below T it  *)
(* is cold and lives in the lake, with the delta table as an overlay.      *)
(* route, the plans of a mode and the rendered merged read come from       *)
(* tierdb-core, outside this repository: they are modelled by how the      *)
(* connector uses them and by what the tests say of them.                  *)
(***************************************************************************)
EXTENDS Integers

CONSTANTS Keys, TierKeys, Vals

ASSUME TierKeysAreNaturals == TierKeys \subseteq Nat

Row == [key : Keys, tk : TierKeys, val : Vals]

(* A tombstone carries the key and the tier key, but no row. *)
NoVal == "none"
ASSUME NoValIsApart == NoVal \notin Vals

Upsert(row) == [op |-> "upsert", key |-> row.key, tk |-> row.tk, val |-> row.val]
Tombstone(row) == [op |-> "tombstone", key |-> row.key, tk |-> row.tk, val |-> NoVal]

DeltaEntry == {Upsert(row) : row \in Row} \cup {Tombstone(row) : row \in Row}

RowOf(entry) == [key |-> entry.key, tk |-> entry.tk, val |-> entry.val]

Hot(row, T) == row.tk >= T

KeysOf(rows) == {row.key : row \in rows}
Without(rows, keys) == {row \in rows : row.key \notin keys}
DistinctKeys(rows) == \A r, s \in rows : r.key = s.key => r = s

-----------------------------------------------------------------------------
(* The two halves of a chunk, in tiered mode.  Both take the transaction's   *)
(* view of the heap and the delta table, and the cut-line that the chunk     *)
(* has read.  The rows of one half have distinct keys, so that their order   *)
(* does not matter.  Definitions that no action uses are mistaken variants    *)
(* of the one below them, for the properties to notice.                      *)

HotRows(rows, T) == {r \in rows : Hot(r, T)}
ColdRows(rows, T) == {r \in rows : ~Hot(r, T)}

(* delete_rows: hot rows leave the heap, by primary key and only at or above *)
(* the floor; cold rows get a tombstone, which replaces the key's entry.     *)
DeleteFromHeap(heap, keys, floor) ==
  {h \in heap : ~(h.key \in keys /\ Hot(h, floor))}

DeleteRowsUnmarked(db, rows, T) ==
  [heap |-> DeleteFromHeap(db.heap, KeysOf(HotRows(rows, T)), T),
   delta |-> Without(db.delta, KeysOf(ColdRows(rows, T)))]
DeleteRows(db, rows, T) ==
  [heap |-> DeleteFromHeap(db.heap, KeysOf(HotRows(rows, T)), T),
   delta |-> Without(db.delta, KeysOf(ColdRows(rows, T)))
             \cup {Tombstone(r) : r \in ColdRows(rows, T)}]

(* write_rows: hot rows are upserted into the heap, cold ones into delta. *)
WriteRowsAppending(db, rows, T) ==
  [heap |-> db.heap \cup HotRows(rows, T),
   delta |-> db.delta \cup {Upsert(r) : r \in ColdRows(rows, T)}]
WriteRowsPastSeam(db, rows, T) ==
  [heap |-> Without(db.heap, KeysOf(HotRows(rows, T + 1))) \cup HotRows(rows, T + 1),
   delta |-> Without(db.delta, KeysOf(ColdRows(rows, T + 1)))
             \cup {Upsert(r) : r \in ColdRows(rows, T + 1)}]
WriteRows(db, rows, T) ==
  [heap |-> Without(db.heap, KeysOf(HotRows(rows, T))) \cup HotRows(rows, T),
   delta |-> Without(db.delta, KeysOf(ColdRows(rows, T)))
             \cup {Upsert(r) : r \in ColdRows(rows, T)}]

(* Both refuse a cold row below the retention line. *)
RetentionLagsBehind(rows, T, line) == \E r \in ColdRows(rows, T) : r.tk + 1 < line
RetentionRejects(rows, T, line) == \E r \in ColdRows(rows, T) : r.tk < line

-----------------------------------------------------------------------------
(* The merged read: hot heap rows, lake rows that no delta entry overrides,  *)
(* and the rows that the delta table upserts.                                *)

ColdRead(delta, lake, T) ==
  {r \in lake : ~Hot(r, T) /\ r.key \notin KeysOf(delta)} \cup
  {RowOf(d) : d \in {e \in delta : e.op = "upsert" /\ ~Hot(e, T)}}

MergedRead(heap, delta, lake, T) ==
  {h \in heap : Hot(h, T)} \cup ColdRead(delta, lake, T)

==============================================================================
