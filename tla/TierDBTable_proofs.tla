-------------------------- MODULE TierDBTable_proofs --------------------------
(***************************************************************************)
(* The three tiers are one table: proofs for every set of keys, tier keys   *)
(* and values, and statements and chunks of every size.                     *)
(***************************************************************************)
EXTENDS TierDBWrite_proofs

-----------------------------------------------------------------------------
(* The merged read.                                                         *)

LEMMA Lines ==
  /\ Cuts \subseteq Nat
  /\ TierKeys \subseteq Nat
  /\ \A r \in Row : r.tk \in Nat /\ r.key \in Keys
<1>1. \A tk \in TierKeys : tk \in Nat /\ tk + 1 \in Nat
  BY TierKeysAreNaturals
<1> QED
  BY <1>1 DEF Cuts, Row

LEMMA Entries ==
  ASSUME NEW d \in DeltaEntry
  PROVE  /\ d.key \in Keys /\ d.tk \in TierKeys
         /\ RowOf(d).key = d.key /\ RowOf(d).tk = d.tk
         /\ d.op = "upsert" => RowOf(d) \in Row
<1>1. CASE \E row \in Row : d = Upsert(row)
  BY <1>1 DEF Upsert, RowOf, Row
<1>2. CASE \E row \in Row : d = Tombstone(row)
  BY <1>2 DEF Tombstone, RowOf, Row
<1> QED
  BY <1>1, <1>2 DEF DeltaEntry

LEMMA NewEntries ==
  ASSUME NEW r \in Row
  PROVE  /\ Upsert(r) \in DeltaEntry /\ Tombstone(r) \in DeltaEntry
         /\ Upsert(r).key = r.key /\ Tombstone(r).key = r.key
         /\ Upsert(r).tk = r.tk /\ Tombstone(r).tk = r.tk
         /\ Upsert(r).op = "upsert" /\ Tombstone(r).op = "tombstone"
         /\ RowOf(Upsert(r)) = r
BY DEF DeltaEntry, Upsert, Tombstone, RowOf, Row

LEMMA InRead ==
  ASSUME NEW h, NEW d, NEW l, NEW T, NEW r
  PROVE  r \in MergedRead(h, d, l, T) <=>
           \/ r \in h /\ Hot(r, T)
           \/ r \in l /\ ~Hot(r, T) /\ \A e \in d : e.key # r.key
           \/ \E e \in d : e.op = "upsert" /\ ~Hot(e, T) /\ r = RowOf(e)
BY DEF MergedRead, ColdRead, KeysOf

LEMMA ReadType ==
  ASSUME NEW h \in SUBSET Row, NEW d \in SUBSET DeltaEntry, NEW l \in SUBSET Row, NEW T
  PROVE  /\ MergedRead(h, d, l, T) \subseteq Row
         /\ ColdRead(d, l, T) = {r \in MergedRead(h, d, l, T) : ~Hot(r, T)}
         /\ {r \in h : Hot(r, T)} = {r \in MergedRead(h, d, l, T) : Hot(r, T)}
<1>1. \A r \in ColdRead(d, l, T) : r \in Row /\ ~Hot(r, T)
  <2>1. \A e \in d : e.op = "upsert" /\ ~Hot(e, T) => RowOf(e) \in Row /\ ~Hot(RowOf(e), T)
    BY Entries DEF Hot
  <2> QED
    BY <2>1 DEF ColdRead
<1> QED
  BY <1>1 DEF MergedRead

-----------------------------------------------------------------------------
(* The two halves of a chunk, read back.                                    *)

(* delete_rows takes away exactly the rows it is given, if the read has them. *)
LEMMA DeleteReads ==
  ASSUME NEW db, NEW lake_ \in SUBSET Row, NEW rows, NEW T,
         db.heap \subseteq Row, db.delta \subseteq DeltaEntry,
         DistinctKeys(MergedRead(db.heap, db.delta, lake_, T)),
         rows \subseteq MergedRead(db.heap, db.delta, lake_, T)
  PROVE  LET after == DeleteRows(db, rows, T) IN
         MergedRead(after.heap, after.delta, lake_, T)
           = MergedRead(db.heap, db.delta, lake_, T) \ rows
<1> DEFINE after == DeleteRows(db, rows, T)
           read == MergedRead(db.heap, db.delta, lake_, T)
<1>1. /\ after.heap = {h \in db.heap : ~(h.key \in KeysOf(HotRows(rows, T)) /\ Hot(h, T))}
      /\ after.delta = Without(db.delta, KeysOf(ColdRows(rows, T)))
                       \cup {Tombstone(r) : r \in ColdRows(rows, T)}
  BY DEF DeleteRows, DeleteFromHeap
<1>2. read \subseteq Row /\ rows \subseteq Row
  BY ReadType
<1>3. \A r \in read, s \in rows : r.key = s.key => r = s
  BY DEF DistinctKeys
<1>4. \A r : r \in MergedRead(after.heap, after.delta, lake_, T) <=>
           \/ r \in after.heap /\ Hot(r, T)
           \/ r \in lake_ /\ ~Hot(r, T) /\ \A e \in after.delta : e.key # r.key
           \/ \E e \in after.delta : e.op = "upsert" /\ ~Hot(e, T) /\ r = RowOf(e)
  BY InRead
<1>5. \A r : r \in read <=>
           \/ r \in db.heap /\ Hot(r, T)
           \/ r \in lake_ /\ ~Hot(r, T) /\ \A e \in db.delta : e.key # r.key
           \/ \E e \in db.delta : e.op = "upsert" /\ ~Hot(e, T) /\ r = RowOf(e)
  BY InRead
<1> HIDE DEF after, read
<1>6. ASSUME NEW r, Hot(r, T)
      PROVE  r \in after.heap <=> r \in db.heap /\ r \notin rows
  <2>1. r \in db.heap /\ r.key \in KeysOf(HotRows(rows, T)) => r \in rows
    BY <1>3, <1>5, <1>6 DEF KeysOf, HotRows
  <2>2. r \in rows => r.key \in KeysOf(HotRows(rows, T))
    BY <1>6 DEF KeysOf, HotRows
  <2> QED
    BY <1>1, <1>6, <2>1, <2>2
<1>7. \A r : (\E e \in after.delta : e.key = r.key) <=>
             (\E e \in db.delta : e.key = r.key) \/ r.key \in KeysOf(ColdRows(rows, T))
  <2>1. \A s \in ColdRows(rows, T) : Tombstone(s).key = s.key
    BY DEF Tombstone
  <2> QED
    BY <1>1, <2>1 DEF Without, KeysOf
<1>8. \A e : e \in after.delta /\ e.op = "upsert" <=>
             e \in db.delta /\ e.op = "upsert" /\ e.key \notin KeysOf(ColdRows(rows, T))
  <2>1. \A s \in ColdRows(rows, T) : Tombstone(s).op # "upsert"
    BY DEF Tombstone
  <2> QED
    BY <1>1, <2>1 DEF Without
<1>9. \A r \in read : ~Hot(r, T) => (r.key \in KeysOf(ColdRows(rows, T)) <=> r \in rows)
  BY <1>3 DEF KeysOf, ColdRows
<1>10. \A e \in db.delta : RowOf(e).key = e.key /\ RowOf(e).tk = e.tk
  BY Entries
<1>11. \A e \in db.delta : ~Hot(e, T) <=> ~Hot(RowOf(e), T)
  BY <1>10 DEF Hot
<1>12. ASSUME NEW r, r \in MergedRead(after.heap, after.delta, lake_, T)
       PROVE  r \in read /\ r \notin rows
  <2>1. CASE r \in after.heap /\ Hot(r, T)
    BY <1>5, <1>6, <2>1
  <2>2. CASE r \in lake_ /\ ~Hot(r, T) /\ \A e \in after.delta : e.key # r.key
    <3>1. r \in read
      BY <1>5, <1>7, <2>2
    <3>2. r.key \notin KeysOf(ColdRows(rows, T))
      BY <1>7, <2>2
    <3> QED
      BY <1>9, <2>2, <3>1, <3>2
  <2>3. CASE \E e \in after.delta : e.op = "upsert" /\ ~Hot(e, T) /\ r = RowOf(e)
    <3>1. PICK e \in after.delta : e.op = "upsert" /\ ~Hot(e, T) /\ r = RowOf(e)
      BY <2>3
    <3>2. e \in db.delta /\ e.key \notin KeysOf(ColdRows(rows, T))
      BY <1>8, <3>1
    <3>3. r \in read
      BY <1>5, <3>1, <3>2
    <3>4. ~Hot(r, T) /\ r.key \notin KeysOf(ColdRows(rows, T))
      BY <1>10, <1>11, <3>1, <3>2
    <3> QED
      BY <1>9, <3>3, <3>4
  <2> QED
    BY <1>4, <1>12, <2>1, <2>2, <2>3
<1>13. ASSUME NEW r, r \in read, r \notin rows
       PROVE  r \in MergedRead(after.heap, after.delta, lake_, T)
  <2>1. CASE r \in db.heap /\ Hot(r, T)
    BY <1>4, <1>6, <1>13, <2>1
  <2>2. CASE r \in lake_ /\ ~Hot(r, T) /\ \A e \in db.delta : e.key # r.key
    <3>1. r.key \notin KeysOf(ColdRows(rows, T))
      BY <1>9, <1>13, <2>2
    <3>2. \A e \in after.delta : e.key # r.key
      BY <1>7, <2>2, <3>1
    <3> QED
      BY <1>4, <2>2, <3>2
  <2>3. CASE \E e \in db.delta : e.op = "upsert" /\ ~Hot(e, T) /\ r = RowOf(e)
    <3>1. PICK e \in db.delta : e.op = "upsert" /\ ~Hot(e, T) /\ r = RowOf(e)
      BY <2>3
    <3>2. ~Hot(r, T) /\ r.key = e.key
      BY <1>10, <1>11, <3>1
    <3>3. e \in after.delta
      BY <1>8, <1>9, <1>13, <3>1, <3>2
    <3> QED
      BY <1>4, <3>1, <3>3
  <2> QED
    BY <1>5, <1>13, <2>1, <2>2, <2>3
<1> QED
  BY <1>12, <1>13 DEF after, read

(* write_rows adds exactly the rows it is given, if none meets its key. *)
LEMMA WriteReads ==
  ASSUME NEW db, NEW lake_ \in SUBSET Row, NEW rows \in SUBSET Row, NEW T,
         db.heap \subseteq Row, db.delta \subseteq DeltaEntry,
         KeysOf(rows) \cap KeysOf(MergedRead(db.heap, db.delta, lake_, T)) = {}
  PROVE  LET after == WriteRows(db, rows, T) IN
         MergedRead(after.heap, after.delta, lake_, T)
           = MergedRead(db.heap, db.delta, lake_, T) \cup rows
<1> DEFINE after == WriteRows(db, rows, T)
           read == MergedRead(db.heap, db.delta, lake_, T)
<1>1. /\ after.heap = Without(db.heap, KeysOf(HotRows(rows, T))) \cup HotRows(rows, T)
      /\ after.delta = Without(db.delta, KeysOf(ColdRows(rows, T)))
                       \cup {Upsert(r) : r \in ColdRows(rows, T)}
  BY DEF WriteRows
<1>2. \A r \in read, s \in rows : r.key # s.key
  BY DEF KeysOf
<1>3. \A r : r \in MergedRead(after.heap, after.delta, lake_, T) <=>
           \/ r \in after.heap /\ Hot(r, T)
           \/ r \in lake_ /\ ~Hot(r, T) /\ \A e \in after.delta : e.key # r.key
           \/ \E e \in after.delta : e.op = "upsert" /\ ~Hot(e, T) /\ r = RowOf(e)
  BY InRead
<1>4. \A r : r \in read <=>
           \/ r \in db.heap /\ Hot(r, T)
           \/ r \in lake_ /\ ~Hot(r, T) /\ \A e \in db.delta : e.key # r.key
           \/ \E e \in db.delta : e.op = "upsert" /\ ~Hot(e, T) /\ r = RowOf(e)
  BY InRead
<1> HIDE DEF after, read
<1>5. \A r : r \in HotRows(rows, T) <=> r \in rows /\ Hot(r, T)
  BY DEF HotRows
<1>6. \A r : r \in ColdRows(rows, T) <=> r \in rows /\ ~Hot(r, T)
  BY DEF ColdRows
<1>7. \A r \in read : /\ r.key \notin KeysOf(HotRows(rows, T))
                      /\ r.key \notin KeysOf(ColdRows(rows, T))
  BY <1>2, <1>5, <1>6 DEF KeysOf
<1>8. ASSUME NEW r, Hot(r, T)
      PROVE  r \in after.heap <=> r \in db.heap \/ r \in rows
  <2>1. r \in db.heap => r.key \notin KeysOf(HotRows(rows, T))
    BY <1>4, <1>7, <1>8
  <2> QED
    BY <1>1, <1>5, <1>8, <2>1 DEF Without
<1>9. \A s \in ColdRows(rows, T) :
        /\ Upsert(s).key = s.key /\ Upsert(s).op = "upsert"
        /\ RowOf(Upsert(s)) = s /\ ~Hot(Upsert(s), T)
  <2> SUFFICES ASSUME NEW s \in ColdRows(rows, T)
               PROVE  /\ Upsert(s).key = s.key /\ Upsert(s).op = "upsert"
                      /\ RowOf(Upsert(s)) = s /\ ~Hot(Upsert(s), T)
    OBVIOUS
  <2>1. s \in Row /\ ~Hot(s, T)
    BY <1>6
  <2> QED
    BY <2>1, NewEntries DEF Hot
<1>10. \A r : (\E e \in after.delta : e.key = r.key) <=>
              (\E e \in db.delta : e.key = r.key) \/ r.key \in KeysOf(ColdRows(rows, T))
  BY <1>1, <1>9 DEF Without, KeysOf
<1>11. \A e \in db.delta : e.op = "upsert" /\ ~Hot(e, T) =>
         /\ RowOf(e) \in read /\ RowOf(e).key = e.key
         /\ e.key \notin KeysOf(ColdRows(rows, T))
  <2> SUFFICES ASSUME NEW e \in db.delta, e.op = "upsert", ~Hot(e, T)
               PROVE  /\ RowOf(e) \in read /\ RowOf(e).key = e.key
                      /\ e.key \notin KeysOf(ColdRows(rows, T))
    OBVIOUS
  <2>1. RowOf(e) \in read
    BY <1>4
  <2>2. RowOf(e).key = e.key
    BY Entries
  <2> QED
    BY <1>7, <2>1, <2>2
<1>12. ASSUME NEW r, r \in MergedRead(after.heap, after.delta, lake_, T)
       PROVE  r \in read \/ r \in rows
  <2>1. CASE r \in after.heap /\ Hot(r, T)
    BY <1>4, <1>8, <2>1
  <2>2. CASE r \in lake_ /\ ~Hot(r, T) /\ \A e \in after.delta : e.key # r.key
    BY <1>4, <1>10, <2>2
  <2>3. CASE \E e \in after.delta : e.op = "upsert" /\ ~Hot(e, T) /\ r = RowOf(e)
    <3>1. PICK e \in after.delta : e.op = "upsert" /\ ~Hot(e, T) /\ r = RowOf(e)
      BY <2>3
    <3>2. CASE e \in db.delta
      BY <1>4, <3>1, <3>2
    <3>3. CASE \E s \in ColdRows(rows, T) : e = Upsert(s)
      BY <1>6, <1>9, <3>1, <3>3
    <3> QED
      BY <1>1, <3>1, <3>2, <3>3 DEF Without
  <2> QED
    BY <1>3, <1>12, <2>1, <2>2, <2>3
<1>13. ASSUME NEW r, r \in read
       PROVE  r \in MergedRead(after.heap, after.delta, lake_, T)
  <2>1. CASE r \in db.heap /\ Hot(r, T)
    BY <1>3, <1>8, <2>1
  <2>2. CASE r \in lake_ /\ ~Hot(r, T) /\ \A e \in db.delta : e.key # r.key
    <3>1. \A e \in after.delta : e.key # r.key
      BY <1>7, <1>10, <1>13, <2>2
    <3> QED
      BY <1>3, <2>2, <3>1
  <2>3. CASE \E e \in db.delta : e.op = "upsert" /\ ~Hot(e, T) /\ r = RowOf(e)
    <3>1. PICK e \in db.delta : e.op = "upsert" /\ ~Hot(e, T) /\ r = RowOf(e)
      BY <2>3
    <3>2. e \in after.delta
      BY <1>1, <1>11, <3>1 DEF Without
    <3> QED
      BY <1>3, <3>1, <3>2
  <2> QED
    BY <1>4, <1>13, <2>1, <2>2, <2>3
<1>14. ASSUME NEW r, r \in rows
       PROVE  r \in MergedRead(after.heap, after.delta, lake_, T)
  <2>1. CASE Hot(r, T)
    BY <1>3, <1>8, <1>14, <2>1
  <2>2. CASE ~Hot(r, T)
    <3>1. r \in ColdRows(rows, T)
      BY <1>6, <1>14, <2>2
    <3>2. Upsert(r) \in after.delta
      BY <1>1, <3>1
    <3> QED
      BY <1>3, <1>9, <3>1, <3>2
  <2> QED
    BY <2>1, <2>2
<1> QED
  BY <1>12, <1>13, <1>14 DEF after, read

(* Both halves keep the heap and the overlay well-formed. *)
WellFormed(db) ==
  /\ db.heap \subseteq Row /\ DistinctKeys(db.heap)
  /\ db.delta \subseteq DeltaEntry /\ DistinctKeys(db.delta)

LEMMA DeleteTypes ==
  ASSUME NEW db, NEW rows \in SUBSET Row, NEW T, WellFormed(db), DistinctKeys(rows)
  PROVE  WellFormed(DeleteRows(db, rows, T))
<1> DEFINE after == DeleteRows(db, rows, T)
<1>1. /\ after.heap \subseteq db.heap
      /\ after.delta = Without(db.delta, KeysOf(ColdRows(rows, T)))
                       \cup {Tombstone(r) : r \in ColdRows(rows, T)}
  BY DEF DeleteRows, DeleteFromHeap
<1> HIDE DEF after
<1>2. \A s \in ColdRows(rows, T) : /\ s \in rows
                                   /\ Tombstone(s) \in DeltaEntry
                                   /\ Tombstone(s).key = s.key
  BY NewEntries DEF ColdRows
<1>3. after.delta \subseteq DeltaEntry
  BY <1>1, <1>2 DEF WellFormed, Without
<1>4. \A d \in after.delta : \/ d \in db.delta /\ d.key \notin KeysOf(ColdRows(rows, T))
                             \/ \E s \in ColdRows(rows, T) : d = Tombstone(s)
  BY <1>1 DEF Without
<1>5. \A s \in ColdRows(rows, T) : s.key \in KeysOf(ColdRows(rows, T))
  BY DEF KeysOf
<1>6. DistinctKeys(after.delta)
  BY <1>2, <1>4, <1>5 DEF WellFormed, DistinctKeys
<1>7. DistinctKeys(after.heap) /\ after.heap \subseteq Row
  BY <1>1 DEF WellFormed, DistinctKeys
<1> QED
  BY <1>3, <1>6, <1>7 DEF WellFormed, after

LEMMA WriteTypes ==
  ASSUME NEW db, NEW rows \in SUBSET Row, NEW T, WellFormed(db), DistinctKeys(rows)
  PROVE  WellFormed(WriteRows(db, rows, T))
<1> DEFINE after == WriteRows(db, rows, T)
<1>1. /\ after.heap = Without(db.heap, KeysOf(HotRows(rows, T))) \cup HotRows(rows, T)
      /\ after.delta = Without(db.delta, KeysOf(ColdRows(rows, T)))
                       \cup {Upsert(r) : r \in ColdRows(rows, T)}
  BY DEF WriteRows
<1> HIDE DEF after
<1>2. \A s \in ColdRows(rows, T) : /\ s \in rows
                                   /\ Upsert(s) \in DeltaEntry
                                   /\ Upsert(s).key = s.key
  BY NewEntries DEF ColdRows
<1>3. after.delta \subseteq DeltaEntry
  BY <1>1, <1>2 DEF WellFormed, Without
<1>4. \A d \in after.delta : \/ d \in db.delta /\ d.key \notin KeysOf(ColdRows(rows, T))
                             \/ \E s \in ColdRows(rows, T) : d = Upsert(s)
  BY <1>1 DEF Without
<1>5. /\ \A s \in ColdRows(rows, T) : s.key \in KeysOf(ColdRows(rows, T))
      /\ \A s \in HotRows(rows, T) : s.key \in KeysOf(HotRows(rows, T)) /\ s \in rows
  BY DEF KeysOf, HotRows
<1>6. DistinctKeys(after.delta)
  BY <1>2, <1>4, <1>5 DEF WellFormed, DistinctKeys
<1>7. \A h \in after.heap : \/ h \in db.heap /\ h.key \notin KeysOf(HotRows(rows, T))
                            \/ h \in HotRows(rows, T)
  BY <1>1 DEF Without
<1>8. DistinctKeys(after.heap) /\ after.heap \subseteq Row
  BY <1>5, <1>7 DEF WellFormed, DistinctKeys
<1> QED
  BY <1>3, <1>6, <1>8 DEF WellFormed, after

(* A chunk removes the rows it replaces and writes the new ones. *)
LEMMA ChunkReads ==
  ASSUME NEW db, NEW lake_ \in SUBSET Row, NEW old, NEW new \in SUBSET Row, NEW T,
         WellFormed(db), DistinctKeys(new),
         DistinctKeys(MergedRead(db.heap, db.delta, lake_, T)),
         old \subseteq MergedRead(db.heap, db.delta, lake_, T),
         KeysOf(new) \cap KeysOf(MergedRead(db.heap, db.delta, lake_, T) \ old) = {}
  PROVE  LET after == WriteRows(DeleteRows(db, old, T), new, T) IN
         /\ WellFormed(after)
         /\ MergedRead(after.heap, after.delta, lake_, T)
              = (MergedRead(db.heap, db.delta, lake_, T) \ old) \cup new
<1>1. PICK mid : mid = DeleteRows(db, old, T)
  OBVIOUS
<1>2. PICK after : after = WriteRows(mid, new, T)
  OBVIOUS
<1>3. old \subseteq Row /\ DistinctKeys(old)
  BY ReadType DEF WellFormed, DistinctKeys
<1>4. WellFormed(mid)
  BY <1>1, <1>3, DeleteTypes
<1>5. MergedRead(mid.heap, mid.delta, lake_, T)
        = MergedRead(db.heap, db.delta, lake_, T) \ old
  BY <1>1, DeleteReads DEF WellFormed
<1>6. WellFormed(after)
  BY <1>2, <1>4, WriteTypes
<1>7. MergedRead(after.heap, after.delta, lake_, T)
        = MergedRead(mid.heap, mid.delta, lake_, T) \cup new
  <2>1. KeysOf(new) \cap KeysOf(MergedRead(mid.heap, mid.delta, lake_, T)) = {}
    BY <1>5
  <2>2. mid.heap \subseteq Row /\ mid.delta \subseteq DeltaEntry
    BY <1>4 DEF WellFormed
  <2> QED
    BY <1>2, <2>1, <2>2, WriteReads
<1> QED
  BY <1>1, <1>2, <1>5, <1>6, <1>7

-----------------------------------------------------------------------------
(* The statement.                                                           *)

LEMMA Sides ==
  ASSUME NEW A
  PROVE  /\ \A r : r \in Olds(A) <=> \E p \in A : r \in p.old
         /\ \A r : r \in News(A) <=> \E p \in A : r \in p.new
BY DEF Olds, News

LEMMA SidesOfBoth ==
  ASSUME NEW A, NEW B
  PROVE  /\ Olds(A \cup B) = Olds(A) \cup Olds(B)
         /\ News(A \cup B) = News(A) \cup News(B)
BY DEF Olds, News

LEMMA SidesOfPart ==
  ASSUME NEW B, NEW A \in SUBSET B
  PROVE  Olds(A) \subseteq Olds(B) /\ News(A) \subseteq News(B)
BY DEF Olds, News

LEMMA NoSides == Olds({}) = {} /\ News({}) = {}
BY DEF Olds, News

(* Two pairs of a statement have no key in common on either side. *)
LEMMA PairFacts ==
  ASSUME TypeOK, PairsAreApart
  PROVE  /\ Olds(stmt) \subseteq Row /\ News(stmt) \subseteq Row
         /\ \A p, q \in stmt : \A r \in p.old, s \in q.old : r.key = s.key => p = q /\ r = s
         /\ \A p, q \in stmt : \A r \in p.new, s \in q.new : r.key = s.key => p = q /\ r = s
<1>1. \A p \in stmt : p.old \in OneOrNone /\ p.new \in OneOrNone
  BY DEF TypeOK, Pair
<1>2. \A S \in OneOrNone : S \subseteq Row /\ \A r, s \in S : r = s
  BY DEF OneOrNone
<1>3. Olds(stmt) \subseteq Row /\ News(stmt) \subseteq Row
  BY <1>1, <1>2 DEF Olds, News
<1>4. ASSUME NEW p \in stmt, NEW q \in stmt, NEW r \in p.old, NEW s \in q.old, r.key = s.key
      PROVE  p = q /\ r = s
  <2>1. r.key \in KeysOf(p.old) \cap KeysOf(q.old)
    BY <1>4 DEF KeysOf
  <2>2. p = q
    BY <2>1 DEF PairsAreApart
  <2> QED
    BY <1>1, <1>2, <1>4, <2>2
<1>5. ASSUME NEW p \in stmt, NEW q \in stmt, NEW r \in p.new, NEW s \in q.new, r.key = s.key
      PROVE  p = q /\ r = s
  <2>1. r.key \in KeysOf(p.new) \cap KeysOf(q.new)
    BY <1>5 DEF KeysOf
  <2>2. p = q
    BY <2>1 DEF PairsAreApart
  <2> QED
    BY <1>1, <1>2, <1>5, <2>2
<1> QED
  BY <1>3, <1>4, <1>5

(* A statement that only inserts, and one that only deletes, are those that *)
(* have nothing to remove or to write.                                      *)
LEMMA BothHalves ==
  ASSUME NEW chunk
  PROVE  ApplyChunk(chunk)
           = WriteRows(DeleteRows(work, Olds(chunk), seen.cut), News(chunk), seen.cut)
<1> DEFINE T == seen.cut
<1>1. \A rows : HotRows({}, T) = {} /\ ColdRows({}, T) = {} /\ KeysOf({}) = {}
  BY DEF HotRows, ColdRows, KeysOf
<1>2. CASE Olds(chunk) = {}
  <2>1. /\ DeleteRows(work, {}, T).heap = work.heap
        /\ DeleteRows(work, {}, T).delta = work.delta
    BY <1>1 DEF DeleteRows, DeleteFromHeap, Without
  <2>2. WriteRows(DeleteRows(work, {}, T), News(chunk), T) = WriteRows(work, News(chunk), T)
    BY <2>1 DEF WriteRows
  <2>3. ApplyChunk(chunk) = InsertChunk(chunk)
    BY <1>2 DEF ApplyChunk
  <2> QED
    BY <1>2, <2>2, <2>3 DEF InsertChunk
<1>3. CASE Olds(chunk) # {} /\ News(chunk) = {}
  <2>1. \A D, E : WriteRows([heap |-> D, delta |-> E], {}, T) = [heap |-> D, delta |-> E]
    BY <1>1 DEF WriteRows, Without
  <2>2. WriteRows(DeleteRows(work, Olds(chunk), T), {}, T) = DeleteRows(work, Olds(chunk), T)
    BY <2>1 DEF DeleteRows
  <2> QED
    BY <1>3, <2>2 DEF ApplyChunk, DeleteChunk
<1>4. CASE Olds(chunk) # {} /\ News(chunk) # {}
  BY <1>4 DEF ApplyChunk, UpdateChunk
<1> QED
  BY <1>2, <1>3, <1>4

(* What a chunk removes is in the table, nothing that it writes meets a row *)
(* with its key, and no row of it has expired.                              *)
LEMMA ChunkFits ==
  ASSUME TableInv, NEW chunk \in SUBSET todo,
         KeysOf(News(chunk)) \cap KeysOf(Olds(todo \ chunk)) = {},
         ~Rejected(chunk), seen.cut = cut, seen.line = line
  PROVE  /\ Olds(chunk) \subseteq Visible \ Olds(Done)
         /\ Olds(chunk) \cap News(Done) = {}
         /\ \A r \in Olds(chunk) \cup News(chunk) : r \in Row /\ r.tk >= line
         /\ DistinctKeys(News(chunk))
         /\ KeysOf(News(chunk)) \cap KeysOf((Visible \ Olds(Done)) \ Olds(chunk)) = {}
         /\ KeysOf(News(chunk)) \cap KeysOf(News(Done)) = {}
<1> USE DEF TableInv
<1>1. chunk \subseteq stmt /\ Done \subseteq stmt /\ chunk \cap Done = {} /\ todo \subseteq stmt
  BY DEF TypeOK, Done
<1>2. /\ Olds(chunk) \subseteq Olds(stmt) /\ News(chunk) \subseteq News(stmt)
      /\ News(Done) \subseteq News(stmt) /\ Olds(chunk) \subseteq Olds(todo)
  BY <1>1, SidesOfPart
<1>3. \A r \in Olds(chunk) \cup News(chunk) : r \in Row
  BY <1>2, PairFacts
<1>4. \A r \in Olds(chunk) \cup News(chunk) : r.tk >= line
  <2> SUFFICES ASSUME NEW r \in Olds(chunk) \cup News(chunk) PROVE r.tk >= line
    OBVIOUS
  <2>1. r.tk \in Nat /\ line \in Nat /\ cut \in Nat
    BY <1>3, Lines DEF TypeOK
  <2>2. CASE Hot(r, cut)
    BY <2>1, <2>2 DEF Hot
  <2>3. CASE ~Hot(r, cut)
    <3>1. ~(r.tk < line)
      BY <2>3 DEF Rejected, RetentionRejects, ColdRows
    <3> QED
      BY <2>1, <3>1
  <2> QED
    BY <2>2, <2>3
<1>5. Olds(chunk) \subseteq Visible
  <2> SUFFICES ASSUME NEW r \in Olds(chunk) PROVE r \in Visible
    OBVIOUS
  <2>1. r \in Visible \/ r.tk < line
    BY <1>2 DEF StatementFits
  <2>2. r.tk >= line /\ r.tk \in Nat /\ line \in Nat
    BY <1>3, <1>4, Lines DEF TypeOK
  <2> QED
    BY <2>1, <2>2
<1>6. \A r \in Olds(chunk), s \in Olds(Done) : r.key # s.key
  <2>1. \A p \in chunk, q \in Done : \A r \in p.old, s \in q.old : r.key # s.key
    BY <1>1, PairFacts
  <2> QED
    BY <2>1 DEF Olds
<1>7. \A r \in News(chunk), s \in News(Done) : r.key # s.key
  <2>1. \A p \in chunk, q \in Done : \A r \in p.new, s \in q.new : r.key # s.key
    BY <1>1, PairFacts
  <2> QED
    BY <2>1 DEF News
<1>8. DistinctKeys(News(chunk))
  <2>1. \A p \in chunk, q \in chunk : \A r \in p.new, s \in q.new : r.key = s.key => r = s
    BY <1>1, PairFacts
  <2> QED
    BY <2>1 DEF News, DistinctKeys
<1>9. \A r \in Olds(chunk), s \in News(Done) : r.key # s.key
  BY <1>2 DEF StatementFits, KeysOf
<1>10. \A r \in News(chunk), s \in (Visible \ Olds(Done)) \ Olds(chunk) : r.key # s.key
  <2> SUFFICES ASSUME NEW r \in News(chunk), NEW s \in (Visible \ Olds(Done)) \ Olds(chunk),
                      r.key = s.key
               PROVE  FALSE
    OBVIOUS
  <2>1. CASE s \in Olds(stmt)
    <3>1. s \in Olds(todo \ chunk)
      <4>1. stmt = (Done \cup chunk) \cup (todo \ chunk)
        BY <1>1 DEF Done
      <4>2. Olds(stmt) = (Olds(Done) \cup Olds(chunk)) \cup Olds(todo \ chunk)
        <5>1. Olds(stmt) = Olds(Done \cup chunk) \cup Olds(todo \ chunk)
          BY <4>1, SidesOfBoth
        <5> QED
          BY <5>1, SidesOfBoth
      <4> QED
        BY <2>1, <4>2
    <3> QED
      BY <3>1 DEF KeysOf
  <2>2. CASE s \notin Olds(stmt)
    BY <1>2, <2>2 DEF StatementFits, KeysOf
  <2> QED
    BY <2>1, <2>2
<1>11. KeysOf(News(chunk)) \cap KeysOf((Visible \ Olds(Done)) \ Olds(chunk)) = {}
  BY <1>10 DEF KeysOf
<1>12. KeysOf(News(chunk)) \cap KeysOf(News(Done)) = {}
  BY <1>7 DEF KeysOf
<1> QED
  BY <1>3, <1>4, <1>5, <1>6, <1>8, <1>9, <1>11, <1>12

(* The block of a statement reads as a table with a primary key. *)
LEMMA BlockHasKeys ==
  ASSUME TableInv
  PROVE  DistinctKeys(WorkRead)
<1> USE DEF TableInv
<1>1. WorkRead = (Visible \ Olds(Done)) \cup News(Done)
  BY DEF BlockReads
<1>2. stmt = Done \cup todo /\ Done \subseteq stmt
  BY DEF TypeOK, Done
<1>3. Olds(stmt) = Olds(Done) \cup Olds(todo) /\ News(Done) \subseteq News(stmt)
  BY <1>2, SidesOfBoth, SidesOfPart
<1>4. \A r \in Visible \ Olds(Done), s \in News(Done) : r.key # s.key
  BY <1>3 DEF StatementFits, KeysOf
<1>5. \A r, s \in News(Done) : r.key = s.key => r = s
  <2>1. \A p, q \in Done : \A r \in p.new, s \in q.new : r.key = s.key => r = s
    BY <1>2, PairFacts
  <2> QED
    BY <2>1 DEF News
<1> QED
  BY <1>1, <1>4, <1>5 DEF OneRowPerKey, DistinctKeys

-----------------------------------------------------------------------------
(* The steps of a statement.                                                *)

LEMMA TableInit ==
  ASSUME TierKeys # {}
  PROVE  Init => TableInv /\ Visible = {}
<1> SUFFICES ASSUME Init PROVE TableInv /\ Visible = {}
  OBVIOUS
<1>1. Lowest \in Cuts /\ Lowest \in Nat
  BY LowestIsCut, Lines
<1>2. Visible = {} /\ WorkRead = {}
  BY DEF Init, Visible, WorkRead, MergedRead, ColdRead
<1>3. Done = {} /\ Olds(Done) = {} /\ News(Done) = {} /\ Olds(stmt) = {} /\ News(stmt) = {}
  BY NoSides DEF Init, Done
<1>4. TypeOK
  BY <1>1 DEF Init, TypeOK, DistinctKeys, NothingSeen
<1>5. SeenIsCurrent /\ line <= cut
  BY <1>1 DEF Init, SeenIsCurrent, NothingSeen
<1>6. StatementFits
  <2>1. KeysOf({}) = {}
    BY DEF KeysOf
  <2> QED
    BY <1>3, <2>1 DEF StatementFits
<1>7. BlockReads /\ PairsAreApart /\ OneRowPerKey
  BY <1>2, <1>3 DEF Init, BlockReads, Committed, PairsAreApart, OneRowPerKey, DistinctKeys
<1> QED
  BY <1>2, <1>4, <1>5, <1>6, <1>7 DEF TableInv

(* Before its first chunk a statement has done nothing. *)
LEMMA Untouched ==
  ASSUME TableInv, todo = stmt
  PROVE  /\ Done = {} /\ Olds(Done) = {} /\ News(Done) = {}
         /\ WorkRead = Visible /\ work = Committed
<1>1. Done = {} /\ Olds(Done) = {} /\ News(Done) = {}
  BY NoSides DEF Done
<1> QED
  BY <1>1 DEF TableInv, BlockReads

LEMMA BeginStep ==
  ASSUME TableInv, NEW pairs \in SUBSET Pair, Begin(pairs),
         \A p, q \in pairs :
           KeysOf(p.old) \cap KeysOf(q.old) # {} \/ KeysOf(p.new) \cap KeysOf(q.new) # {}
             => p = q,
         KeysOf(News(pairs)) \cap KeysOf(Visible \ Olds(pairs)) = {},
         Olds(pairs) \subseteq Visible
  PROVE  TableInv' /\ Visible' = Visible
<1> USE DEF TableInv
<1>1. /\ stmt = {} /\ stmt' = pairs /\ todo' = pairs
      /\ UNCHANGED <<heap, delta, lake, cut, line, work, seen>>
  BY DEF Begin, tiers
<1>2. todo = stmt
  BY <1>1 DEF TypeOK
<1>3. Visible' = Visible /\ WorkRead' = WorkRead /\ Committed' = Committed
  BY <1>1 DEF Visible, WorkRead, Committed
<1>4. Done' = {} /\ Olds({}) = {} /\ News({}) = {} /\ KeysOf({}) = {}
  BY <1>1, NoSides DEF Done, KeysOf
<1>5. TypeOK'
  BY <1>1 DEF TypeOK
<1>6. BlockReads'
  BY <1>1, <1>2, <1>3, <1>4, Untouched DEF BlockReads
<1>7. PairsAreApart'
  BY <1>1 DEF PairsAreApart
<1>8. StatementFits'
  BY <1>1, <1>3, <1>4 DEF StatementFits
<1>9. SeenIsCurrent' /\ (line <= cut)' /\ OneRowPerKey'
  BY <1>1, <1>3 DEF SeenIsCurrent, OneRowPerKey
<1> QED
  BY <1>3, <1>5, <1>6, <1>7, <1>8, <1>9

LEMMA VisibleType ==
  ASSUME TableInv
  PROVE  Visible \subseteq Row /\ \A r, s \in Visible : r.key = s.key => r = s
BY ReadType DEF TableInv, TypeOK, Visible, OneRowPerKey, DistinctKeys

(* A statement's rows are those of its pairs. *)
LEMMA RowsOfPairs ==
  ASSUME NEW pairs
  PROVE  /\ \A x : x \in Olds(pairs) <=> \E p \in pairs : x \in p.old
         /\ \A x : x \in News(pairs) <=> \E p \in pairs : x \in p.new
BY DEF Olds, News

LEMMA InsertStep ==
  ASSUME ~FreeKeys, TableInv, Insert
  PROVE  /\ TableInv' /\ Visible' = Visible
         /\ stmt = {} /\ stmt' # {} /\ line' = line
         /\ Olds(stmt') \subseteq Visible /\ DistinctKeys(News(stmt'))
<1>1. PICK rows \in SUBSET Row :
        /\ rows # {} /\ DistinctKeys(rows)
        /\ KeysOf(rows) \cap KeysOf(Visible) = {}
        /\ Begin({[old |-> {}, new |-> {r}] : r \in rows})
  BY DEF Insert
<1>2. PICK pairs : pairs = {[old |-> {}, new |-> {r}] : r \in rows}
  OBVIOUS
<1>3. Olds(pairs) = {} /\ News(pairs) = rows
  <2>1. \A p \in pairs : p.old = {} /\ \E r \in rows : p.new = {r}
    BY <1>2
  <2>2. \A r \in rows : \E p \in pairs : p.new = {r}
    <3>1. \A r \in rows : [old |-> {}, new |-> {r}] \in pairs
      BY <1>2
    <3> QED
      BY <3>1
  <2>3. \A x : x \notin Olds(pairs)
    BY <2>1, RowsOfPairs
  <2>4. \A x \in News(pairs) : x \in rows
    BY <2>1, RowsOfPairs
  <2>5. \A x \in rows : x \in News(pairs)
    BY <2>2, RowsOfPairs
  <2>6. News(pairs) = rows
    BY <2>4, <2>5
  <2> QED
    BY <2>3, <2>6
<1>4. pairs \in SUBSET Pair
  BY <1>2 DEF Pair, OneOrNone
<1>5. \A p, q \in pairs :
        KeysOf(p.old) \cap KeysOf(q.old) # {} \/ KeysOf(p.new) \cap KeysOf(q.new) # {}
          => p = q
  <2>1. \A r \in rows : KeysOf({r}) = {r.key}
    BY DEF KeysOf
  <2>2. KeysOf({}) = {}
    BY DEF KeysOf
  <2>3. \A p \in pairs : \E r \in rows : p = [old |-> {}, new |-> {r}]
    BY <1>2
  <2>4. \A p \in pairs : \E r \in rows :
          p = [old |-> {}, new |-> {r}] /\ KeysOf(p.new) = {r.key} /\ KeysOf(p.old) = {}
    BY <2>1, <2>2, <2>3
  <2>5. \A r, s \in rows : r.key = s.key => r = s
    BY <1>1 DEF DistinctKeys
  <2> SUFFICES ASSUME NEW p \in pairs, NEW q \in pairs,
                      \/ KeysOf(p.old) \cap KeysOf(q.old) # {}
                      \/ KeysOf(p.new) \cap KeysOf(q.new) # {}
               PROVE  p = q
    OBVIOUS
  <2>6. PICK r \in rows :
          p = [old |-> {}, new |-> {r}] /\ KeysOf(p.new) = {r.key} /\ KeysOf(p.old) = {}
    BY <2>4
  <2>7. PICK s \in rows :
          q = [old |-> {}, new |-> {s}] /\ KeysOf(q.new) = {s.key} /\ KeysOf(q.old) = {}
    BY <2>4
  <2>8. r.key = s.key
    BY <2>6, <2>7
  <2> QED
    BY <2>5, <2>6, <2>7, <2>8
<1>6. TableInv' /\ Visible' = Visible
  BY <1>1, <1>2, <1>3, <1>4, <1>5, BeginStep
<1>7. stmt = {} /\ stmt' = pairs /\ line' = line /\ pairs # {}
  BY <1>1, <1>2 DEF Begin, tiers
<1> QED
  BY <1>1, <1>3, <1>6, <1>7

LEMMA DeleteStep ==
  ASSUME TableInv, Delete
  PROVE  /\ TableInv' /\ Visible' = Visible
         /\ stmt = {} /\ stmt' # {} /\ line' = line
         /\ Olds(stmt') \subseteq Visible /\ DistinctKeys(News(stmt'))
<1>1. PICK rows \in SUBSET Visible :
        rows # {} /\ Begin({[old |-> {r}, new |-> {}] : r \in rows})
  BY DEF Delete
<1>2. PICK pairs : pairs = {[old |-> {r}, new |-> {}] : r \in rows}
  OBVIOUS
<1>3. Olds(pairs) = rows /\ News(pairs) = {} /\ KeysOf({}) = {}
  <2>1. \A p \in pairs : p.new = {} /\ \E r \in rows : p.old = {r}
    BY <1>2
  <2>2. \A r \in rows : \E p \in pairs : p.old = {r}
    <3>1. \A r \in rows : [old |-> {r}, new |-> {}] \in pairs
      BY <1>2
    <3> QED
      BY <3>1
  <2>3. \A x \in Olds(pairs) : x \in rows
    BY <2>1, RowsOfPairs
  <2>4. \A x \in rows : x \in Olds(pairs)
    BY <2>2, RowsOfPairs
  <2>5. \A x : x \notin News(pairs)
    BY <2>1, RowsOfPairs
  <2>6. Olds(pairs) = rows
    BY <2>3, <2>4
  <2> QED
    BY <2>5, <2>6 DEF KeysOf
<1>4. rows \subseteq Row /\ \A r, s \in rows : r.key = s.key => r = s
  BY VisibleType
<1>5. pairs \in SUBSET Pair
  BY <1>2, <1>4 DEF Pair, OneOrNone
<1>6. \A p, q \in pairs :
        KeysOf(p.old) \cap KeysOf(q.old) # {} \/ KeysOf(p.new) \cap KeysOf(q.new) # {}
          => p = q
  <2>1. \A r \in rows : KeysOf({r}) = {r.key}
    BY DEF KeysOf
  <2>2. \A p \in pairs : \E r \in rows : p = [old |-> {r}, new |-> {}]
    BY <1>2
  <2>3. \A p \in pairs : \E r \in rows :
          p = [old |-> {r}, new |-> {}] /\ KeysOf(p.old) = {r.key} /\ KeysOf(p.new) = {}
    BY <1>3, <2>1, <2>2
  <2> SUFFICES ASSUME NEW p \in pairs, NEW q \in pairs,
                      \/ KeysOf(p.old) \cap KeysOf(q.old) # {}
                      \/ KeysOf(p.new) \cap KeysOf(q.new) # {}
               PROVE  p = q
    OBVIOUS
  <2>4. PICK r \in rows :
          p = [old |-> {r}, new |-> {}] /\ KeysOf(p.old) = {r.key} /\ KeysOf(p.new) = {}
    BY <2>3
  <2>5. PICK s \in rows :
          q = [old |-> {s}, new |-> {}] /\ KeysOf(q.old) = {s.key} /\ KeysOf(q.new) = {}
    BY <2>3
  <2>6. r.key = s.key
    BY <2>4, <2>5
  <2> QED
    BY <1>4, <2>4, <2>5, <2>6
<1>7. TableInv' /\ Visible' = Visible
  BY <1>1, <1>2, <1>3, <1>5, <1>6, BeginStep
<1>8. stmt = {} /\ stmt' = pairs /\ line' = line /\ pairs # {}
  BY <1>1, <1>2 DEF Begin, tiers
<1> QED
  BY <1>1, <1>3, <1>7, <1>8 DEF DistinctKeys

LEMMA UpdateStep ==
  ASSUME ~FreeKeys, TableInv, Update
  PROVE  /\ TableInv' /\ Visible' = Visible
         /\ stmt = {} /\ stmt' # {} /\ line' = line
         /\ Olds(stmt') \subseteq Visible /\ DistinctKeys(News(stmt'))
<1>1. PICK rows \in SUBSET Visible :
        /\ rows # {}
        /\ \E image \in [rows -> Row] :
             /\ \A r, s \in rows : image[r].key = image[s].key => r = s
             /\ {image[r].key : r \in rows} \cap KeysOf(Visible \ rows) = {}
             /\ Begin({[old |-> {r}, new |-> {image[r]}] : r \in rows})
  BY DEF Update
<1>2. PICK image \in [rows -> Row] :
        /\ \A r, s \in rows : image[r].key = image[s].key => r = s
        /\ {image[r].key : r \in rows} \cap KeysOf(Visible \ rows) = {}
        /\ Begin({[old |-> {r}, new |-> {image[r]}] : r \in rows})
  BY <1>1
<1>3. PICK pairs : pairs = {[old |-> {r}, new |-> {image[r]}] : r \in rows}
  OBVIOUS
<1>4. /\ Olds(pairs) = rows
      /\ News(pairs) = {image[r] : r \in rows}
      /\ KeysOf(News(pairs)) = {image[r].key : r \in rows}
  <2>1. \A p \in pairs : \E r \in rows : p.old = {r} /\ p.new = {image[r]}
    BY <1>3
  <2>2. \A r \in rows : \E p \in pairs : p.old = {r} /\ p.new = {image[r]}
    <3>1. \A r \in rows : [old |-> {r}, new |-> {image[r]}] \in pairs
      BY <1>3
    <3> QED
      BY <3>1
  <2>3. \A x \in Olds(pairs) : x \in rows
    BY <2>1, RowsOfPairs
  <2>4. \A x \in rows : x \in Olds(pairs)
    BY <2>2, RowsOfPairs
  <2>5. \A x \in News(pairs) : \E r \in rows : x = image[r]
    BY <2>1, RowsOfPairs
  <2>6. \A r \in rows : image[r] \in News(pairs)
    BY <2>2, RowsOfPairs
  <2>7. Olds(pairs) = rows
    BY <2>3, <2>4
  <2>8. News(pairs) = {image[r] : r \in rows}
    BY <2>5, <2>6
  <2> QED
    BY <2>7, <2>8 DEF KeysOf
<1>5. rows \subseteq Row /\ \A r, s \in rows : r.key = s.key => r = s
  BY VisibleType
<1>6. pairs \in SUBSET Pair
  BY <1>3, <1>5 DEF Pair, OneOrNone
<1>7. \A p, q \in pairs :
        KeysOf(p.old) \cap KeysOf(q.old) # {} \/ KeysOf(p.new) \cap KeysOf(q.new) # {}
          => p = q
  <2>1. \A r \in Row : KeysOf({r}) = {r.key}
    BY DEF KeysOf
  <2> SUFFICES ASSUME NEW p \in pairs, NEW q \in pairs,
                      \/ KeysOf(p.old) \cap KeysOf(q.old) # {}
                      \/ KeysOf(p.new) \cap KeysOf(q.new) # {}
               PROVE  p = q
    OBVIOUS
  <2>2. PICK r \in rows : p = [old |-> {r}, new |-> {image[r]}]
    BY <1>3
  <2>3. PICK s \in rows : q = [old |-> {s}, new |-> {image[s]}]
    BY <1>3
  <2>4. r.key = s.key \/ image[r].key = image[s].key
    BY <1>5, <2>1, <2>2, <2>3
  <2>5. r = s
    BY <1>2, <1>5, <2>4
  <2> QED
    BY <2>2, <2>3, <2>5
<1>8. TableInv' /\ Visible' = Visible
  BY <1>2, <1>3, <1>4, <1>6, <1>7, BeginStep
<1>9. stmt = {} /\ stmt' = pairs /\ line' = line /\ pairs # {}
  <2>1. Begin(pairs)
    BY <1>2, <1>3
  <2>2. \A r \in rows : [old |-> {r}, new |-> {image[r]}] \in pairs
    BY <1>3
  <2>3. pairs # {}
    BY <1>1, <2>2
  <2> QED
    BY <2>1, <2>3 DEF Begin, tiers
<1>10. DistinctKeys(News(pairs))
  BY <1>2, <1>4 DEF DistinctKeys
<1> QED
  BY <1>4, <1>8, <1>9, <1>10

LEMMA ReadStep ==
  ASSUME TableInv, ReadCutline \/ ReadRetentionLine
  PROVE  TableInv' /\ UNCHANGED <<Visible, stmt, line>>
<1> USE DEF TableInv
<1>1. UNCHANGED <<heap, delta, lake, cut, line, work, stmt, todo>>
  BY DEF ReadCutline, ReadRetentionLine, tiers
<1>2. seen \in [cut : Cuts \cup {NotRead}, line : Cuts \cup {NotRead}]
      /\ cut \in Cuts /\ line \in Cuts
  BY DEF TypeOK
<1>3. \/ seen' = [seen EXCEPT !.cut = cut] /\ seen.cut = NotRead
      \/ seen' = [seen EXCEPT !.line = line] /\ seen.cut # NotRead
  BY DEF ReadCutline, ReadRetentionLine
<1>4. SeenIsCurrent'
  BY <1>1, <1>2, <1>3, NotReadIsNoCut DEF SeenIsCurrent
<1>5. TypeOK'
  BY <1>1, <1>2, <1>3 DEF TypeOK
<1>6. /\ Visible' = Visible /\ WorkRead' = WorkRead /\ Committed' = Committed
      /\ Done' = Done
  BY <1>1 DEF Visible, WorkRead, Committed, Done
<1>7. OneRowPerKey' /\ PairsAreApart' /\ StatementFits' /\ BlockReads' /\ (line <= cut)'
  BY <1>1, <1>6 DEF OneRowPerKey, PairsAreApart, StatementFits, BlockReads
<1> QED
  BY <1>1, <1>4, <1>5, <1>6, <1>7

LEMMA RunStep ==
  ASSUME ~FreeKeys, TableInv, RunChunk
  PROVE  TableInv' /\ UNCHANGED <<Visible, stmt, line>>
<1> USE DEF TableInv
<1>1. PICK chunk \in Chunks :
        KeysApart(chunk) /\ ~Rejected(chunk) /\ work' = ApplyChunk(chunk) /\ todo' = todo \ chunk
  BY DEF RunChunk
<1>2. seen' = NothingSeen /\ UNCHANGED <<heap, delta, lake, cut, line, stmt>>
  BY DEF RunChunk, tiers
<1>3. chunk \in SUBSET todo /\ chunk # {} /\ todo \subseteq stmt
  BY <1>1 DEF Chunks, TypeOK
<1>4. seen.cut = cut /\ seen.line = line
  BY DEF RunChunk, SeenIsCurrent
<1>5. PICK old : old = Olds(chunk)
  OBVIOUS
<1>6. PICK new : new = News(chunk)
  OBVIOUS
<1>7. PICK V : V = Visible
  OBVIOUS
<1>8. PICK OD : OD = Olds(Done)
  OBVIOUS
<1>9. PICK ND : ND = News(Done)
  OBVIOUS
<1>10. WorkRead = (V \ OD) \cup ND
  BY <1>7, <1>8, <1>9 DEF BlockReads
<1>11. KeysOf(new) \cap KeysOf(Olds(todo \ chunk)) = {}
  BY <1>1, <1>6 DEF KeysApart
<1>12. /\ old \subseteq V \ OD
       /\ old \cap ND = {}
       /\ \A r \in old \cup new : r \in Row /\ r.tk >= line
       /\ DistinctKeys(new)
       /\ KeysOf(new) \cap KeysOf((V \ OD) \ old) = {}
       /\ KeysOf(new) \cap KeysOf(ND) = {}
  BY <1>1, <1>3, <1>4, <1>5, <1>6, <1>7, <1>8, <1>9, <1>11, ChunkFits
<1>13. work' = WriteRows(DeleteRows(work, old, cut), new, cut)
  BY <1>1, <1>4, <1>5, <1>6, BothHalves
<1>14. WellFormed(work) /\ lake \in SUBSET Row
  BY DEF TypeOK, WellFormed
<1>15. old \subseteq WorkRead /\ KeysOf(new) \cap KeysOf(WorkRead \ old) = {}
  BY <1>10, <1>12 DEF KeysOf
<1>16. PICK W : W = WorkRead
  OBVIOUS
<1>17. /\ WellFormed(WriteRows(DeleteRows(work, old, cut), new, cut))
       /\ MergedRead(WriteRows(DeleteRows(work, old, cut), new, cut).heap,
                     WriteRows(DeleteRows(work, old, cut), new, cut).delta, lake, cut)
            = (W \ old) \cup new
  <2>1. W = MergedRead(work.heap, work.delta, lake, cut)
    BY <1>16 DEF WorkRead
  <2>2. DistinctKeys(W) /\ new \in SUBSET Row
    BY <1>12, <1>16, BlockHasKeys
  <2> QED
    BY <1>12, <1>14, <1>15, <1>16, <2>1, <2>2, ChunkReads
<1>18. WellFormed(work') /\ MergedRead(work'.heap, work'.delta, lake, cut) = (W \ old) \cup new
  BY <1>13, <1>17
<1>19. WorkRead' = ((V \ OD) \ old) \cup (ND \cup new)
  <2>1. WorkRead' = MergedRead(work'.heap, work'.delta, lake', cut')
    BY DEF WorkRead
  <2> QED
    BY <1>2, <1>10, <1>12, <1>16, <1>18, <2>1
<1>20. Done' = Done \cup chunk /\ Visible' = V
  BY <1>1, <1>2, <1>3, <1>7 DEF Done, Visible
<1>21. Olds(Done') = OD \cup old /\ News(Done') = ND \cup new
  BY <1>5, <1>6, <1>8, <1>9, <1>20, SidesOfBoth
<1>22. Olds(Done)' = OD \cup old /\ News(Done)' = ND \cup new
  BY <1>21 DEF Olds, News
<1>23. BlockReads'
  <2>1. WorkRead' = (Visible' \ Olds(Done)') \cup News(Done)'
    BY <1>19, <1>20, <1>22
  <2>2. todo' # stmt'
    BY <1>1, <1>2, <1>3
  <2> QED
    BY <2>1, <2>2 DEF BlockReads
<1>24. StatementFits'
  <2>1. /\ Olds(stmt)' = Olds(stmt) /\ News(stmt)' = News(stmt)
    BY <1>2 DEF Olds, News
  <2>2. Olds(todo)' = Olds(todo \ chunk) /\ Olds(todo \ chunk) \subseteq Olds(todo)
    BY <1>1 DEF Olds
  <2>3. KeysOf(ND) \cap KeysOf(Olds(todo)) = {}
    BY <1>9 DEF StatementFits
  <2>4. KeysOf(ND \cup new) \cap KeysOf(Olds(todo \ chunk)) = {}
    BY <1>11, <2>2, <2>3 DEF KeysOf
  <2>5. \A r \in OD \cup ND : r.tk >= line
    BY <1>8, <1>9 DEF StatementFits
  <2>6. /\ KeysOf(News(stmt)) \cap KeysOf(V \ Olds(stmt)) = {}
        /\ \A r \in Olds(stmt) : r \in V \/ r.tk < line
    BY <1>7 DEF StatementFits
  <2> QED
    BY <1>2, <1>12, <1>20, <1>22, <2>1, <2>2, <2>4, <2>5, <2>6 DEF StatementFits
<1>25. TypeOK'
  <2>1. WriteRows(DeleteRows(work, old, cut), new, cut)
          = [heap |-> WriteRows(DeleteRows(work, old, cut), new, cut).heap,
             delta |-> WriteRows(DeleteRows(work, old, cut), new, cut).delta]
    BY DEF WriteRows
  <2>2. work' \in [heap : SUBSET Row, delta : SUBSET DeltaEntry]
    BY <1>13, <1>18, <2>1 DEF WellFormed
  <2> QED
    BY <1>1, <1>2, <1>3, <1>18, <2>2 DEF TypeOK, WellFormed, NothingSeen
<1>26. SeenIsCurrent' /\ (line <= cut)' /\ OneRowPerKey' /\ PairsAreApart'
  BY <1>2, <1>7, <1>20 DEF SeenIsCurrent, NothingSeen, OneRowPerKey, PairsAreApart, TypeOK
<1> QED
  BY <1>2, <1>7, <1>20, <1>23, <1>24, <1>25, <1>26

(* A statement that is over has nothing left to do. *)
LEMMA OverFits ==
  ASSUME stmt' = {}, todo' = {}
  PROVE  /\ Done' = {} /\ Olds(Done)' = {} /\ News(Done)' = {}
         /\ PairsAreApart' /\ StatementFits'
<1>1. Done' = {} /\ Olds(Done)' = {} /\ News(Done)' = {}
  BY DEF Done, Olds, News
<1>2. Olds(stmt)' = {} /\ News(stmt)' = {} /\ KeysOf({}) = {}
  BY DEF Olds, News, KeysOf
<1> QED
  BY <1>1, <1>2 DEF PairsAreApart, StatementFits

LEMMA FailStep ==
  ASSUME TableInv, Fail
  PROVE  TableInv' /\ UNCHANGED <<Visible, line>> /\ stmt # {} /\ stmt' = {}
<1> USE DEF TableInv
<1>1. /\ work' = Committed /\ stmt' = {} /\ todo' = {} /\ seen' = NothingSeen
      /\ UNCHANGED <<heap, delta, lake, cut, line>>
  BY DEF Fail, tiers
<1>2. stmt # {}
  BY DEF Fail, Chunks, TypeOK
<1>3. Visible' = Visible /\ Committed' = Committed
  BY <1>1 DEF Visible, Committed
<1>4. WorkRead' = Visible'
  BY <1>1 DEF WorkRead, Visible, Committed
<1>5. BlockReads'
  BY <1>1, <1>3, <1>4, OverFits DEF BlockReads
<1>6. TypeOK'
  BY <1>1 DEF TypeOK, Committed, NothingSeen
<1>7. SeenIsCurrent' /\ (line <= cut)' /\ OneRowPerKey'
  BY <1>1, <1>3 DEF SeenIsCurrent, NothingSeen, OneRowPerKey, TypeOK
<1> QED
  BY <1>1, <1>2, <1>3, <1>5, <1>6, <1>7, OverFits

(* A commit makes visible what the block read. *)
LEMMA CommitStep ==
  ASSUME TableInv, Commit
  PROVE  /\ TableInv'
         /\ stmt # {} /\ stmt' = {} /\ line' = line
         /\ Visible' = (Visible \ Olds(stmt)) \cup News(stmt)
         /\ \A r \in Olds(stmt) \cup News(stmt) : r.tk >= line
         /\ KeysOf(News(stmt)) \cap KeysOf(Visible \ Olds(stmt)) = {}
<1> USE DEF TableInv
<1>1. /\ stmt # {} /\ todo = {} /\ stmt' = {} /\ todo' = {}
      /\ heap' = work.heap /\ delta' = work.delta
      /\ UNCHANGED <<lake, cut, line, work, seen>>
  BY DEF Commit
<1>2. Done = stmt
  BY <1>1 DEF Done
<1>3. Visible' = WorkRead /\ WorkRead' = WorkRead
  BY <1>1 DEF Visible, WorkRead
<1>4. WorkRead = (Visible \ Olds(stmt)) \cup News(stmt)
  BY <1>2 DEF BlockReads
<1>5. work' = Committed'
  BY <1>1 DEF Committed, TypeOK
<1>6. BlockReads'
  BY <1>1, <1>3, <1>5, OverFits DEF BlockReads
<1>7. TypeOK'
  BY <1>1 DEF TypeOK
<1>8. OneRowPerKey'
  BY <1>3, BlockHasKeys DEF OneRowPerKey
<1>9. SeenIsCurrent' /\ (line <= cut)'
  BY <1>1 DEF SeenIsCurrent
<1> QED
  BY <1>1, <1>2, <1>3, <1>4, <1>6, <1>7, <1>8, <1>9, OverFits DEF StatementFits

-----------------------------------------------------------------------------
(* The steps of the worker.                                                 *)

(* Before the first chunk of a statement the worker may change the tiers as *)
(* long as the merged read loses nothing but expired rows.                  *)
LEMMA MoveStep ==
  ASSUME ~WorkerRaces, TableInv,
         NEW heap2 \in SUBSET Row, NEW lake2 \in SUBSET Row, NEW cut2 \in Cuts,
         DistinctKeys(heap2), DistinctKeys(lake2), line <= cut2,
         Worker(heap2, lake2, cut2),
         NEW V2, V2 = MergedRead(heap2, {}, lake2, cut2),
         V2 \subseteq Visible,
         \A r \in Visible : r \in V2 \/ r.tk < line
  PROVE  TableInv' /\ Visible' = V2 /\ UNCHANGED <<stmt, line>>
<1> USE DEF TableInv
<1>1. /\ work = Committed /\ todo = stmt /\ seen = NothingSeen
      /\ heap' = heap2 /\ delta' = {} /\ lake' = lake2 /\ cut' = cut2
      /\ work' = [heap |-> heap2, delta |-> {}]
      /\ UNCHANGED <<line, stmt, todo, seen>>
  BY DEF Worker
<1>2. Visible' = V2 /\ WorkRead' = V2 /\ work' = Committed'
  BY <1>1 DEF Visible, WorkRead, Committed
<1>3. Done' = {} /\ Olds(Done)' = {} /\ News(Done)' = {}
  BY <1>1 DEF Done, Olds, News
<1>4. BlockReads'
  BY <1>1, <1>2, <1>3 DEF BlockReads
<1>5. TypeOK'
  BY <1>1 DEF TypeOK, DistinctKeys
<1>6. OneRowPerKey'
  BY <1>2 DEF OneRowPerKey, DistinctKeys
<1>7. StatementFits'
  <2>1. Olds(stmt)' = Olds(stmt) /\ News(stmt)' = News(stmt) /\ KeysOf({}) = {}
    BY <1>1 DEF Olds, News, KeysOf
  <2>2. KeysOf(News(stmt)) \cap KeysOf(V2 \ Olds(stmt)) = {}
    BY DEF StatementFits, KeysOf
  <2>3. \A r \in Olds(stmt) : r \in V2 \/ r.tk < line
    BY DEF StatementFits
  <2> QED
    BY <1>1, <1>2, <1>3, <2>1, <2>2, <2>3 DEF StatementFits
<1>8. SeenIsCurrent' /\ (line <= cut)' /\ PairsAreApart'
  BY <1>1 DEF SeenIsCurrent, NothingSeen, PairsAreApart, TypeOK
<1> QED
  BY <1>1, <1>2, <1>4, <1>5, <1>6, <1>7, <1>8

(* What the lake holds after the delta has been folded into it. *)
LEMMA Folded ==
  ASSUME TableInv
  PROVE  /\ ColdRead(delta, lake, cut) = {r \in Visible : ~Hot(r, cut)}
         /\ {h \in heap : Hot(h, cut)} = {r \in Visible : Hot(r, cut)}
         /\ \A r \in Visible : r \in Row /\ r.tk \in Nat
         /\ cut \in Nat /\ line \in Nat /\ line <= cut
<1>1. /\ heap \in SUBSET Row /\ delta \in SUBSET DeltaEntry /\ lake \in SUBSET Row
      /\ cut \in Nat /\ line \in Nat
  BY Lines DEF TableInv, TypeOK
<1> QED
  BY <1>1, ReadType, Lines DEF Visible, TableInv

LEMMA AdvanceStep ==
  ASSUME ~WorkerRaces, TableInv, Advance
  PROVE  TableInv' /\ UNCHANGED <<Visible, stmt, line>>
<1>1. PICK T \in Cuts :
        /\ T > cut
        /\ \E heap2 \in {heap, {h \in heap : Hot(h, T)}} :
             Worker(heap2,
                    ColdRead(delta, lake, cut) \cup {h \in heap : Hot(h, cut) /\ ~Hot(h, T)},
                    T)
  BY DEF Advance
<1>2. PICK lake2 : lake2 = ColdRead(delta, lake, cut)
                           \cup {h \in heap : Hot(h, cut) /\ ~Hot(h, T)}
  OBVIOUS
<1>3. PICK heap2 \in {heap, {h \in heap : Hot(h, T)}} : Worker(heap2, lake2, T)
  BY <1>1, <1>2
<1>4. T \in Nat /\ cut \in Nat /\ line <= cut /\ line \in Nat /\ line <= T
  BY <1>1, Folded, Lines
<1>5. \A r \in Visible : r \in lake2 <=> ~Hot(r, T)
  BY <1>1, <1>2, <1>4, Folded DEF Hot
<1>6. lake2 \subseteq Visible
  BY <1>2, Folded
<1>7. \A r : r \in heap2 /\ Hot(r, T) <=> r \in Visible /\ Hot(r, T)
  <2>1. \A r \in heap : r.tk \in Nat
    BY Lines DEF TableInv, TypeOK
  <2>2. \A r \in heap : Hot(r, T) => Hot(r, cut)
    BY <1>1, <1>4, <2>1 DEF Hot
  <2>3. \A r \in Visible : Hot(r, T) => Hot(r, cut)
    BY <1>1, <1>4, Folded DEF Hot
  <2>4. \A r : r \in heap /\ Hot(r, cut) <=> r \in Visible /\ Hot(r, cut)
    BY Folded
  <2>5. \A r : r \in heap2 /\ Hot(r, T) <=> r \in heap /\ Hot(r, T)
    BY <1>3
  <2> QED
    BY <2>2, <2>3, <2>4, <2>5
<1>8. \A r : r \in MergedRead(heap2, {}, lake2, T) <=>
               (r \in heap2 /\ Hot(r, T)) \/ (r \in lake2 /\ ~Hot(r, T))
  BY InRead
<1>9. MergedRead(heap2, {}, lake2, T) = Visible
  BY <1>5, <1>6, <1>7, <1>8
<1>10. heap2 \in SUBSET Row /\ DistinctKeys(heap2)
  BY <1>3 DEF TableInv, TypeOK, DistinctKeys
<1>11. lake2 \in SUBSET Row /\ DistinctKeys(lake2)
  BY <1>6, VisibleType DEF DistinctKeys
<1> QED
  BY <1>3, <1>4, <1>9, <1>10, <1>11, MoveStep

LEMMA CompactStep ==
  ASSUME ~WorkerRaces, TableInv, Compact
  PROVE  TableInv' /\ UNCHANGED <<Visible, stmt, line>>
<1>1. PICK lake2 : lake2 = ColdRead(delta, lake, cut)
  OBVIOUS
<1>2. Worker(heap, lake2, cut)
  BY <1>1 DEF Compact
<1>3. \A r : r \in lake2 <=> r \in Visible /\ ~Hot(r, cut)
  BY <1>1, Folded
<1>4. \A r : r \in heap /\ Hot(r, cut) <=> r \in Visible /\ Hot(r, cut)
  BY Folded
<1>5. \A r : r \in MergedRead(heap, {}, lake2, cut) <=>
               (r \in heap /\ Hot(r, cut)) \/ (r \in lake2 /\ ~Hot(r, cut))
  BY InRead
<1>6. MergedRead(heap, {}, lake2, cut) = Visible
  BY <1>3, <1>4, <1>5
<1>7. heap \in SUBSET Row /\ DistinctKeys(heap) /\ cut \in Cuts /\ line <= cut
  BY DEF TableInv, TypeOK
<1>8. lake2 \in SUBSET Row /\ DistinctKeys(lake2)
  BY <1>3, VisibleType DEF DistinctKeys
<1> QED
  BY <1>2, <1>6, <1>7, <1>8, MoveStep

LEMMA ExpireStep ==
  ASSUME ~WorkerRaces, TableInv, Expire
  PROVE  /\ TableInv' /\ UNCHANGED <<stmt, line>>
         /\ Visible' = {r \in Visible : r.tk >= line}
<1>1. PICK lake2 : lake2 = {r \in ColdRead(delta, lake, cut) : r.tk >= line}
  OBVIOUS
<1>2. Worker(heap, lake2, cut)
  BY <1>1 DEF Expire
<1>3. \A r : r \in lake2 <=> r \in Visible /\ ~Hot(r, cut) /\ r.tk >= line
  BY <1>1, Folded
<1>4. \A r : r \in heap /\ Hot(r, cut) <=> r \in Visible /\ Hot(r, cut)
  BY Folded
<1>5. \A r : r \in MergedRead(heap, {}, lake2, cut) <=>
               (r \in heap /\ Hot(r, cut)) \/ (r \in lake2 /\ ~Hot(r, cut))
  BY InRead
<1>6. \A r \in Visible : Hot(r, cut) => r.tk >= line
  BY Folded DEF Hot
<1>7. MergedRead(heap, {}, lake2, cut) = {r \in Visible : r.tk >= line}
  BY <1>3, <1>4, <1>5, <1>6
<1>8. \A r \in Visible : r.tk >= line \/ r.tk < line
  BY Folded
<1>9. heap \in SUBSET Row /\ DistinctKeys(heap) /\ cut \in Cuts /\ line <= cut
  BY DEF TableInv, TypeOK
<1>10. lake2 \in SUBSET Row /\ DistinctKeys(lake2)
  BY <1>3, VisibleType DEF DistinctKeys
<1> QED
  BY <1>2, <1>7, <1>8, <1>9, <1>10, MoveStep

LEMMA RaiseStep ==
  ASSUME ~WorkerRaces, TableInv, RaiseRetentionLine
  PROVE  TableInv' /\ UNCHANGED <<Visible, stmt>> /\ line' \in Nat /\ line' >= line
<1> USE DEF TableInv
<1>1. /\ seen = NothingSeen /\ todo = stmt
      /\ line' \in Cuts /\ line' > line /\ line' <= cut
      /\ UNCHANGED <<heap, delta, lake, cut, work, stmt, todo, seen>>
  BY DEF RaiseRetentionLine
<1>2. line' \in Nat /\ line \in Nat /\ cut \in Nat
  BY <1>1, Lines DEF TypeOK
<1>3. Visible' = Visible /\ WorkRead' = WorkRead /\ Committed' = Committed
  BY <1>1 DEF Visible, WorkRead, Committed
<1>4. Done = {} /\ Done' = {} /\ Olds(Done)' = {} /\ News(Done)' = {}
  BY <1>1 DEF Done, Olds, News
<1>5. BlockReads'
  BY <1>1, <1>3 DEF BlockReads, Done, Olds, News
<1>6. TypeOK'
  BY <1>1 DEF TypeOK
<1>7. StatementFits'
  <2>1. Olds(stmt)' = Olds(stmt) /\ News(stmt)' = News(stmt) /\ KeysOf({}) = {}
    BY <1>1 DEF Olds, News, KeysOf
  <2>2. \A r \in Olds(stmt) : r \in Visible \/ r.tk < line'
    <3>1. \A r \in Olds(stmt) : r.tk \in Nat
      BY PairFacts, Lines
    <3> QED
      BY <1>1, <1>2, <3>1 DEF StatementFits
  <2> QED
    BY <1>3, <1>4, <2>1, <2>2 DEF StatementFits
<1>8. SeenIsCurrent' /\ (line <= cut)' /\ OneRowPerKey' /\ PairsAreApart'
  BY <1>1, <1>3 DEF SeenIsCurrent, NothingSeen, OneRowPerKey, PairsAreApart
<1> QED
  BY <1>1, <1>2, <1>3, <1>5, <1>6, <1>7, <1>8

LEMMA TableStep ==
  ASSUME ~FreeKeys, ~WorkerRaces, TableInv, [Next]_vars
  PROVE  TableInv'
<1>1. CASE UNCHANGED vars
  BY <1>1 DEF vars, TableInv, TypeOK, SeenIsCurrent, OneRowPerKey, PairsAreApart,
       StatementFits, BlockReads, Visible, WorkRead, Committed, Done, Olds, News
<1> QED
  BY <1>1, InsertStep, DeleteStep, UpdateStep, ReadStep, RunStep, FailStep, CommitStep,
     AdvanceStep, CompactStep, ExpireStep, RaiseStep DEF Next

LEMMA TableInvariant ==
  ASSUME ~FreeKeys, ~WorkerRaces, TierKeys # {}
  PROVE  Spec => []TableInv
<1>1. Init => TableInv
  BY TableInit
<1>2. TableInv /\ [Next]_vars => TableInv'
  BY TableStep
<1> QED
  BY <1>1, <1>2, PTL DEF Spec

-----------------------------------------------------------------------------
(* Whatever keys the statements give: what a chunk cannot bring back.        *)

(* delete_rows hides every row it is given from the read, one of several     *)
(* with the same key as well, and shows none that it did not show.           *)
LEMMA DeleteReadsNoMore ==
  ASSUME NEW db, NEW lake_, NEW rows, NEW T, db.delta \subseteq DeltaEntry
  PROVE  LET after == DeleteRows(db, rows, T) IN
         MergedRead(after.heap, after.delta, lake_, T)
           \subseteq MergedRead(db.heap, db.delta, lake_, T) \ rows
<1> DEFINE after == DeleteRows(db, rows, T)
           hot == KeysOf(HotRows(rows, T))
           cold == KeysOf(ColdRows(rows, T))
<1> SUFFICES ASSUME NEW r, r \in MergedRead(after.heap, after.delta, lake_, T)
             PROVE  r \in MergedRead(db.heap, db.delta, lake_, T) /\ r \notin rows
  OBVIOUS
<1>1. /\ after.heap = {h \in db.heap : ~(h.key \in hot /\ Hot(h, T))}
      /\ after.delta = Without(db.delta, cold) \cup {Tombstone(s) : s \in ColdRows(rows, T)}
  BY DEF DeleteRows, DeleteFromHeap
<1>2. /\ \A s \in rows : Hot(s, T) => s.key \in hot
      /\ \A s \in rows : ~Hot(s, T) => s.key \in cold
      /\ \A k \in cold : \E s \in ColdRows(rows, T) : s.key = k
  BY DEF KeysOf, HotRows, ColdRows
<1>3. \A s : Tombstone(s).op # "upsert" /\ Tombstone(s).key = s.key
  BY DEF Tombstone
<1> HIDE DEF after, hot, cold
<1>4. CASE r \in after.heap /\ Hot(r, T)
  BY <1>1, <1>2, <1>4, InRead
<1>5. CASE r \in lake_ /\ ~Hot(r, T) /\ \A e \in after.delta : e.key # r.key
  <2>1. r.key \notin cold
    BY <1>1, <1>2, <1>3, <1>5
  <2>2. \A e \in db.delta : e.key # r.key
    BY <1>1, <1>5, <2>1 DEF Without
  <2> QED
    BY <1>2, <1>5, <2>1, <2>2, InRead
<1>6. CASE \E e \in after.delta : e.op = "upsert" /\ ~Hot(e, T) /\ r = RowOf(e)
  <2>1. PICK e \in after.delta : e.op = "upsert" /\ ~Hot(e, T) /\ r = RowOf(e)
    BY <1>6
  <2>2. e \in db.delta /\ e.key \notin cold
    BY <1>1, <1>3, <2>1 DEF Without
  <2>3. r.key = e.key /\ ~Hot(r, T)
    BY <2>1, <2>2, Entries DEF Hot
  <2> QED
    BY <1>2, <2>1, <2>2, <2>3, InRead
<1> QED
  BY <1>4, <1>5, <1>6, InRead DEF after

(* write_rows shows the rows it is given and none that it did not show. *)
LEMMA WriteReadsNoMore ==
  ASSUME NEW db, NEW lake_, NEW rows \in SUBSET Row, NEW T
  PROVE  LET after == WriteRows(db, rows, T) IN
         MergedRead(after.heap, after.delta, lake_, T)
           \subseteq MergedRead(db.heap, db.delta, lake_, T) \cup rows
<1> DEFINE after == WriteRows(db, rows, T)
           cold == KeysOf(ColdRows(rows, T))
<1> SUFFICES ASSUME NEW r, r \in MergedRead(after.heap, after.delta, lake_, T), r \notin rows
             PROVE  r \in MergedRead(db.heap, db.delta, lake_, T)
  OBVIOUS
<1>1. /\ after.heap = Without(db.heap, KeysOf(HotRows(rows, T))) \cup HotRows(rows, T)
      /\ after.delta = Without(db.delta, cold) \cup {Upsert(s) : s \in ColdRows(rows, T)}
  BY DEF WriteRows
<1>2. /\ HotRows(rows, T) \subseteq rows /\ ColdRows(rows, T) \subseteq rows
      /\ \A k \in cold : \E s \in ColdRows(rows, T) : s.key = k
  BY DEF KeysOf, HotRows, ColdRows
<1>3. \A s \in rows : RowOf(Upsert(s)) = s /\ Upsert(s).key = s.key
  BY NewEntries
<1> HIDE DEF after, cold
<1>4. CASE r \in after.heap /\ Hot(r, T)
  BY <1>1, <1>2, <1>4, InRead DEF Without
<1>5. CASE r \in lake_ /\ ~Hot(r, T) /\ \A e \in after.delta : e.key # r.key
  <2>1. r.key \notin cold
    BY <1>1, <1>2, <1>3, <1>5
  <2>2. \A e \in db.delta : e.key # r.key
    BY <1>1, <1>5, <2>1 DEF Without
  <2> QED
    BY <1>5, <2>2, InRead
<1>6. CASE \E e \in after.delta : e.op = "upsert" /\ ~Hot(e, T) /\ r = RowOf(e)
  <2>1. PICK e \in after.delta : e.op = "upsert" /\ ~Hot(e, T) /\ r = RowOf(e)
    BY <1>6
  <2>2. e \in db.delta
    BY <1>1, <1>2, <1>3, <2>1 DEF Without
  <2> QED
    BY <2>1, <2>2, InRead
<1> QED
  BY <1>4, <1>5, <1>6, InRead DEF after

(* Both halves keep the heap a set of rows and delta a set of entries. *)
LEMMA HalvesKeepTypes ==
  ASSUME NEW db \in [heap : SUBSET Row, delta : SUBSET DeltaEntry],
         NEW rows \in SUBSET Row, NEW T
  PROVE  /\ DeleteRows(db, rows, T) \in [heap : SUBSET Row, delta : SUBSET DeltaEntry]
         /\ WriteRows(db, rows, T) \in [heap : SUBSET Row, delta : SUBSET DeltaEntry]
<1>1. ColdRows(rows, T) \subseteq Row /\ HotRows(rows, T) \subseteq Row
  BY DEF ColdRows, HotRows
<1>2. \A s \in ColdRows(rows, T) : Tombstone(s) \in DeltaEntry /\ Upsert(s) \in DeltaEntry
  BY <1>1, NewEntries
<1>3. DeleteRows(db, rows, T) \in [heap : SUBSET Row, delta : SUBSET DeltaEntry]
  BY <1>2 DEF DeleteRows, DeleteFromHeap, Without
<1>4. WriteRows(db, rows, T) \in [heap : SUBSET Row, delta : SUBSET DeltaEntry]
  BY <1>1, <1>2 DEF WriteRows, Without
<1> QED
  BY <1>3, <1>4

LEMMA LiveInit ==
  ASSUME TierKeys # {}
  PROVE  Init => LiveInv
<1> SUFFICES ASSUME Init PROVE LiveInv
  OBVIOUS
<1>1. TableInv
  BY TableInit
<1>2. News(Done) = {} /\ BlockReadsNoMore
  BY <1>1 DEF Init, Done, News, TableInv, BlockReads, BlockReadsNoMore
<1> QED
  BY <1>1, <1>2 DEF LiveInv, TableInv, TypeOK

(* A statement that begins has done nothing. *)
LEMMA LiveBegin ==
  ASSUME LiveInv, Insert \/ Delete \/ Update
  PROVE  LiveInv' /\ Visible' = Visible
<1> USE DEF LiveInv
<1>1. Visible \subseteq Row
  BY ReadType DEF Visible
<1>2. PICK pairs \in SUBSET Pair : Begin(pairs)
  <2>1. CASE Insert
    <3>1. PICK rows \in SUBSET Row : Begin({[old |-> {}, new |-> {r}] : r \in rows})
      BY <2>1 DEF Insert
    <3>2. {[old |-> {}, new |-> {r}] : r \in rows} \in SUBSET Pair
      BY DEF Pair, OneOrNone
    <3> QED
      BY <3>1, <3>2
  <2>2. CASE Delete
    <3>1. PICK rows \in SUBSET Visible : Begin({[old |-> {r}, new |-> {}] : r \in rows})
      BY <2>2 DEF Delete
    <3>2. {[old |-> {r}, new |-> {}] : r \in rows} \in SUBSET Pair
      BY <1>1 DEF Pair, OneOrNone
    <3> QED
      BY <3>1, <3>2
  <2>3. CASE Update
    <3>1. PICK rows \in SUBSET Visible : \E image \in [rows -> Row] :
            Begin({[old |-> {r}, new |-> {image[r]}] : r \in rows})
      BY <2>3 DEF Update
    <3>2. PICK image \in [rows -> Row] :
            Begin({[old |-> {r}, new |-> {image[r]}] : r \in rows})
      BY <3>1
    <3>3. {[old |-> {r}, new |-> {image[r]}] : r \in rows} \in SUBSET Pair
      BY <1>1 DEF Pair, OneOrNone
    <3> QED
      BY <3>2, <3>3
  <2> QED
    BY <2>1, <2>2, <2>3
<1>3. /\ stmt = {} /\ stmt' = pairs /\ todo' = pairs
      /\ UNCHANGED <<heap, delta, lake, cut, line, work, seen>>
  BY <1>2 DEF Begin, tiers
<1>4. Visible' = Visible /\ WorkRead' = WorkRead
  BY <1>3 DEF Visible, WorkRead
<1>5. Done = {} /\ Done' = {}
  BY <1>3 DEF Done
<1>6. Olds(Done) = {} /\ News(Done) = {} /\ Olds(Done)' = {} /\ News(Done)' = {}
  BY <1>5 DEF Olds, News
<1>7. BlockReadsNoMore'
  BY <1>4, <1>6 DEF BlockReadsNoMore
<1>8. SeenIsCurrent'
  BY <1>3 DEF SeenIsCurrent
<1> QED
  BY <1>2, <1>3, <1>4, <1>6, <1>7, <1>8

(* A chunk takes its old rows out of what the block reads and puts its new   *)
(* ones there, and none of them has expired.                                 *)
LEMMA LiveRun ==
  ASSUME LiveInv, RunChunk
  PROVE  LiveInv' /\ Visible' = Visible
<1> USE DEF LiveInv
<1>1. PICK chunk \in Chunks :
        ~Rejected(chunk) /\ work' = ApplyChunk(chunk) /\ todo' = todo \ chunk
  BY DEF RunChunk
<1>2. seen' = NothingSeen /\ UNCHANGED <<heap, delta, lake, cut, line, stmt>>
  BY DEF RunChunk, tiers
<1>3. chunk \subseteq todo /\ todo \subseteq stmt /\ stmt \subseteq Pair
  BY DEF Chunks
<1>4. seen.cut = cut /\ seen.line = line
  BY DEF RunChunk, SeenIsCurrent
<1>5. PICK old : old = Olds(chunk)
  OBVIOUS
<1>6. PICK new : new = News(chunk)
  OBVIOUS
<1>7. PICK mid : mid = DeleteRows(work, old, cut)
  OBVIOUS
<1>8. work' = WriteRows(mid, new, cut)
  BY <1>1, <1>4, <1>5, <1>6, <1>7, BothHalves
<1>9. old \subseteq Row /\ new \subseteq Row
  <2>1. \A p \in chunk : p.old \subseteq Row /\ p.new \subseteq Row
    <3>1. \A p \in chunk : p.old \in OneOrNone /\ p.new \in OneOrNone
      BY <1>3 DEF Pair
    <3> QED
      BY <3>1 DEF OneOrNone
  <2> QED
    BY <1>5, <1>6, <2>1 DEF Olds, News
<1>10. /\ mid \in [heap : SUBSET Row, delta : SUBSET DeltaEntry]
       /\ work' \in [heap : SUBSET Row, delta : SUBSET DeltaEntry]
  BY <1>7, <1>8, <1>9, HalvesKeepTypes
<1>11. MergedRead(mid.heap, mid.delta, lake, cut) \subseteq WorkRead \ old
  BY <1>7, DeleteReadsNoMore DEF WorkRead
<1>12. MergedRead(work'.heap, work'.delta, lake, cut)
         \subseteq MergedRead(mid.heap, mid.delta, lake, cut) \cup new
  BY <1>8, <1>9, WriteReadsNoMore
<1>13. WorkRead' \subseteq (WorkRead \ old) \cup new
  <2>1. WorkRead' = MergedRead(work'.heap, work'.delta, lake', cut')
    BY DEF WorkRead
  <2> QED
    BY <1>2, <1>11, <1>12, <2>1
<1>14. Done' = Done \cup chunk /\ Visible' = Visible
  BY <1>1, <1>2, <1>3 DEF Done, Visible
<1>15. Olds(Done)' = Olds(Done) \cup old /\ News(Done)' = News(Done) \cup new
  <2>1. Olds(Done') = Olds(Done) \cup old /\ News(Done') = News(Done) \cup new
    BY <1>5, <1>6, <1>14, SidesOfBoth
  <2> QED
    BY <2>1 DEF Olds, News
<1>16. BlockReadsNoMore'
  BY <1>13, <1>14, <1>15 DEF BlockReadsNoMore
<1>17. \A r \in new : r.tk >= line
  <2> SUFFICES ASSUME NEW r \in new PROVE r.tk >= line
    OBVIOUS
  <2>1. r.tk \in Nat /\ line \in Nat /\ cut \in Nat /\ line <= cut
    BY <1>9, Lines DEF SeenIsCurrent
  <2>2. Hot(r, cut) \/ ~(r.tk < line)
    BY <1>1, <1>4, <1>6 DEF Rejected, RetentionRejects, ColdRows
  <2> QED
    BY <2>1, <2>2 DEF Hot
<1>18. SeenIsCurrent'
  BY <1>2 DEF SeenIsCurrent, NothingSeen
<1> QED
  BY <1>1, <1>2, <1>3, <1>10, <1>14, <1>15, <1>16, <1>17, <1>18

(* A read of a line shows nothing, and a statement that fails or commits     *)
(* leaves a block that reads as the table.                                   *)
LEMMA LiveEnd ==
  ASSUME LiveInv, ReadCutline \/ ReadRetentionLine \/ Fail \/ Commit
  PROVE  /\ LiveInv' /\ line' = line
         /\ Visible' = Visible \/ Visible' \subseteq Visible \cup News(Done)
<1> USE DEF LiveInv
<1>1. CASE ReadCutline \/ ReadRetentionLine
  <2>1. UNCHANGED <<heap, delta, lake, cut, line, work, stmt, todo>>
    BY <1>1 DEF ReadCutline, ReadRetentionLine, tiers
  <2>2. Visible' = Visible /\ WorkRead' = WorkRead /\ Done' = Done
    BY <2>1 DEF Visible, WorkRead, Done
  <2>3. Olds(Done)' = Olds(Done) /\ News(Done)' = News(Done)
    BY <2>2 DEF Olds, News
  <2>4. SeenIsCurrent'
    BY <1>1, <2>1, NotReadIsNoCut DEF ReadCutline, ReadRetentionLine, SeenIsCurrent
  <2> QED
    BY <2>1, <2>2, <2>3, <2>4 DEF BlockReadsNoMore
<1>2. CASE Fail
  <2>1. /\ work' = Committed /\ stmt' = {} /\ todo' = {} /\ seen' = NothingSeen
        /\ UNCHANGED <<heap, delta, lake, cut, line>>
    BY <1>2 DEF Fail, tiers
  <2>2. Visible' = Visible /\ WorkRead' = Visible
    BY <2>1 DEF Visible, WorkRead, Committed
  <2>3. Olds(Done)' = {} /\ News(Done)' = {}
    BY <2>1 DEF Done, Olds, News
  <2>4. SeenIsCurrent'
    BY <2>1 DEF SeenIsCurrent, NothingSeen
  <2> QED
    BY <2>1, <2>2, <2>3, <2>4 DEF BlockReadsNoMore, Committed
<1>3. CASE Commit
  <2>1. /\ stmt' = {} /\ todo' = {} /\ heap' = work.heap /\ delta' = work.delta
        /\ UNCHANGED <<lake, cut, line, work, seen>>
    BY <1>3 DEF Commit
  <2>2. Visible' = WorkRead /\ WorkRead' = WorkRead
    BY <2>1 DEF Visible, WorkRead
  <2>3. Olds(Done)' = {} /\ News(Done)' = {}
    BY <2>1 DEF Done, Olds, News
  <2>4. SeenIsCurrent'
    BY <2>1 DEF SeenIsCurrent
  <2> QED
    BY <2>1, <2>2, <2>3, <2>4 DEF BlockReadsNoMore
<1> QED
  BY <1>1, <1>2, <1>3

(* Before the first chunk the worker may change the tiers as long as the     *)
(* merged read shows no row that it did not show.                            *)
LEMMA LiveWorker ==
  ASSUME ~WorkerRaces, LiveInv,
         NEW heap2 \in SUBSET Row, NEW lake2 \in SUBSET Row, NEW cut2 \in Cuts, line <= cut2,
         Worker(heap2, lake2, cut2),
         MergedRead(heap2, {}, lake2, cut2) \subseteq Visible
  PROVE  LiveInv' /\ Visible' \subseteq Visible
<1> USE DEF LiveInv
<1>1. /\ todo = stmt /\ seen = NothingSeen
      /\ heap' = heap2 /\ delta' = {} /\ lake' = lake2 /\ cut' = cut2
      /\ work' = [heap |-> heap2, delta |-> {}]
      /\ UNCHANGED <<line, stmt, todo, seen>>
  BY DEF Worker
<1>2. Visible' \subseteq Visible /\ WorkRead' = Visible'
  BY <1>1 DEF Visible, WorkRead
<1>3. Olds(Done)' = {} /\ News(Done)' = {}
  BY <1>1 DEF Done, Olds, News
<1>4. SeenIsCurrent'
  BY <1>1 DEF SeenIsCurrent, NothingSeen
<1> QED
  BY <1>1, <1>2, <1>3, <1>4 DEF BlockReadsNoMore

LEMMA LiveMoves ==
  ASSUME ~WorkerRaces, LiveInv, Advance \/ Compact \/ Expire
  PROVE  LiveInv' /\ Visible' \subseteq Visible
<1> USE DEF LiveInv
<1>1. /\ cut \in Cuts /\ cut \in Nat /\ line \in Nat
      /\ \A T \in Cuts : T \in Nat
      /\ \A h \in heap : h \in Row /\ h.tk \in Nat
  BY Lines DEF SeenIsCurrent
<1>2. /\ ColdRead(delta, lake, cut) = {r \in Visible : ~Hot(r, cut)}
      /\ {h \in heap : Hot(h, cut)} = {r \in Visible : Hot(r, cut)}
      /\ Visible \subseteq Row
  BY ReadType DEF Visible
<1>3. CASE Advance
  <2>1. PICK T \in Cuts :
          /\ T > cut
          /\ \E heap2 \in {heap, {h \in heap : Hot(h, T)}} :
               Worker(heap2,
                      ColdRead(delta, lake, cut) \cup {h \in heap : Hot(h, cut) /\ ~Hot(h, T)},
                      T)
    BY <1>3 DEF Advance
  <2>2. PICK lake2 : lake2 = ColdRead(delta, lake, cut)
                             \cup {h \in heap : Hot(h, cut) /\ ~Hot(h, T)}
    OBVIOUS
  <2>3. PICK heap2 \in {heap, {h \in heap : Hot(h, T)}} : Worker(heap2, lake2, T)
    BY <2>1, <2>2
  <2>4. lake2 \subseteq Visible
    BY <1>2, <2>2
  <2>5. \A r \in heap2 : r \in heap /\ (Hot(r, T) => r \in Visible)
    <3>1. \A r \in heap : Hot(r, T) => Hot(r, cut)
      BY <1>1, <2>1 DEF Hot
    <3> QED
      BY <1>2, <2>3, <3>1
  <2>6. MergedRead(heap2, {}, lake2, T) \subseteq Visible
    BY <2>4, <2>5, InRead
  <2>7. line <= T
    BY <1>1, <2>1
  <2> QED
    BY <1>2, <2>3, <2>4, <2>5, <2>6, <2>7, LiveWorker
<1>4. CASE Compact \/ Expire
  <2>1. PICK lake2 \in SUBSET ColdRead(delta, lake, cut) : Worker(heap, lake2, cut)
    BY <1>4 DEF Compact, Expire
  <2>2. MergedRead(heap, {}, lake2, cut) \subseteq Visible
    BY <1>2, <2>1, InRead
  <2>3. lake2 \in SUBSET Row
    BY <1>2, <2>1
  <2> QED
    BY <1>1, <2>1, <2>2, <2>3, LiveWorker
<1> QED
  BY <1>3, <1>4

LEMMA LiveRaise ==
  ASSUME ~WorkerRaces, LiveInv, RaiseRetentionLine
  PROVE  LiveInv' /\ Visible' = Visible
<1> USE DEF LiveInv
<1>1. /\ seen = NothingSeen /\ todo = stmt /\ line' \in Cuts /\ line' <= cut
      /\ UNCHANGED <<heap, delta, lake, cut, work, stmt, todo, seen>>
  BY DEF RaiseRetentionLine
<1>2. Visible' = Visible /\ WorkRead' = WorkRead /\ Done' = {} /\ Done = {}
  BY <1>1 DEF Visible, WorkRead, Done
<1>3. Olds(Done)' = Olds(Done) /\ News(Done)' = News(Done) /\ News(Done) = {}
  BY <1>2 DEF Olds, News
<1>4. SeenIsCurrent'
  BY <1>1 DEF SeenIsCurrent, NothingSeen
<1> QED
  BY <1>1, <1>2, <1>3, <1>4 DEF BlockReadsNoMore

LEMMA LiveStep ==
  ASSUME ~WorkerRaces, LiveInv, [Next]_vars
  PROVE  LiveInv'
<1>1. CASE UNCHANGED vars
  BY <1>1 DEF vars, LiveInv, SeenIsCurrent, BlockReadsNoMore, Visible, WorkRead, Done,
       Olds, News
<1> QED
  BY <1>1, LiveBegin, LiveRun, LiveEnd, LiveMoves, LiveRaise DEF Next

LEMMA LiveInvariant ==
  ASSUME ~WorkerRaces, TierKeys # {}
  PROVE  Spec => []LiveInv
<1>1. LiveInv /\ [Next]_vars => LiveInv'
  BY LiveStep
<1> QED
  BY <1>1, LiveInit, PTL DEF Spec

-----------------------------------------------------------------------------
(* Results, beside a worker that does not commit inside a chunk; those that  *)
(* assume ~FreeKeys, for statements that give no row the key of another one. *)

(* The heap, the overlay and the lake hold at most one version of a key each. *)
THEOREM TableTypes ==
  ASSUME ~FreeKeys, ~WorkerRaces, TierKeys # {}
  PROVE  Spec => []TypeOK
<1>1. TableInv => TypeOK
  BY DEF TableInv
<1> QED
  BY <1>1, TableInvariant, PTL

(* The merged read shows at most one row of a key, whatever INSERT, UPDATE   *)
(* and DELETE have left on either side of the seam.                          *)
THEOREM KeysAreUnique ==
  ASSUME ~FreeKeys, ~WorkerRaces, TierKeys # {}
  PROVE  Spec => []OneRowPerKey
<1>1. TableInv => OneRowPerKey
  BY DEF TableInv
<1> QED
  BY <1>1, TableInvariant, PTL

(* After its last chunk a statement reads every row it has written.          *)
THEOREM WritesAreThere ==
  ASSUME ~FreeKeys, ~WorkerRaces, TierKeys # {}
  PROVE  Spec => []WrittenIsThere
<1>1. ASSUME TableInv PROVE WrittenIsThere
  <2>1. todo = {} => Done = stmt
    BY DEF Done
  <2> QED
    BY <1>1, <2>1 DEF TableInv, BlockReads, WrittenIsThere, Handled
<1> QED
  BY <1>1, TableInvariant, PTL

(* And, whatever keys the statements give, none that it was told to remove    *)
(* and did not write again: the race of the worker is the only way to lose a *)
(* DELETE, on a table that has come to hold a key twice as well.             *)
THEOREM RemovedAreGone ==
  ASSUME ~WorkerRaces, TierKeys # {}
  PROVE  Spec => []RemovedIsGone
<1>1. ASSUME LiveInv PROVE RemovedIsGone
  <2>1. todo = {} => Done = stmt
    BY DEF Done
  <2> QED
    BY <1>1, <2>1 DEF LiveInv, BlockReadsNoMore, RemovedIsGone, Handled
<1> QED
  BY <1>1, LiveInvariant, PTL

(* A row that comes into the table is not one that has expired, whatever     *)
(* keys the statements give.                                                 *)
THEOREM ExpiredStayAway ==
  ASSUME ~WorkerRaces, TierKeys # {}
  PROVE  Spec => ExpiredStaysAway
<1>1. ASSUME LiveInv, [Next]_vars
      PROVE  [\A r \in Visible' \ Visible : r.tk >= line']_vars
  <2>1. CASE UNCHANGED vars
    BY <2>1
  <2>2. CASE ReadCutline \/ ReadRetentionLine \/ Fail \/ Commit
    <3>1. \A r \in Visible' \ Visible : r \in News(Done)
      BY <1>1, <2>2, LiveEnd
    <3>2. \A r \in News(Done) : r.tk >= line'
      BY <1>1, <2>2, LiveEnd DEF LiveInv
    <3> QED
      BY <3>1, <3>2
  <2>3. CASE Next /\ ~(ReadCutline \/ ReadRetentionLine \/ Fail \/ Commit)
    <3>1. Visible' \subseteq Visible
      BY <1>1, <2>3, LiveBegin, LiveRun, LiveMoves, LiveRaise DEF Next
    <3> QED
      BY <3>1
  <2> QED
    BY <1>1, <2>1, <2>2, <2>3
<1> QED
  BY <1>1, LiveInvariant, PTL DEF Spec, ExpiredStaysAway

(* The tiers implement one logical table: chunks, folding, eviction and the  *)
(* moves of the cut-line do not show, a commit is the statement as announced *)
(* and as a whole, and a failed one is nothing.                              *)
THEOREM TiersAreOneTable ==
  ASSUME ~FreeKeys, ~WorkerRaces, TierKeys # {}
  PROVE  Spec => ImplementsLogicalTable
<1>1. Init => Table!Init
  <2>1. Init => Lowest \in Nat
    BY LowestIsCut, Lines
  <2> QED
    BY <2>1, TableInit DEF Init, Table!Init
<1>2. ASSUME TableInv, [Next]_vars
      PROVE  [Table!Next]_<<Visible, stmt, line>>
  <2>1. CASE UNCHANGED vars
    BY <2>1 DEF vars, Visible
  <2>2. CASE Insert \/ Delete \/ Update
    <3>1. /\ TableInv' /\ Visible' = Visible
          /\ stmt = {} /\ stmt' # {} /\ line' = line
          /\ Olds(stmt') \subseteq Visible /\ DistinctKeys(News(stmt'))
      BY <1>2, <2>2, InsertStep, DeleteStep, UpdateStep
    <3>2. Table!Begin
      BY <3>1 DEF Table!Begin, Table!Olds, Table!News, Olds, News, DistinctKeys
    <3> QED
      BY <3>2 DEF Table!Next
  <2>3. CASE ReadCutline \/ ReadRetentionLine \/ RunChunk \/ Advance \/ Compact
    BY <1>2, <2>3, ReadStep, RunStep, AdvanceStep, CompactStep
  <2>4. CASE Fail
    BY <1>2, <2>4, FailStep DEF Table!Next, Table!Fail
  <2>5. CASE Commit
    <3>1. /\ stmt # {} /\ stmt' = {} /\ line' = line
          /\ Visible' = (Visible \ Olds(stmt)) \cup News(stmt)
          /\ \A r \in Olds(stmt) \cup News(stmt) : r.tk >= line
          /\ KeysOf(News(stmt)) \cap KeysOf(Visible \ Olds(stmt)) = {}
      BY <1>2, <2>5, CommitStep
    <3>2. Table!Olds(stmt) = Olds(stmt) /\ Table!News(stmt) = News(stmt)
      BY DEF Table!Olds, Table!News, Olds, News
    <3>3. {r \in Visible \ Olds(stmt) : \A s \in News(stmt) : r.key # s.key}
            = Visible \ Olds(stmt)
      BY <3>1 DEF KeysOf
    <3>4. Table!Apply
      BY <3>1, <3>2, <3>3 DEF Table!Apply
    <3> QED
      BY <3>4 DEF Table!Next
  <2>6. CASE Expire
    BY <1>2, <2>6, ExpireStep, Folded DEF Table!Next, Table!Expire
  <2>7. CASE RaiseRetentionLine
    BY <1>2, <2>7, RaiseStep DEF Table!Next, Table!Expire
  <2> QED
    BY <1>2, <2>1, <2>2, <2>3, <2>4, <2>5, <2>6, <2>7 DEF Next
<1> QED
  BY <1>1, <1>2, TableInvariant, PTL DEF Spec, ImplementsLogicalTable, Table!Spec, Table!vars

==============================================================================
