----------------------------- MODULE TierDBPins -----------------------------
(***************************************************************************)
(* What the read pins are for: the transactions of TierDBTransaction next  *)
(* to the lake worker, which is another process with a session of its own. *)
(*                                                                         *)
(* A merged read is rendered against a frozen cut-line and lake snapshot,  *)
(* a generation here.  It runs later, on connections of its own, and in    *)
(* every statement of its transaction; so the worker must not reclaim the  *)
(* generation meanwhile.  All that the worker goes by are the pin rows     *)
(* that are durable and younger than READ_PIN_TTL_SECS.                    *)
(*                                                                         *)
(* acquire_scan reads the cut-line in one round trip, and its pin becomes  *)
(* visible in a later one, the COMMIT.  conn_lock keeps the catalog's own  *)
(* calls out of the time between, and nothing keeps the worker out: the    *)
(* block's REPEATABLE READ freezes what it reads and locks none of it.     *)
(*                                                                         *)
(* Some definitions are preceded by variants of themselves that no action  *)
(* uses: each makes a mistake that the properties at the end must notice.  *)
(***************************************************************************)
EXTENDS TierDBTransaction

CONSTANT MaxGeneration \* bound: cut-lines that the worker publishes

ASSUME MaxGenerationOK == MaxGeneration \in Nat

Generation == 0..MaxGeneration

VARIABLES
  published, \* the cut-line of each table, by its generation
  floor,     \* the oldest generation that can still be read
  acquiring, \* the acquire_scan that has conn_lock, and the cut-line it has read
  pinnedAt,  \* the generation in a pin row, and in the scan rendered with it
  hidden,    \* pins that were not durable when their scan was handed out
  late,      \* pins whose generation was reclaimed before that
  expired    \* pins older than the TTL

lakeVars == <<published, floor>>
pinVars == <<acquiring, pinnedAt, hidden, late, expired>>
allVars == <<vars, lakeVars, pinVars>>

Acquisition == [pin : Pin, at : Generation]

PinsTypeOK ==
  /\ TypeOK
  /\ published \in [Tables -> Generation]
  /\ floor \in [Tables -> Generation]
  /\ \A table \in Tables : floor[table] <= published[table]
  /\ acquiring \subseteq Acquisition
  /\ \A scan, other \in acquiring : scan = other
  /\ \A scan \in acquiring : scan.at <= published[scan.pin.table]
  /\ pinnedAt \in [Pin -> Generation]
  /\ \A pin \in Pin : pinnedAt[pin] <= published[pin.table]
  /\ hidden \subseteq Pin
  /\ late \subseteq Pin
  /\ expired \subseteq Pin

PinsInit ==
  /\ Init
  /\ published = [table \in Tables |-> 0]
  /\ floor = [table \in Tables |-> 0]
  /\ acquiring = {}
  /\ pinnedAt = [pin \in Pin |-> 0]
  /\ hidden = {}
  /\ late = {}
  /\ expired = {}

-----------------------------------------------------------------------------
(* The scans. *)

(* The cut-line that the pin row and the rendered scan are given. *)
NextCutline(table) == published[table] + 1
Cutline(table) == published[table]

(* acquire_scan has conn_lock from here to its end.  A call that fails before *)
(* it has read the cut-line makes no use of what it is said to read here.    *)
ReadCutline(t, table) ==
  /\ acquiring = {}
  /\ phase[t] = "active" /\ table \notin cached[t]
  /\ acquiring' = {[pin |-> PinRow(t, table), at |-> Cutline(table)]}
  /\ UNCHANGED <<vars, lakeVars, pinnedAt, hidden, late, expired>>

(* The pin row, its COMMIT in a short block, and the scan that is handed out, *)
(* or the failure of one of them.                                            *)
AcquireScan(scan) ==
  LET pin == scan.pin IN
  /\ GetPinnedScan(pin.txn, pin.table) \/ GetPinnedScanFails(pin.txn, pin.table)
  /\ acquiring' = {}
  /\ pinnedAt' = [pinnedAt EXCEPT ![pin] = scan.at]
  /\ hidden' = hidden \cup ({pin} \ pg'.base.pins)
  /\ late' = IF scan.at < floor[pin.table] THEN late \cup {pin} ELSE late
  /\ UNCHANGED <<lakeVars, expired>>

(* Any other call of the client waits for conn_lock; so do DuckDB's own steps *)
(* here, which have no part in what a call does.                             *)
OtherStep(t) ==
  /\ acquiring = {}
  /\ \/ StartTransaction(t)
     \/ EnsureWriteTxn(t) \/ EnsureWriteTxnFails(t) \/ Chunk(t) \/ ChunkFails(t)
     \/ CommitWrite(t) \/ CommitWriteFails(t) \/ RollbackWrite(t)
     \/ FinishBoundary(t)
  /\ UNCHANGED <<lakeVars, pinVars>>

LoseConnection == ConnectionLost /\ UNCHANGED <<lakeVars, pinVars>>

-----------------------------------------------------------------------------
(* The clock and the worker. *)

(* A pin row without an expiry. *)
NeverExpires(pin) == FALSE /\ UNCHANGED allVars

(* The TTL is given to the pin row once: the pin expires while its           *)
(* transaction goes on, or after its release has failed.                     *)
Expire(pin) ==
  /\ pin \in pg.base.pins \cup pg.work.pins
  /\ pin \notin expired
  /\ expired' = expired \cup {pin}
  /\ UNCHANGED <<vars, lakeVars, acquiring, pinnedAt, hidden, late>>

(* Rows move from the heap to the lake. *)
Advance(table) ==
  /\ table \notin HotOnly
  /\ published[table] < MaxGeneration
  /\ published' = [published EXCEPT ![table] = @ + 1]
  /\ UNCHANGED <<vars, floor, pinVars>>

(* The oldest generation goes: its lake snapshot, and the heap rows that it  *)
(* had above its cut-line and later ones have below theirs.                  *)
Reclaim(table) ==
  /\ floor[table] < published[table]
  /\ \A pin \in pg.base.pins :
       pin.table = table => pin \in expired \/ pinnedAt[pin] > floor[table]
  /\ floor' = [floor EXCEPT ![table] = @ + 1]
  /\ UNCHANGED <<vars, published, pinVars>>

PinsNext ==
  \/ \E t \in Txns : OtherStep(t) \/ \E table \in Tables : ReadCutline(t, table)
  \/ \E scan \in acquiring : AcquireScan(scan)
  \/ \E pin \in Pin : Expire(pin)
  \/ \E table \in Tables : Advance(table) \/ Reclaim(table)
  \/ LoseConnection
  \/ AllEnded /\ UNCHANGED <<lakeVars, pinVars>>

(* Time passes, and the worker goes on reclaiming what it may; of the        *)
(* transactions nothing is assumed.                                          *)
PinsSpec ==
  /\ PinsInit /\ [][PinsNext]_allVars
  /\ \A pin \in Pin : WF_allVars(Expire(pin))
  /\ \A table \in Tables : WF_allVars(Reclaim(table))

-----------------------------------------------------------------------------
Readable(t, table) == pinnedAt[PinRow(t, table)] >= floor[table]

ReadableUnless(excepted) ==
  \A t \in Txns : \A table \in pins[t] :
    phase[t] = "active" /\ PinRow(t, table) \notin expired \cup excepted => Readable(t, table)

(* "so the pin matches exactly what the scan reads and the lake worker       *)
(* cannot reclaim it mid-read" (scan.rs:37), for every statement that may    *)
(* still use the scan.  It fails in two ways, and is asked without the other *)
(* one of them each time: of pins that the worker saw when the scan was       *)
(* handed out, whatever it had reclaimed until then,                         *)
VisiblyPinnedIsReadable == ReadableUnless(hidden)

(* and of pins whose generation was still there then, be it in a write block *)
(* that the scan has joined.                                                 *)
TimelyPinnedIsReadable == ReadableUnless(late)

(* What is true, whatever the other transactions of the session do and       *)
(* whichever calls fail: a scan whose pin was durable and whose generation   *)
(* was there when it was handed out stays readable until its transaction     *)
(* comes to its boundary or the TTL has passed.                              *)
GuardedIsReadable == ReadableUnless(hidden \cup late)

(* "the pin rows carry a TTL and will expire on their own"                   *)
(* (tierdb_transaction_manager.cpp:54): no pin that a failed release, a lost *)
(* connection or an open transaction has left holds the worker back for      *)
(* good.                                                                     *)
ReclaimCatchesUp ==
  \A table \in Tables :
    floor[table] < published[table] ~> floor[table] = published[table]
=============================================================================
