----------------------------- MODULE AtomicTxns ------------------------------
(***************************************************************************)
(* What a DuckDB transaction over an attached TierDB database is promised: *)
(* its writes reach the database together, when it commits, or not at all. *)
(* A commit that fails may leave them all or none, never a part; where      *)
(* MayDrop, so may one that reports success.                               *)
(***************************************************************************)
CONSTANTS Txns,      \* DuckDB transactions
          RowsOf(_), \* the row writes each of them may make
          MayDrop    \* may a commit that reports success have dropped them?

VARIABLES store,  \* the durable row writes
          buffer, \* the row writes each transaction has made
          result  \* how each transaction ended

vars == <<store, buffer, result>>

TypeOK ==
  /\ store \subseteq UNION {RowsOf(t) : t \in Txns}
  /\ \A t \in Txns : buffer[t] \subseteq RowsOf(t)
  /\ result \in [Txns -> {"open", "committed", "aborted", "failed"}]

Init ==
  /\ store = {}
  /\ buffer = [t \in Txns |-> {}]
  /\ result = [t \in Txns |-> "open"]

Write(t) ==
  /\ result[t] = "open"
  /\ \E rows \in SUBSET RowsOf(t) : buffer' = [buffer EXCEPT ![t] = @ \cup rows]
  /\ UNCHANGED <<store, result>>

Commit(t) ==
  /\ result[t] = "open"
  /\ store' = store \cup buffer[t]
  /\ result' = [result EXCEPT ![t] = "committed"]
  /\ UNCHANGED buffer

Drop(t) ==
  /\ MayDrop
  /\ result[t] = "open"
  /\ result' = [result EXCEPT ![t] = "committed"]
  /\ UNCHANGED <<store, buffer>>

Abort(t) ==
  /\ result[t] = "open"
  /\ result' = [result EXCEPT ![t] = "aborted"]
  /\ UNCHANGED <<store, buffer>>

FailToCommit(t) ==
  /\ result[t] = "open"
  /\ store' \in {store, store \cup buffer[t]}
  /\ result' = [result EXCEPT ![t] = "failed"]
  /\ UNCHANGED buffer

Next ==
  \E t \in Txns : Write(t) \/ Commit(t) \/ Drop(t) \/ Abort(t) \/ FailToCommit(t)

Spec == Init /\ [][Next]_vars

==============================================================================
