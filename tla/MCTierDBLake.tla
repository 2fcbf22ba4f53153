---------------------------- MODULE MCTierDBLake ----------------------------
(***************************************************************************)
(* Instances of TierDBLake for TLC: two processes write two direct tables, *)
(* so that they can wait for each other's locks.                           *)
(***************************************************************************)
EXTENDS TierDBLake

CONSTANTS t1, t2,   \* transactions
          ice, snow \* direct tables

TwoTxns == {t1, t2}
TwoTables == {ice, snow}
SomeChunks == {[table |-> ice, kind |-> "insert"],
               [table |-> snow, kind |-> "delete"]}
AllFaults == {"chunk", "lake", "conflict", "misread", "refuse", "lost", "crash"}
=============================================================================
