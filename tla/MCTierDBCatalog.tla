--------------------------- MODULE MCTierDBCatalog ---------------------------
(***************************************************************************)
(* Instances of TierDBCatalog for TLC: two threads, two schemas, and two   *)
(* spellings of one name of which tierdb.tables holds either.              *)
(***************************************************************************)
EXTENDS TierDBCatalog

CONSTANTS th1, th2,   \* threads
          public, aux \* schemas

TwoThreads == {th1, th2}
TwoSchemas == {public, aux}
TwoNames == {"orders", "Orders"}
LowerCase == [n \in TwoNames |-> "orders"]
SomeTables == {[schema |-> public, name |-> "orders"],
               [schema |-> public, name |-> "Orders"],
               [schema |-> aux, name |-> "orders"]}
OneTable == {[schema |-> public, name |-> "orders"]}
=============================================================================
