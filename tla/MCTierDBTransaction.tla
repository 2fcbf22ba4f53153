------------------------ MODULE MCTierDBTransaction ------------------------
(***************************************************************************)
(* Instances of TierDBTransaction for TLC.  Two transactions meet on the   *)
(* session in every order; a third suffers from what they leave behind.    *)
(* "events" has a cut-line and "mirror" has none.                          *)
(***************************************************************************)
EXTENDS TierDBTransaction

CONSTANTS t1, t2, t3,    \* transactions
          events, mirror \* tables

TwoTxns == {t1, t2}
ThreeTxns == {t1, t2, t3}
OneTable == {events}
TwoTables == {events, mirror}
OnlyMirror == {mirror}

AllFaults == {"chunk", "read", "render", "refuse", "release", "lost"}
SerialFaults == {"chunk", "read", "render", "lost"}
OrderedFaults == AllFaults \ {"refuse"}
None == {}
=============================================================================
