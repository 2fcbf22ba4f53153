----------------------------- MODULE MCTierDBPins -----------------------------
(***************************************************************************)
(* Instances of TierDBPins for TLC: two transactions on the session, and a *)
(* worker that moves the cut-line of one table.                            *)
(***************************************************************************)
EXTENDS TierDBPins

CONSTANTS t1, t2, \* transactions
          events  \* a table

OneTxn == {t1}
TwoTxns == {t1, t2}
OneTable == {events}

AllFaults == {"chunk", "read", "render", "refuse", "release", "lost"}
None == {}
===============================================================================
