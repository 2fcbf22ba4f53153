---------------------------- MODULE MCTierDBWrite ----------------------------
(***************************************************************************)
(* Instances of TierDBWrite for TLC: two keys, so that the rows of a         *)
(* statement can meet, or one key with versions that differ in their value  *)
(* and in three tier keys: below the retention line, cold and hot.          *)
(***************************************************************************)
EXTENDS TierDBWrite, TLC

CONSTANTS k1, k2, v1, v2

OneKey == {k1}
TwoKeys == {k1, k2}
OneVal == {v1}
TwoVals == {v1, v2}
TwoTierKeys == 0..1
ThreeTierKeys == 0..2

\* Keys are only compared, and no CHOOSE is over them.
KeySymmetry == Permutations(Keys)
=============================================================================
