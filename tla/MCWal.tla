-------------------------------- MODULE MCWal ---------------------------------
(* Instances of OrvWal for TLC: one table, values that show each way JSON    *)
(* and comparison can disagree.                                              *)
EXTENDS OrvWalRefines

CONSTANTS users, a, nan, void

\* An ordinary value, and NaN, which compares unequal to everything and comes
\* back from JSON as void.
ThreeVals == {a, nan, void}
OneVal    == {a}
NanToVoid == [v \in Vals |-> IF v = nan THEN void ELSE v]

\* What a program that never loads a JSON snapshot uses.
LoggedOps == OpNames \ {"save", "load"}
ServerOps == LoggedOps \ {"wal"}
==============================================================================
