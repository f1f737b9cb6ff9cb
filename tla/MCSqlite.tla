------------------------------- MODULE MCSqlite -------------------------------
(* Instances of OrvSqlite for TLC, with the values of MCWal.                *)
EXTENDS OrvSqlite

CONSTANTS users, a, nan, void

ThreeVals == {a, nan, void}
NanToVoid == [v \in Vals |-> IF v = nan THEN void ELSE v]
==============================================================================
