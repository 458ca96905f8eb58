------------------------------ MODULE MCReports ------------------------------
(* Instances of Reports for TLC: a plan on offer, and one on the roadmap that  *)
(* has a price all the same.                                                   *)
EXTENDS Reports

MCPrice == [p \in Plans |-> IF p = "basic" THEN 2 ELSE 5]
MCFee == [p \in Plans |-> 1]
MCPeriods == {None, <<0, 0>>}
=============================================================================
