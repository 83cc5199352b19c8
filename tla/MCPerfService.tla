--------------------------- MODULE MCPerfService ---------------------------
(***************************************************************************)
(* Small instances of PerfService for TLC.  Resource "floor" takes the     *)
(* biggest request, like a minimum frequency; "ceil" takes the smallest.   *)
(***************************************************************************)
EXTENDS PerfRefinement

MCComp == [r \in Rsc |-> IF r = "floor" THEN "BIGGEST" ELSE "SMALLEST"]
MCMin == [r \in Rsc |-> 0]
MCMax == [r \in Rsc |-> 1]
MCDef == [r \in Rsc |-> IF r = "floor" THEN 0 ELSE 1]
\* One value beyond the range, to be clamped.
MCAsk == [r \in Rsc |-> {0, 2}]
=============================================================================
