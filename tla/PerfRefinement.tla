--------------------------- MODULE PerfRefinement ---------------------------
(***************************************************************************)
(* The scenario table implements an Arbiter for each ranked resource: a    *)
(* slot claims the resource while perfScnUpdate would consider it, and the *)
(* kernel node is what the resource is given.                              *)
(***************************************************************************)
EXTENDS PerfService

\* The absence of a claim is not a claim.
ASSUME NoClaimAssumption == NoCmd \notin [prio : Int, val : Int]

ClaimOf(r) == [s \in Slot |-> IF s \in Holders(r)
                              THEN [prio |-> priority[s], val |-> scn_rsc[s][r]]
                              ELSE NoCmd]

A(r) == INSTANCE Arbiter WITH Claimant <- Slot, Comp <- Comp[r],
                              Default <- DefVal[r], NoClaim <- NoCmd,
                              claim <- ClaimOf(r), given <- node[r]

\* While no lock changes its priority (see Arbitration for what goes wrong then),
\* every call on the table - a registration, an acquire, a re-acquire, a release,
\* and each slot of a sweep for dead owners or for screen-off - moves at most one
\* claim, and writes the value deserved by the new claims in that same step.
\* (This is \A r \in Rsc : A(r)!Spec, written as one initial condition and one
\* condition on steps.)
ImplementsArbiter ==
  /\ \A r \in Rsc : A(r)!Init
  /\ [][\A r \in Rsc : [A(r)!Next]_<<ClaimOf(r), node[r]>>]_vars
=============================================================================
