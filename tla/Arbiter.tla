------------------------------ MODULE Arbiter ------------------------------
(***************************************************************************)
(* What the arbitration of one ranked resource promises to its clients.    *)
(* Each claimant may have a claim, a value with a priority.  A step is one *)
(* claimant's claim appearing, changing or going; in the same step the     *)
(* resource is given the best value of the highest priority, or the        *)
(* default when there is no claim.  A smaller number is a higher priority. *)
(***************************************************************************)
EXTENDS Integers

CONSTANTS
  Claimant,   \* those who may have a claim
  Comp,       \* "SMALLEST" or "BIGGEST"
  Default,    \* given when nobody claims
  NoClaim     \* a claimant without a claim

VARIABLES
  claim,      \* the claim of each claimant: NoClaim or [prio, val]
  given       \* the value of the resource

Claimants(cl) == {c \in Claimant : cl[c] # NoClaim}

Beats(a, b) == \/ a.prio < b.prio
               \/ a.prio = b.prio /\ IF Comp = "SMALLEST" THEN a.val < b.val
                                                          ELSE a.val > b.val

\* The value that claims cl deserve.
Deserved(cl) ==
  IF Claimants(cl) = {} THEN {Default}
  ELSE {cl[c].val : c \in {c \in Claimants(cl) :
                             \A d \in Claimants(cl) : ~Beats(cl[d], cl[c])}}

Init == /\ claim = [c \in Claimant |-> NoClaim]
        /\ given = Default

\* One claim changes, and the resource follows in the same step.
Change(c) == /\ \A d \in Claimant \ {c} : claim'[d] = claim[d]
             /\ given' \in Deserved(claim')

Next == \E c \in Claimant : Change(c)

Spec == Init /\ [][Next]_<<claim, given>>
=============================================================================
