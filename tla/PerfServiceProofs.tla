------------------------- MODULE PerfServiceProofs -------------------------
(***************************************************************************)
(* Proofs about PerfService, for every number of slots and resources: what *)
(* its inductive invariant says of the table, that the table implements    *)
(* the Arbiter, and that the sweeps do what they are for.                  *)
(***************************************************************************)
EXTENDS PerfRefinement, FiniteSetTheorems, LoopTheorems, TLAPS

\* Slots are finitely many natural numbers.
LEMMA SlotFact == Slot \subseteq Nat /\ IsFiniteSet(Slot)
<1>1. N \in Nat
  BY ConstantAssumption
<1>2. IsFiniteSet(1..N)
  BY <1>1, FS_Interval
<1> QED
  BY <1>1, <1>2 DEF Slot

\* The preference of a resource is a strict order on the values of slots.
LEMMA BetterIsOrder ==
  ASSUME NEW r \in Rsc, NEW a \in Int, NEW b \in Int, NEW c \in Int
  PROVE  /\ ~Better(r, a, a)
         /\ Better(r, a, b) /\ Better(r, b, c) => Better(r, a, c)
         /\ ~Better(r, a, b) /\ ~Better(r, b, a) => a = b
BY DEF Better

\* Among the slots of a nonempty set, some slot is beaten by none, and there is
\* a first such slot: the search of perfScnUpdate always finds a winner.
LEMMA RulerExists ==
  ASSUME NEW r \in Rsc, NEW S \in SUBSET Slot, S # {},
         NEW p, \A s \in S : p[s] \in Int,
         NEW v, \A s \in S : v[s] \in Int
  PROVE  LET rules(s) == \A t \in S : \/ p[s] < p[t]
                                      \/ p[s] = p[t] /\ ~Better(r, v[t], v[s])
         IN  \E s \in S : rules(s) /\ \A t \in S : rules(t) => s <= t
<1> DEFINE beats(t, s) == p[t] < p[s] \/ (p[t] = p[s] /\ Better(r, v[t], v[s]))
           above(s) == {t \in S : beats(t, s)}
           rules(s) == \A t \in S : \/ p[s] < p[t]
                                    \/ p[s] = p[t] /\ ~Better(r, v[t], v[s])
<1>1. IsFiniteSet(S)
  BY SlotFact, FS_Subset
<1>2. ASSUME NEW s \in S, NEW t \in S, beats(t, s)
      PROVE  Cardinality(above(t)) < Cardinality(above(s))
  <2>1. above(t) \subseteq above(s)
    BY <1>2, BetterIsOrder
  <2>2. t \in above(s) /\ t \notin above(t)
    BY <1>2, BetterIsOrder
  <2>3. IsFiniteSet(above(s)) /\ IsFiniteSet(above(t))
    BY <1>1, FS_Subset
  <2>4. above(t) \in SUBSET above(s) /\ above(t) # above(s)
    BY <2>1, <2>2
  <2>5. /\ Cardinality(above(t)) <= Cardinality(above(s))
        /\ Cardinality(above(s)) = Cardinality(above(t)) => above(s) = above(t)
    <3> HIDE DEF above
    <3> QED BY <2>3, <2>4, FS_Subset
  <2>6. Cardinality(above(t)) \in Nat /\ Cardinality(above(s)) \in Nat
    <3> HIDE DEF above
    <3> QED BY <2>3, FS_CardinalityType
  <2> HIDE DEF above
  <2> QED BY <2>4, <2>5, <2>6
<1>3. \A s \in S : Cardinality(above(s)) \in Nat
  <2> TAKE s \in S
  <2>1. IsFiniteSet(above(s))
    BY <1>1, FS_Subset
  <2> HIDE DEF above
  <2> QED BY <2>1, FS_CardinalityType
<1>4. PICK s \in S : \A t \in S : Cardinality(above(s)) <= Cardinality(above(t))
  <2> HIDE DEF above
  <2> DEFINE T == {Cardinality(above(s)) : s \in S}
  <2>1. T \subseteq Nat /\ T # {}
    BY <1>3
  <2>2. PICK x \in T : \A y \in T : x <= y
    <3> HIDE DEF T
    <3> QED BY <2>1, LeastNat
  <2> QED BY <2>2
<1>5. rules(s)
  <2> SUFFICES ASSUME NEW t \in S, beats(t, s) PROVE FALSE
    BY DEF Better
  <2>1. Cardinality(above(t)) < Cardinality(above(s))
    BY <1>2
  <2> HIDE DEF above
  <2> QED BY <2>1, <1>3, <1>4
<1>6. \E f \in {t \in S : rules(t)} : \A t \in {t \in S : rules(t)} : f <= t
  <2> HIDE DEF rules
  <2>1. {t \in S : rules(t)} \subseteq Nat
    BY SlotFact
  <2> QED BY <1>5, <2>1, LeastNat
<1> QED
  BY <1>6

-----------------------------------------------------------------------------
(***************************************************************************)
(* Types.                                                                  *)
(***************************************************************************)

\* The resting value of a resource is an integer outside its range, and beats
\* no value that a slot or an entry may have.
LEMMA ResetValFact ==
  ASSUME NEW r \in Rsc
  PROVE  /\ resetVal \in [Rsc -> Int]
         /\ RscVal(r) \subseteq Int
         /\ resetVal[r] \in RscVal(r)
         /\ \A v \in RscVal(r) : ~Better(r, resetVal[r], v)
         /\ \A v \in RscVal(r) : v # resetVal[r] => Better(r, v, resetVal[r])
BY ConstantAssumption DEF resetVal, RscVal, Better

\* The search of perfScnUpdate finds a ruling slot in the new table.
LEMMA SearchFinds ==
  ASSUME ScnTypeOK', NEW r \in Rsc, Holders(r)' # {}
  PROVE  Winner(r)' \in Slot /\ Rules(r, Winner(r))'
<1> DEFINE S == Holders(r)'
           v == [s \in Slot |-> scn_rsc'[s][r]]
           rules(s) == \A t \in S : \/ priority'[s] < priority'[t]
                                    \/ /\ priority'[s] = priority'[t]
                                       /\ ~Better(r, v[t], v[s])
<1>1. S \in SUBSET Slot /\ S # {}
  BY DEF Holders
<1>2. \A s \in S : priority'[s] \in Int /\ v[s] \in Int
  BY <1>1 DEF ScnTypeOK
<1>3. \E s \in S : rules(s) /\ \A t \in S : rules(t) => s <= t
  <2> HIDE DEF S, v
  <2> QED BY <1>1, <1>2, RulerExists
<1>4. \A s \in Slot : Rules(r, s)' <=> s \in S /\ rules(s)
  BY <1>1 DEF Rules, Better
<1>5. \E s \in Slot : Rules(r, s)' /\ \A t \in Slot : Rules(r, t)' => s <= t
  <2> HIDE DEF S, rules
  <2> QED BY <1>1, <1>3, <1>4
<1> QED
  BY <1>5 DEF Winner

\* A registered or reset slot has the right types and no claim.
LEMMA SetSlotFact ==
  ASSUME TypeOK, FreeSlotClean, NEW s \in Slot, NEW type \in ScnType \cup {"free"},
         NEW owner \in Pid \cup {NoPid}, NEW short \in BOOLEAN,
         SetSlot(s, type, owner, short)
  PROVE  ScnTypeOK' /\ FreeSlotClean'
<1>1. ScnTypeOK'
  <2>1. \A r \in Rsc : resetVal[r] \in RscVal(r)
    BY ResetValFact
  <2>2. resetVal \in [Rsc -> Int]
    BY ConstantAssumption DEF resetVal
  <2> QED BY <2>1, <2>2 DEF TypeOK, ScnTypeOK, SetSlot, NORMAL_PRIORITY, OffAction
<1>2. FreeSlotClean'
  BY DEF TypeOK, ScnTypeOK, SetSlot, FreeSlotClean, Free
<1> QED BY <1>1, <1>2

\* perfScnEnable leaves entries in range and the node in step with the table.
LEMMA EnableFact ==
  ASSUME TypeOK, NodeFollowsTable, ScnTypeOK', NEW s \in Slot, perfScnEnable(s)
  PROVE  RscTypeOK' /\ NodeFollowsTable'
<1>1. ASSUME NEW r \in Rsc, Takes(r, scn_rsc'[s][r], priority'[s])
      PROVE  scn_rsc'[s][r] # resetVal[r]
  BY <1>1, ResetValFact DEF Takes, TypeOK, RscTypeOK
<1>2. RscTypeOK'
  BY ResetValFact DEF TypeOK, RscTypeOK, ScnTypeOK, perfScnEnable
<1>3. NodeFollowsTable'
  BY <1>1 DEF perfScnEnable, NodeFollowsTable, Written
<1> QED BY <1>2, <1>3

\* So does perfScnUpdate.
LEMMA UpdateFact ==
  ASSUME TypeOK, NodeFollowsTable, ScnTypeOK', NEW redo \in SUBSET Rsc,
         perfScnUpdate(redo)
  PROVE  RscTypeOK' /\ NodeFollowsTable'
<1>1. ASSUME NEW r \in Rsc
      PROVE  /\ BestVal(r)' \in RscVal(r)
             /\ BestPriority(r)' \in Int
             /\ BestSetter(r)' \in Pid \cup {NoPid}
  <2>1. CASE Holders(r)' = {}
    BY <2>1, ResetValFact DEF BestVal, BestPriority, BestSetter, PRIORITY_LOWEST
  <2>2. CASE Holders(r)' # {}
    BY <2>2, SearchFinds DEF BestVal, BestPriority, BestSetter, ScnTypeOK
  <2> QED BY <2>1, <2>2
<1>2. \A r \in Rsc : Written(r, curVal'[r]) \in Int
  BY <1>1, ResetValFact, ConstantAssumption
    DEF Written, perfScnUpdate, TypeOK, RscTypeOK
<1>3. RscTypeOK'
  BY <1>1, <1>2, ResetValFact DEF TypeOK, RscTypeOK, perfScnUpdate
<1>4. NodeFollowsTable'
  BY DEF perfScnUpdate, NodeFollowsTable, Written
<1> QED BY <1>3, <1>4
-----------------------------------------------------------------------------
(***************************************************************************)
(* Arbitration.                                                            *)
(***************************************************************************)

\* Nothing but slot s changes as far as resource r is concerned.
OthersKept(s, r) ==
  \A t \in Slot \ {s} : /\ scn_state'[t] = scn_state[t]
                        /\ pid'[t] = pid[t]
                        /\ priority'[t] = priority[t]
                        /\ scn_rsc'[t][r] = scn_rsc[t][r]

EntryKept(r) ==
  curVal'[r] = curVal[r] /\ rscPriority'[r] = rscPriority[r] /\ curSetter'[r] = curSetter[r]

\* An entry that was searched again is arbitrated.
LEMMA SearchArbitrates ==
  ASSUME ScnTypeOK', NEW r \in Rsc, NEW redo \in SUBSET Rsc, r \in redo,
         perfScnUpdate(redo)
  PROVE  Arbitrated(r)'
<1>1. /\ curVal'[r] = BestVal(r)'
      /\ rscPriority'[r] = BestPriority(r)'
      /\ curSetter'[r] = BestSetter(r)'
  BY DEF perfScnUpdate
<1>2. CASE Holders(r)' = {}
  BY <1>1, <1>2 DEF Arbitrated, BestVal, BestPriority
<1>3. CASE Holders(r)' # {}
  BY <1>1, <1>3, SearchFinds DEF Arbitrated, BestVal, BestPriority, BestSetter
<1> QED BY <1>2, <1>3

\* An entry may be left alone when the slot that changed was not ruling it and
\* does not beat it afterwards.
LEMMA LoserArbitrated ==
  ASSUME TypeOK, ScnTypeOK', NEW s \in Slot, NEW r \in Rsc, Arbitrated(r),
         OthersKept(s, r), EntryKept(r),
         s \in Holders(r) => \/ rscPriority[r] < priority[s]
                             \/ Better(r, curVal[r], scn_rsc[s][r]),
         s \in Holders(r)' => \/ rscPriority[r] < priority'[s]
                              \/ /\ rscPriority[r] = priority'[s]
                                 /\ ~Better(r, scn_rsc'[s][r], curVal[r])
  PROVE  Arbitrated(r)'
<1>1. Holders(r)' \subseteq Slot /\ Holders(r) \subseteq Slot
  BY DEF Holders
<1>2. \A t \in Slot \ {s} : t \in Holders(r)' <=> t \in Holders(r)
  BY DEF Holders, OthersKept
<1>3. CASE Holders(r) = {}
  <2>1. curVal[r] = resetVal[r] /\ rscPriority[r] = PRIORITY_LOWEST
    BY <1>3 DEF Arbitrated
  <2>2. s \notin Holders(r)'
    <3> SUFFICES ASSUME s \in Holders(r)' PROVE FALSE
      OBVIOUS
    <3>1. /\ scn_rsc'[s][r] # resetVal[r]
          /\ priority'[s] <= PRIORITY_LOWEST
          /\ scn_rsc'[s][r] \in RscVal(r)
          /\ priority'[s] \in Int
      BY DEF Holders, ScnTypeOK
    <3>2. Better(r, scn_rsc'[s][r], resetVal[r])
      BY <3>1, ResetValFact
    <3> QED BY <2>1, <3>1, <3>2 DEF PRIORITY_LOWEST
  <2>3. Holders(r)' = {}
    BY <1>1, <1>2, <1>3, <2>2
  <2> QED BY <2>1, <2>3 DEF Arbitrated, EntryKept
<1>4. CASE Holders(r) # {}
  <2>1. PICK w \in Slot : /\ Rules(r, w)
                          /\ curVal[r] = scn_rsc[w][r]
                          /\ rscPriority[r] = priority[w]
                          /\ curSetter[r] = pid[w]
    BY <1>4 DEF Arbitrated
  <2>2. curVal[r] \in Int /\ rscPriority[r] \in Int
    BY DEF TypeOK, RscTypeOK
  <2>3. w # s
    BY <2>1, <2>2, BetterIsOrder DEF Rules
  <2>4. w \in Holders(r)'
    BY <1>2, <2>1, <2>3 DEF Rules
  <2>5. /\ curVal'[r] = scn_rsc'[w][r]
        /\ rscPriority'[r] = priority'[w]
        /\ curSetter'[r] = pid'[w]
    BY <2>1, <2>3 DEF OthersKept, EntryKept
  <2>6. ASSUME NEW t \in Holders(r)'
        PROVE  \/ priority'[w] < priority'[t]
               \/ /\ priority'[w] = priority'[t]
                  /\ ~Better(r, scn_rsc'[t][r], scn_rsc'[w][r])
    <3>1. CASE t = s
      BY <2>5, <2>6, <3>1 DEF EntryKept
    <3>2. CASE t # s
      BY <1>1, <1>2, <2>1, <2>3, <2>6, <3>2 DEF Rules, OthersKept
    <3> QED BY <3>1, <3>2
  <2>7. Rules(r, w)'
    BY <2>4, <2>6 DEF Rules
  <2> QED BY <2>4, <2>5, <2>7 DEF Arbitrated
<1> QED BY <1>3, <1>4

\* An entry that perfScnEnable gave to the slot is arbitrated.
LEMMA TakerArbitrated ==
  ASSUME TypeOK, ScnTypeOK', NEW s \in Slot, NEW r \in Rsc, Arbitrated(r),
         OthersKept(s, r), s \notin Holders(r), scn_state'[s] = "on",
         Takes(r, scn_rsc'[s][r], priority'[s]),
         curVal'[r] = scn_rsc'[s][r], rscPriority'[r] = priority'[s],
         curSetter'[r] = pid'[s]
  PROVE  Arbitrated(r)'
<1>1. Holders(r)' \subseteq Slot /\ Holders(r) \subseteq Slot
  BY DEF Holders
<1>2. \A t \in Slot \ {s} : t \in Holders(r)' <=> t \in Holders(r)
  BY DEF Holders, OthersKept
<1>3. /\ curVal[r] \in Int /\ curVal[r] \in RscVal(r) /\ rscPriority[r] \in Int
      /\ scn_rsc'[s][r] \in Int /\ scn_rsc'[s][r] \in RscVal(r)
      /\ priority'[s] \in Int
  BY DEF TypeOK, RscTypeOK, ScnTypeOK
<1>4. rscPriority[r] <= PRIORITY_LOWEST
  BY DEF Arbitrated, Rules, Holders, PRIORITY_LOWEST
<1>5. s \in Holders(r)'
  BY <1>3, <1>4, ResetValFact DEF Takes, Holders, PRIORITY_LOWEST
<1>6. ASSUME NEW t \in Holders(r)'
      PROVE  \/ priority'[s] < priority'[t]
             \/ /\ priority'[s] = priority'[t]
                /\ ~Better(r, scn_rsc'[t][r], scn_rsc'[s][r])
  <2>1. CASE t = s
    BY <2>1, <1>3, BetterIsOrder
  <2>2. CASE t # s
    <3>1. t \in Slot /\ t \in Holders(r)
      BY <1>1, <1>2, <2>2
    <3>2. PICK w \in Slot : /\ Rules(r, w)
                            /\ curVal[r] = scn_rsc[w][r]
                            /\ rscPriority[r] = priority[w]
      BY <3>1 DEF Arbitrated
    <3>3. \/ rscPriority[r] < priority[t]
          \/ rscPriority[r] = priority[t] /\ ~Better(r, scn_rsc[t][r], curVal[r])
      BY <3>1, <3>2 DEF Rules
    <3>4. /\ priority'[t] = priority[t] /\ scn_rsc'[t][r] = scn_rsc[t][r]
          /\ priority[t] \in Int /\ scn_rsc[t][r] \in Int
      BY <2>2, <3>1 DEF OthersKept, TypeOK, ScnTypeOK
    <3>5. CASE priority'[s] < rscPriority[r]
      BY <1>3, <3>3, <3>4, <3>5
    <3>6. CASE /\ priority'[s] = rscPriority[r]
               /\ Better(r, scn_rsc'[s][r], curVal[r])
      BY <1>3, <3>3, <3>4, <3>6 DEF Better
    <3> QED BY <3>5, <3>6 DEF Takes
  <2> QED BY <2>1, <2>2
<1> QED
  BY <1>5, <1>6 DEF Arbitrated, Rules
-----------------------------------------------------------------------------
(***************************************************************************)
(* The inductive invariant.  Arbitration alone is not inductive: a slot    *)
(* that is registered must have been off (FreeSlotClean), a search must    *)
(* range over integers (TypeOK), and an entry that is switched off is      *)
(* skipped by every search, so it has to be among the exceptions.          *)
(***************************************************************************)
OffIsSuspect == \A r \in Rsc : isValid[r] \/ r \in suspect

IInv == /\ TypeOK
        /\ FreeSlotClean
        /\ NodeFollowsTable
        /\ OffIsSuspect
        /\ Arbitration

\* The table that init sets up has no claims, and every entry is at rest.
LEMMA InitInv == Init => IInv
<1> SUFFICES ASSUME Init PROVE IInv
  OBVIOUS
<1>1. resetVal \in [Rsc -> Int] /\ \A r \in Rsc : resetVal[r] \in RscVal(r)
  BY ConstantAssumption DEF resetVal, RscVal
<1>2. TypeOK
  <2>1. ScnTypeOK
    BY <1>1 DEF Init, ScnTypeOK, NORMAL_PRIORITY, OffAction
  <2>2. RscTypeOK
    BY <1>1, ConstantAssumption DEF Init, RscTypeOK, PRIORITY_LOWEST
  <2>3. sweep \in SweepType
    BY ConstantAssumption DEF Init, NoSweep, SweepType, ScnType
  <2> QED BY <2>1, <2>2, <2>3 DEF Init, TypeOK
<1>3. FreeSlotClean /\ NodeFollowsTable /\ OffIsSuspect
  BY <1>1 DEF Init, FreeSlotClean, NodeFollowsTable, OffIsSuspect, Written
<1>4. Arbitration
  BY DEF Init, Arbitration, Arbitrated, Holders
<1> QED BY <1>2, <1>3, <1>4 DEF IInv

\* A step that leaves the scenario table and the entries alone.
LEMMA QuietStep ==
  ASSUME IInv, UNCHANGED <<scnVars, rscVars>>, suspect \subseteq suspect',
         suspect' \subseteq Rsc, OffIsSuspect', isValid' \in [Rsc -> BOOLEAN],
         alive' \subseteq Pid, sweep' \in SweepType
  PROVE  IInv'
<1>1. UNCHANGED <<scn_type, scn_state, pid, priority, short_lock,
                  screen_off_action, lock_rsc_size, scn_rsc,
                  curVal, curSetter, rscPriority, node>>
  BY DEF scnVars, rscVars
<1>2. TypeOK'
  BY <1>1 DEF IInv, TypeOK, ScnTypeOK, RscTypeOK
<1>3. FreeSlotClean' /\ NodeFollowsTable'
  BY <1>1 DEF IInv, FreeSlotClean, Free, NodeFollowsTable, Written
<1>4. Arbitration'
  BY <1>1 DEF IInv, Arbitration, Arbitrated, Rules, Holders
<1> QED BY <1>2, <1>3, <1>4 DEF IInv

\* A slot that is free, or off for another reason, is registered.
LEMMA RegisterStep ==
  ASSUME IInv, NEW s \in Slot, scn_state[s] = "off",
         NEW type \in ScnType, NEW owner \in Pid \cup {NoPid}, NEW short \in BOOLEAN,
         SetSlot(s, type, owner, short),
         UNCHANGED <<rscVars, isValid, alive, suspect>>, sweep' \in SweepType
  PROVE  IInv'
<1>1. ScnTypeOK' /\ FreeSlotClean'
  BY SetSlotFact DEF IInv
<1>2. UNCHANGED <<curVal, curSetter, rscPriority, node, isValid, alive, suspect>>
  BY DEF rscVars
<1>3. TypeOK' /\ NodeFollowsTable' /\ OffIsSuspect'
  BY <1>1, <1>2 DEF IInv, TypeOK, RscTypeOK, NodeFollowsTable, Written, OffIsSuspect
<1>4. ASSUME NEW r \in Rsc \ suspect' PROVE Arbitrated(r)'
  <2>1. OthersKept(s, r) /\ s \notin Holders(r)' /\ s \notin Holders(r)
    BY DEF SetSlot, OthersKept, Holders, IInv, TypeOK, ScnTypeOK
  <2>2. EntryKept(r) /\ Arbitrated(r)
    BY <1>2 DEF EntryKept, IInv, Arbitration
  <2> QED BY <1>1, <2>1, <2>2, LoserArbitrated DEF IInv
<1> QED BY <1>1, <1>3, <1>4 DEF IInv, Arbitration

\* perfScnDisable of a slot that goes off, whatever else becomes of the slot.
LEMMA DisableStep ==
  ASSUME IInv, NEW s \in Slot, perfScnDisable(s), ScnTypeOK', FreeSlotClean',
         scn_state'[s] # "on", \A r \in Rsc : OthersKept(s, r),
         UNCHANGED <<isValid, alive>>, sweep' \in SweepType
  PROVE  IInv'
<1>1. GivenUp(s) \in SUBSET Rsc /\ perfScnUpdate(GivenUp(s))
  BY DEF GivenUp, perfScnDisable
<1>2. RscTypeOK' /\ NodeFollowsTable'
  BY <1>1, UpdateFact DEF IInv
<1>3. suspect' = suspect \ GivenUp(s)
  BY DEF perfScnDisable
<1>4. OffIsSuspect'
  BY <1>3 DEF IInv, OffIsSuspect, GivenUp
<1>5. TypeOK'
  BY <1>2, <1>3 DEF IInv, TypeOK
<1>6. ASSUME NEW r \in Rsc \ suspect' PROVE Arbitrated(r)'
  <2>1. CASE r \in GivenUp(s)
    BY <1>1, <2>1, SearchArbitrates
  <2>2. CASE r \notin GivenUp(s)
    <3>1. Arbitrated(r) /\ isValid[r]
      BY <1>3, <1>6, <2>2 DEF IInv, Arbitration, OffIsSuspect
    <3>2. EntryKept(r)
      BY <1>1, <2>2 DEF EntryKept, perfScnUpdate
    <3>3. s \notin Holders(r)'
      BY DEF Holders
    <3>4. s \in Holders(r) => \/ rscPriority[r] < priority[s]
                              \/ Better(r, curVal[r], scn_rsc[s][r])
      BY <2>2, <3>1 DEF GivenUp, Holders, IInv, TypeOK, RscTypeOK, ScnTypeOK
    <3> QED BY <3>1, <3>2, <3>3, <3>4, LoserArbitrated DEF IInv
  <2> QED BY <2>1, <2>2
<1> QED BY <1>2, <1>4, <1>5, <1>6 DEF IInv, Arbitration

\* A slot is released or reaped.
LEMMA ReleaseStep ==
  ASSUME IInv, NEW s \in Slot, resetScenario(s), perfScnDisable(s),
         UNCHANGED <<isValid, alive>>, sweep' \in SweepType
  PROVE  IInv'
<1>1. ScnTypeOK' /\ FreeSlotClean'
  BY SetSlotFact DEF IInv, resetScenario
<1>2. scn_state'[s] # "on" /\ \A r \in Rsc : OthersKept(s, r)
  BY DEF resetScenario, SetSlot, OthersKept, IInv, TypeOK, ScnTypeOK
<1> QED BY <1>1, <1>2, DisableStep

\* cmdSetting clamps: what a slot asks for is in range or at rest.
LEMMA CmdSettingFact ==
  ASSUME NEW req \in Request, NEW r \in Rsc
  PROVE  cmdSetting(r, req.val[r]) \in RscVal(r)
<1>1. req.val[r] \in AskVal[r] \cup {NoCmd}
  BY DEF Request
<1>2. req.val[r] = NoCmd \/ req.val[r] \in Int
  BY <1>1, ConstantAssumption
<1>3. MinVal[r] \in Int /\ MaxVal[r] \in Int /\ MinVal[r] <= MaxVal[r]
  BY ConstantAssumption
<1> QED BY <1>2, <1>3 DEF cmdSetting, RscVal

\* The length of a command list is a natural number.
LEMMA ListSizeFact ==
  ASSUME NEW req PROVE ListSize(req) \in Nat
<1> DEFINE C == {r \in Rsc : req.val[r] # NoCmd}
<1>1. IsFiniteSet(C)
  BY ConstantAssumption, FS_Subset
<1>2. Cardinality(C) \in Nat
  <2> HIDE DEF C
  <2> QED BY <1>1, FS_CardinalityType
<1> QED
  BY <1>2 DEF ListSize, Given

\* What perfLockAcq does to the slot, whichever way the entries are treated.
LEMMA AcqSlotFact ==
  ASSUME TypeOK, FreeSlotClean, NEW s \in Slot, NEW req \in Request,
         NEW short \in AskShort, perfLockAcq(s, req, short)
  PROVE  /\ ScnTypeOK' /\ FreeSlotClean'
         /\ scn_state'[s] = "on"
         /\ pid' = pid
         /\ \A r \in Rsc : OthersKept(s, r)
<1> DEFINE asked == [r \in Rsc |-> cmdSetting(r, req.val[r])]
<1>1. /\ asked \in [Rsc -> Int]
      /\ \A r \in Rsc : asked[r] \in RscVal(r)
  BY CmdSettingFact, ResetValFact
<1>2. scn_rsc' = [scn_rsc EXCEPT ![s] = asked]
  BY DEF perfLockAcq
<1>3. /\ scn_rsc' \in [Slot -> [Rsc -> Int]]
      /\ \A t \in Slot, r \in Rsc : scn_rsc'[t][r] \in RscVal(r)
  <2> HIDE DEF asked
  <2> QED BY <1>1, <1>2 DEF TypeOK, ScnTypeOK
<1>4. priority' \in [Slot -> Int]
  BY ConstantAssumption DEF perfLockAcq, TypeOK, ScnTypeOK, Request
<1>5. screen_off_action' \in [Slot -> OffAction]
  BY ConstantAssumption DEF perfLockAcq, TypeOK, ScnTypeOK, Request, OffAction
<1>6. short_lock' \in [Slot -> BOOLEAN] /\ lock_rsc_size' \in [Slot -> Nat]
  BY ConstantAssumption, ListSizeFact DEF perfLockAcq, TypeOK, ScnTypeOK
<1>7. ScnTypeOK'
  BY <1>3, <1>4, <1>5, <1>6 DEF perfLockAcq, TypeOK, ScnTypeOK
<1>8. FreeSlotClean'
  BY <1>2 DEF perfLockAcq, FreeSlotClean, Free, TypeOK, ScnTypeOK
<1>9. scn_state'[s] = "on" /\ pid' = pid /\ \A r \in Rsc : OthersKept(s, r)
  BY <1>2 DEF perfLockAcq, OthersKept, TypeOK, ScnTypeOK
<1> QED BY <1>7, <1>8, <1>9

\* perfLockAcq on a slot that is not enabled.
LEMMA AcqEnableStep ==
  ASSUME IInv, ScnTypeOK', NEW s \in Slot, NEW r \in Rsc, scn_state[s] # "on",
         scn_state'[s] = "on", pid' = pid, OthersKept(s, r), perfScnEnable(s),
         r \notin suspect
  PROVE  Arbitrated(r)'
<1>1. Arbitrated(r) /\ isValid[r] /\ s \notin Holders(r)
  BY DEF IInv, Arbitration, OffIsSuspect, Holders
<1>2. CASE Takes(r, scn_rsc'[s][r], priority'[s])
  <2>1. /\ curVal'[r] = scn_rsc'[s][r]
        /\ rscPriority'[r] = priority'[s]
        /\ curSetter'[r] = pid'[s]
    BY <1>2 DEF perfScnEnable
  <2> QED BY <1>1, <1>2, <2>1, TakerArbitrated DEF IInv
<1>3. CASE ~Takes(r, scn_rsc'[s][r], priority'[s])
  <2>1. EntryKept(r)
    BY <1>3 DEF perfScnEnable, EntryKept
  <2>2. s \in Holders(r)' => \/ rscPriority[r] < priority'[s]
                             \/ /\ rscPriority[r] = priority'[s]
                                /\ ~Better(r, scn_rsc'[s][r], curVal[r])
    <3>1. priority'[s] \in Int /\ rscPriority[r] \in Int
      BY DEF ScnTypeOK, IInv, TypeOK, RscTypeOK
    <3>2. s \in Holders(r)' => scn_rsc'[s][r] # resetVal[r]
      BY DEF Holders
    <3> QED BY <1>1, <1>3, <3>1, <3>2 DEF Takes
  <2> QED BY <1>1, <2>1, <2>2, LoserArbitrated DEF IInv
<1> QED BY <1>2, <1>3

\* perfLockAcq that repeats the list of an enabled slot takes nothing: the slot
\* has what it can get.
LEMMA AcqRepeatStep ==
  ASSUME IInv, ScnTypeOK', NEW s \in Slot, NEW r \in Rsc, scn_state[s] = "on",
         scn_state'[s] = "on", pid' = pid, OthersKept(s, r), perfScnEnable(s),
         scn_rsc'[s][r] = scn_rsc[s][r], priority'[s] = priority[s],
         r \notin suspect
  PROVE  Arbitrated(r)'
<1>1. Arbitrated(r) /\ isValid[r]
  BY DEF IInv, Arbitration, OffIsSuspect
<1>2. /\ curVal[r] \in Int /\ curVal[r] \in RscVal(r) /\ rscPriority[r] \in Int
      /\ scn_rsc[s][r] \in RscVal(r) /\ priority[s] \in Int
  BY DEF IInv, TypeOK, RscTypeOK, ScnTypeOK
<1>3. ~Takes(r, scn_rsc[s][r], priority[s])
  <2>1. CASE s \in Holders(r)
    <3>1. PICK w \in Slot : /\ Rules(r, w)
                            /\ curVal[r] = scn_rsc[w][r]
                            /\ rscPriority[r] = priority[w]
      BY <1>1, <2>1 DEF Arbitrated
    <3> QED BY <1>2, <2>1, <3>1 DEF Takes, Rules
  <2>2. CASE scn_rsc[s][r] = resetVal[r]
    BY <1>2, <2>2, ResetValFact DEF Takes
  <2>3. CASE ~(priority[s] <= PRIORITY_LOWEST)
    <3>1. rscPriority[r] <= PRIORITY_LOWEST
      BY <1>1 DEF Arbitrated, Rules, Holders, PRIORITY_LOWEST
    <3> QED BY <1>2, <2>3, <3>1 DEF Takes, PRIORITY_LOWEST
  <2> QED BY <2>1, <2>2, <2>3 DEF Holders
<1>4. EntryKept(r)
  BY <1>3 DEF perfScnEnable, EntryKept
<1>5. Holders(r)' = Holders(r)
  BY DEF Holders, OthersKept
<1>6. /\ \A t \in Slot : Rules(r, t)' <=> Rules(r, t)
      /\ \A t \in Slot : scn_rsc'[t][r] = scn_rsc[t][r] /\ priority'[t] = priority[t]
  BY <1>5 DEF Rules, OthersKept, Holders
<1> QED BY <1>1, <1>4, <1>5, <1>6 DEF Arbitrated, EntryKept

\* perfLockAcq keeps the invariant on each of its three paths: a slot that was
\* off, a list taken for unmodified, and a list that forces an update.
LEMMA AcqStep ==
  ASSUME IInv, NEW s \in Slot, NEW req \in Request, NEW short \in AskShort,
         perfLockAcq(s, req, short)
  PROVE  IInv'
<1>1. /\ ScnTypeOK' /\ FreeSlotClean' /\ scn_state'[s] = "on" /\ pid' = pid
      /\ \A r \in Rsc : OthersKept(s, r)
  BY AcqSlotFact DEF IInv
<1>2. UNCHANGED <<isValid, alive, sweep>>
  BY DEF perfLockAcq
<1>3. CASE scn_state[s] # "on" /\ perfScnEnable(s) /\ UNCHANGED suspect
  <2>1. RscTypeOK' /\ NodeFollowsTable'
    BY <1>1, <1>3, EnableFact DEF IInv
  <2>2. \A r \in Rsc \ suspect' : Arbitrated(r)'
    BY <1>1, <1>3, AcqEnableStep
  <2> QED BY <1>1, <1>2, <1>3, <2>1, <2>2 DEF IInv, TypeOK, OffIsSuspect, Arbitration
<1>4. CASE /\ scn_state[s] = "on" /\ perfScnEnable(s)
           /\ suspect' = suspect \cup {r \in Rsc : \/ scn_rsc'[s][r] # scn_rsc[s][r]
                                                   \/ priority'[s] # priority[s]}
  <2>1. RscTypeOK' /\ NodeFollowsTable'
    BY <1>1, <1>4, EnableFact DEF IInv
  <2>2. ASSUME NEW r \in Rsc \ suspect' PROVE Arbitrated(r)'
    <3>1. /\ r \notin suspect /\ priority'[s] = priority[s]
          /\ scn_rsc'[s][r] = scn_rsc[s][r]
      BY <1>4, <2>2
    <3> QED BY <1>1, <1>4, <3>1, AcqRepeatStep
  <2> QED BY <1>1, <1>2, <1>4, <2>1, <2>2 DEF IInv, TypeOK, OffIsSuspect, Arbitration
<1>5. CASE /\ scn_state[s] = "on" /\ perfScnUpdate(Forced(priority'[s]))
           /\ suspect' = (suspect \cup {r \in Rsc : /\ scn_rsc[s][r] # resetVal[r]
                                                    /\ priority[s] = rscPriority[r]})
                           \ Forced(priority'[s])
  <2> DEFINE redo == Forced(priority'[s])
  <2>1. redo \in SUBSET Rsc /\ perfScnUpdate(redo)
    BY <1>5 DEF Forced
  <2>2. RscTypeOK' /\ NodeFollowsTable'
    <3> HIDE DEF redo
    <3> QED BY <1>1, <2>1, UpdateFact DEF IInv
  <2>3. OffIsSuspect'
    BY <1>2, <1>5 DEF Forced, IInv, OffIsSuspect
  <2>4. ASSUME NEW r \in Rsc \ suspect' PROVE Arbitrated(r)'
    <3>1. CASE r \in redo
      <4> HIDE DEF redo
      <4> QED BY <1>1, <2>1, <3>1, SearchArbitrates
    <3>2. CASE r \notin redo
      <4>1. /\ Arbitrated(r) /\ isValid[r]
            /\ scn_rsc[s][r] = resetVal[r] \/ priority[s] # rscPriority[r]
        BY <1>5, <2>4, <3>2 DEF IInv, Arbitration, OffIsSuspect
      <4>2. /\ rscPriority[r] < priority'[s]
            /\ rscPriority[r] \in Int /\ priority[s] \in Int
        BY <1>1, <3>2, <4>1 DEF Forced, IInv, TypeOK, RscTypeOK, ScnTypeOK
      <4>3. EntryKept(r)
        BY <2>1, <3>2 DEF EntryKept, perfScnUpdate
      <4>4. s \in Holders(r) => rscPriority[r] < priority[s]
        BY <4>1, <4>2 DEF Arbitrated, Rules, Holders
      <4> QED BY <1>1, <4>1, <4>2, <4>3, <4>4, LoserArbitrated DEF IInv
    <3> QED BY <3>1, <3>2
  <2> QED BY <1>1, <1>2, <1>5, <2>2, <2>3, <2>4 DEF IInv, TypeOK, Arbitration
<1> QED
  BY <1>3, <1>4, <1>5 DEF perfLockAcq
-----------------------------------------------------------------------------
(***************************************************************************)
(* Every step, and the theorems.                                           *)
(***************************************************************************)

\* Every step of a sweep over the table keeps the invariant.
LEMMA SweepStepInv ==
  ASSUME IInv, SweepStep PROVE IInv'
<1>1. /\ sweep \in SweepType /\ N \in Nat
      /\ isValid \in [Rsc -> BOOLEAN] /\ alive \subseteq Pid /\ suspect \subseteq Rsc
      /\ OffIsSuspect
  BY ConstantAssumption DEF IInv, TypeOK
<1>2. ASSUME NEW s \in Slot, sweep.at = s
      PROVE  NextSlot \in SweepType /\ [sweep EXCEPT !.kill = TRUE] \in SweepType
  <2>1. s + 1 \in 1 .. N + 1
    BY <1>1 DEF Slot
  <2>2. NextSlot \in SweepType
    BY <1>1, <1>2, <2>1 DEF NextSlot, SweepType
  <2>3. [sweep EXCEPT !.kill = TRUE] \in SweepType
    BY <1>1 DEF SweepType
  <2> QED BY <2>2, <2>3
<1>3. ASSUME EndSweep PROVE IInv'
  <2>1. sweep' \in SweepType
    BY <1>1, <1>3 DEF EndSweep, NoSweep, SweepType, ScnType
  <2>2. CASE \E s \in Slot : FirstFree(s) /\ SetSlot(s, sweep.type, sweep.pid, sweep.short)
    <3>1. PICK s \in Slot : FirstFree(s) /\ SetSlot(s, sweep.type, sweep.pid, sweep.short)
      BY <2>2
    <3>2. scn_state[s] = "off"
      BY <3>1 DEF FirstFree, IInv, FreeSlotClean
    <3>3. /\ sweep.type \in ScnType /\ sweep.pid \in Pid \cup {NoPid}
          /\ sweep.short \in BOOLEAN
      BY <1>1 DEF SweepType
    <3> QED BY <1>3, <2>1, <3>1, <3>2, <3>3, RegisterStep DEF EndSweep
  <2>3. CASE UNCHANGED scnVars
    <3>1. UNCHANGED <<scnVars, rscVars, isValid, alive, suspect>>
      BY <1>3, <2>3 DEF EndSweep
    <3>2. OffIsSuspect'
      BY <1>1, <3>1 DEF OffIsSuspect
    <3> QED BY <1>1, <2>1, <3>1, <3>2, QuietStep
  <2> QED BY <1>3, <2>2, <2>3 DEF EndSweep
<1>4. ASSUME UNCHANGED <<scnVars, rscVars, isValid, alive, suspect>>, sweep' \in SweepType
      PROVE  IInv'
  <2>1. OffIsSuspect'
    BY <1>1, <1>4 DEF OffIsSuspect
  <2> QED BY <1>1, <1>4, <2>1, QuietStep
<1>5. ASSUME NEW s \in Slot, ReapSlot(s) PROVE IInv'
  <2>1. sweep' \in SweepType /\ UNCHANGED <<isValid, alive>>
    BY <1>2, <1>5 DEF ReapSlot
  <2>2. CASE resetScenario(s) /\ perfScnDisable(s)
    BY <2>1, <2>2, ReleaseStep
  <2>3. CASE UNCHANGED <<scnVars, rscVars, suspect>>
    BY <1>4, <2>1, <2>3
  <2> QED BY <1>5, <2>2, <2>3 DEF ReapSlot
<1>6. ASSUME NEW s \in Slot, KillSlot(s) PROVE IInv'
  <2>1. sweep' \in SweepType /\ UNCHANGED <<isValid, alive>>
    BY <1>2, <1>6 DEF KillSlot
  <2>2. CASE resetScenario(s) /\ perfScnDisable(s)
    BY <2>1, <2>2, ReleaseStep
  <2>3. CASE UNCHANGED <<scnVars, rscVars, suspect>>
    BY <1>4, <2>1, <2>3
  <2> QED BY <1>6, <2>2, <2>3 DEF KillSlot
<1>7. ASSUME NEW s \in Slot, ScreenOffSlot(s) PROVE IInv'
  <2>1. sweep' \in SweepType /\ UNCHANGED <<isValid, alive>>
    BY <1>2, <1>7 DEF ScreenOffSlot
  <2>2. CASE /\ ~Exempt(s)
             /\ scn_state' = [scn_state EXCEPT ![s] =
                                IF screen_off_action[s] = "wait_restore"
                                THEN "wait_restore" ELSE "off"]
             /\ UNCHANGED <<scn_type, pid, priority, short_lock,
                            screen_off_action, lock_rsc_size, scn_rsc>>
             /\ perfScnDisable(s)
    <3>1. ScnTypeOK' /\ FreeSlotClean'
      BY <2>2 DEF IInv, TypeOK, ScnTypeOK, FreeSlotClean, Free, Exempt
    <3>2. scn_state'[s] # "on" /\ \A r \in Rsc : OthersKept(s, r)
      BY <2>2 DEF IInv, TypeOK, ScnTypeOK, OthersKept
    <3> QED BY <2>1, <2>2, <3>1, <3>2, DisableStep
  <2>3. CASE UNCHANGED <<scnVars, rscVars, suspect>>
    BY <1>4, <2>1, <2>3
  <2> QED BY <1>7, <2>2, <2>3 DEF ScreenOffSlot
<1> QED
  BY <1>3, <1>5, <1>6, <1>7 DEF SweepStep

\* So does every action of the specification.
LEMMA NextInv == IInv /\ [Next]_vars => IInv'
<1> SUFFICES ASSUME IInv, [Next]_vars PROVE IInv'
  OBVIOUS
<1>1. /\ sweep \in SweepType /\ N \in Nat
      /\ isValid \in [Rsc -> BOOLEAN] /\ alive \subseteq Pid /\ suspect \subseteq Rsc
      /\ OffIsSuspect
  BY ConstantAssumption DEF IInv, TypeOK
<1>2. ASSUME UNCHANGED <<scnVars, rscVars, isValid, suspect>>,
             alive' \subseteq Pid, sweep' \in SweepType
      PROVE  IInv'
  <2>1. OffIsSuspect'
    BY <1>1, <1>2 DEF OffIsSuspect
  <2> QED BY <1>1, <1>2, <2>1, QuietStep
<1>3. ASSUME NEW p \in Pid, NEW type \in AskType, NEW short \in AskShort,
             perfLockCheckHdl(p, type, short)
      PROVE  IInv'
  <2>1. type \in ScnType /\ short \in BOOLEAN
    BY ConstantAssumption
  <2>2. sweep' \in SweepType
    <3>1. 1 \in 1 .. N + 1
      BY <1>1
    <3>2. CASE sweep' = sweep
      BY <1>1, <3>2
    <3>3. CASE sweep' = [kind |-> "alloc", at |-> 1, kill |-> FALSE,
                         type |-> type, pid |-> p, short |-> short]
      BY <2>1, <3>1, <3>3 DEF SweepType
    <3> QED BY <1>3, <3>2, <3>3 DEF perfLockCheckHdl
  <2>3. CASE \E s \in Slot : FirstFree(s) /\ SetSlot(s, type, p, short)
    <3>1. PICK s \in Slot : FirstFree(s) /\ SetSlot(s, type, p, short)
      BY <2>3
    <3>2. scn_state[s] = "off"
      BY <3>1 DEF FirstFree, IInv, FreeSlotClean
    <3> QED BY <1>3, <2>1, <2>2, <3>1, <3>2, RegisterStep DEF perfLockCheckHdl
  <2>4. CASE UNCHANGED scnVars
    BY <1>1, <1>2, <1>3, <2>2, <2>4 DEF perfLockCheckHdl
  <2> QED BY <1>3, <2>3, <2>4 DEF perfLockCheckHdl
<1>4. ASSUME NEW s \in Slot, NEW req \in Request, NEW short \in AskShort,
             perfLockAcq(s, req, short)
      PROVE  IInv'
  BY <1>4, AcqStep
<1>5. ASSUME NEW s \in Slot, perfLockRel(s) PROVE IInv'
  BY <1>1, <1>5, ReleaseStep DEF perfLockRel
<1>6. ASSUME NEW r \in CtrlRsc, NEW on \in BOOLEAN, powerRscCtrl(r, on) PROVE IInv'
  <2>1. r \in Rsc
    BY ConstantAssumption
  <2>2. /\ isValid' = [isValid EXCEPT ![r] = on] /\ suspect' = suspect \cup {r}
        /\ UNCHANGED <<scnVars, rscVars, alive, sweep>>
    BY <1>6 DEF powerRscCtrl
  <2>3. OffIsSuspect' /\ isValid' \in [Rsc -> BOOLEAN] /\ suspect' \subseteq Rsc
    BY <1>1, <2>1, <2>2 DEF OffIsSuspect
  <2> QED BY <1>1, <2>2, <2>3, QuietStep
<1>7. ASSUME NEW p \in Pid, Die(p) PROVE IInv'
  BY <1>1, <1>2, <1>7 DEF Die
<1>8. ASSUME NEW kind \in {"check", "screen_off"}, StartSweep(kind) PROVE IInv'
  <2>1. sweep' \in SweepType
    <3>1. 1 \in 1 .. N + 1
      BY <1>1
    <3>2. sweep' = [NoSweep EXCEPT !.kind = kind]
      BY <1>8 DEF StartSweep
    <3> QED BY <3>1, <3>2 DEF NoSweep, SweepType, ScnType
  <2> QED BY <1>1, <1>2, <1>8, <2>1 DEF StartSweep
<1>9. CASE SweepStep
  BY <1>9, SweepStepInv
<1>10. CASE UNCHANGED vars
  BY <1>1, <1>2, <1>10 DEF vars
<1> QED
  BY <1>3, <1>4, <1>5, <1>6, <1>7, <1>8, <1>9, <1>10
    DEF Next, perfUserScnCheckAll, perfUserScnDisableAll

\* The inductive invariant holds in every reachable state.
THEOREM Inductive == Spec => []IInv
BY InitInv, NextInv, PTL DEF Spec

\* Whatever the clients ask for, slots and entries stay within the range of
\* each resource (cmdSetting clamps, and every search returns a request).
THEOREM TypeCorrect == Spec => []TypeOK
<1>1. IInv => TypeOK
  BY DEF IInv
<1> QED BY <1>1, Inductive, PTL

\* For any table and any requests, the incremental updates of perfScnEnable and
\* perfScnUpdate give the result of a full search of the table.
THEOREM ArbitrationCorrect == Spec => []Arbitration
<1>1. IInv => Arbitration
  BY DEF IInv
<1> QED BY <1>1, Inductive, PTL

\* The kernel always has the table's current value.
THEOREM NodeCorrect == Spec => []NodeFollowsTable
<1>1. IInv => NodeFollowsTable
  BY DEF IInv
<1> QED BY <1>1, Inductive, PTL

\* No path through release, reaping or screen-off leaves a free slot with a claim.
THEOREM FreeSlotCorrect == Spec => []FreeSlotClean
<1>1. IInv => FreeSlotClean
  BY DEF IInv
<1> QED BY <1>1, Inductive, PTL

-----------------------------------------------------------------------------
(***************************************************************************)
(* The refinement.                                                         *)
(***************************************************************************)

\* The claims that a table makes are those of its holders.
LEMMA ClaimFact ==
  ASSUME TypeOK, NEW r \in Rsc
  PROVE  /\ \A s \in Holders(r) : /\ ClaimOf(r)[s].prio = priority[s]
                                  /\ ClaimOf(r)[s].val = scn_rsc[s][r]
         /\ A(r)!Claimants(ClaimOf(r)) = Holders(r)
<1>1. \A s \in Slot : /\ s \in Holders(r) =>
                           ClaimOf(r)[s] = [prio |-> priority[s], val |-> scn_rsc[s][r]]
                      /\ s \notin Holders(r) => ClaimOf(r)[s] = NoCmd
  BY DEF ClaimOf
<1>2. \A s \in Slot : [prio |-> priority[s], val |-> scn_rsc[s][r]] # NoCmd
  <2> SUFFICES ASSUME NEW s \in Slot
               PROVE  [prio |-> priority[s], val |-> scn_rsc[s][r]] \in [prio : Int, val : Int]
    BY NoClaimAssumption
  <2> QED BY DEF TypeOK, ScnTypeOK
<1>3. Holders(r) \subseteq Slot
  BY DEF Holders
<1>4. \A s \in Slot : ClaimOf(r)[s] # NoCmd <=> s \in Holders(r)
  BY <1>1, <1>2
<1>5. A(r)!Claimants(ClaimOf(r)) = Holders(r)
  <2> HIDE DEF Holders
  <2> QED BY <1>3, <1>4 DEF A!Claimants
<1>6. \A s \in Holders(r) : /\ ClaimOf(r)[s].prio = priority[s]
                            /\ ClaimOf(r)[s].val = scn_rsc[s][r]
  <2> TAKE s \in Holders(r)
  <2>1. ClaimOf(r)[s] = [prio |-> priority[s], val |-> scn_rsc[s][r]]
    BY <1>1, <1>3
  <2> QED BY <2>1
<1> QED BY <1>5, <1>6

\* What an arbitrated entry writes is what the claims on it deserve.
LEMMA DeservedFact ==
  ASSUME TypeOK, NodeFollowsTable, NEW r \in Rsc, Arbitrated(r)
  PROVE  node[r] \in A(r)!Deserved(ClaimOf(r))
<1>1. node[r] = Written(r, curVal[r])
  BY DEF NodeFollowsTable
<1>2. CASE Holders(r) = {}
  BY <1>1, <1>2, ClaimFact DEF A!Deserved, Arbitrated, Written
<1>3. CASE Holders(r) # {}
  <2>1. PICK w \in Slot : Rules(r, w) /\ curVal[r] = scn_rsc[w][r]
    BY <1>3 DEF Arbitrated
  <2>2. /\ w \in Holders(r) /\ curVal[r] # resetVal[r]
    BY <2>1 DEF Rules, Holders
  <2>3. node[r] = ClaimOf(r)[w].val
    BY <1>1, <2>1, <2>2, ClaimFact DEF Written
  <2>4. Holders(r) \subseteq Slot
    BY DEF Holders
  <2>5. \A t \in Holders(r) : ~A(r)!Beats(ClaimOf(r)[t], ClaimOf(r)[w])
    <3> TAKE t \in Holders(r)
    <3>1. /\ priority[t] \in Int /\ priority[w] \in Int
          /\ scn_rsc[t][r] \in Int /\ scn_rsc[w][r] \in Int
      BY <2>4 DEF TypeOK, ScnTypeOK
    <3>2. \/ priority[w] < priority[t]
          \/ priority[w] = priority[t] /\ ~Better(r, scn_rsc[t][r], scn_rsc[w][r])
      BY <2>1 DEF Rules
    <3> QED BY <2>2, <3>1, <3>2, ClaimFact DEF A!Beats, Better
  <2> QED BY <1>3, <2>2, <2>3, <2>5, ClaimFact DEF A!Deserved
<1> QED BY <1>2, <1>3

\* Every entry that is not an exception of Arbitration is given what it deserves.
Deserving == \A r \in Rsc \ suspect : node[r] \in A(r)!Deserved(ClaimOf(r))

\* The inductive invariant says so, before a step and after it.
LEMMA InvDeserving == (IInv => Deserving) /\ (IInv' => Deserving')
<1>1. IInv => Deserving
  BY DeservedFact DEF IInv, Arbitration, Deserving
<1> QED BY <1>1, PTL

\* A step that changes one slot is a step of the Arbiter: that slot's claim may
\* change, and the entry follows.
LEMMA OneSlotStep ==
  ASSUME IInv', NEW r \in Rsc \ suspect', NEW s \in Slot, OthersKept(s, r)
  PROVE  A(r)!Next
<1>1. \A t \in Slot \ {s} : ClaimOf(r)'[t] = ClaimOf(r)[t]
  BY DEF ClaimOf, OthersKept, Holders
<1>2. node'[r] \in A(r)!Deserved(ClaimOf(r))'
  BY InvDeserving DEF Deserving
<1>3. A(r)!Change(s)
  BY <1>1, <1>2 DEF A!Change
<1> QED BY <1>3 DEF A!Next

\* Setting a slot leaves the others alone.
LEMMA SetSlotKeeps ==
  ASSUME TypeOK, NEW s \in Slot, NEW type, NEW owner, NEW short,
         SetSlot(s, type, owner, short)
  PROVE  \A r \in Rsc : OthersKept(s, r)
BY DEF SetSlot, OthersKept, TypeOK, ScnTypeOK

\* Every operation, and every step of a sweep, changes at most one slot.
LEMMA OneSlotAtATime ==
  ASSUME IInv, [Next]_vars
  PROVE  \/ UNCHANGED <<scnVars, rscVars>>
         \/ \E s \in Slot : \A r \in Rsc : OthersKept(s, r)
<1>1. TypeOK /\ FreeSlotClean
  BY DEF IInv
<1>2. ASSUME NEW p \in Pid, NEW type \in AskType, NEW short \in AskShort,
             perfLockCheckHdl(p, type, short)
      PROVE  \/ UNCHANGED <<scnVars, rscVars>>
             \/ \E s \in Slot : \A r \in Rsc : OthersKept(s, r)
  BY <1>1, <1>2, SetSlotKeeps DEF perfLockCheckHdl
<1>3. ASSUME NEW s \in Slot, NEW req \in Request, NEW short \in AskShort,
             perfLockAcq(s, req, short)
      PROVE  \A r \in Rsc : OthersKept(s, r)
  BY <1>1, <1>3, AcqSlotFact
<1>4. ASSUME NEW s \in Slot, perfLockRel(s) PROVE \A r \in Rsc : OthersKept(s, r)
  BY <1>1, <1>4, SetSlotKeeps DEF perfLockRel, resetScenario
<1>5. ASSUME NEW r \in CtrlRsc, NEW on \in BOOLEAN, powerRscCtrl(r, on)
      PROVE  UNCHANGED <<scnVars, rscVars>>
  BY <1>5 DEF powerRscCtrl
<1>6. ASSUME NEW p \in Pid, Die(p) PROVE UNCHANGED <<scnVars, rscVars>>
  BY <1>6 DEF Die
<1>7. ASSUME NEW kind, StartSweep(kind) PROVE UNCHANGED <<scnVars, rscVars>>
  BY <1>7 DEF StartSweep
<1>8. ASSUME EndSweep
      PROVE  \/ UNCHANGED <<scnVars, rscVars>>
             \/ \E s \in Slot : \A r \in Rsc : OthersKept(s, r)
  BY <1>1, <1>8, SetSlotKeeps DEF EndSweep
<1>9. ASSUME NEW s \in Slot, ReapSlot(s) \/ KillSlot(s)
      PROVE  UNCHANGED <<scnVars, rscVars>> \/ \A r \in Rsc : OthersKept(s, r)
  BY <1>1, <1>9, SetSlotKeeps DEF ReapSlot, KillSlot, resetScenario
<1>10. ASSUME NEW s \in Slot, ScreenOffSlot(s)
       PROVE  UNCHANGED <<scnVars, rscVars>> \/ \A r \in Rsc : OthersKept(s, r)
  BY <1>1, <1>10 DEF ScreenOffSlot, OthersKept, TypeOK, ScnTypeOK
<1>11. CASE UNCHANGED vars
  BY <1>11 DEF vars
<1> QED
  BY <1>2, <1>3, <1>4, <1>5, <1>6, <1>7, <1>8, <1>9, <1>10, <1>11
    DEF Next, SweepStep, perfUserScnCheckAll, perfUserScnDisableAll

\* A step of the table is a step of the Arbiter of every entry that is not an
\* exception after it, or leaves that Arbiter's view alone.
ArbiterStep == \A r \in Rsc \ suspect' : [A(r)!Next]_<<ClaimOf(r), node[r]>>

\* Every step of the table is such a step.
LEMMA NextArbiterStep == IInv /\ IInv' /\ [Next]_vars => ArbiterStep
<1> SUFFICES ASSUME IInv, IInv', [Next]_vars, NEW r \in Rsc \ suspect'
             PROVE  [A(r)!Next]_<<ClaimOf(r), node[r]>>
  BY DEF ArbiterStep
<1>1. CASE UNCHANGED <<scnVars, rscVars>>
  <2>1. UNCHANGED <<scn_state, priority, scn_rsc, node>>
    BY <1>1 DEF scnVars, rscVars
  <2>2. UNCHANGED <<ClaimOf(r), node[r]>>
    BY <2>1 DEF ClaimOf, Holders
  <2> QED BY <2>2
<1>2. CASE \E s \in Slot : \A q \in Rsc : OthersKept(s, q)
  BY <1>2, OneSlotStep
<1> QED BY <1>1, <1>2, OneSlotAtATime

\* Whatever the clients ask for, the table moves like the Arbiter: a step changes
\* at most one claim, and the entry is given what the new claims deserve, unless
\* the step leaves the entry among the exceptions of Arbitration.
THEOREM StepsImplementArbiter == Spec => [][ArbiterStep]_vars
BY Inductive, NextArbiterStep, PTL DEF Spec

(***************************************************************************)
(* Without exceptions.  When the resources stay under control, malloc does *)
(* not give back the old list, and no request names a priority of its own, *)
(* nothing makes an entry an exception.                                    *)
(***************************************************************************)
Plain == /\ CtrlRsc = {}
         /\ MallocRepeats = FALSE
         /\ AskPriority \subseteq {NORMAL_PRIORITY}

Calm == /\ suspect = {}
        /\ \A s \in Slot : priority[s] = NORMAL_PRIORITY
        /\ \A r \in Rsc : isValid[r]

\* A slot that is set has the normal priority like all the others.
LEMMA SetSlotCalm ==
  ASSUME TypeOK, Calm, NEW s \in Slot, NEW type, NEW owner, NEW short,
         SetSlot(s, type, owner, short)
  PROVE  \A t \in Slot : priority'[t] = NORMAL_PRIORITY
BY DEF SetSlot, Calm, TypeOK, ScnTypeOK

\* A re-acquire searches every entry whose priority is that of the slot.
LEMMA AcqCalm ==
  ASSUME Plain, IInv, Calm, NEW s \in Slot, NEW req \in Request, NEW short \in AskShort,
         perfLockAcq(s, req, short)
  PROVE  Calm'
<1>1. isValid' = isValid /\ priority \in [Slot -> Int]
  BY DEF perfLockAcq, IInv, TypeOK, ScnTypeOK
<1>2. req.prio = NoCmd \/ req.prio = NORMAL_PRIORITY
  BY DEF Plain, Request
<1>3. priority' = priority
  <2>1. priority' = [priority EXCEPT ![s] = IF req.prio = NoCmd THEN @ ELSE req.prio]
    BY DEF perfLockAcq
  <2> QED BY <1>1, <1>2, <2>1 DEF Calm
<1>4. FALSE \notin RscModified(s, req)
  BY DEF Plain, RscModified
<1>5. suspect' = {}
  <2>1. CASE scn_state[s] # "on"
    BY <2>1 DEF perfLockAcq, Calm
  <2>2. CASE scn_state[s] = "on"
    <3>1. suspect' = (suspect \cup {r \in Rsc : /\ scn_rsc[s][r] # resetVal[r]
                                               /\ priority[s] = rscPriority[r]})
                       \ Forced(priority'[s])
      BY <1>4, <2>2 DEF perfLockAcq
    <3>2. ASSUME NEW r \in Rsc, priority[s] = rscPriority[r]
          PROVE  r \in Forced(priority'[s])
      BY <1>1, <1>3, <3>2 DEF Forced, Calm
    <3> QED BY <3>1, <3>2 DEF Calm
  <2> QED BY <2>1, <2>2
<1> QED BY <1>1, <1>3, <1>5 DEF Calm

\* So nothing is an exception after any step.
LEMMA NextCalm == Plain => (IInv /\ Calm /\ [Next]_vars => Calm')
<1> SUFFICES ASSUME Plain, IInv, Calm, [Next]_vars PROVE Calm'
  OBVIOUS
<1>1. TypeOK
  BY DEF IInv
<1>2. ASSUME UNCHANGED scnVars, UNCHANGED <<isValid, suspect>> PROVE Calm'
  BY <1>2 DEF Calm, scnVars
<1>3. ASSUME NEW s \in Slot, NEW type, NEW owner, NEW short,
             SetSlot(s, type, owner, short), isValid' = isValid, suspect' \subseteq suspect
      PROVE  Calm'
  <2>1. \A t \in Slot : priority'[t] = NORMAL_PRIORITY
    BY <1>1, <1>3, SetSlotCalm
  <2> QED BY <1>3, <2>1 DEF Calm
<1>4. ASSUME NEW p \in Pid, NEW type \in AskType, NEW short \in AskShort,
             perfLockCheckHdl(p, type, short)
      PROVE  Calm'
  BY <1>2, <1>3, <1>4 DEF perfLockCheckHdl
<1>5. ASSUME NEW s \in Slot, NEW req \in Request, NEW short \in AskShort,
             perfLockAcq(s, req, short)
      PROVE  Calm'
  BY <1>5, AcqCalm
<1>6. ASSUME NEW s \in Slot, perfLockRel(s) PROVE Calm'
  BY <1>3, <1>6 DEF perfLockRel, resetScenario, perfScnDisable
<1>7. ASSUME NEW r \in CtrlRsc PROVE FALSE
  BY <1>7 DEF Plain
<1>8. ASSUME NEW p \in Pid, Die(p) PROVE Calm'
  BY <1>2, <1>8 DEF Die
<1>9. ASSUME NEW kind, StartSweep(kind) PROVE Calm'
  BY <1>2, <1>9 DEF StartSweep
<1>10. ASSUME EndSweep PROVE Calm'
  BY <1>2, <1>3, <1>10 DEF EndSweep
<1>11. ASSUME NEW s \in Slot, ReapSlot(s) \/ KillSlot(s) PROVE Calm'
  BY <1>2, <1>3, <1>11 DEF ReapSlot, KillSlot, resetScenario, perfScnDisable
<1>12. ASSUME NEW s \in Slot, ScreenOffSlot(s) PROVE Calm'
  <2>1. priority' = priority /\ isValid' = isValid /\ suspect' \subseteq suspect
    BY <1>12 DEF ScreenOffSlot, scnVars, perfScnDisable
  <2> QED BY <2>1 DEF Calm
<1>13. CASE UNCHANGED vars
  BY <1>2, <1>13 DEF vars
<1> QED
  BY <1>4, <1>5, <1>6, <1>7, <1>8, <1>9, <1>10, <1>11, <1>12, <1>13
    DEF Next, SweepStep, perfUserScnCheckAll, perfUserScnDisableAll

\* In the initial table no entry is an exception.
LEMMA InitCalm == Init => Calm
BY DEF Init, Calm

\* No entry is ever an exception when the requests are plain.
LEMMA AlwaysCalm == Plain => (Spec => []Calm)
<1> SUFFICES ASSUME Plain PROVE Spec => []Calm
  OBVIOUS
<1>1. IInv /\ Calm /\ [Next]_vars => Calm'
  BY NextCalm
<1> QED BY <1>1, InitCalm, Inductive, PTL DEF Spec

\* The table, without exceptions, implements the Arbiter of every resource: the
\* initial table is the Arbiter's, and each call is one step of it or none.
THEOREM TableImplementsArbiter == Plain => (Spec => ImplementsArbiter)
<1> SUFFICES ASSUME Plain PROVE Spec => ImplementsArbiter
  OBVIOUS
<1>1. Init => \A r \in Rsc : A(r)!Init
  <2> SUFFICES ASSUME Init, NEW r \in Rsc PROVE A(r)!Init
    OBVIOUS
  <2>1. Holders(r) = {}
    BY DEF Init, Holders
  <2> QED BY <2>1 DEF Init, A!Init, ClaimOf
<1>2. Calm' /\ ArbiterStep => \A r \in Rsc : [A(r)!Next]_<<ClaimOf(r), node[r]>>
  BY DEF Calm, ArbiterStep
<1>3. Spec => []Calm
  BY AlwaysCalm
<1> QED BY <1>1, <1>2, <1>3, StepsImplementArbiter, PTL DEF Spec, ImplementsArbiter

\* With plain requests no boost is left when every lock is gone.  (PerfService's
\* NoBoostLeft fails once a lock may be re-acquired at a lower priority.)
THEOREM PlainLeavesNoBoost == Plain => (Spec => []NoBoostLeft)
<1> SUFFICES ASSUME Plain PROVE Spec => []NoBoostLeft
  OBVIOUS
<1>1. IInv /\ Calm => NoBoostLeft
  <2> SUFFICES ASSUME IInv, Calm, \A s \in Slot : Free(s), NEW r \in Rsc
               PROVE  node[r] = DefVal[r]
    BY DEF NoBoostLeft
  <2>1. Holders(r) = {}
    BY DEF Holders, IInv, FreeSlotClean
  <2> QED BY <2>1 DEF IInv, Calm, Arbitration, Arbitrated, NodeFollowsTable, Written
<1>2. Spec => []Calm
  BY AlwaysCalm
<1> QED BY <1>1, <1>2, Inductive, PTL
-----------------------------------------------------------------------------
(***************************************************************************)
(* The sweeps.  Behind a screen-off sweep only scenarios are on that may   *)
(* be; a slot whose second half is still to come is not exempt.            *)
(***************************************************************************)
MayStayOn(s) == scn_state[s] = "on" => screen_off_action[s] \in {"enable", "always_valid"}

SweptInv ==
  sweep.kind = "screen_off" =>
    \A s \in Slot : /\ s < sweep.at => MayStayOn(s)
                    /\ (s = sweep.at /\ sweep.kill) => MayStayOn(s) /\ ~Exempt(s)

\* A step that leaves the slots alone, or works on the slot the sweep is at.
LEMMA SweepAdvances ==
  ASSUME IInv, SweptInv, NEW s \in Slot, sweep.at = s,
         \A t \in Slot \ {s} : /\ scn_type'[t] = scn_type[t]
                               /\ scn_state'[t] = scn_state[t]
                               /\ screen_off_action'[t] = screen_off_action[t],
         \/ sweep' = NextSlot /\ MayStayOn(s)'
         \/ sweep' = [sweep EXCEPT !.kill = TRUE] /\ MayStayOn(s)' /\ ~Exempt(s)'
  PROVE  SweptInv'
<1>1. sweep \in SweepType /\ Slot \subseteq Nat
  BY SlotFact DEF IInv, TypeOK
<1>2. sweep'.kind = sweep.kind
  BY <1>1 DEF SweepType, NextSlot
<1>3. \A t \in Slot \ {s} : (MayStayOn(t)' <=> MayStayOn(t)) /\ (Exempt(t)' <=> Exempt(t))
  BY DEF MayStayOn, Exempt, Free
<1>4. CASE sweep' = NextSlot /\ MayStayOn(s)'
  <2>1. sweep'.at = s + 1 /\ sweep'.kill = FALSE
    BY <1>1, <1>4 DEF SweepType, NextSlot
  <2>2. \A t \in Slot : t < s + 1 => t = s \/ t < s
    BY <1>1
  <2> QED BY <1>2, <1>3, <1>4, <2>1, <2>2 DEF SweptInv
<1>5. CASE sweep' = [sweep EXCEPT !.kill = TRUE] /\ MayStayOn(s)' /\ ~Exempt(s)'
  <2>1. sweep'.at = s /\ sweep'.kill = TRUE
    BY <1>1, <1>5 DEF SweepType
  <2>2. \A t \in Slot : t < s => t # s
    BY <1>1
  <2> QED BY <1>2, <1>3, <1>5, <2>1, <2>2 DEF SweptInv
<1> QED BY <1>4, <1>5

\* What is behind the sweep stays behind it: no acquire comes in between, since
\* the sweep holds the mutex.
LEMMA NextSwept == IInv /\ SweptInv /\ [Next]_vars => SweptInv'
<1> SUFFICES ASSUME IInv, SweptInv, [Next]_vars PROVE SweptInv'
  OBVIOUS
<1>1. /\ sweep \in SweepType /\ Slot \subseteq Nat
      /\ scn_type \in [Slot -> ScnType \cup {"free"}]
      /\ scn_state \in [Slot -> {"off", "on", "wait_restore"}]
      /\ screen_off_action \in [Slot -> OffAction]
      /\ FreeSlotClean
  BY SlotFact DEF IInv, TypeOK, ScnTypeOK
<1>2. ASSUME UNCHANGED <<scnVars, sweep>> PROVE SweptInv'
  BY <1>2 DEF SweptInv, MayStayOn, Exempt, Free, scnVars
<1>3. ASSUME sweep'.kind # "screen_off" PROVE SweptInv'
  BY <1>3 DEF SweptInv
<1>4. ASSUME NEW p \in Pid, NEW type \in AskType, NEW short \in AskShort,
             perfLockCheckHdl(p, type, short)
      PROVE  SweptInv'
  BY <1>3, <1>4 DEF perfLockCheckHdl, Idle
<1>5. ASSUME NEW s \in Slot, NEW req \in Request, NEW short \in AskShort,
             perfLockAcq(s, req, short)
      PROVE  SweptInv'
  BY <1>3, <1>5 DEF perfLockAcq, Idle
<1>6. ASSUME NEW s \in Slot, perfLockRel(s) PROVE SweptInv'
  BY <1>3, <1>6 DEF perfLockRel, Idle
<1>7. ASSUME NEW r \in CtrlRsc, NEW on \in BOOLEAN, powerRscCtrl(r, on) PROVE SweptInv'
  BY <1>2, <1>7 DEF powerRscCtrl
<1>8. ASSUME NEW p \in Pid, Die(p) PROVE SweptInv'
  BY <1>2, <1>8 DEF Die
<1>9. ASSUME NEW kind, StartSweep(kind) PROVE SweptInv'
  <2>1. sweep'.at = 1 /\ sweep'.kill = FALSE
    BY <1>9 DEF StartSweep, NoSweep
  <2>2. \A s \in Slot : ~(s < 1)
    BY DEF Slot
  <2> QED BY <2>1, <2>2 DEF SweptInv
<1>10. ASSUME EndSweep PROVE SweptInv'
  BY <1>3, <1>10 DEF EndSweep, NoSweep
<1>11. ASSUME NEW s \in Slot, ReapSlot(s) PROVE SweptInv'
  <2>1. sweep'.kind \in {"check", "alloc"}
    BY <1>1, <1>11 DEF ReapSlot, NextSlot, SweepType
  <2> QED BY <1>3, <2>1
<1>12. ASSUME NEW s \in Slot, KillSlot(s) PROVE SweptInv'
  <2>1. sweep.at = s /\ MayStayOn(s) /\ sweep' = NextSlot
    BY <1>12 DEF KillSlot, SweptInv
  <2>2. CASE resetScenario(s)
    <3>1. /\ \A t \in Slot \ {s} : /\ scn_type'[t] = scn_type[t]
                                  /\ scn_state'[t] = scn_state[t]
                                  /\ screen_off_action'[t] = screen_off_action[t]
          /\ scn_state'[s] = "off"
      BY <1>1, <2>2 DEF resetScenario, SetSlot
    <3>2. MayStayOn(s)'
      BY <3>1 DEF MayStayOn
    <3> QED BY <2>1, <3>1, <3>2, SweepAdvances
  <2>3. CASE UNCHANGED scnVars
    <3>1. UNCHANGED <<scn_type, scn_state, screen_off_action>>
      BY <2>3 DEF scnVars
    <3>2. MayStayOn(s)'
      BY <2>1, <3>1 DEF MayStayOn
    <3> QED BY <2>1, <3>1, <3>2, SweepAdvances
  <2> QED BY <1>12, <2>2, <2>3 DEF KillSlot
<1>13. ASSUME NEW s \in Slot, ScreenOffSlot(s) PROVE SweptInv'
  <2>1. /\ sweep.at = s
        /\ UNCHANGED <<scn_type, screen_off_action>>
        /\ \A t \in Slot \ {s} : scn_state'[t] = scn_state[t]
    BY <1>1, <1>13 DEF ScreenOffSlot, scnVars
  <2>2. MayStayOn(s)'
    <3>1. CASE ~Exempt(s) /\ scn_state[s] = "on" /\ screen_off_action[s] # "enable"
      <4>1. scn_state'[s] # "on"
        BY <1>1, <1>13, <3>1 DEF ScreenOffSlot
      <4> QED BY <4>1 DEF MayStayOn
    <3>2. CASE Exempt(s) \/ scn_state[s] # "on" \/ screen_off_action[s] = "enable"
      <4>1. scn_state'[s] = scn_state[s]
        BY <1>13, <3>2 DEF ScreenOffSlot, scnVars
      <4> QED BY <1>1, <2>1, <3>2, <4>1 DEF MayStayOn, Exempt, Free, FreeSlotClean
    <3> QED BY <3>1, <3>2
  <2>3. Exempt(s)' <=> Exempt(s)
    BY <2>1 DEF Exempt, Free
  <2>4. sweep' = IF Exempt(s) THEN NextSlot ELSE [sweep EXCEPT !.kill = TRUE]
    BY <1>13 DEF ScreenOffSlot
  <2> QED BY <2>1, <2>2, <2>3, <2>4, SweepAdvances
<1>14. CASE UNCHANGED vars
  BY <1>2, <1>14 DEF vars
<1> QED
  BY <1>4, <1>5, <1>6, <1>7, <1>8, <1>9, <1>10, <1>11, <1>12, <1>13, <1>14
    DEF Next, SweepStep, perfUserScnCheckAll, perfUserScnDisableAll

\* There is no sweep at first.
LEMMA InitSwept == Init => SweptInv
BY DEF Init, SweptInv, NoSweep

\* It holds in every reachable state.
LEMMA AlwaysSwept == Spec => []SweptInv
BY InitSwept, NextSwept, Inductive, PTL DEF Spec

\* When perfUserScnDisableAll has gone through a table of any size, only
\* scenarios that may stay on with the screen off are on.
THEOREM ScreenOffIsComplete == Spec => ScreenOffComplete
<1>1. ASSUME IInv, SweptInv, [Next]_vars, sweep.kind = "screen_off", sweep'.kind = "none",
             NEW s \in Slot, scn_state[s] = "on"
      PROVE  screen_off_action[s] \in {"enable", "always_valid"}
  <2>1. sweep \in SweepType /\ N \in Nat
    BY <1>1, ConstantAssumption DEF IInv, TypeOK
  <2>2. sweep' # sweep /\ ~Idle
    BY <1>1 DEF Idle
  <2>3. \A t \in Slot : ~ReapSlot(t) /\ ~ScreenOffSlot(t) /\ ~KillSlot(t)
    <3> SUFFICES ASSUME NEW t \in Slot, ReapSlot(t) \/ ScreenOffSlot(t) \/ KillSlot(t)
                 PROVE  sweep'.kind = sweep.kind
      BY <1>1
    <3>1. sweep' = NextSlot \/ sweep' = [sweep EXCEPT !.kill = TRUE]
      BY DEF ReapSlot, ScreenOffSlot, KillSlot
    <3> QED BY <2>1, <3>1 DEF NextSlot, SweepType
  <2>4. \A p \in Pid : ~Die(p)
    BY <2>2 DEF Die
  <2>5. EndSweep
    BY <1>1, <2>2, <2>3, <2>4
      DEF Next, SweepStep, perfLockCheckHdl, perfLockAcq, perfLockRel, powerRscCtrl,
          perfUserScnCheckAll, perfUserScnDisableAll, StartSweep, vars
  <2>6. s < sweep.at
    BY <2>1, <2>5 DEF EndSweep, Slot
  <2>7. MayStayOn(s)
    BY <1>1, <2>6 DEF SweptInv
  <2> QED BY <1>1, <2>7 DEF MayStayOn
<1>2. IInv /\ SweptInv /\ [Next]_vars =>
        [(sweep.kind = "screen_off" /\ sweep'.kind = "none") =>
           \A s \in Slot : scn_state[s] = "on" =>
              screen_off_action[s] \in {"enable", "always_valid"}]_vars
  BY <1>1
<1> QED BY <1>2, Inductive, AlwaysSwept, PTL DEF Spec, ScreenOffComplete

\* No sweep touches a lock that is always valid, not even the half of the
\* screen-off sweep that looks for dead owners, nor the registration at the end
\* of a sweep for a full table.
THEOREM AlwaysValidIsKept == Spec => AlwaysValidKept
<1> DEFINE kept(s) == UNCHANGED <<scn_type[s], scn_state[s], scn_rsc[s], pid[s]>>
<1>1. ASSUME IInv, SweptInv, [Next]_vars, ~Idle,
             NEW s \in Slot, ~Free(s), screen_off_action[s] = "always_valid"
      PROVE  kept(s)
  <2>1. Exempt(s)
    BY <1>1 DEF Exempt
  <2>2. ASSUME UNCHANGED scnVars PROVE kept(s)
    BY <2>2 DEF scnVars
  <2>3. ASSUME NEW t \in Slot, NEW type, NEW owner, NEW short,
               SetSlot(t, type, owner, short), t # s
        PROVE  kept(s)
    BY <1>1, <2>3 DEF SetSlot, IInv, TypeOK, ScnTypeOK
  <2>4. ASSUME NEW t \in Slot, ReapSlot(t) PROVE kept(s)
    BY <2>1, <2>2, <2>3, <2>4 DEF ReapSlot, resetScenario
  <2>5. ASSUME NEW t \in Slot, KillSlot(t) PROVE kept(s)
    <3>1. t # s
      BY <1>1, <2>1, <2>5 DEF KillSlot, SweptInv
    <3> QED BY <2>2, <2>3, <2>5, <3>1 DEF KillSlot, resetScenario
  <2>6. ASSUME NEW t \in Slot, ScreenOffSlot(t) PROVE kept(s)
    <3>1. CASE UNCHANGED scnVars
      BY <2>2, <3>1
    <3>2. CASE /\ ~Exempt(t)
               /\ scn_state' = [scn_state EXCEPT ![t] =
                                  IF screen_off_action[t] = "wait_restore"
                                  THEN "wait_restore" ELSE "off"]
               /\ UNCHANGED <<scn_type, pid, scn_rsc>>
      <4>1. t # s /\ scn_state \in [Slot -> {"off", "on", "wait_restore"}]
        BY <1>1, <2>1, <3>2 DEF IInv, TypeOK, ScnTypeOK
      <4> QED BY <3>2, <4>1
    <3> QED BY <2>6, <3>1, <3>2 DEF ScreenOffSlot
  <2>7. ASSUME EndSweep PROVE kept(s)
    BY <1>1, <2>2, <2>3, <2>7 DEF EndSweep, FirstFree
  <2>8. ASSUME NEW p \in Pid, Die(p) PROVE kept(s)
    BY <2>2, <2>8 DEF Die
  <2>9. CASE UNCHANGED vars
    BY <2>2, <2>9 DEF vars
  <2>10. ASSUME NEW r, NEW on, powerRscCtrl(r, on) PROVE FALSE
    BY <1>1, <2>10 DEF powerRscCtrl
  <2> HIDE DEF kept
  <2> QED
    BY <1>1, <2>4, <2>5, <2>6, <2>7, <2>8, <2>9, <2>10
      DEF Next, SweepStep, perfLockCheckHdl, perfLockAcq, perfLockRel,
          perfUserScnCheckAll, perfUserScnDisableAll, StartSweep
<1>2. IInv /\ SweptInv /\ [Next]_vars =>
        [~Idle => \A s \in Slot : (~Free(s) /\ screen_off_action[s] = "always_valid")
           => UNCHANGED <<scn_type[s], scn_state[s], scn_rsc[s], pid[s]>>]_vars
  BY <1>1
<1> QED BY <1>2, Inductive, AlwaysSwept, PTL DEF Spec, AlwaysValidKept
=============================================================================
