------------------------------ MODULE RscTable ------------------------------
(***************************************************************************)
(* The arbitration of perfservice.cpp applied to every row of RscCfgTbl.   *)
(*                                                                         *)
(* Init picks a row; then clients acquire, re-acquire and release a lock   *)
(* that asks for that resource, with the values that are hard on the row:  *)
(* both ends of its range, one beyond each, the default, and the number    *)
(* RSC_TBL_INVALID_VALUE that stands for "not asked for" in ONESHOT rows.  *)
(* A re-acquire compares the new list with memory it has just allocated    *)
(* and never filled, and takes either branch.  All locks have one priority *)
(* and none is marked oneshotReset; modules PerfService and OneShot deal   *)
(* with those.                                                             *)
(***************************************************************************)
EXTENDS RscCfgTbl, FiniteSets

CONSTANTS
  Client,     \* clients with a lock each
  MaxRepeats  \* bound on the values left over by unmodified re-acquires

ASSUME RscTableAssumption == IsFiniteSet(Client) /\ MaxRepeats \in Nat

RSC_TBL_INVALID_VALUE == -123456

VARIABLES
  row,      \* the row at hand
  rOn,       \* clients whose lock is on
  scn_rsc,  \* what each slot asks for the resource
  curVal,   \* gRscCtlTbl[idx].curVal
  lastCall,     \* the last call of set_func or unset_func
  applied,  \* ONESHOT: calls of set_func less calls of unset_func, per value
  kept,     \* history: unmodified re-acquires, per value the lock had before
  unsearched \* history: one took the ruling value of a ranked row away

ctlVars == <<curVal, lastCall, applied, unsearched>>
rscVars == <<row, rOn, scn_rsc, ctlVars, kept>>

\* Mutant: the resting value of a SMALLEST row is the end of its range.
resetValRow_InRange == CASE row.comp = "SMALLEST" -> row.max
                      [] row.comp = "BIGGEST" -> row.min - 1
                      [] OTHER -> RSC_TBL_INVALID_VALUE

\* gRscCtlTbl[idx].resetVal, as loadRscTable sets it.
resetValRow == CASE row.comp = "SMALLEST" -> row.max + 1
              [] row.comp = "BIGGEST" -> row.min - 1
              [] OTHER -> RSC_TBL_INVALID_VALUE

\* Mutant: values above the range are not clamped.
cmdSettingRow_NoMax(v) == IF v < row.min THEN row.min ELSE v

\* cmdSetting: the value that a request leaves in the slot.
cmdSettingRow(v) == IF v < row.min THEN row.min
                 ELSE IF v > row.max THEN row.max ELSE v

RowValues == {row.min - 1, row.min, row.def, row.max, row.max + 1, RSC_TBL_INVALID_VALUE}

RankedRow == row.comp # "ONESHOT"
BetterRow(a, b) == IF row.comp = "SMALLEST" THEN a < b ELSE a > b

set_func(v) == [fn |-> "set", arg |-> v]
unset_func(v) == [fn |-> IF row.ownUnset THEN "unset" ELSE "set", arg |-> v]

\* loadRscTable: the entry is at rest.
RscInit ==
  /\ row \in RscCfgTbl
  /\ rOn = {}
  /\ scn_rsc = [c \in Client |-> resetValRow]
  /\ curVal = resetValRow
  /\ lastCall = unset_func(row.def)
  /\ applied = [v \in {cmdSettingRow(w) : w \in RowValues} |-> 0]
  /\ kept = applied
  /\ unsearched = FALSE

\* The search of perfScnUpdate over the slots that are on.
HoldingRow == {c \in rOn : scn_rsc[c] # resetValRow}
BestRow == IF HoldingRow = {} THEN resetValRow
        ELSE CHOOSE v \in {scn_rsc[c] : c \in HoldingRow} :
               \A c \in HoldingRow : ~BetterRow(scn_rsc[c], v)

\* perfScnUpdate for a ranked row, when its search runs.
SearchRow ==
  /\ curVal' = BestRow'
  /\ lastCall' = IF BestRow' = curVal THEN lastCall
             ELSE IF BestRow' = resetValRow THEN unset_func(row.def) ELSE set_func(BestRow')
  /\ unsearched' = FALSE
  /\ UNCHANGED applied

\* A ONESHOT row gets unset_func(old), then set_func(new); resetVal means no call.
ApplyRow(old, new) ==
  /\ curVal' = IF new # resetValRow THEN new ELSE curVal
  /\ lastCall' = IF new # resetValRow THEN set_func(new)
             ELSE IF old # resetValRow THEN unset_func(old) ELSE lastCall
  /\ applied' = [v \in DOMAIN applied |->
                   applied[v] + (IF v = new /\ new # resetValRow THEN 1 ELSE 0)
                              - (IF v = old /\ old # resetValRow THEN 1 ELSE 0)]
  /\ UNCHANGED unsearched

\* perfScnEnable: a ranked row takes a better value, a ONESHOT row any value.  A
\* lock that was on already may have held the ruling value; no search looks for
\* the next one.
perfScnEnableRow(c) ==
  IF ~RankedRow THEN ApplyRow(resetValRow, scn_rsc'[c])
  ELSE /\ IF BetterRow(scn_rsc'[c], curVal)
          THEN curVal' = scn_rsc'[c] /\ lastCall' = set_func(scn_rsc'[c]) /\ unsearched' = FALSE
          ELSE /\ UNCHANGED <<curVal, lastCall>>
               /\ unsearched' = (\/ unsearched
                                 \/ c \in rOn /\ scn_rsc[c] = curVal /\ scn_rsc'[c] # curVal)
       /\ UNCHANGED applied

\* Mutant: the previous value is not withdrawn.
ForceUpdateRow_KeepsOld(c) ==
  IF RankedRow THEN SearchRow
  ELSE IF scn_rsc'[c] = scn_rsc[c] THEN UNCHANGED ctlVars
  ELSE ApplyRow(resetValRow, scn_rsc'[c])

\* perfScnUpdate(scenario, 1): a ranked row is searched, a ONESHOT row drops the
\* previous value and takes the new one, unless they are the same.
ForceUpdateRow(c) ==
  IF RankedRow THEN SearchRow
  ELSE IF scn_rsc'[c] = scn_rsc[c] THEN UNCHANGED ctlVars
  ELSE ApplyRow(scn_rsc[c], scn_rsc'[c])

\* perfScnUpdate(scenario, 0): a ranked row is searched if the slot may have been
\* ruling; a ONESHOT row has unset_func called with the slot's own value.
perfScnDisableRow(c) ==
  IF ~RankedRow THEN ApplyRow(scn_rsc[c], resetValRow)
  ELSE IF scn_rsc[c] # resetValRow /\ ~BetterRow(curVal, scn_rsc[c])
       THEN SearchRow ELSE UNCHANGED ctlVars

\* perfLockAcq of a new lock, and again with a list that the comparison finds modified.
perfLockAcqRow(c, v) ==
  /\ rOn' = rOn \cup {c}
  /\ scn_rsc' = [scn_rsc EXCEPT ![c] = cmdSettingRow(v)]
  /\ UNCHANGED <<row, kept>>
  /\ IF c \in rOn THEN ForceUpdateRow(c) ELSE perfScnEnableRow(c)

\* perfLockAcq of a lock that is on, with a list that the memory it is compared
\* with happens to hold: perfScnEnable runs again, whatever the lock asked for before.
perfLockAcqSameRow(c, v) ==
  /\ c \in rOn
  /\ \A w \in DOMAIN kept : kept[w] < MaxRepeats
  /\ scn_rsc' = [scn_rsc EXCEPT ![c] = cmdSettingRow(v)]
  /\ UNCHANGED <<row, rOn>>
  /\ perfScnEnableRow(c)
  /\ kept' = IF RankedRow \/ scn_rsc[c] = resetValRow THEN kept
             ELSE [kept EXCEPT ![scn_rsc[c]] = @ + 1]

\* perfLockRel.
perfLockRelRow(c) ==
  /\ c \in rOn
  /\ rOn' = rOn \ {c}
  /\ scn_rsc' = [scn_rsc EXCEPT ![c] = resetValRow]
  /\ UNCHANGED <<row, kept>>
  /\ perfScnDisableRow(c)

RscNext ==
  \E c \in Client :
    \/ perfLockRelRow(c)
    \/ \E v \in RowValues : perfLockAcqRow(c, v) \/ perfLockAcqSameRow(c, v)

RscSpec == RscInit /\ [][RscNext]_rscVars
-----------------------------------------------------------------------------
IsInt32(v) == -2147483647 <= v /\ v <= 2147483647

\* Every number the arbitration of a row computes fits an int, the resting value
\* one beyond the end of its range included.
RscTypeOK ==
  /\ row \in RscCfgTbl
  /\ rOn \subseteq Client
  /\ \A c \in Client : \/ scn_rsc[c] = resetValRow
                       \/ row.min <= scn_rsc[c] /\ scn_rsc[c] <= row.max
  /\ IsInt32(resetValRow) /\ IsInt32(curVal)
  /\ lastCall.fn \in {"set", "unset"} /\ IsInt32(lastCall.arg)
  /\ \A v \in DOMAIN applied : applied[v] \in Int /\ kept[v] \in Nat
  /\ unsearched \in BOOLEAN

\* In a ranked row the clamped requests compete with each other and never with
\* the default: whatever values the row allows, the best request of the locks
\* that are on is what set_func got last, and the default what unset_func gets
\* when none is left.  Where an unmodified re-acquire gave up the ruling value and
\* nothing has searched since, the device keeps that value: it has no less than
\* the best request, and may have it when none is left.
BestRequestRules ==
  RankedRow =>
    IF unsearched THEN \A c \in rOn : ~BetterRow(scn_rsc[c], lastCall.arg)
    ELSE lastCall = IF rOn = {} THEN unset_func(row.def)
                    ELSE set_func(CHOOSE v \in {scn_rsc[c] : c \in rOn} :
                                    \A c \in rOn : ~BetterRow(scn_rsc[c], v))

\* loadRscTable says of resetVal that it "should be an invalid value".  No request
\* is taken for the absence of one, except in the three ONESHOT rows whose range
\* reaches from -1000000 to 1000000 and so contains RSC_TBL_INVALID_VALUE.
EveryRequestHeard ==
  \A c \in rOn : \/ scn_rsc[c] # resetValRow
                \/ row \in {Sticky(1000000, -1000000, 0)}

\* A ONESHOT row is told of the end of every value it was told of: set_func was
\* called once more than unset_func for each lock that asks for the value now, and
\* for each unmodified re-acquire of a lock that had asked for it before.
\* Setters that count (thermal policy) or keep a table (netd) rely on it.
SetsBalanced ==
  ~RankedRow => \A v \in DOMAIN applied :
               v # resetValRow =>
                 applied[v] = Cardinality({c \in rOn : scn_rsc[c] = v}) + kept[v]

\* The device is told of the requests: the best one of a ranked row, and the beginning
\* and the end of each one of a ONESHOT row.
RequestsReachDevice == BestRequestRules /\ SetsBalanced
=============================================================================
