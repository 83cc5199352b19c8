------------------------------ MODULE OneShot ------------------------------
(***************************************************************************)
(* ONESHOT resources of perfservice.cpp: those that are not ranked.  The   *)
(* last request of the highest priority is written; a lock that is marked  *)
(* oneshotReset (game mode and other locks of MODE_PRIORITY, or by         *)
(* POWERHAL_ONESHOT_RESET) is withdrawn while a higher priority lock has   *)
(* the resource, and should be written again afterwards.                   *)
(*                                                                         *)
(* Resources are numbered as in gRscCtlTbl, because the loops over the     *)
(* table carry hasReset from one resource to the next.  Each action is one *)
(* call under sMutex.  Only resources that are not keyed by a process are  *)
(* meant: set_func and unset_func then act on a single node.               *)
(***************************************************************************)
EXTENDS Integers, FiniteSets

CONSTANTS
  N,           \* number of slots
  R,           \* number of ONESHOT resources
  ModeVal,     \* values that locks of MODE_PRIORITY ask for
  LockVal,     \* values that other locks ask for
  LockPriority,\* their priorities
  MaxResets,   \* bound: how many locks marked oneshotReset there are at a time
  Reacquire    \* can a lock be acquired again with another list?

Slot == 1..N
Rsc == 1..R
Rest == 0      \* not asked for; on the node, the default of unset_func

MODE_PRIORITY == 6
PRIORITY_LOWEST == 6
NORMAL_PRIORITY == 3

ASSUME OneShotAssumption ==
  /\ N \in Nat \ {0} /\ R \in Nat \ {0}
  /\ ModeVal \cup LockVal \subseteq Nat \ {Rest}
  /\ LockPriority \subseteq Nat
  /\ MaxResets \in Nat
  /\ Reacquire \in BOOLEAN

VARIABLES
  scn,      \* the slots: state, priority, oneshotReset, hasReset, rsc
  curVal,   \* gRscCtlTbl[r].curVal
  rscPriority, \* gRscCtlTbl[r].priority
  node,     \* what set_func or unset_func wrote last
  drifted   \* history: resources that a re-acquire added to or dropped from a
            \* lock, or whose lock it gave another priority, with no search since

vars == <<scn, curVal, rscPriority, node, drifted>>

Val == {Rest} \cup ModeVal \cup LockVal
Asked == [Rsc -> Val]
NoRsc == [r \in Rsc |-> Rest]

TypeOK ==
  /\ scn \in [Slot -> [state : {"free", "off", "on"}, priority : LockPriority \cup {NORMAL_PRIORITY, MODE_PRIORITY},
                       oneshotReset : BOOLEAN, hasReset : BOOLEAN,
                       rsc : Asked]]
  /\ curVal \in Asked
  /\ rscPriority \in [Rsc -> 0 .. PRIORITY_LOWEST]
  /\ node \in Asked
  /\ drifted \subseteq Rsc

Init ==
  /\ scn = [s \in Slot |-> [state |-> "free", priority |-> NORMAL_PRIORITY,
                            oneshotReset |-> FALSE, hasReset |-> FALSE,
                            rsc |-> NoRsc]]
  /\ curVal = NoRsc
  /\ rscPriority = [r \in Rsc |-> PRIORITY_LOWEST]
  /\ node = NoRsc
  /\ drifted = {}
-----------------------------------------------------------------------------
(***************************************************************************)
(* The loops over the resource table work on t, a record of the variables. *)
(***************************************************************************)

\* Locks that are on and ask for r.
HoldersIn(t, r) == {s \in Slot : t.scn[s].state = "on" /\ t.scn[s].rsc[r] # Rest}

\* The search of perfScnUpdate for the highest priority.
BestPriority(t, r) ==
  CHOOSE p \in 0 .. PRIORITY_LOWEST :
    /\ \A s \in HoldersIn(t, r) : p <= t.scn[s].priority
    /\ p = PRIORITY_LOWEST \/ \E s \in HoldersIn(t, r) : p = t.scn[s].priority

\* perfScnEnable for resource r: locks marked oneshotReset give way to a higher
\* priority, and the value is written.
EnableRsc(s, t, r) ==
  LET p == t.scn[s].priority
      gives(i) == /\ i # s /\ i \in HoldersIn(t, r) /\ t.scn[i].oneshotReset
                  /\ p < t.rscPriority[r]
  IN  IF t.scn[s].rsc[r] = Rest \/ p > t.rscPriority[r] THEN t
      ELSE [scn |-> [i \in Slot |-> IF gives(i) THEN [t.scn[i] EXCEPT !.hasReset = FALSE]
                                                ELSE t.scn[i]],
            curVal |-> [t.curVal EXCEPT ![r] = t.scn[s].rsc[r]],
            rscPriority |-> [t.rscPriority EXCEPT ![r] = p],
            node |-> [t.node EXCEPT ![r] = t.scn[s].rsc[r]]]

\* perfScnUpdate(s, 1) for resource r: the previous value (scn_prev_rsc) is
\* withdrawn, and the new one written if the priority of the entry is that of
\* the best request.
UpdateRsc(s, prev, t, r) ==
  LET new == t.scn[s].rsc[r]
      old == prev[r]
      unset == IF old # Rest /\ old # new THEN [t EXCEPT !.node[r] = Rest] ELSE t
  IN  IF t.scn[s].priority > t.rscPriority[r] THEN t
      ELSE IF new # Rest /\ new # old /\ t.rscPriority[r] = BestPriority(t, r)
           THEN [unset EXCEPT !.node[r] = new, !.curVal[r] = new]
           ELSE unset

\* One slot of the loop "reset low priority scenario setting (ex: game mode)".
RestoreSlot(r, t, i) ==
  IF /\ i \in HoldersIn(t, r) /\ t.scn[i].oneshotReset
     /\ t.scn[i].priority = t.rscPriority[r]
     /\ ~t.scn[i].hasReset
     /\ t.scn[i].rsc[r] # t.curVal[r]
  THEN [t EXCEPT !.node[r] = t.scn[i].rsc[r], !.curVal[r] = t.scn[i].rsc[r],
                 !.scn[i].hasReset = TRUE]
  ELSE t

Restore(r, t) ==
  LET upTo[i \in 0 .. N] == IF i = 0 THEN t ELSE RestoreSlot(r, upTo[i - 1], i)
  IN  upTo[N]

\* Mutant: the priority of the released lock stays behind.
DisableRsc_KeepsPriority(s, t, r) ==
  IF t.scn[s].rsc[r] = Rest \/ t.scn[s].priority > t.rscPriority[r] THEN t
  ELSE Restore(r, [t EXCEPT !.node[r] = Rest])

\* Mutant: unset_func is not called when another lock has the resource.
DisableRsc_NoUnset(s, t, r) ==
  IF t.scn[s].rsc[r] = Rest \/ t.scn[s].priority > t.rscPriority[r] THEN t
  ELSE Restore(r, [t EXCEPT !.node[r] = IF HoldersIn(t, r) = {} THEN Rest ELSE @,
                            !.rscPriority[r] = BestPriority(t, r)])

\* perfScnUpdate(s, 0) for resource r; slot s is already off.
DisableRsc(s, t, r) ==
  IF t.scn[s].rsc[r] = Rest \/ t.scn[s].priority > t.rscPriority[r] THEN t
  ELSE Restore(r, [t EXCEPT !.node[r] = Rest, !.rscPriority[r] = BestPriority(t, r)])

Table(newScn) == [scn |-> newScn, curVal |-> curVal,
                  rscPriority |-> rscPriority, node |-> node]

\* The loops over the resources.
perfScnEnable(s, t) ==
  LET upTo[r \in 0 .. R] == IF r = 0 THEN t ELSE EnableRsc(s, upTo[r - 1], r)
  IN  upTo[R]
perfScnUpdate(s, prev, t) ==
  LET upTo[r \in 0 .. R] == IF r = 0 THEN t ELSE UpdateRsc(s, prev, upTo[r - 1], r)
  IN  upTo[R]
perfScnDisable(s, t) ==
  LET upTo[r \in 0 .. R] == IF r = 0 THEN [t EXCEPT !.scn[s].state = "off"]
                                     ELSE DisableRsc(s, upTo[r - 1], r)
  IN  IF t.scn[s].state = "off" THEN t ELSE upTo[R]

\* The variables take the values that a loop leaves.
Becomes(t) == /\ scn' = t.scn /\ curVal' = t.curVal
              /\ rscPriority' = t.rscPriority /\ node' = t.node
-----------------------------------------------------------------------------
\* A request of a lock, which need not name any ONESHOT resource.  It is marked
\* oneshotReset by POWERHAL_PRIORITY = MODE_PRIORITY, or by POWERHAL_ONESHOT_RESET.
Request == {q \in [reset : BOOLEAN, priority : LockPriority \cup {MODE_PRIORITY},
                   rsc : Asked] :
              /\ q.priority = MODE_PRIORITY => q.reset
              /\ \A r \in Rsc : q.rsc[r] \in {Rest} \cup
                   (IF q.priority = MODE_PRIORITY THEN ModeVal ELSE LockVal)}

\* perfLockCheckHdl: the first free slot.  hasReset is not reset.
perfLockCheckHdl ==
  \E s \in Slot :
    /\ scn[s].state = "free" /\ \A i \in Slot : scn[i].state = "free" => s <= i
    /\ scn' = [scn EXCEPT ![s].state = "off"]
    /\ UNCHANGED <<curVal, rscPriority, node, drifted>>

\* The slot after resetScenario(s, 0) and cmdSetting of every command.
Reloaded(s, q) ==
  [scn EXCEPT ![s].rsc = q.rsc, ![s].priority = q.priority,
              ![s].oneshotReset = @ \/ q.reset]

ResetAllowed(s, q) ==
  q.reset => Cardinality({i \in Slot \ {s} : scn[i].oneshotReset}) < MaxResets

\* perfLockAcq of a lock that is not on.
perfLockAcq(s, q) ==
  /\ scn[s].state = "off" /\ ResetAllowed(s, q)
  /\ Becomes(perfScnEnable(s, Table([Reloaded(s, q) EXCEPT ![s].state = "on"])))
  /\ UNCHANGED drifted

\* perfLockAcq of a lock that is on, with a list that counts as modified.  (When
\* it may not is the matter of PerfService.)
perfLockReAcq(s, q) ==
  /\ Reacquire
  /\ scn[s].state = "on" /\ ResetAllowed(s, q)
  /\ Becomes(perfScnUpdate(s, scn[s].rsc, Table(Reloaded(s, q))))
  /\ drifted' = drifted \cup {r \in Rsc :
                   \/ (scn[s].rsc[r] = Rest) # (q.rsc[r] = Rest)
                   \/ q.rsc[r] # Rest /\ q.priority # scn[s].priority}

\* The resources that perfScnDisable(s) searches again.
Searched(s) == {r \in Rsc : /\ scn[s].state = "on" /\ scn[s].rsc[r] # Rest
                            /\ scn[s].priority <= rscPriority[r]}

\* The slot after resetScenario(s, 1).
Cleared(t, s) ==
  [t EXCEPT !.scn[s] = [state |-> "free", priority |-> NORMAL_PRIORITY,
                        oneshotReset |-> FALSE, hasReset |-> @.hasReset,
                        rsc |-> NoRsc]]

perfLockRel(s) ==
  /\ scn[s].state # "free"
  /\ Becomes(Cleared(perfScnDisable(s, Table(scn)), s))
  /\ drifted' = drifted \ Searched(s)

\* perfUserScnDisableAll, when s is the only lock that does not outlive the
\* screen: the scenario goes off and keeps its slot.
ScreenOff(s) ==
  /\ scn[s].state = "on"
  /\ Becomes(perfScnDisable(s, Table(scn)))
  /\ drifted' = drifted \ Searched(s)

Next ==
  \/ perfLockCheckHdl
  \/ \E s \in Slot, q \in Request : perfLockAcq(s, q) \/ perfLockReAcq(s, q)
  \/ \E s \in Slot : perfLockRel(s) \/ ScreenOff(s)

Spec == Init /\ [][Next]_vars
-----------------------------------------------------------------------------
Holders(r) == HoldersIn(Table(scn), r)

\* gRscCtlTbl[r].priority, kept up to date by single steps, is the highest
\* priority of the locks that have r: neither a released nor a preempted lock
\* leaves its priority behind to shut others out.  Only a re-acquire that does
\* more than change a value can (drifted), because perfScnUpdate(s, 1) does not
\* set the priority of the entry; the next search puts that right.
PriorityIsBest == \A r \in Rsc \ drifted : rscPriority[r] = BestPriority(Table(scn), r)

\* A written value belongs to a lock that still asks for it, and never to one
\* that a higher priority should keep out; the same exceptions.
NodeHasHolder ==
  \A r \in Rsc \ drifted : node[r] # Rest =>
    \E s \in Holders(r) : scn[s].priority = rscPriority[r] /\ node[r] = scn[s].rsc[r]

\* perfScnUpdate, "reset low priority scenario setting (ex: game mode)": a mode
\* lock that is the only one to ask for a resource has it.
ModeRestored ==
  \A r \in Rsc, s \in Slot :
    (Holders(r) = {s} /\ scn[s].priority = MODE_PRIORITY) => node[r] = scn[s].rsc[r]
=============================================================================
