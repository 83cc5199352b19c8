---------------------------- MODULE PerfService ----------------------------
(***************************************************************************)
(* The scenario table of libpowerhal (perfservice.cpp) and its arbitration *)
(* of ranked resources.                                                    *)
(*                                                                         *)
(* A client's perf lock occupies a slot of ptScnList.  While its scenario  *)
(* is on, the slot asks for a value of some resources.  A ranked resource  *)
(* (comp SMALLEST or BIGGEST in RscCfgTbl, "less" or "more" in tConTable)  *)
(* is given the best value among the requests of the highest priority;     *)
(* a smaller number is a higher priority.  ONESHOT resources are the       *)
(* subject of module OneShot.                                              *)
(*                                                                         *)
(* Every entry point of perfservice.cpp holds sMutex.  A call without a    *)
(* loop over the slots is one step.  A call that sweeps the table takes    *)
(* one step per slot, and keeps the mutex (sweep.kind # "none") meanwhile, *)
(* so that a client process can die in the middle of a sweep.              *)
(***************************************************************************)
EXTENDS Integers, FiniteSets

CONSTANTS
  N,              \* number of slots, REG_SCN_MAX in the code
  Pid,            \* client processes
  Rsc,            \* ranked resources
  Comp,           \* RscCfgTbl[r].comp
  MinVal, MaxVal, \* RscCfgTbl[r].minVal and maxVal
  DefVal,         \* RscCfgTbl[r].defaultVal, what unset_func restores
  AskVal,         \* the values that requests carry, per resource
  AskPriority,    \* the values that requests carry for POWERHAL_PRIORITY
  AskOffAction,   \* ... and for POWERHAL_SCREEN_OFF_STATE
  AskType,        \* kinds of lock that clients ask for
  AskShort,       \* whether they ask for a duration in 1..USER_DURATION_MAX
  AskSweep,       \* sweeps that are asked for: "check", "screen_off"
  CtrlRsc,        \* resources switched by CTRL_ON and CTRL_OFF
  MallocRepeats,  \* can malloc return a block that still holds the new list?
  NoCmd           \* the command is not in the request

Slot == 1..N
OffAction == {"disable", "enable", "wait_restore", "always_valid"}
ScnType == {"perf_lock", "cus_hint"}

ASSUME ConstantAssumption ==
  /\ N \in Nat \ {0}
  /\ IsFiniteSet(Rsc)
  /\ Comp \in [Rsc -> {"SMALLEST", "BIGGEST"}]
  /\ MinVal \in [Rsc -> Int]
  /\ MaxVal \in [Rsc -> Int]
  /\ DefVal \in [Rsc -> Int]
  /\ \A r \in Rsc : MinVal[r] <= MaxVal[r]
  /\ AskVal \in [Rsc -> SUBSET Int]
  /\ AskPriority \subseteq Int
  /\ AskOffAction \subseteq OffAction
  /\ AskType \subseteq ScnType
  /\ AskShort \subseteq BOOLEAN
  /\ AskSweep \subseteq {"check", "screen_off"}
  /\ CtrlRsc \subseteq Rsc
  /\ MallocRepeats \in BOOLEAN
  /\ NoCmd \notin Int \cup OffAction

NORMAL_PRIORITY == 3
PRIORITY_LOWEST == 6
NoPid == "no pid"

\* gRscCtlTbl[r].resetVal, one beyond the end of the range that never wins.
resetVal == [r \in Rsc |-> IF Comp[r] = "SMALLEST" THEN MaxVal[r] + 1
                                                    ELSE MinVal[r] - 1]

\* The values a slot may hold for r, and an entry may have.
RscVal(r) == (MinVal[r] .. MaxVal[r]) \cup {resetVal[r]}

\* A request: what the command list of one perfLockAcq says.
Request == [val  : {v \in [Rsc -> UNION {AskVal[r] : r \in Rsc} \cup {NoCmd}] :
                      \A r \in Rsc : v[r] \in AskVal[r] \cup {NoCmd}},
            prio : AskPriority \cup {NoCmd},
            act  : AskOffAction \cup {NoCmd}]

VARIABLES
  scn_type,           \* ptScnList[s].scn_type, "free" for -1
  scn_state,          \* STATE_OFF, STATE_ON or STATE_WAIT_RESTORE
  pid,                \* the owner
  priority,           \* POWERHAL_PRIORITY of the lock
  short_lock,         \* is lock_duration in 1..USER_DURATION_MAX?
  screen_off_action,  \* POWERHAL_SCREEN_OFF_STATE of the lock
  lock_rsc_size,      \* length of the last command list, in commands
  scn_rsc,            \* what the slot asks for each resource
  curVal,             \* gRscCtlTbl[r].curVal
  curSetter,          \* gRscCtlTbl[r].curSetter
  rscPriority,        \* gRscCtlTbl[r].priority
  isValid,            \* gRscCtlTbl[r].isValid = 1
  node,               \* the value last written through set_func or unset_func
  alive,              \* processes with a directory in /proc
  sweep,              \* the table sweep that holds sMutex
  suspect             \* history: entries that an unfaithful step left behind

scnVars == <<scn_type, scn_state, pid, priority, short_lock,
             screen_off_action, lock_rsc_size, scn_rsc>>
rscVars == <<curVal, curSetter, rscPriority, node>>
vars == <<scnVars, rscVars, isValid, alive, sweep, suspect>>

NoSweep == [kind |-> "none", at |-> 1, kill |-> FALSE,
            type |-> "perf_lock", pid |-> NoPid, short |-> FALSE]
SweepType == [kind : {"none", "alloc", "screen_off", "check"},
              at : 1 .. N + 1, kill : BOOLEAN, type : ScnType,
              pid : Pid \cup {NoPid}, short : BOOLEAN]

ScnTypeOK ==
  /\ scn_type \in [Slot -> ScnType \cup {"free"}]
  /\ scn_state \in [Slot -> {"off", "on", "wait_restore"}]
  /\ pid \in [Slot -> Pid \cup {NoPid}]
  /\ priority \in [Slot -> Int]
  /\ short_lock \in [Slot -> BOOLEAN]
  /\ screen_off_action \in [Slot -> OffAction]
  /\ lock_rsc_size \in [Slot -> Nat]
  /\ scn_rsc \in [Slot -> [Rsc -> Int]]
  /\ \A s \in Slot, r \in Rsc : scn_rsc[s][r] \in RscVal(r)

RscTypeOK ==
  /\ curVal \in [Rsc -> Int]
  /\ \A r \in Rsc : curVal[r] \in RscVal(r)
  /\ curSetter \in [Rsc -> Pid \cup {NoPid}]
  /\ rscPriority \in [Rsc -> Int]
  /\ node \in [Rsc -> Int]

\* A slot never asks for, and an entry never has, a value outside the range of
\* the resource: cmdSetting clamps whatever a client sends.
TypeOK ==
  /\ ScnTypeOK
  /\ RscTypeOK
  /\ isValid \in [Rsc -> BOOLEAN]
  /\ alive \subseteq Pid
  /\ sweep \in SweepType
  /\ suspect \subseteq Rsc
-----------------------------------------------------------------------------
(***************************************************************************)
(* Ranking.                                                                *)
(***************************************************************************)

\* Does the comparison of the resource prefer a to b?
Better(r, a, b) == IF Comp[r] = "SMALLEST" THEN a < b ELSE a > b

\* The slots that the search of perfScnUpdate considers for r.
Holders(r) == {s \in Slot : /\ scn_state[s] = "on"
                            /\ scn_rsc[s][r] # resetVal[r]
                            /\ priority[s] <= PRIORITY_LOWEST}

\* Slot s is not beaten by any holder of r.
Rules(r, s) ==
  /\ s \in Holders(r)
  /\ \A t \in Holders(r) :
       \/ priority[s] < priority[t]
       \/ /\ priority[s] = priority[t]
          /\ ~Better(r, scn_rsc[t][r], scn_rsc[s][r])

\* The search keeps the first of several equal requests.
Winner(r) == CHOOSE s \in Slot :
               Rules(r, s) /\ \A t \in Slot : Rules(r, t) => s <= t

\* curVal, priority and curSetter as the search of perfScnUpdate leaves them.
BestVal(r) == IF Holders(r) = {} THEN resetVal[r] ELSE scn_rsc[Winner(r)][r]
BestPriority(r) == IF Holders(r) = {} THEN PRIORITY_LOWEST
                                      ELSE priority[Winner(r)]
BestSetter(r) == IF Holders(r) = {} THEN NoPid ELSE pid[Winner(r)]

\* What the kernel is told when the entry takes value v.
Written(r, v) == IF v = resetVal[r] THEN DefVal[r] ELSE v

\* perfScnEnable gives r to a request for v of priority p.
Takes(r, v, p) ==
  /\ isValid[r]
  /\ \/ p = rscPriority[r] /\ Better(r, v, curVal[r])
     \/ p < rscPriority[r] /\ v # resetVal[r]

\* perfScnEnable(s), after the slot's own fields were set.
perfScnEnable(s) ==
  LET taken == {r \in Rsc : Takes(r, scn_rsc'[s][r], priority'[s])} IN
  /\ curVal' = [r \in Rsc |-> IF r \in taken THEN scn_rsc'[s][r] ELSE curVal[r]]
  /\ rscPriority' = [r \in Rsc |-> IF r \in taken THEN priority'[s]
                                                  ELSE rscPriority[r]]
  /\ curSetter' = [r \in Rsc |-> IF r \in taken THEN pid[s] ELSE curSetter[r]]
  /\ node' = [r \in Rsc |-> IF r \in taken THEN scn_rsc'[s][r] ELSE node[r]]

\* Mutant: unset_func is not called when the entry comes to rest.
perfScnUpdate_NoUnset(redo) ==
  /\ curVal' = [r \in Rsc |-> IF r \in redo THEN BestVal(r)' ELSE curVal[r]]
  /\ rscPriority' = [r \in Rsc |-> IF r \in redo THEN BestPriority(r)'
                                                 ELSE rscPriority[r]]
  /\ curSetter' = [r \in Rsc |-> IF r \in redo THEN BestSetter(r)'
                                               ELSE curSetter[r]]
  /\ node' = [r \in Rsc |-> IF curVal'[r] \notin {curVal[r], resetVal[r]}
                            THEN curVal'[r] ELSE node[r]]

\* The search of perfScnUpdate for the entries of redo, in the new table.
perfScnUpdate(redo) ==
  /\ curVal' = [r \in Rsc |-> IF r \in redo THEN BestVal(r)' ELSE curVal[r]]
  /\ rscPriority' = [r \in Rsc |-> IF r \in redo THEN BestPriority(r)'
                                                 ELSE rscPriority[r]]
  /\ curSetter' = [r \in Rsc |-> IF r \in redo THEN BestSetter(r)'
                                               ELSE curSetter[r]]
  /\ node' = [r \in Rsc |-> IF curVal'[r] # curVal[r]
                            THEN Written(r, curVal'[r]) ELSE node[r]]

\* Mutant: a lock of the ruling priority is not searched for on its release.
GivenUp_Strict(s) == {r \in Rsc : /\ scn_state[s] # "off"
                                  /\ isValid[r]
                                  /\ priority[s] < rscPriority[r]
                                  /\ scn_rsc[s][r] # resetVal[r]
                                  /\ ~Better(r, curVal[r], scn_rsc[s][r])}

\* The entries that perfScnUpdate(s, 0) searches again: those that slot s,
\* going off, may have been ruling.
GivenUp(s) == {r \in Rsc : /\ scn_state[s] # "off"
                           /\ isValid[r]
                           /\ priority[s] <= rscPriority[r]
                           /\ scn_rsc[s][r] # resetVal[r]
                           /\ ~Better(r, curVal[r], scn_rsc[s][r])}

\* The entries that perfScnUpdate(s, 1) searches again for priority p.
Forced(p) == {r \in Rsc : isValid[r] /\ p <= rscPriority[r]}

\* perfScnDisable(s) on the resource side; the caller sets the slot's fields.
perfScnDisable(s) ==
  /\ perfScnUpdate(GivenUp(s))
  /\ suspect' = suspect \ GivenUp(s)
-----------------------------------------------------------------------------
(***************************************************************************)
(* Slots.                                                                  *)
(***************************************************************************)

Free(s) == scn_type[s] = "free"
FirstFree(s) == Free(s) /\ \A t \in Slot : Free(t) => s <= t

\* Mutant: the priority of the last lock stays in the slot.
SetSlot_KeepsPriority(s, type, owner, short) ==
  /\ scn_type' = [scn_type EXCEPT ![s] = type]
  /\ scn_state' = [scn_state EXCEPT ![s] = "off"]
  /\ pid' = [pid EXCEPT ![s] = owner]
  /\ priority' = priority
  /\ short_lock' = [short_lock EXCEPT ![s] = short]
  /\ screen_off_action' = [screen_off_action EXCEPT ![s] = "disable"]
  /\ lock_rsc_size' = [lock_rsc_size EXCEPT ![s] = 0]
  /\ scn_rsc' = [scn_rsc EXCEPT ![s] = resetVal]

\* resetScenario(s, 1), then the registration of an owner unless type is "free".
SetSlot(s, type, owner, short) ==
  /\ scn_type' = [scn_type EXCEPT ![s] = type]
  /\ scn_state' = [scn_state EXCEPT ![s] = "off"]
  /\ pid' = [pid EXCEPT ![s] = owner]
  /\ priority' = [priority EXCEPT ![s] = NORMAL_PRIORITY]
  /\ short_lock' = [short_lock EXCEPT ![s] = short]
  /\ screen_off_action' = [screen_off_action EXCEPT ![s] = "disable"]
  /\ lock_rsc_size' = [lock_rsc_size EXCEPT ![s] = 0]
  /\ scn_rsc' = [scn_rsc EXCEPT ![s] = resetVal]

resetScenario(s) == SetSlot(s, "free", NoPid, FALSE)

Idle == sweep.kind = "none"

Init ==
  /\ scn_type = [s \in Slot |-> "free"]
  /\ scn_state = [s \in Slot |-> "off"]
  /\ pid = [s \in Slot |-> NoPid]
  /\ priority = [s \in Slot |-> NORMAL_PRIORITY]
  /\ short_lock = [s \in Slot |-> FALSE]
  /\ screen_off_action = [s \in Slot |-> "disable"]
  /\ lock_rsc_size = [s \in Slot |-> 0]
  /\ scn_rsc = [s \in Slot |-> resetVal]
  /\ curVal = resetVal
  /\ curSetter = [r \in Rsc |-> NoPid]
  /\ rscPriority = [r \in Rsc |-> PRIORITY_LOWEST]
  /\ isValid = [r \in Rsc |-> TRUE]
  /\ node = DefVal
  /\ alive = Pid
  /\ sweep = NoSweep
  /\ suspect = {}

\* perfLockCheckHdl with a handle that is not in the table: register the first
\* free slot, or sweep the table for dead owners first.  A process that is not
\* in /proc may only ask for a short lock.
perfLockCheckHdl(p, type, short) ==
  /\ Idle
  /\ p \in alive \/ short
  /\ \/ \E s \in Slot : FirstFree(s) /\ SetSlot(s, type, p, short)
        /\ UNCHANGED sweep
     \/ /\ \A s \in Slot : ~Free(s)
        /\ sweep' = [kind |-> "alloc", at |-> 1, kill |-> FALSE,
                     type |-> type, pid |-> p, short |-> short]
        /\ UNCHANGED scnVars
  /\ UNCHANGED <<rscVars, isValid, alive, suspect>>

\* Mutant: values above the range are not clamped.
cmdSetting_NoMax(r, v) == IF v = NoCmd THEN resetVal[r]
                          ELSE IF v < MinVal[r] THEN MinVal[r] ELSE v

\* cmdSetting for one resource: out of range values are clamped.
cmdSetting(r, v) == IF v = NoCmd THEN resetVal[r]
                    ELSE IF v < MinVal[r] THEN MinVal[r]
                    ELSE IF v > MaxVal[r] THEN MaxVal[r] ELSE v

Given(c) == IF c = NoCmd THEN 0 ELSE 1
ListSize(req) == Cardinality({r \in Rsc : req.val[r] # NoCmd})
                   + Given(req.prio) + Given(req.act)

\* rsc_modified for a list that reaches an enabled slot: the list is compared
\* with a block fresh from malloc, never with the list of the last call.
RscModified(s, req) ==
  IF MallocRepeats /\ ListSize(req) = lock_rsc_size[s] THEN BOOLEAN ELSE {TRUE}

\* perfLockAcq on the slot of its handle.
perfLockAcq(s, req, short) ==
  /\ Idle
  /\ ~Free(s)
  /\ ListSize(req) > 0
  /\ scn_rsc' = [scn_rsc EXCEPT ![s] = [r \in Rsc |-> cmdSetting(r, req.val[r])]]
  /\ priority' = [priority EXCEPT ![s] = IF req.prio = NoCmd THEN @ ELSE req.prio]
  /\ screen_off_action' = [screen_off_action EXCEPT ![s] =
                             IF req.act = NoCmd THEN "disable" ELSE req.act]
  /\ short_lock' = [short_lock EXCEPT ![s] = short]
  /\ lock_rsc_size' = [lock_rsc_size EXCEPT ![s] = ListSize(req)]
  /\ scn_state' = [scn_state EXCEPT ![s] = "on"]
  /\ UNCHANGED <<scn_type, pid, isValid, alive, sweep>>
  /\ \/ /\ scn_state[s] # "on"
        /\ perfScnEnable(s)
        /\ UNCHANGED suspect
     \/ /\ scn_state[s] = "on" /\ FALSE \in RscModified(s, req)
        /\ perfScnEnable(s)
        /\ suspect' = suspect \cup {r \in Rsc : \/ scn_rsc'[s][r] # scn_rsc[s][r]
                                                \/ priority'[s] # priority[s]}
     \/ /\ scn_state[s] = "on" /\ TRUE \in RscModified(s, req)
        /\ LET redo == Forced(priority'[s]) IN
           /\ perfScnUpdate(redo)
           /\ suspect' = (suspect \cup {r \in Rsc :
                            /\ scn_rsc[s][r] # resetVal[r]
                            /\ priority[s] = rscPriority[r]}) \ redo

\* perfLockRel on the slot of its handle.
perfLockRel(s) ==
  /\ Idle
  /\ ~Free(s)
  /\ resetScenario(s)
  /\ perfScnDisable(s)
  /\ UNCHANGED <<isValid, alive, sweep>>

\* powerRscCtrl, MTKPOWER_CMD_GET_RES_CTRL_ON and _OFF.
powerRscCtrl(r, on) ==
  /\ Idle
  /\ isValid[r] # on
  /\ isValid' = [isValid EXCEPT ![r] = on]
  /\ suspect' = suspect \cup {r}
  /\ UNCHANGED <<scnVars, rscVars, alive, sweep>>

\* A client process ends.
Die(p) ==
  /\ p \in alive
  /\ alive' = alive \ {p}
  /\ UNCHANGED <<scnVars, rscVars, isValid, sweep, suspect>>
-----------------------------------------------------------------------------
(***************************************************************************)
(* Sweeps of the table.                                                    *)
(***************************************************************************)

StartSweep(kind) ==
  /\ Idle /\ kind \in AskSweep
  /\ sweep' = [NoSweep EXCEPT !.kind = kind]
  /\ UNCHANGED <<scnVars, rscVars, isValid, alive, suspect>>

\* perfUserScnCheckAll, called by powerd's periodic timer.
perfUserScnCheckAll == StartSweep("check")

\* perfUserScnDisableAll, called when the screen goes off.
perfUserScnDisableAll == StartSweep("screen_off")

NextSlot == [sweep EXCEPT !.at = @ + 1, !.kill = FALSE]

\* Mutants: the sweeps keep scenarios that wait to be restored, do not know
\* always_valid, and pass over slots that are not on.
Exempt_Restorable(s) == Free(s) \/ screen_off_action[s] \in {"always_valid", "wait_restore"}
Exempt_FreeOnly(s) == Free(s)
Exempt_NotOn(s) == Free(s) \/ screen_off_action[s] = "always_valid" \/ scn_state[s] # "on"

Exempt(s) == Free(s) \/ screen_off_action[s] = "always_valid"

\* One slot of the sweep that looks for dead owners, on behalf of
\* perfUserScnCheckAll or of a full table.
ReapSlot(s) ==
  /\ sweep.kind \in {"check", "alloc"} /\ sweep.at = s
  /\ \/ /\ ~Exempt(s) /\ pid[s] \notin alive /\ ~short_lock[s]
        /\ resetScenario(s)
        /\ perfScnDisable(s)
     \/ /\ Exempt(s) \/ pid[s] \in alive \/ short_lock[s]
        /\ UNCHANGED <<scnVars, rscVars, suspect>>
  /\ sweep' = NextSlot
  /\ UNCHANGED <<isValid, alive>>

\* perfUserScnDisableAll, first half of the loop body: scenarios that do not
\* outlive the screen go off.
ScreenOffSlot(s) ==
  /\ sweep.kind = "screen_off" /\ sweep.at = s /\ ~sweep.kill
  /\ \/ /\ ~Exempt(s) /\ scn_state[s] = "on" /\ screen_off_action[s] # "enable"
        /\ scn_state' = [scn_state EXCEPT ![s] =
                           IF screen_off_action[s] = "wait_restore"
                           THEN "wait_restore" ELSE "off"]
        /\ UNCHANGED <<scn_type, pid, priority, short_lock, screen_off_action,
                       lock_rsc_size, scn_rsc>>
        /\ perfScnDisable(s)
     \/ /\ Exempt(s) \/ scn_state[s] # "on" \/ screen_off_action[s] = "enable"
        /\ UNCHANGED <<scnVars, rscVars, suspect>>
  /\ sweep' = IF Exempt(s) THEN NextSlot ELSE [sweep EXCEPT !.kill = TRUE]
  /\ UNCHANGED <<isValid, alive>>

\* Second half: a perf lock whose owner is dead is released.
KillSlot(s) ==
  /\ sweep.kind = "screen_off" /\ sweep.at = s /\ sweep.kill
  /\ \/ /\ scn_type[s] = "perf_lock" /\ pid[s] \notin alive
        /\ resetScenario(s)
        /\ perfScnDisable(s)
     \/ /\ scn_type[s] # "perf_lock" \/ pid[s] \in alive
        /\ UNCHANGED <<scnVars, rscVars, suspect>>
  /\ sweep' = NextSlot
  /\ UNCHANGED <<isValid, alive>>

\* The end of a sweep; one that was started by a full table now registers the
\* new owner if it freed a slot.
EndSweep ==
  /\ ~Idle /\ sweep.at = N + 1
  /\ \/ /\ sweep.kind = "alloc"
        /\ \E s \in Slot : /\ FirstFree(s)
                           /\ SetSlot(s, sweep.type, sweep.pid, sweep.short)
     \/ /\ sweep.kind = "alloc" => \A s \in Slot : ~Free(s)
        /\ UNCHANGED scnVars
  /\ sweep' = NoSweep
  /\ UNCHANGED <<rscVars, isValid, alive, suspect>>

SweepStep == EndSweep \/ \E s \in Slot : ReapSlot(s) \/ ScreenOffSlot(s) \/ KillSlot(s)

Next ==
  \/ \E p \in Pid, type \in AskType, short \in AskShort :
       perfLockCheckHdl(p, type, short)
  \/ \E s \in Slot, req \in Request, short \in AskShort : perfLockAcq(s, req, short)
  \/ \E s \in Slot : perfLockRel(s)
  \/ \E r \in CtrlRsc, on \in BOOLEAN : powerRscCtrl(r, on)
  \/ \E p \in Pid : Die(p)
  \/ perfUserScnCheckAll
  \/ perfUserScnDisableAll
  \/ SweepStep

Spec == Init /\ [][Next]_vars

\* The thread that holds sMutex keeps running, and the periodic timer gets the
\* mutex again and again.
FairSpec == Spec /\ WF_vars(SweepStep) /\ SF_vars(perfUserScnCheckAll)
-----------------------------------------------------------------------------
(***************************************************************************)
(* Properties.                                                             *)
(***************************************************************************)

\* What perfScnEnable and perfScnUpdate are for: the entry has the value, the
\* priority and the setter of a request that no other request beats, and is at
\* rest when nobody asks.
Arbitrated(r) ==
  /\ Holders(r) = {} => /\ curVal[r] = resetVal[r]
                        /\ rscPriority[r] = PRIORITY_LOWEST
  /\ Holders(r) # {} => \E s \in Slot : /\ Rules(r, s)
                                        /\ curVal[r] = scn_rsc[s][r]
                                        /\ rscPriority[r] = priority[s]
                                        /\ curSetter[r] = pid[s]

\* Although perfScnEnable and perfScnDisable touch an entry only when the slot
\* at hand looks relevant to it, the incremental result is always what a search
\* of the whole table would give.  The only exceptions (suspect) are entries
\* switched by CTRL_ON/CTRL_OFF, entries of a lock re-acquired with another list
\* that perfLockAcq took for unmodified, and entries of a ruling lock
\* re-acquired at a lower priority; a later search clears the exception.
Arbitration == \A r \in Rsc \ suspect : Arbitrated(r)

\* What was last written to the kernel is the table's current value, or the
\* default when the entry is at rest, whatever happened before.
NodeFollowsTable == \A r \in Rsc : node[r] = Written(r, curVal[r])

\* A released or reaped slot keeps no claim: it is off and asks for nothing.
FreeSlotClean ==
  \A s \in Slot : Free(s) => /\ scn_state[s] = "off"
                             /\ scn_rsc[s] = resetVal
                             /\ priority[s] = NORMAL_PRIORITY

\* When the screen-off sweep of perfUserScnDisableAll has ended, the only
\* scenarios still on are those whose screen-off state allows it: no lock
\* slipped in behind the sweep.
ScreenOffComplete ==
  [][(sweep.kind = "screen_off" /\ sweep'.kind = "none") =>
       \A s \in Slot : scn_state[s] = "on" =>
          screen_off_action[s] \in {"enable", "always_valid"}]_vars

\* mtkpower_types.h on SCREEN_OFF_ALWAYS_VALID: "powerhal never disable this
\* type".  No sweep turns such a scenario off or takes its slot.
AlwaysValidKept ==
  [][~Idle => \A s \in Slot : (~Free(s) /\ screen_off_action[s] = "always_valid")
                => UNCHANGED <<scn_type[s], scn_state[s], scn_rsc[s], pid[s]>>]_vars

\* A lock without a short duration does not outlive its process for ever: the
\* periodic check takes its slot back, unless it is always valid or someone who
\* knows the handle re-acquires it.
DeadOwnerReaped ==
  \A s \in Slot :
    (~Free(s) /\ pid[s] \notin alive /\ ~short_lock[s]
       /\ screen_off_action[s] # "always_valid")
    ~> (Free(s) \/ pid[s] \in alive \/ short_lock[s]
          \/ screen_off_action[s] = "always_valid")

\* With every lock gone, every entry is back at its default ("force_update == 0
\* => disable scenario").
NoBoostLeft ==
  (\A s \in Slot : Free(s)) => \A r \in Rsc : node[r] = DefVal[r]
=============================================================================
