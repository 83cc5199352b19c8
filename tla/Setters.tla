------------------------------ MODULE Setters ------------------------------
(***************************************************************************)
(* The arbitration of perfservice.cpp with the setters of SetterTbl, and   *)
(* what arrives at the kernel.                                             *)
(*                                                                         *)
(* Init picks a pair of setters.  A setter that is keyed by a process      *)
(* takes it from render_pid, a variable that the arbitration sets to the   *)
(* pid of the lock it works for before every call: where it is switched    *)
(* late, or not back, the value lands with, or is taken from, the wrong    *)
(* process.  A lock acquired again takes either branch of perfLockAcq,     *)
(* which compares the new list with memory that nothing has filled.        *)
(* Setters keyed by a thread (render_tid, a resource of its own) are left  *)
(* out, and priorities below PRIORITY_LOWEST, which no row ever hears.     *)
(* Ranked rows have no key, and their locks one priority.                  *)
(***************************************************************************)
EXTENDS SetterTbl, Integers

CONSTANTS
  LOCKS,        \* slots
  Pid,          \* processes a lock can be for
  SetterVal,    \* values a lock can ask for
  SetterPriority\* priorities of locks that are not mode locks

ASSUME SettersAssumption ==
  /\ LOCKS \in Nat \ {0} /\ Pid \subseteq Nat /\ SetterVal \subseteq 0..1
  /\ SetterPriority \subseteq 0..5

SETTER_MODE_PRIORITY == 6   \* MODE_PRIORITY = PRIORITY_LOWEST
DEFAULT_PRIORITY == 3       \* NORMAL_PRIORITY
NoVal == -1                 \* not asked for; on a device: at rest
Lock == 1..LOCKS

VARIABLES
  setter,     \* the pair of functions looked at
  lock,       \* the slots: on, priority, oneshotReset, hasReset, render_pid, val
  rsc,        \* gRscCtlTbl[idx]: curVal, priority
  device,     \* what the kernel holds, by key
  strays,     \* history: keys where a lock left its value behind
  disturbed   \* history: locks whose value was not set, or not since another's call

setterVars == <<setter, lock, rsc, device, strays, disturbed>>

Keys == CASE setter.key = "none" -> {0}
          [] setter.key = "pid" -> Pid
          [] setter.key = "arg" -> SetterVal
KeyOf(pid, v) == CASE setter.key = "none" -> 0
                   [] setter.key = "pid" -> pid
                   [] setter.key = "arg" -> v

SettersInit ==
  /\ setter \in {s \in SetterTbl : s.key # "tid"}
  /\ lock = [l \in Lock |-> [on |-> FALSE, priority |-> DEFAULT_PRIORITY,
                             oneshotReset |-> FALSE, hasReset |-> FALSE,
                             render_pid |-> NoVal, val |-> NoVal]]
  /\ rsc = [curVal |-> NoVal, priority |-> SETTER_MODE_PRIORITY]
  /\ device = [k \in Keys |-> NoVal]
  /\ strays = {} /\ disturbed = {}
-----------------------------------------------------------------------------
(***************************************************************************)
(* Calls, on t: a record of lock, rsc, device, the variable render_pid and *)
(* disturbed.  The device changes under the key that render_pid selects;   *)
(* the history goes by the process of the lock that the call is for.       *)
(***************************************************************************)

KeyOfLock(q) == KeyOf(q.render_pid, q.val)

set_fpsgo_render_pid(t, pid) == [t EXCEPT !.render_pid = pid]

SetCall(t, v) == [t EXCEPT !.device[KeyOf(t.render_pid, v)] = v]

\* What unset_func leaves where v was.
Leaves(v) == CASE setter.unset = "flip" -> 1 - v
               [] setter.unset = "same" -> v
               [] OTHER -> NoVal

UnsetCall(t, v) ==
  IF setter.unset = "none" THEN t
  ELSE [t EXCEPT !.device[KeyOf(t.render_pid, v)] = Leaves(v)]

\* A call that leaves w at key k disturbs the locks that want another value there.
Disturbs(t, k, w) ==
  [t EXCEPT !.disturbed = @ \cup {l \in Lock : KeyOfLock(t.lock[l]) = k /\ t.lock[l].val # w}]

\* set_func for lock i, which has its value from then on, and unset_func of v for lock i.
SetFor(t, i) ==
  [Disturbs(SetCall(t, t.lock[i].val), KeyOfLock(t.lock[i]), t.lock[i].val)
     EXCEPT !.disturbed = @ \ {i}]
UnsetFor(t, i, v) ==
  IF setter.unset = "none" THEN UnsetCall(t, v)
  ELSE Disturbs(UnsetCall(t, v), KeyOf(t.lock[i].render_pid, v), Leaves(v))

Asking(t) == {l \in Lock : t.lock[l].on /\ t.lock[l].val # NoVal}
HighestPriority(t) ==
  CHOOSE p \in 0 .. SETTER_MODE_PRIORITY :
    /\ \A l \in Asking(t) : p <= t.lock[l].priority
    /\ p = SETTER_MODE_PRIORITY \/ \E l \in Asking(t) : p = t.lock[l].priority
-----------------------------------------------------------------------------
(***************************************************************************)
(* perfScnEnable and perfScnUpdate for a ONESHOT row.                      *)
(***************************************************************************)

\* Mode locks give way to a higher priority: each is unset for its own process.
GiveWaySlot(s, t, i) ==
  IF i # s /\ i \in Asking(t) /\ t.lock[i].oneshotReset
     /\ t.lock[s].priority < t.rsc.priority
  THEN [UnsetFor(set_fpsgo_render_pid(t, t.lock[i].render_pid), i, t.lock[i].val)
          EXCEPT !.lock[i].hasReset = FALSE]
  ELSE t

GiveWay(s, t) ==
  LET upTo[i \in 0 .. LOCKS] == IF i = 0 THEN t ELSE GiveWaySlot(s, upTo[i - 1], i)
  IN  upTo[LOCKS]

\* A lock that is heard: mode locks give way, then it is set for its own process.
EnableOneshot(s, t) ==
  LET q == t.lock[s]
      u == set_fpsgo_render_pid(GiveWay(s, set_fpsgo_render_pid(t, q.render_pid)), q.render_pid)
  IN  IF q.val = NoVal \/ q.priority > t.rsc.priority THEN t
      ELSE [SetFor(u, s) EXCEPT !.rsc = [curVal |-> q.val, priority |-> q.priority]]

\* Mutant: render_pid is not switched to the process of the lock.
UpdateOneshot_NoSwitch(s, prev, t) ==
  LET q == t.lock[s]
      unset == IF prev # NoVal /\ prev # q.val THEN UnsetFor(t, s, prev) ELSE t
  IN  IF q.priority > t.rsc.priority THEN t
      ELSE IF q.val # NoVal /\ q.val # prev /\ t.rsc.priority = HighestPriority(t)
           THEN [SetFor(unset, s) EXCEPT !.rsc.curVal = q.val]
           ELSE unset

\* perfScnUpdate(s, 1): the previous value is unset, but for the new process.
UpdateOneshot(s, prev, t) ==
  LET q == t.lock[s]
      u == set_fpsgo_render_pid(t, q.render_pid)
      unset == IF prev # NoVal /\ prev # q.val THEN UnsetFor(u, s, prev) ELSE u
  IN  IF q.priority > t.rsc.priority THEN t
      ELSE IF q.val # NoVal /\ q.val # prev /\ t.rsc.priority = HighestPriority(t)
           THEN [SetFor(unset, s) EXCEPT !.rsc.curVal = q.val]
           ELSE unset

\* The loop that brings mode locks back.
BringBackSlot(t, i) ==
  IF /\ i \in Asking(t) /\ t.lock[i].oneshotReset
     /\ t.lock[i].priority = t.rsc.priority
     /\ ~t.lock[i].hasReset
     /\ t.lock[i].val # t.rsc.curVal
  THEN [SetFor(set_fpsgo_render_pid(t, t.lock[i].render_pid), i)
          EXCEPT !.rsc.curVal = t.lock[i].val, !.lock[i].hasReset = TRUE]
  ELSE t

BringBack(t) ==
  LET upTo[i \in 0 .. LOCKS] == IF i = 0 THEN t ELSE BringBackSlot(upTo[i - 1], i)
  IN  upTo[LOCKS]

\* Mutant: the value is taken from the process that render_pid happens to name.
DisableOneshot_NoSwitch(s, t) ==
  LET q == t.lock[s]
  IN  IF q.val = NoVal \/ q.priority > t.rsc.priority THEN t
      ELSE BringBack([UnsetFor(t, s, q.val) EXCEPT !.rsc.priority = HighestPriority(t)])

\* perfScnUpdate(s, 0); s is already off.
DisableOneshot(s, t) ==
  LET q == t.lock[s]
      u == set_fpsgo_render_pid(t, q.render_pid)
  IN  IF q.val = NoVal \/ q.priority > t.rsc.priority THEN t
      ELSE BringBack([UnsetFor(u, s, q.val) EXCEPT !.rsc.priority = HighestPriority(t)])
-----------------------------------------------------------------------------
(***************************************************************************)
(* The same for a ranked row (BIGGEST; SMALLEST mirrors it).               *)
(***************************************************************************)
BiggestOf(t) == CHOOSE v \in SetterVal \cup {NoVal} :
                  /\ \A l \in Asking(t) : t.lock[l].val <= v
                  /\ v = NoVal \/ \E l \in Asking(t) : t.lock[l].val = v

\* The search: set_func with the best value, or unset_func with the default, which
\* is the value at rest; nothing if the value is the current one.
SearchRanked(t) ==
  LET v == BiggestOf(t)
  IN  IF v = t.rsc.curVal THEN t
      ELSE [t EXCEPT !.rsc.curVal = v, !.device[0] = v]

EnableRanked(s, t) ==
  IF t.lock[s].val > t.rsc.curVal
  THEN [SetCall(t, t.lock[s].val) EXCEPT !.rsc.curVal = t.lock[s].val] ELSE t

DisableRanked(s, t) ==
  IF t.lock[s].val # NoVal /\ t.lock[s].val >= t.rsc.curVal THEN SearchRanked(t) ELSE t
-----------------------------------------------------------------------------
T(newLock, dist) == [lock |-> newLock, rsc |-> rsc, device |-> device, render_pid |-> NoVal,
                     disturbed |-> dist]

EnableSetter(s, t) == IF setter.ranked THEN EnableRanked(s, t) ELSE EnableOneshot(s, t)
UpdateSetter(s, prev, t) ==
  IF setter.ranked THEN SearchRanked(t) ELSE UpdateOneshot(s, prev, t)
DisableSetter(s, t) == IF setter.ranked THEN DisableRanked(s, t) ELSE DisableOneshot(s, t)

\* What is at k is what a lock that is on asks for there.
Wanted(t, k) ==
  \E l \in Lock : t.lock[l].on /\ KeyOfLock(t.lock[l]) = k /\ t.lock[l].val = t.device[k]

\* A key is a stray for as long as it holds what no lock wants there.
Becomes(t, stray) ==
  /\ lock' = t.lock /\ rsc' = t.rsc /\ device' = t.device
  /\ strays' = {k \in strays \cup stray : t.device[k] # NoVal /\ ~Wanted(t, k)}
  /\ disturbed' = {l \in t.disturbed : t.lock[l].on}
  /\ UNCHANGED setter

SlotFor(s, prio, reset, pid, v) ==
  [lock EXCEPT ![s].on = TRUE, ![s].priority = prio, ![s].render_pid = pid, ![s].val = v,
               ![s].oneshotReset = @ \/ reset \/ prio = SETTER_MODE_PRIORITY]

PrioritiesOf == IF setter.ranked THEN {DEFAULT_PRIORITY} ELSE SetterPriority \cup {SETTER_MODE_PRIORITY}
ResetsOf == IF setter.ranked THEN {FALSE} ELSE BOOLEAN   \* PERF_RES_POWERHAL_ONESHOT_RESET is asked for
PidsOf == IF setter.key = "pid" THEN Pid ELSE {NoVal}

\* A ONESHOT row hears a priority that is not lower than its own.
Hears(prio) == setter.ranked \/ prio <= rsc.priority

\* perfLockAcq of a lock that is not on.  One that is not heard is not set.
SetterLockAcq(s, prio, reset, pid, v) ==
  /\ ~lock[s].on /\ \A l \in Lock : l < s => lock[l].on
  /\ LET dist == IF Hears(prio) THEN disturbed ELSE disturbed \cup {s}
     IN  Becomes(EnableSetter(s, T(SlotFor(s, prio, reset, pid, v), dist)), {})

\* A lock acquired again, by the branch of perfLockAcq it takes.  Asked for the same
\* once more, it is as it was; otherwise it is to be set when it is heard, except
\* that the update passes over the same value for another process.
DisturbedAgain(s, pid, v, modified) ==
  LET q == lock[s]
  IN  IF pid = q.render_pid /\ v = q.val THEN disturbed
      ELSE IF Hears(q.priority) /\ (modified => v # q.val) THEN disturbed \ {s}
      ELSE disturbed \cup {s}

\* It leaves its old value behind with another process, when it is not heard, and when
\* perfScnEnable runs again without an unset: under another key, or for a lower
\* value of a ranked row.
StrayAgain(s, pid, v, modified) ==
  LET q == lock[s]
  IN  IF \/ KeyOfLock(q) # KeyOf(pid, q.val)
         \/ ~Hears(q.priority) /\ v # q.val
         \/ ~modified /\ KeyOf(pid, q.val) # KeyOf(pid, v)
         \/ ~modified /\ setter.ranked /\ v < q.val
      THEN {KeyOfLock(q)} ELSE {}

\* perfLockAcq of a lock that is on, for another process or with another value (at
\* another priority: PerfService and OneShot).
SetterLockReAcq(s, pid, v, modified) ==
  /\ lock[s].on
  /\ LET q == lock[s]
         t == T(SlotFor(s, q.priority, FALSE, pid, v), DisturbedAgain(s, pid, v, modified))
     IN  Becomes(IF modified THEN UpdateSetter(s, q.val, t) ELSE EnableSetter(s, t),
                 StrayAgain(s, pid, v, modified))

\* perfLockRel and resetScenario.  A lock of a lower priority than the resource has
\* is passed over, and what it set stays.
SetterLockRel(s) ==
  /\ lock[s].on
  /\ LET off == [lock EXCEPT ![s].on = FALSE]
         t == DisableSetter(s, T(off, disturbed))
         free == [t.lock EXCEPT ![s] =
                    [@ EXCEPT !.priority = DEFAULT_PRIORITY, !.oneshotReset = FALSE,
                              !.render_pid = NoVal, !.val = NoVal]]
     IN  Becomes([t EXCEPT !.lock = free],
                 IF Hears(lock[s].priority) THEN {} ELSE {KeyOfLock(lock[s])})

SettersNext ==
  \E s \in Lock :
    \/ \E pid \in PidsOf, v \in SetterVal :
         \/ \E prio \in PrioritiesOf, reset \in ResetsOf : SetterLockAcq(s, prio, reset, pid, v)
         \/ \E modified \in BOOLEAN : SetterLockReAcq(s, pid, v, modified)
    \/ SetterLockRel(s)

SettersSpec == SettersInit /\ [][SettersNext]_setterVars
-----------------------------------------------------------------------------
SettersTypeOK ==
  /\ setter \in SetterTbl
  /\ lock \in [Lock -> [on : BOOLEAN, priority : 0 .. SETTER_MODE_PRIORITY,
                        oneshotReset : BOOLEAN, hasReset : BOOLEAN,
                        render_pid : Pid \cup {NoVal}, val : SetterVal \cup {NoVal}]]
  /\ rsc \in [curVal : SetterVal \cup {NoVal}, priority : 0 .. SETTER_MODE_PRIORITY]
  /\ device \in [Keys -> NoVal .. 1]     \* a flipped node may hold what nobody asks for
  /\ strays \subseteq Keys /\ disturbed \subseteq Lock

\* Where unset_func puts a node to rest, a value at the kernel belongs to a lock
\* that is on and asks for it there.  The exceptions are those the code makes: a lock
\* released or acquired again while a higher priority rules is passed over, a lock
\* acquired again for another process leaves its value with the first, and one whose
\* list is found unmodified leaves it under the old key or, in a ranked row, above
\* what it asks for now.  A key stays an exception until the value is gone or wanted.
NoStray ==
  setter.unset = "clear" \/ setter.ranked =>
    \A k \in Keys \ strays :
      device[k] # NoVal =>
        \E l \in Lock : lock[l].on /\ KeyOfLock(lock[l]) = k /\ lock[l].val = device[k]

\* A lock that is on has its value at the kernel, under the key of its own process,
\* from the call that sets it until a call for another lock, or for itself as a mode
\* lock that gives way, leaves another value there.  A lock that is heard is set when
\* it is acquired and when it is acquired again with another value.
Effective ==
  \A l \in Lock :
    lock[l].on /\ lock[l].val # NoVal /\ l \notin disturbed
      => \/ device[KeyOfLock(lock[l])] = lock[l].val
         \/ setter.ranked /\ device[0] > lock[l].val
=============================================================================
