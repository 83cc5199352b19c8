---------------------------- MODULE LockService ----------------------------
(***************************************************************************)
(* The life of a perf lock between the threads of the power HAL:           *)
(*                                                                         *)
(*  - binder threads in powerhal_api.cpp, one at a time under its sMutex:  *)
(*    they register a handle with perfLockCheckHdl and queue the request;  *)
(*  - mtkPowerMsgWorker, which drains the queue vWorkMsg under             *)
(*    g_cond_mutex and passes each request to powerd;                      *)
(*  - powerd (powerd_core.cpp), whose select loop executes requests and    *)
(*    expired timers, one at a time.                                       *)
(*                                                                         *)
(* What a lock asks for is left out (see PerfService): a slot of ptScnList *)
(* has a handle, an owner, a duration and is on or off.  Its type and its  *)
(* screen-off state, which exempt some slots from a sweep of the table,    *)
(* are not kept: a sweep may pass over any slots.  A call into             *)
(* perfservice.cpp is one step, since it holds the mutex of that file.     *)
(* POWER_MSG_TIMER_REQ, which gives a lock's timer another duration, is    *)
(* left out: setPerfLockDuration, which sends it, is called by nobody.     *)
(***************************************************************************)
EXTENDS Integers, Sequences, FiniteSets

CONSTANTS
  N,          \* number of slots, REG_SCN_MAX
  T,          \* number of timers, MAX_TIMER_COUNT; one is the periodic check
  Client,     \* client processes
  Durations,  \* durations that clients ask for
  MaxHandle,  \* bound: handles that are ever given out
  MaxQueue,   \* bound: requests waiting in vWorkMsg
  OnOff,      \* is MTKPOWER_CMD_GET_POWERHAL_ONOFF used?
  Exit,       \* is libpowerhal_ExitWorker used?
  Mortal      \* client processes that may die

Slot == 1..N
Timer == 1..T
Handle == 1..MaxHandle
NoHandle == 0
\* A duration of 0 is infinite; up to USER_DURATION_MAX it is short.
Duration == {"infinite", "short", "long"}
NoClient == "none"

ASSUME LockServiceAssumption ==
  /\ N \in Nat \ {0} /\ T \in Nat \ {0}
  /\ MaxHandle \in Nat /\ MaxQueue \in Nat
  /\ Durations \subseteq Duration
  /\ OnOff \in BOOLEAN /\ Exit \in BOOLEAN
  /\ Mortal \subseteq Client

VARIABLES
  slot,       \* ptScnList: hdl (0 for a free slot), owner, dur, on
  lastHandle, \* user_handle_now
  timer,      \* powerdTimer: use, hdl, and whether it is in ptimer's list
  queue,      \* vWorkMsg; "new" marks the acquire of a handle just given out
  worker,     \* "wait", "drain" (holds g_cond_mutex), "exit" or "gone"
  api,        \* the API call that holds sMutex, with its progress
  known,      \* handles returned to clients
  powerdOn,   \* powerdOnOff
  alive       \* processes with a directory in /proc

vars == <<slot, lastHandle, timer, queue, worker, api, known, powerdOn, alive>>

FreeSlot == [hdl |-> NoHandle, owner |-> NoClient, dur |-> "infinite", on |-> FALSE]
FreeTimer == [use |-> "free", hdl |-> NoHandle, armed |-> FALSE]
NoCall == [pc |-> "idle", hdl |-> NoHandle, owner |-> NoClient,
           dur |-> "infinite", new |-> FALSE]
Msg(op, h, c, d, n) == [op |-> op, hdl |-> h, owner |-> c, dur |-> d, new |-> n]

TypeOK ==
  /\ slot \in [Slot -> [hdl : Handle \cup {NoHandle}, owner : Client \cup {NoClient},
                        dur : Duration, on : BOOLEAN]]
  /\ lastHandle \in Handle \cup {NoHandle}
  /\ timer \in [Timer -> [use : {"free", "lock", "check"},
                          hdl : Handle \cup {NoHandle}, armed : BOOLEAN]]
  /\ queue \in Seq([op : {"acq", "rel", "exit"}, hdl : Handle \cup {NoHandle},
                    owner : Client \cup {NoClient}, dur : Duration, new : BOOLEAN])
  /\ worker \in {"wait", "drain", "exit", "gone"}
  /\ api \in [pc : {"idle", "check", "register", "enqueue"},
              hdl : Handle \cup {NoHandle},
              owner : Client \cup {NoClient}, dur : Duration, new : BOOLEAN]
  /\ known \subseteq Handle
  /\ powerdOn \in BOOLEAN
  /\ alive \subseteq Client

Init ==
  /\ slot = [s \in Slot |-> FreeSlot]
  /\ lastHandle = NoHandle
  /\ timer = [i \in Timer |-> IF i = 1 THEN [use |-> "check", hdl |-> NoHandle,
                                             armed |-> TRUE]
                                       ELSE FreeTimer]
  /\ queue = <<>>
  /\ worker = "wait"
  /\ api = NoCall
  /\ known = {}
  /\ powerdOn = TRUE
  /\ alive = Client
-----------------------------------------------------------------------------
(***************************************************************************)
(* perfservice.cpp.                                                        *)
(***************************************************************************)

\* The counter's wrap at HANDLE_RAND_MAX is beyond MaxHandle.
allocNewHandleNum == lastHandle + 1

\* findHandleToIndex: the slots with handle h, none for h = 0.
SlotsOf(h) == {s \in Slot : h # NoHandle /\ slot[s].hdl = h}

Released(h) == [s \in Slot |-> IF s \in SlotsOf(h) THEN FreeSlot ELSE slot[s]]

\* The slots that perfUserScnCheckAll and a full table take back.
Orphan(s) == /\ slot[s].hdl # NoHandle
             /\ slot[s].owner \notin alive
             /\ slot[s].dur # "short"
Reaped(exempt) ==
  [s \in Slot |-> IF Orphan(s) /\ s \notin exempt THEN FreeSlot ELSE slot[s]]

FirstFreeIn(table, s) ==
  /\ table[s].hdl = NoHandle
  /\ \A i \in Slot : table[i].hdl = NoHandle => s <= i

\* perfLockCheckHdl: the handle is kept if it is still in the table; otherwise
\* the first free slot gets a new one, after reaping if need be.
perfLockCheckHdl(c, d, exempt) ==
  LET full == \A s \in Slot : slot[s].hdl # NoHandle
      table == IF full THEN Reaped(exempt) ELSE slot
      free == {s \in Slot : FirstFreeIn(table, s)}
      refused == c \notin alive /\ d # "short"
  IN  \/ /\ refused
         /\ api' = [api EXCEPT !.pc = "enqueue", !.hdl = NoHandle]
         /\ UNCHANGED <<slot, lastHandle>>
      \/ /\ ~refused /\ SlotsOf(api.hdl) # {}
         /\ api' = [api EXCEPT !.pc = "enqueue"]
         /\ UNCHANGED <<slot, lastHandle>>
      \/ /\ ~refused /\ SlotsOf(api.hdl) = {} /\ free # {}
         /\ lastHandle < MaxHandle
         /\ lastHandle' = allocNewHandleNum
         /\ \E s \in free :
              slot' = [table EXCEPT ![s] = [hdl |-> lastHandle', owner |-> c,
                                            dur |-> d, on |-> FALSE]]
         /\ api' = [api EXCEPT !.pc = "enqueue", !.hdl = lastHandle', !.new = TRUE]
      \/ /\ ~refused /\ SlotsOf(api.hdl) = {} /\ free = {}
         /\ slot' = table
         /\ api' = [api EXCEPT !.pc = "enqueue", !.hdl = NoHandle]
         /\ UNCHANGED lastHandle
-----------------------------------------------------------------------------
(***************************************************************************)
(* powerhal_api.cpp, client side.  The worker keeps g_cond_mutex while it  *)
(* drains the queue, so that nobody can look at the queue or add to it.    *)
(***************************************************************************)
CondMutexFree == worker \notin {"drain", "exit"}

\* libpowerhal_LockAcq takes sMutex.  CusLockHint is the case h = 0.
LockAcq(c, h, d) ==
  /\ api.pc = "idle"
  /\ lastHandle < MaxHandle
  /\ api' = [pc |-> IF h # NoHandle THEN "check" ELSE "register",
             hdl |-> h, owner |-> c, dur |-> d, new |-> FALSE]
  /\ UNCHANGED <<slot, lastHandle, timer, queue, worker, known, powerdOn, alive>>

\* Mutant: only the next request of the queue is looked at.
check_work_req_HeadOnly ==
  /\ api.pc = "check" /\ CondMutexFree
  /\ queue # <<>> => ~(Head(queue).op = "rel" /\ Head(queue).hdl = api.hdl)
  /\ api' = [api EXCEPT !.pc = "register"]
  /\ UNCHANGED <<slot, lastHandle, timer, queue, worker, known, powerdOn, alive>>

\* check_work_req lets the call go on when no release of the handle is queued.
check_work_req ==
  /\ api.pc = "check" /\ CondMutexFree
  /\ \A i \in DOMAIN queue : ~(queue[i].op = "rel" /\ queue[i].hdl = api.hdl)
  /\ api' = [api EXCEPT !.pc = "register"]
  /\ UNCHANGED <<slot, lastHandle, timer, queue, worker, known, powerdOn, alive>>

Register ==
  /\ api.pc = "register"
  /\ \E exempt \in SUBSET Slot : perfLockCheckHdl(api.owner, api.dur, exempt)
  /\ UNCHANGED <<timer, queue, worker, known, powerdOn, alive>>

\* The request is queued, even without a handle, and the call returns.
Enqueue ==
  /\ api.pc = "enqueue" /\ CondMutexFree /\ Len(queue) < MaxQueue
  /\ queue' = Append(queue, Msg("acq", api.hdl, api.owner, api.dur, api.new))
  /\ known' = known \cup ({api.hdl} \ {NoHandle})
  /\ api' = NoCall
  /\ UNCHANGED <<slot, lastHandle, timer, worker, powerdOn, alive>>

\* libpowerhal_LockRel.  The client may go on to use the handle, for another
\* release or to acquire it again.
LockRel(h) ==
  /\ api.pc = "idle" /\ CondMutexFree /\ Len(queue) < MaxQueue
  /\ queue' = Append(queue, Msg("rel", h, NoClient, "infinite", FALSE))
  /\ UNCHANGED <<slot, lastHandle, timer, worker, api, known, powerdOn, alive>>

\* libpowerhal_ExitWorker.
ExitWorker ==
  /\ Exit
  /\ api.pc = "idle" /\ CondMutexFree /\ Len(queue) < MaxQueue
  /\ queue' = Append(queue, Msg("exit", NoHandle, NoClient, "infinite", FALSE))
  /\ UNCHANGED <<slot, lastHandle, timer, worker, api, known, powerdOn, alive>>

\* libpowerhal_UserScnDisableAll goes to powerd past the queue: scenarios go off,
\* and locks of dead owners are released.
UserScnDisableAll ==
  /\ api.pc = "idle" /\ powerdOn
  /\ \E off \in SUBSET Slot, dead \in SUBSET {s \in Slot : slot[s].owner \notin alive} :
       slot' = [s \in Slot |-> IF s \in dead THEN FreeSlot
                               ELSE IF s \in off THEN [slot[s] EXCEPT !.on = FALSE]
                               ELSE slot[s]]
  /\ UNCHANGED <<lastHandle, timer, queue, worker, api, known, powerdOn, alive>>
-----------------------------------------------------------------------------
(***************************************************************************)
(* powerd.                                                                 *)
(***************************************************************************)

\* remove_scn_timer: the first used timer of the handle.
TimersOf(h) == {i \in Timer : timer[i].use = "lock" /\ timer[i].hdl = h}
Without(h) == [i \in Timer |->
                 IF i \in TimersOf(h) /\ \A j \in TimersOf(h) : i <= j
                 THEN FreeTimer ELSE timer[i]]

\* start_scn_timer: silently nothing when the table is full.
StartIn(table, h) ==
  LET free == {i \in Timer : table[i].use = "free"} IN
  [i \in Timer |-> IF i \in free /\ \A j \in free : i <= j
                   THEN [use |-> "lock", hdl |-> h, armed |-> TRUE] ELSE table[i]]

\* Mutant: a new timer is started, and the old one not removed.
PowerdAcq_KeepsTimer(m) ==
  LET found == SlotsOf(m.hdl) IN
  IF ~powerdOn THEN UNCHANGED <<slot, timer>>
  ELSE /\ slot' = [s \in Slot |-> IF s \in found
                                  THEN [slot[s] EXCEPT !.on = TRUE, !.dur = m.dur]
                                  ELSE slot[s]]
       /\ timer' = IF found # {} /\ m.dur # "infinite"
                   THEN StartIn(timer, m.hdl) ELSE Without(m.hdl)

\* powerd_req, POWER_MSG_PERF_LOCK_ACQ.  perfLockAcq does nothing for a handle
\* that is not in the table.
PowerdAcq(m) ==
  LET found == SlotsOf(m.hdl) IN
  IF ~powerdOn THEN UNCHANGED <<slot, timer>>
  ELSE /\ slot' = [s \in Slot |-> IF s \in found
                                  THEN [slot[s] EXCEPT !.on = TRUE, !.dur = m.dur]
                                  ELSE slot[s]]
       /\ timer' = IF found # {} /\ m.dur # "infinite"
                   THEN StartIn(Without(m.hdl), m.hdl) ELSE Without(m.hdl)

\* Mutant: only a lock with a timer is released.
PowerdRel_OnlyTimed(m) ==
  IF ~powerdOn \/ TimersOf(m.hdl) = {} THEN UNCHANGED <<slot, timer>>
  ELSE slot' = Released(m.hdl) /\ timer' = Without(m.hdl)

\* powerd_req, POWER_MSG_PERF_LOCK_REL.
PowerdRel(m) ==
  IF ~powerdOn THEN UNCHANGED <<slot, timer>>
  ELSE slot' = Released(m.hdl) /\ timer' = Without(m.hdl)

\* Mutant: the thread waits for a second request.
WorkerWake_Late ==
  /\ worker = "wait" /\ Len(queue) > 1
  /\ worker' = "drain"
  /\ UNCHANGED <<slot, lastHandle, timer, queue, api, known, powerdOn, alive>>

\* mtkPowerMsgWorker wakes up and keeps g_cond_mutex.
WorkerWake ==
  /\ worker = "wait" /\ queue # <<>>
  /\ worker' = "drain"
  /\ UNCHANGED <<slot, lastHandle, timer, queue, api, known, powerdOn, alive>>

\* One request of the batch; power_msg waits for powerd's answer.
WorkerStep ==
  /\ worker \in {"drain", "exit"} /\ queue # <<>>
  /\ LET m == Head(queue) IN
       \/ m.op = "acq" /\ PowerdAcq(m) /\ UNCHANGED worker
       \/ m.op = "rel" /\ PowerdRel(m) /\ UNCHANGED worker
       \/ m.op = "exit" /\ worker' = "exit" /\ UNCHANGED <<slot, timer>>
  /\ queue' = Tail(queue)
  /\ UNCHANGED <<lastHandle, api, known, powerdOn, alive>>

\* The end of the batch: the mutex is released, the thread goes on or ends.
WorkerDone ==
  /\ worker \in {"drain", "exit"} /\ queue = <<>>
  /\ worker' = IF worker = "exit" THEN "gone" ELSE "wait"
  /\ UNCHANGED <<slot, lastHandle, timer, queue, api, known, powerdOn, alive>>

\* Mutant: the timer is given back, and the lock not released.
Expire_KeepsLock(i) ==
  /\ timer[i].armed
  /\ timer' = IF timer[i].use = "lock" THEN [timer EXCEPT ![i] = FreeTimer] ELSE timer
  /\ UNCHANGED <<slot, lastHandle, queue, worker, api, known, powerdOn, alive>>

\* An expired timer: powerd_core_timer_handle.  The timer is out of ptimer's
\* list before powerdOnOff is looked at.
Expire(i) ==
  /\ timer[i].armed
  /\ \/ /\ ~powerdOn
        /\ timer' = [timer EXCEPT ![i].armed = FALSE]
        /\ UNCHANGED slot
     \/ /\ powerdOn /\ timer[i].use = "lock"
        /\ slot' = Released(timer[i].hdl)
        /\ timer' = [timer EXCEPT ![i] = FreeTimer]
     \/ /\ powerdOn /\ timer[i].use = "check"
        /\ \E exempt \in SUBSET Slot : slot' = Reaped(exempt)
        /\ UNCHANGED timer
  /\ UNCHANGED <<lastHandle, queue, worker, api, known, powerdOn, alive>>

\* POWER_MSG_QUERY_INFO with MTKPOWER_CMD_GET_POWERHAL_ONOFF.
SetOnOff ==
  /\ OnOff
  /\ powerdOn' = ~powerdOn
  /\ UNCHANGED <<slot, lastHandle, timer, queue, worker, api, known, alive>>

Die(c) ==
  /\ c \in Mortal /\ c \in alive
  /\ alive' = alive \ {c}
  /\ UNCHANGED <<slot, lastHandle, timer, queue, worker, api, known, powerdOn>>

Next ==
  \/ \E c \in Client, h \in known \cup {NoHandle}, d \in Durations : LockAcq(c, h, d)
  \/ check_work_req
  \/ Register
  \/ Enqueue
  \/ \E h \in known : LockRel(h)
  \/ ExitWorker
  \/ UserScnDisableAll
  \/ WorkerWake
  \/ WorkerStep
  \/ WorkerDone
  \/ \E i \in Timer : Expire(i)
  \/ SetOnOff
  \/ \E c \in Client : Die(c)

Spec == Init /\ [][Next]_vars

\* The threads run, and time passes: an armed timer expires.
FairSpec ==
  /\ Spec
  /\ WF_vars(WorkerWake) /\ WF_vars(WorkerStep) /\ WF_vars(WorkerDone)
  /\ WF_vars(check_work_req) /\ WF_vars(Register) /\ WF_vars(Enqueue)
  /\ \A i \in Timer : WF_vars(Expire(i))
-----------------------------------------------------------------------------
TimedOn(h) == \E s \in SlotsOf(h) : slot[s].on /\ slot[s].dur # "infinite"

\* A request for h is on its way.
Pending(h) == \/ api.pc # "idle" /\ api.hdl = h
              \/ \E i \in DOMAIN queue : queue[i].op = "acq" /\ queue[i].hdl = h

\* While there are timers left, a lock that is on for a limited time has exactly
\* one timer, and that timer is running; a lock for an unlimited time has none.
\* Re-acquiring, releasing, reaping and expiring never leave a lock without the
\* timer that ends it, or with an old one that would end it early.
TimersMatchLocks ==
  /\ \A h \in Handle : TimedOn(h) =>
       /\ Cardinality(TimersOf(h)) = 1
       /\ \A i \in TimersOf(h) : timer[i].armed
  /\ \A s \in Slot : (slot[s].on /\ slot[s].dur = "infinite") => TimersOf(slot[s].hdl) = {}

\* What is queued is still right when the worker gets to it.  check_work_req: no
\* acquire is queued behind a release of the same handle, where it would find the
\* handle gone and be lost.  And a new lock of a live process still has its slot:
\* neither reaping, nor screen-off, nor the timer of an earlier lock takes it
\* between perfLockCheckHdl and the worker's perfLockAcq.
QueueStaysValid ==
  /\ \A i, j \in DOMAIN queue :
       (i < j /\ queue[i].op = "rel" /\ queue[j].op = "acq") => queue[i].hdl # queue[j].hdl
  /\ \A i \in DOMAIN queue :
       (queue[i].new /\ queue[i].owner \in alive) => SlotsOf(queue[i].hdl) # {}

\* A queued release is carried out.
ReleaseHonoured ==
  \A h \in Handle :
    (\E i \in DOMAIN queue : queue[i].op = "rel" /\ queue[i].hdl = h) ~> (SlotsOf(h) = {})

\* libpowerhal_LockAcq returns: check_work_req, which polls while it holds the
\* API's mutex, does not wait for ever.
CallReturns == api.pc # "idle" ~> api.pc = "idle"

\* perfLockCheckHdl_internal, "duration == 0 means infinite duration": any other
\* lock ends, unless it is asked for again.
TimedLockEnds == \A h \in Handle : TimedOn(h) ~> (~TimedOn(h) \/ Pending(h))
=============================================================================
