------------------------- MODULE LockServiceProofs -------------------------
(***************************************************************************)
(* Proofs about LockService: what is queued stays valid, and timers match  *)
(* locks, for every number of slots, timers, clients and requests.         *)
(***************************************************************************)
EXTENDS LockService, FiniteSetTheorems, LoopTheorems, TLAPS

Message == [op : {"acq", "rel", "exit"}, hdl : Handle \cup {NoHandle},
            owner : Client \cup {NoClient}, dur : Duration, new : BOOLEAN]

(***************************************************************************)
(* The inductive invariant for the queue.  Handles are given out in order, *)
(* so whatever carries a handle was made after it was given out.  A handle *)
(* just given out is fresh: it has no timer, nobody else knows it, and its *)
(* slot is there as long as its owner lives.                               *)
(***************************************************************************)
Fresh(h, c) ==
  /\ TimersOf(h) = {}
  /\ c \in alive => \E s \in Slot : slot[s].hdl = h /\ slot[s].owner = c

HandlesGiven ==
  /\ \A s \in Slot : slot[s].hdl <= lastHandle
  /\ \A i \in Timer : timer[i].hdl <= lastHandle
  /\ \A i \in DOMAIN queue : queue[i].hdl <= lastHandle
  /\ \A h \in known : h <= lastHandle
  /\ api.hdl <= lastHandle

\* Requests are queued in the right order.
QueueInOrder ==
  /\ \A i \in DOMAIN queue : queue[i].op = "rel" => queue[i].hdl # NoHandle
  /\ \A i, j \in DOMAIN queue :
       (i < j /\ queue[i].op = "rel" /\ queue[j].op = "acq") => queue[i].hdl # queue[j].hdl
  /\ \A j \in DOMAIN queue : queue[j].new =>
       /\ queue[j].op = "acq"
       /\ queue[j].hdl # NoHandle
       /\ \A i \in DOMAIN queue : i < j => queue[i].hdl # queue[j].hdl
       /\ Fresh(queue[j].hdl, queue[j].owner)

\* The call that holds sMutex.
CallInOrder ==
  /\ api.pc \in {"register", "enqueue"} =>
       \A i \in DOMAIN queue : queue[i].op = "rel" => queue[i].hdl # api.hdl
  /\ api.new => /\ api.pc = "enqueue"
                /\ api.hdl # NoHandle
                /\ api.hdl \notin known
                /\ \A i \in DOMAIN queue : queue[i].hdl # api.hdl
                /\ Fresh(api.hdl, api.owner)

QInv == TypeOK /\ HandlesGiven /\ QueueInOrder /\ CallInOrder
-----------------------------------------------------------------------------
(***************************************************************************)
(* Facts about the operators.                                              *)
(***************************************************************************)

\* A request is added behind the others.
LEMMA AppendFact ==
  ASSUME NEW q \in Seq(Message), NEW m \in Message
  PROVE  /\ Append(q, m) \in Seq(Message)
         /\ DOMAIN Append(q, m) = DOMAIN q \cup {Len(q) + 1}
         /\ \A i \in DOMAIN q : i \in Nat /\ i < Len(q) + 1 /\ Append(q, m)[i] = q[i]
         /\ Append(q, m)[Len(q) + 1] = m
         /\ Len(q) \in Nat
OBVIOUS

\* The first request is taken; the others keep their order.
LEMMA TailFact ==
  ASSUME NEW q \in Seq(Message), q # <<>>
  PROVE  /\ Tail(q) \in Seq(Message)
         /\ 1 \in DOMAIN q /\ Head(q) = q[1] /\ Head(q) \in Message
         /\ \A i \in DOMAIN Tail(q) : /\ i \in Nat /\ i + 1 \in DOMAIN q
                                     /\ 1 < i + 1 /\ Tail(q)[i] = q[i + 1]
OBVIOUS

\* The types of the tables and of what a call leaves in them.
LEMMA SlotTypes ==
  ASSUME TypeOK
  PROVE  /\ FreeSlot \in [hdl : Handle \cup {NoHandle}, owner : Client \cup {NoClient},
                          dur : Duration, on : BOOLEAN]
         /\ FreeTimer \in [use : {"free", "lock", "check"},
                           hdl : Handle \cup {NoHandle}, armed : BOOLEAN]
         /\ queue \in Seq(Message)
         /\ N \in Nat /\ T \in Nat /\ MaxHandle \in Nat /\ lastHandle \in Nat
         /\ \A h \in Handle \cup {NoHandle} : h \in Nat
BY LockServiceAssumption DEF TypeOK, FreeSlot, FreeTimer, Message, Handle, NoHandle, Duration

SlotTable == [Slot -> [hdl : Handle \cup {NoHandle}, owner : Client \cup {NoClient},
                       dur : Duration, on : BOOLEAN]]
TimerTable == [Timer -> [use : {"free", "lock", "check"},
                         hdl : Handle \cup {NoHandle}, armed : BOOLEAN]]

\* The operations of perfservice.cpp and powerd keep the tables' types.
LEMMA TableTypes ==
  ASSUME TypeOK, NEW h \in Handle \cup {NoHandle}
  PROVE  /\ slot \in SlotTable /\ timer \in TimerTable
         /\ Released(h) \in SlotTable
         /\ \A exempt : Reaped(exempt) \in SlotTable
         /\ Without(h) \in TimerTable
         /\ \A table \in TimerTable : StartIn(table, h) \in TimerTable
<1>1. slot \in SlotTable /\ timer \in TimerTable
  BY DEF TypeOK, SlotTable, TimerTable
<1>2. Released(h) \in SlotTable /\ \A exempt : Reaped(exempt) \in SlotTable
  BY <1>1, SlotTypes DEF Released, Reaped, SlotTable
<1>3. Without(h) \in TimerTable
  BY <1>1, SlotTypes DEF Without, TimerTable
<1>4. \A table \in TimerTable : StartIn(table, h) \in TimerTable
  BY DEF StartIn, TimerTable
<1> QED BY <1>1, <1>2, <1>3, <1>4

\* A registration keeps types, and gives the call a handle, the handle it came
\* with or none.
LEMMA RegisterTypes ==
  ASSUME TypeOK, Register
  PROVE  TypeOK'
<1>1. /\ api.pc = "register" /\ UNCHANGED <<timer, queue, worker, known, powerdOn, alive>>
      /\ api.owner \in Client \cup {NoClient} /\ api.dur \in Duration
  BY DEF Register, TypeOK
<1>2. PICK exempt \in SUBSET Slot : perfLockCheckHdl(api.owner, api.dur, exempt)
  BY DEF Register
<1> DEFINE full == \A s \in Slot : slot[s].hdl # NoHandle
           table == IF full THEN Reaped(exempt) ELSE slot
           free == {s \in Slot : FirstFreeIn(table, s)}
<1>3. table \in SlotTable /\ NoHandle \in Handle \cup {NoHandle}
  BY TableTypes
<1>4. CASE /\ api' = [api EXCEPT !.pc = "enqueue", !.hdl = NoHandle]
           /\ UNCHANGED <<slot, lastHandle>>
  BY <1>1, <1>4 DEF TypeOK
<1>5. CASE api' = [api EXCEPT !.pc = "enqueue"] /\ UNCHANGED <<slot, lastHandle>>
  BY <1>1, <1>5 DEF TypeOK
<1>6. CASE /\ lastHandle < MaxHandle /\ lastHandle' = allocNewHandleNum
           /\ \E s \in free :
                slot' = [table EXCEPT ![s] = [hdl |-> lastHandle', owner |-> api.owner,
                                              dur |-> api.dur, on |-> FALSE]]
           /\ api' = [api EXCEPT !.pc = "enqueue", !.hdl = lastHandle', !.new = TRUE]
  <2>1. lastHandle' \in Handle
    BY <1>6, SlotTypes DEF allocNewHandleNum, Handle
  <2>2. slot' \in SlotTable
    <3>1. PICK s \in Slot :
            slot' = [table EXCEPT ![s] = [hdl |-> lastHandle', owner |-> api.owner,
                                          dur |-> api.dur, on |-> FALSE]]
      BY <1>6
    <3> HIDE DEF table
    <3> QED BY <1>1, <1>3, <2>1, <3>1 DEF SlotTable
  <2>3. api' \in [pc : {"idle", "check", "register", "enqueue"},
                  hdl : Handle \cup {NoHandle},
                  owner : Client \cup {NoClient}, dur : Duration, new : BOOLEAN]
    BY <1>6, <2>1 DEF TypeOK
  <2> QED BY <1>1, <2>1, <2>2, <2>3 DEF TypeOK, SlotTable
<1>7. CASE /\ slot' = table /\ UNCHANGED lastHandle
           /\ api' = [api EXCEPT !.pc = "enqueue", !.hdl = NoHandle]
  <2> HIDE DEF table
  <2> QED BY <1>1, <1>3, <1>7 DEF TypeOK, SlotTable
<1> QED BY <1>2, <1>4, <1>5, <1>6, <1>7 DEF perfLockCheckHdl

\* One request carried out keeps types.
LEMMA WorkerTypes ==
  ASSUME TypeOK, WorkerStep
  PROVE  TypeOK'
<1>1. queue \in Seq(Message) /\ queue # <<>> /\ queue' = Tail(queue)
  BY SlotTypes DEF WorkerStep
<1>2. queue' \in Seq(Message) /\ Head(queue) \in Message
  BY <1>1, TailFact
<1> DEFINE m == Head(queue)
<1>3. /\ m.hdl \in Handle \cup {NoHandle} /\ m.dur \in Duration
  BY <1>2 DEF Message
<1>4. slot' \in SlotTable /\ timer' \in TimerTable
  <2>1. CASE UNCHANGED <<slot, timer>>
    BY <2>1, <1>3, TableTypes
  <2>2. CASE PowerdAcq(m) /\ powerdOn
    <3>1. slot' = [s \in Slot |-> IF s \in SlotsOf(m.hdl)
                                  THEN [slot[s] EXCEPT !.on = TRUE, !.dur = m.dur]
                                  ELSE slot[s]]
      BY <2>2 DEF PowerdAcq
    <3>2. timer' \in {StartIn(Without(m.hdl), m.hdl), Without(m.hdl)}
      BY <2>2 DEF PowerdAcq
    <3>3. slot' \in SlotTable
      BY <1>3, <3>1, TableTypes DEF SlotTable
    <3>4. timer' \in TimerTable
      BY <1>3, <3>2, TableTypes
    <3> QED BY <3>3, <3>4
  <2>3. CASE PowerdRel(m) /\ powerdOn
    BY <1>3, <2>3, TableTypes DEF PowerdRel
  <2> QED BY <2>1, <2>2, <2>3 DEF WorkerStep, PowerdAcq, PowerdRel
<1>5. worker' \in {"wait", "drain", "exit", "gone"}
  BY DEF WorkerStep, TypeOK
<1>6. UNCHANGED <<lastHandle, api, known, powerdOn, alive>>
  BY DEF WorkerStep
<1> QED BY <1>2, <1>4, <1>5, <1>6 DEF TypeOK, SlotTable, TimerTable, Message

\* An expired timer keeps types.
LEMMA ExpireTypes ==
  ASSUME TypeOK, NEW i \in Timer, Expire(i)
  PROVE  TypeOK'
<1>1. timer[i].hdl \in Handle \cup {NoHandle} /\ timer \in TimerTable /\ slot \in SlotTable
  BY DEF TypeOK, TimerTable, SlotTable
<1>2. slot' \in SlotTable
  BY <1>1, TableTypes DEF Expire
<1>3. timer' \in TimerTable
  BY <1>1, SlotTypes DEF Expire, TimerTable
<1> QED BY <1>2, <1>3 DEF Expire, TypeOK, SlotTable, TimerTable

DisabledOrFreed(s) ==
  \/ slot'[s] = FreeSlot /\ slot[s].owner \notin alive
  \/ /\ slot'[s].hdl = slot[s].hdl /\ slot'[s].owner = slot[s].owner
     /\ slot'[s].dur = slot[s].dur
     /\ slot'[s].on => slot[s].on

\* UserScnDisableAll frees only slots of dead owners, and turns the others off or
\* leaves them alone.
LEMMA DisableAllFact ==
  ASSUME TypeOK, UserScnDisableAll
  PROVE  /\ slot' \in SlotTable
         /\ \A s \in Slot : DisabledOrFreed(s)
<1>1. PICK off \in SUBSET Slot, dead \in SUBSET {s \in Slot : slot[s].owner \notin alive} :
        slot' = [s \in Slot |-> IF s \in dead THEN FreeSlot
                                ELSE IF s \in off THEN [slot[s] EXCEPT !.on = FALSE]
                                ELSE slot[s]]
  BY DEF UserScnDisableAll
<1>2. slot \in SlotTable
  BY DEF TypeOK, SlotTable
<1>3. ASSUME NEW s \in Slot
      PROVE  /\ slot'[s] \in [hdl : Handle \cup {NoHandle}, owner : Client \cup {NoClient},
                              dur : Duration, on : BOOLEAN]
             /\ DisabledOrFreed(s)
  <2>1. slot[s] \in [hdl : Handle \cup {NoHandle}, owner : Client \cup {NoClient},
                     dur : Duration, on : BOOLEAN]
    BY <1>2 DEF SlotTable
  <2>2. CASE s \in dead
    BY <1>1, <2>2, SlotTypes DEF DisabledOrFreed
  <2>3. CASE s \notin dead /\ s \in off
    <3>1. slot'[s] = [slot[s] EXCEPT !.on = FALSE]
      BY <1>1, <2>3
    <3> QED BY <2>1, <3>1 DEF DisabledOrFreed
  <2>4. CASE s \notin dead /\ s \notin off
    BY <1>1, <2>1, <2>4 DEF DisabledOrFreed
  <2> QED BY <2>2, <2>3, <2>4
<1>4. slot' \in SlotTable
  BY <1>1, <1>3 DEF SlotTable
<1> QED BY <1>3, <1>4

\* A request that a client queues has the type of a message.
LEMMA EnqueueTypes ==
  ASSUME TypeOK, NEW m \in Message, queue' = Append(queue, m)
  PROVE  queue' \in Seq(Message)
BY SlotTypes, AppendFact

\* Every step keeps types.
LEMMA TypeStep == TypeOK /\ [Next]_vars => TypeOK'
<1> SUFFICES ASSUME TypeOK, [Next]_vars PROVE TypeOK'
  OBVIOUS
<1>1. ASSUME NEW c \in Client, NEW h \in known \cup {NoHandle}, NEW d \in Durations,
             LockAcq(c, h, d)
      PROVE  TypeOK'
  <2>1. h \in Handle \cup {NoHandle} /\ d \in Duration
    BY LockServiceAssumption DEF TypeOK
  <2> QED BY <1>1, <2>1 DEF LockAcq, TypeOK
<1>2. CASE check_work_req
  BY <1>2 DEF check_work_req, TypeOK
<1>3. CASE Register
  BY <1>3, RegisterTypes
<1>4. CASE Enqueue
  <2>1. Msg("acq", api.hdl, api.owner, api.dur, api.new) \in Message
    BY DEF TypeOK, Msg, Message
  <2>2. queue' \in Seq(Message)
    BY <1>4, <2>1, EnqueueTypes DEF Enqueue
  <2>3. api' = NoCall /\ known' \subseteq Handle
    BY <1>4 DEF Enqueue, TypeOK
  <2> QED BY <1>4, <2>2, <2>3 DEF Enqueue, TypeOK, NoCall, Message, Duration
<1>5. ASSUME NEW h \in known, LockRel(h) PROVE TypeOK'
  <2>1. Msg("rel", h, NoClient, "infinite", FALSE) \in Message
    BY DEF TypeOK, Msg, Message, Duration
  <2>2. queue' \in Seq(Message)
    BY <1>5, <2>1, EnqueueTypes DEF LockRel
  <2> QED BY <1>5, <2>2 DEF LockRel, TypeOK, Message
<1>6. CASE ExitWorker
  <2>1. Msg("exit", NoHandle, NoClient, "infinite", FALSE) \in Message
    BY DEF Msg, Message, Duration
  <2>2. queue' \in Seq(Message)
    BY <1>6, <2>1, EnqueueTypes DEF ExitWorker
  <2> QED BY <1>6, <2>2 DEF ExitWorker, TypeOK, Message
<1>7. CASE UserScnDisableAll
  <2>1. slot' \in SlotTable
    BY <1>7, DisableAllFact
  <2> QED BY <1>7, <2>1 DEF UserScnDisableAll, TypeOK, SlotTable
<1>8. CASE WorkerWake
  BY <1>8 DEF WorkerWake, TypeOK
<1>9. CASE WorkerStep
  BY <1>9, WorkerTypes
<1>10. CASE WorkerDone
  BY <1>10 DEF WorkerDone, TypeOK
<1>11. ASSUME NEW i \in Timer, Expire(i) PROVE TypeOK'
  BY <1>11, ExpireTypes
<1>12. CASE SetOnOff
  BY <1>12 DEF SetOnOff, TypeOK
<1>13. ASSUME NEW c \in Client, Die(c) PROVE TypeOK'
  BY <1>13 DEF Die, TypeOK
<1>14. CASE UNCHANGED vars
  BY <1>14 DEF vars, TypeOK
<1> QED
  BY <1>1, <1>2, <1>3, <1>4, <1>5, <1>6, <1>7, <1>8, <1>9, <1>10, <1>11, <1>12,
     <1>13, <1>14 DEF Next

\* The initial tables, queue and call have their types.
LEMMA InitTypes == Init => TypeOK
<1> SUFFICES ASSUME Init PROVE TypeOK
  OBVIOUS
<1>1. queue \in Seq(Message)
  BY DEF Init
<1> QED BY <1>1 DEF Init, TypeOK, FreeSlot, FreeTimer, NoCall, Duration, Message

\* For any number of slots, timers, clients and requests, the tables, the queue
\* and the call under way keep their types; in particular no handle beyond those
\* that were given out appears anywhere.
THEOREM TypeCorrect == Spec => []TypeOK
BY InitTypes, TypeStep, PTL DEF Spec
-----------------------------------------------------------------------------
(***************************************************************************)
(* What the operations do to a slot and to a timer.                        *)
(***************************************************************************)

\* Slot s is as before, or was taken back from a dead owner.
KeptOrReaped(s) == slot'[s] = slot[s] \/ (slot'[s] = FreeSlot /\ Orphan(s))

\* A registration takes a slot that nobody uses for a new handle, or none.
LEMMA RegisterFact ==
  ASSUME TypeOK, Register
  PROVE  /\ UNCHANGED <<timer, queue, worker, known, powerdOn, alive>>
         /\ api.pc = "register" /\ api'.pc = "enqueue" /\ api'.owner = api.owner
         /\ \/ /\ lastHandle' = lastHandle
               /\ api'.hdl \in {api.hdl, NoHandle} /\ api'.new = api.new
               /\ \A s \in Slot : KeptOrReaped(s)
            \/ /\ lastHandle' = lastHandle + 1
               /\ api'.hdl = lastHandle' /\ api'.new = TRUE
               /\ \E s \in Slot :
                    /\ slot[s].hdl = NoHandle \/ Orphan(s)
                    /\ slot'[s] = [hdl |-> lastHandle', owner |-> api.owner,
                                   dur |-> api.dur, on |-> FALSE]
                    /\ \A t \in Slot \ {s} : KeptOrReaped(t)
<1>1. PICK exempt \in SUBSET Slot : perfLockCheckHdl(api.owner, api.dur, exempt)
  BY DEF Register
<1> DEFINE full == \A s \in Slot : slot[s].hdl # NoHandle
           table == IF full THEN Reaped(exempt) ELSE slot
           free == {s \in Slot : FirstFreeIn(table, s)}
<1>2. table \in SlotTable /\ slot \in SlotTable /\ Reaped(exempt) \in SlotTable
  BY TableTypes
<1>3. \A s \in Slot : table[s] = slot[s] \/ (table[s] = FreeSlot /\ Orphan(s))
  <2>1. CASE full
    BY <2>1 DEF Reaped
  <2>2. CASE ~full
    BY <2>2
  <2> QED BY <2>1, <2>2
<1>4. /\ UNCHANGED <<timer, queue, worker, known, powerdOn, alive>>
      /\ api.pc = "register"
      /\ api \in [pc : {"idle", "check", "register", "enqueue"},
                  hdl : Handle \cup {NoHandle},
                  owner : Client \cup {NoClient}, dur : Duration, new : BOOLEAN]
  BY DEF Register, TypeOK
<1>5. CASE /\ api' = [api EXCEPT !.pc = "enqueue", !.hdl = NoHandle]
           /\ UNCHANGED <<slot, lastHandle>>
  BY <1>4, <1>5 DEF KeptOrReaped
<1>6. CASE api' = [api EXCEPT !.pc = "enqueue"] /\ UNCHANGED <<slot, lastHandle>>
  BY <1>4, <1>6 DEF KeptOrReaped
<1>7. CASE /\ lastHandle < MaxHandle /\ lastHandle' = allocNewHandleNum
           /\ \E s \in free :
                slot' = [table EXCEPT ![s] = [hdl |-> lastHandle', owner |-> api.owner,
                                              dur |-> api.dur, on |-> FALSE]]
           /\ api' = [api EXCEPT !.pc = "enqueue", !.hdl = lastHandle', !.new = TRUE]
  <2>1. PICK s \in free :
          slot' = [table EXCEPT ![s] = [hdl |-> lastHandle', owner |-> api.owner,
                                        dur |-> api.dur, on |-> FALSE]]
    BY <1>7
  <2>2. s \in Slot /\ table[s].hdl = NoHandle
    BY DEF FirstFreeIn
  <2>3. slot[s].hdl = NoHandle \/ Orphan(s)
    BY <1>3, <2>2
  <2> HIDE DEF table, free
  <2>4. /\ slot'[s] = [hdl |-> lastHandle', owner |-> api.owner,
                       dur |-> api.dur, on |-> FALSE]
        /\ \A t \in Slot \ {s} : KeptOrReaped(t)
    BY <1>2, <1>3, <2>1, <2>2 DEF SlotTable, KeptOrReaped
  <2>5. api'.pc = "enqueue" /\ api'.hdl = lastHandle' /\ api'.new = TRUE
        /\ api'.owner = api.owner
    BY <1>4, <1>7
  <2> QED BY <1>4, <1>7, <2>2, <2>3, <2>4, <2>5 DEF allocNewHandleNum
<1>8. CASE /\ slot' = table /\ UNCHANGED lastHandle
           /\ api' = [api EXCEPT !.pc = "enqueue", !.hdl = NoHandle]
  <2> HIDE DEF table
  <2>1. api'.pc = "enqueue" /\ api'.hdl = NoHandle /\ api'.new = api.new
        /\ api'.owner = api.owner
    BY <1>4, <1>8
  <2> QED BY <1>3, <1>4, <1>8, <2>1 DEF KeptOrReaped
<1> QED BY <1>1, <1>5, <1>6, <1>7, <1>8 DEF perfLockCheckHdl

\* A handle stays fresh when it gets no timer and its slot is not taken from a
\* live owner.
LEMMA FreshKept ==
  ASSUME NEW h, NEW c, Fresh(h, c), alive' \subseteq alive, TimersOf(h)' = {},
         \A s \in Slot : (slot[s].hdl = h /\ slot[s].owner \in alive) =>
                          slot'[s].hdl = h /\ slot'[s].owner = slot[s].owner
  PROVE  Fresh(h, c)'
BY DEF Fresh

\* Starting a timer for h takes a free one, and removing it changes no other.
LEMMA TimerOps ==
  ASSUME TypeOK, NEW h \in Handle \cup {NoHandle}
  PROVE  /\ \A i \in Timer : Without(h)[i] = timer[i] \/ Without(h)[i] = FreeTimer
         /\ \A table \in TimerTable, i \in Timer :
              \/ StartIn(table, h)[i] = table[i]
              \/ StartIn(table, h)[i] = [use |-> "lock", hdl |-> h, armed |-> TRUE]
BY DEF Without, StartIn
-----------------------------------------------------------------------------
(***************************************************************************)
(* The queue.                                                              *)
(***************************************************************************)

\* A step of powerd or of a process outside the API: what is fresh stays so.
LEMMA QuietQueue ==
  ASSUME QInv, TypeOK', UNCHANGED <<queue, api, known, lastHandle>>, HandlesGiven',
         \A h, c : h # NoHandle /\ Fresh(h, c) => Fresh(h, c)'
  PROVE  QInv'
<1>1. QueueInOrder'
  BY DEF QInv, QueueInOrder
<1>2. CallInOrder'
  BY DEF QInv, CallInOrder
<1> QED BY <1>1, <1>2 DEF QInv

\* Slots and timers that are freed, or keep their handle, have handles that were
\* given out.
LEMMA HandlesKept ==
  ASSUME QInv, TypeOK', UNCHANGED <<queue, api, known, lastHandle>>,
         \A s \in Slot : slot'[s].hdl = slot[s].hdl \/ slot'[s] = FreeSlot,
         \A i \in Timer : timer'[i].hdl = timer[i].hdl \/ timer'[i] = FreeTimer
  PROVE  HandlesGiven'
<1>1. FreeSlot.hdl <= lastHandle /\ FreeTimer.hdl <= lastHandle
  BY SlotTypes DEF QInv, FreeSlot, FreeTimer, NoHandle
<1>2. \A s \in Slot : slot'[s].hdl <= lastHandle
  BY <1>1 DEF QInv, HandlesGiven
<1>3. \A i \in Timer : timer'[i].hdl <= lastHandle
  BY <1>1 DEF QInv, HandlesGiven
<1> QED BY <1>2, <1>3 DEF QInv, HandlesGiven

\* An expired timer is not that of a fresh handle.
LEMMA ExpireQueue ==
  ASSUME QInv, NEW i \in Timer, Expire(i)
  PROVE  QInv'
<1>1. TypeOK' /\ TypeOK /\ slot \in SlotTable /\ timer \in TimerTable
  BY ExpireTypes, TableTypes DEF QInv
<1>2. UNCHANGED <<queue, api, known, lastHandle, alive>>
  BY DEF Expire
<1>3. CASE ~powerdOn
  <2>1. timer' = [timer EXCEPT ![i].armed = FALSE] /\ slot' = slot
    BY <1>3 DEF Expire
  <2>2. \A j \in Timer : timer'[j].hdl = timer[j].hdl /\ timer'[j].use = timer[j].use
    BY <1>1, <2>1 DEF TimerTable
  <2>3. HandlesGiven'
    BY <1>1, <1>2, <2>1, <2>2, HandlesKept
  <2>4. \A h : TimersOf(h)' = TimersOf(h)
    BY <2>2 DEF TimersOf
  <2>5. \A h, c : Fresh(h, c) => Fresh(h, c)'
    BY <1>2, <2>1, <2>4 DEF Fresh
  <2> QED BY <1>1, <1>2, <2>3, <2>5, QuietQueue
<1>4. CASE powerdOn /\ timer[i].use = "lock"
  <2>1. slot' = Released(timer[i].hdl) /\ timer' = [timer EXCEPT ![i] = FreeTimer]
    BY <1>4 DEF Expire
  <2>2. \A j \in Timer : timer'[j] = timer[j] \/ timer'[j] = FreeTimer
    BY <1>1, <2>1 DEF TimerTable
  <2>3. \A s \in Slot : \/ slot'[s] = slot[s]
                        \/ slot'[s] = FreeSlot /\ slot[s].hdl = timer[i].hdl
    BY <2>1 DEF Released, SlotsOf
  <2>4. HandlesGiven'
    BY <1>1, <1>2, <2>2, <2>3, HandlesKept
  <2>5. ASSUME NEW h, NEW c, Fresh(h, c) PROVE Fresh(h, c)'
    <3>1. h # timer[i].hdl /\ TimersOf(h) = {}
      BY <1>4, <2>5 DEF Fresh, TimersOf
    <3>2. TimersOf(h)' = {}
      BY <2>2, <3>1 DEF TimersOf, FreeTimer
    <3> QED BY <1>2, <2>3, <2>5, <3>1, <3>2, FreshKept
  <2> QED BY <1>1, <1>2, <2>4, <2>5, QuietQueue
<1>5. CASE powerdOn /\ timer[i].use # "lock"
  <2>1. \E exempt \in SUBSET Slot : slot' = Reaped(exempt)
    BY <1>5 DEF Expire
  <2>2. \A s \in Slot : \/ slot'[s] = slot[s]
                        \/ slot'[s] = FreeSlot /\ slot[s].owner \notin alive
    BY <2>1 DEF Reaped, Orphan
  <2>3. timer' = timer
    BY <1>5 DEF Expire
  <2>4. HandlesGiven'
    BY <1>1, <1>2, <2>2, <2>3, HandlesKept
  <2>5. ASSUME NEW h, NEW c, Fresh(h, c) PROVE Fresh(h, c)'
    <3>1. TimersOf(h)' = {}
      BY <2>3, <2>5 DEF TimersOf, Fresh
    <3> QED BY <1>2, <2>2, <2>5, <3>1, FreshKept
  <2> QED BY <1>1, <1>2, <2>4, <2>5, QuietQueue
<1> QED BY <1>3, <1>4, <1>5

\* Screen-off takes slots from dead owners only.
LEMMA DisableAllQueue ==
  ASSUME QInv, UserScnDisableAll, TypeOK'
  PROVE  QInv'
<1>1. UNCHANGED <<queue, api, known, lastHandle, alive, timer>>
  BY DEF UserScnDisableAll
<1>2. \A s \in Slot : DisabledOrFreed(s)
  BY DisableAllFact DEF QInv
<1>3. HandlesGiven'
  BY <1>1, <1>2, HandlesKept DEF DisabledOrFreed
<1>4. ASSUME NEW h, NEW c, Fresh(h, c) PROVE Fresh(h, c)'
  <2>1. TimersOf(h)' = {}
    BY <1>1, <1>4 DEF TimersOf, Fresh
  <2> QED BY <1>1, <1>2, <1>4, <2>1, FreshKept DEF DisabledOrFreed
<1> QED BY <1>1, <1>3, <1>4, QuietQueue

\* A request from the client that is not new and asks for nothing is added.
LEMMA AppendQueue ==
  ASSUME QInv, TypeOK', api.pc = "idle", NEW m \in Message,
         queue' = Append(queue, m), ~m.new, m.op # "acq", m.hdl <= lastHandle,
         m.op = "rel" => m.hdl # NoHandle,
         UNCHANGED <<slot, lastHandle, timer, api, known, alive>>
  PROVE  QInv'
<1> DEFINE n == Len(queue) + 1
<1>1. /\ DOMAIN queue' = DOMAIN queue \cup {n}
      /\ \A i \in DOMAIN queue : i \in Nat /\ i < n /\ queue'[i] = queue[i]
      /\ queue'[n] = m /\ n \in Nat
  BY SlotTypes, AppendFact DEF QInv
<1>2. \A h, c : Fresh(h, c)' <=> Fresh(h, c)
  BY DEF Fresh, TimersOf
<1> HIDE DEF n
<1>3. HandlesGiven'
  BY <1>1 DEF QInv, HandlesGiven
<1>4. QueueInOrder'
  <2>1. \A i \in DOMAIN queue' : queue'[i].op = "rel" => queue'[i].hdl # NoHandle
    BY <1>1 DEF QInv, QueueInOrder
  <2>2. \A i, j \in DOMAIN queue' :
          (i < j /\ queue'[i].op = "rel" /\ queue'[j].op = "acq")
             => queue'[i].hdl # queue'[j].hdl
    BY <1>1 DEF QInv, QueueInOrder
  <2>3. ASSUME NEW j \in DOMAIN queue', queue'[j].new
        PROVE  /\ queue'[j].op = "acq"
               /\ queue'[j].hdl # NoHandle
               /\ \A i \in DOMAIN queue' : i < j => queue'[i].hdl # queue'[j].hdl
               /\ Fresh(queue[j].hdl, queue[j].owner)'
    <3>1. j \in DOMAIN queue /\ queue'[j] = queue[j] /\ j \in Nat /\ j < n
      BY <1>1, <2>3
    <3>2. \A i \in DOMAIN queue' : i < j => i \in DOMAIN queue /\ queue'[i] = queue[i]
      BY <1>1, <3>1
    <3> QED BY <1>2, <2>3, <3>1, <3>2 DEF QInv, QueueInOrder
  <2> QED BY <2>1, <2>2, <2>3 DEF QueueInOrder
<1>5. CallInOrder'
  BY DEF QInv, CallInOrder
<1> QED BY <1>3, <1>4, <1>5 DEF QInv

\* The acquire is added when no release of its handle is queued; if its handle
\* is new, no request for it is.
LEMMA EnqueueQueue ==
  ASSUME QInv, Enqueue, TypeOK'
  PROVE  QInv'
<1> DEFINE n == Len(queue) + 1
           m == Msg("acq", api.hdl, api.owner, api.dur, api.new)
<1>1. /\ api.pc = "enqueue" /\ queue' = Append(queue, m) /\ api' = NoCall
      /\ known' = known \cup ({api.hdl} \ {NoHandle})
      /\ UNCHANGED <<slot, lastHandle, timer, worker, powerdOn, alive>>
  BY DEF Enqueue
<1>2. m \in Message /\ queue \in Seq(Message)
  BY SlotTypes DEF QInv, TypeOK, Msg, Message
<1>3. /\ m.op = "acq" /\ m.hdl = api.hdl /\ m.owner = api.owner /\ m.new = api.new
  BY DEF Msg
<1> HIDE DEF m
<1>4. /\ DOMAIN queue' = DOMAIN queue \cup {n}
      /\ \A i \in DOMAIN queue : i \in Nat /\ i < n /\ queue'[i] = queue[i]
      /\ queue'[n] = m /\ n \in Nat
  BY <1>1, <1>2, AppendFact
<1>5. \A h, c : Fresh(h, c)' <=> Fresh(h, c)
  BY <1>1 DEF Fresh, TimersOf
<1>6. 0 <= lastHandle /\ NoCall.hdl = 0 /\ NoCall.pc = "idle" /\ NoCall.new = FALSE
  BY SlotTypes DEF QInv, NoCall, NoHandle
<1> HIDE DEF n
<1>7. HandlesGiven'
  BY <1>1, <1>3, <1>4, <1>6 DEF QInv, HandlesGiven
<1>8. QueueInOrder'
  <2>1. \A i \in DOMAIN queue' : queue'[i].op = "rel" => queue'[i].hdl # NoHandle
    BY <1>3, <1>4 DEF QInv, QueueInOrder
  <2>2. ASSUME NEW i \in DOMAIN queue', NEW j \in DOMAIN queue',
               i < j, queue'[i].op = "rel", queue'[j].op = "acq"
        PROVE  queue'[i].hdl # queue'[j].hdl
    <3>1. i \in DOMAIN queue /\ queue'[i] = queue[i]
      BY <1>3, <1>4, <2>2
    <3>2. CASE j \in DOMAIN queue
      BY <1>4, <2>2, <3>1, <3>2 DEF QInv, QueueInOrder
    <3>3. CASE j = n
      BY <1>1, <1>3, <1>4, <2>2, <3>1, <3>3 DEF QInv, CallInOrder
    <3> QED BY <1>4, <3>2, <3>3
  <2>3. ASSUME NEW j \in DOMAIN queue', queue'[j].new
        PROVE  /\ queue'[j].op = "acq"
               /\ queue'[j].hdl # NoHandle
               /\ \A i \in DOMAIN queue' : i < j => queue'[i].hdl # queue'[j].hdl
               /\ Fresh(queue[j].hdl, queue[j].owner)'
    <3>1. \A i \in DOMAIN queue' : i < j => i \in DOMAIN queue /\ queue'[i] = queue[i]
      BY <1>4
    <3>2. CASE j \in DOMAIN queue
      <4>1. queue'[j] = queue[j]
        BY <1>4, <3>2
      <4> QED BY <1>5, <2>3, <3>1, <3>2, <4>1 DEF QInv, QueueInOrder
    <3>3. CASE j = n
      <4>1. queue'[j] = m /\ api.new
        BY <1>3, <1>4, <2>3, <3>3
      <4>2. /\ api.hdl # NoHandle /\ Fresh(api.hdl, api.owner)
            /\ \A i \in DOMAIN queue : queue[i].hdl # api.hdl
        BY <4>1 DEF QInv, CallInOrder
      <4> QED BY <1>3, <1>5, <3>1, <4>1, <4>2
    <3> QED BY <1>4, <3>2, <3>3
  <2> QED BY <2>1, <2>2, <2>3 DEF QueueInOrder
<1>9. CallInOrder'
  BY <1>1, <1>6 DEF CallInOrder
<1> QED BY <1>7, <1>8, <1>9 DEF QInv

\* A new handle has no timer and no request yet, and its slot has its owner.
LEMMA RegisterQueue ==
  ASSUME QInv, Register, TypeOK'
  PROVE  QInv'
<1>1. TypeOK /\ lastHandle \in Nat /\ slot \in SlotTable /\ timer \in TimerTable
  BY SlotTypes, TableTypes DEF QInv
<1>2. /\ UNCHANGED <<timer, queue, worker, known, powerdOn, alive>>
      /\ api.pc = "register" /\ api'.pc = "enqueue" /\ api'.owner = api.owner
      /\ ~api.new
  BY <1>1, RegisterFact DEF QInv, CallInOrder
<1>3. \A s \in Slot : KeptOrReaped(s) =>
         /\ slot'[s].hdl = slot[s].hdl \/ slot'[s] = FreeSlot
         /\ slot[s].owner \in alive => slot'[s] = slot[s]
  BY DEF KeptOrReaped, Orphan
<1>4. CASE /\ lastHandle' = lastHandle
           /\ api'.hdl \in {api.hdl, NoHandle} /\ api'.new = api.new
           /\ \A s \in Slot : KeptOrReaped(s)
  <2>1. ASSUME NEW h, NEW c, Fresh(h, c) PROVE Fresh(h, c)'
    <3>1. TimersOf(h)' = {}
      BY <1>2, <2>1 DEF TimersOf, Fresh
    <3> QED BY <1>2, <1>3, <1>4, <2>1, <3>1, FreshKept
  <2>2. HandlesGiven'
    <3>1. 0 <= lastHandle /\ FreeSlot.hdl = 0
      BY <1>1 DEF FreeSlot, NoHandle
    <3> QED BY <1>2, <1>3, <1>4, <3>1 DEF QInv, HandlesGiven, NoHandle
  <2>3. QueueInOrder'
    BY <1>2, <2>1 DEF QInv, QueueInOrder
  <2>4. CallInOrder'
    BY <1>2, <1>4 DEF QInv, CallInOrder, QueueInOrder
  <2> QED BY <2>2, <2>3, <2>4 DEF QInv
<1>5. CASE /\ lastHandle' = lastHandle + 1
           /\ api'.hdl = lastHandle' /\ api'.new = TRUE
           /\ \E s \in Slot :
                /\ slot[s].hdl = NoHandle \/ Orphan(s)
                /\ slot'[s] = [hdl |-> lastHandle', owner |-> api.owner,
                               dur |-> api.dur, on |-> FALSE]
                /\ \A t \in Slot \ {s} : KeptOrReaped(t)
  <2>1. PICK s \in Slot :
                /\ slot[s].hdl = NoHandle \/ Orphan(s)
                /\ slot'[s] = [hdl |-> lastHandle', owner |-> api.owner,
                               dur |-> api.dur, on |-> FALSE]
                /\ \A t \in Slot \ {s} : KeptOrReaped(t)
    BY <1>5
  <2>2. slot'[s].hdl = lastHandle' /\ slot'[s].owner = api.owner
    BY <2>1
  <2>3. ASSUME NEW h, NEW c, h # NoHandle, Fresh(h, c) PROVE Fresh(h, c)'
    <3>1. TimersOf(h)' = {}
      BY <1>2, <2>3 DEF TimersOf, Fresh
    <3>2. slot[s].hdl = h /\ slot[s].owner \in alive => FALSE
      BY <2>1, <2>3 DEF Orphan
    <3> QED BY <1>2, <1>3, <2>1, <2>3, <3>1, <3>2, FreshKept
  <2>4. HandlesGiven'
    <3>1. 0 <= lastHandle' /\ FreeSlot.hdl = 0 /\ lastHandle' \in Nat
      BY <1>1, <1>5 DEF FreeSlot, NoHandle
    <3>2. \A t \in Slot : slot'[t].hdl <= lastHandle'
      <4>1. ASSUME NEW t \in Slot, t # s PROVE slot'[t].hdl <= lastHandle'
        <5>1. CASE slot'[t].hdl = slot[t].hdl
          <6>1. slot[t].hdl \in Nat /\ slot[t].hdl <= lastHandle
            BY <1>1, SlotTypes DEF SlotTable, QInv, HandlesGiven
          <6> QED BY <1>1, <1>5, <5>1, <6>1
        <5>2. CASE slot'[t] = FreeSlot
          BY <3>1, <5>2
        <5> QED BY <1>3, <2>1, <4>1, <5>1, <5>2
      <4> QED BY <2>2, <3>1, <4>1
    <3>3. \A h \in Handle \cup {NoHandle} : h <= lastHandle => h <= lastHandle'
      <4> TAKE h \in Handle \cup {NoHandle}
      <4>1. h \in Nat
        BY <1>1, SlotTypes
      <4> QED BY <1>1, <1>5, <4>1
    <3>4. /\ \A i \in Timer : timer[i].hdl \in Handle \cup {NoHandle}
          /\ \A i \in DOMAIN queue : queue[i].hdl \in Handle \cup {NoHandle}
          /\ known \subseteq Handle
      <4>1. \A i \in DOMAIN queue : queue[i] \in Message
        BY <1>1, SlotTypes
      <4> QED BY <1>1, <4>1 DEF TimerTable, Message, TypeOK
    <3> QED BY <1>2, <1>5, <3>1, <3>2, <3>3, <3>4 DEF QInv, HandlesGiven
  <2>5. QueueInOrder'
    BY <1>2, <2>3 DEF QInv, QueueInOrder
  <2>6. CallInOrder'
    <3>1. \A h \in Handle \cup {NoHandle} : h <= lastHandle => h # lastHandle'
      <4> TAKE h \in Handle \cup {NoHandle}
      <4>1. h \in Nat
        BY <1>1, SlotTypes
      <4> QED BY <1>1, <1>5, <4>1
    <3>2. \A i \in DOMAIN queue : queue[i].hdl # lastHandle'
      <4>1. \A i \in DOMAIN queue : queue[i] \in Message
        BY <1>1, SlotTypes
      <4> QED BY <3>1, <4>1 DEF Message, QInv, HandlesGiven
    <3>3. lastHandle' \notin known
      BY <1>1, <3>1 DEF TypeOK, QInv, HandlesGiven
    <3>4. TimersOf(api.hdl)' = {}
      <4>1. \A i \in Timer : timer[i].hdl # lastHandle'
        BY <1>1, <3>1 DEF TimerTable, QInv, HandlesGiven
      <4> QED BY <1>2, <1>5, <4>1 DEF TimersOf
    <3>5. Fresh(api.hdl, api.owner)'
      BY <1>2, <1>5, <2>2, <3>4 DEF Fresh
    <3>6. lastHandle' # NoHandle
      BY <1>1, <1>5 DEF NoHandle
    <3> QED BY <1>2, <1>5, <3>2, <3>3, <3>5, <3>6 DEF CallInOrder
  <2> QED BY <2>4, <2>5, <2>6 DEF QInv
<1> QED BY <1>1, <1>4, <1>5, RegisterFact

\* What powerd does with a request: the slots of other handles stay, and only
\* the request's own handle can get a timer.
LEMMA PowerdFact ==
  ASSUME TypeOK, NEW m \in Message,
         \/ PowerdAcq(m)
         \/ PowerdRel(m) /\ m.op = "rel"
         \/ UNCHANGED <<slot, timer>>
  PROVE  /\ \A s \in Slot :
              \/ slot'[s].hdl = slot[s].hdl /\ slot'[s].owner = slot[s].owner
              \/ slot'[s] = FreeSlot /\ slot[s].hdl = m.hdl /\ m.op = "rel"
         /\ \A i \in Timer :
              \/ timer'[i] = timer[i] \/ timer'[i] = FreeTimer
              \/ timer'[i].hdl = m.hdl
<1>1. /\ m.hdl \in Handle \cup {NoHandle} /\ slot \in SlotTable /\ timer \in TimerTable
  BY TableTypes DEF Message
<1>2. CASE UNCHANGED <<slot, timer>>
  BY <1>2
<1>3. CASE PowerdAcq(m) /\ powerdOn
  <2>1. slot' = [s \in Slot |-> IF s \in SlotsOf(m.hdl)
                                THEN [slot[s] EXCEPT !.on = TRUE, !.dur = m.dur]
                                ELSE slot[s]]
    BY <1>3 DEF PowerdAcq
  <2>2. timer' \in {StartIn(Without(m.hdl), m.hdl), Without(m.hdl)}
    BY <1>3 DEF PowerdAcq
  <2>3. \A s \in Slot : slot'[s].hdl = slot[s].hdl /\ slot'[s].owner = slot[s].owner
    BY <1>1, <2>1 DEF SlotTable
  <2>4. Without(m.hdl) \in TimerTable
    BY <1>1, TableTypes
  <2>5. \A i \in Timer : \/ timer'[i] = timer[i] \/ timer'[i] = FreeTimer
                         \/ timer'[i] = [use |-> "lock", hdl |-> m.hdl, armed |-> TRUE]
    BY <1>1, <2>2, <2>4, TimerOps
  <2> QED BY <2>3, <2>5
<1>4. CASE PowerdRel(m) /\ m.op = "rel" /\ powerdOn
  <2>1. slot' = Released(m.hdl) /\ timer' = Without(m.hdl)
    BY <1>4 DEF PowerdRel
  <2>2. \A s \in Slot : slot'[s] = slot[s] \/ (slot'[s] = FreeSlot /\ slot[s].hdl = m.hdl)
    BY <2>1 DEF Released, SlotsOf
  <2> QED BY <1>1, <1>4, <2>1, <2>2, TimerOps
<1> QED BY <1>2, <1>3, <1>4 DEF PowerdAcq, PowerdRel

\* The worker takes the first request, which is no release of a fresh handle and
\* gives no fresh handle of a later request a timer.
LEMMA WorkerQueue ==
  ASSUME QInv, WorkerStep
  PROVE  QInv'
<1>1. TypeOK' /\ TypeOK /\ queue \in Seq(Message) /\ queue # <<>>
  BY WorkerTypes, SlotTypes DEF QInv, WorkerStep
<1> DEFINE m == Head(queue)
<1>2. /\ 1 \in DOMAIN queue /\ m = queue[1] /\ m \in Message
      /\ \A i \in DOMAIN queue' : /\ i \in Nat /\ i + 1 \in DOMAIN queue
                                  /\ 1 < i + 1 /\ queue'[i] = queue[i + 1]
  BY <1>1, TailFact DEF WorkerStep
<1>3. UNCHANGED <<lastHandle, api, known, powerdOn, alive>>
  BY DEF WorkerStep
<1>4. \/ PowerdAcq(m)
      \/ PowerdRel(m) /\ m.op = "rel"
      \/ UNCHANGED <<slot, timer>>
  BY DEF WorkerStep
<1>5. /\ \A s \in Slot :
              \/ slot'[s].hdl = slot[s].hdl /\ slot'[s].owner = slot[s].owner
              \/ slot'[s] = FreeSlot /\ slot[s].hdl = m.hdl /\ m.op = "rel"
      /\ \A i \in Timer :
              \/ timer'[i] = timer[i] \/ timer'[i] = FreeTimer
              \/ timer'[i].hdl = m.hdl
  BY <1>1, <1>2, <1>4, PowerdFact
<1>6. ASSUME NEW h, NEW c, h # m.hdl, Fresh(h, c) PROVE Fresh(h, c)'
  <2>1. TimersOf(h)' = {}
    BY <1>5, <1>6 DEF TimersOf, Fresh, FreeTimer
  <2> QED BY <1>3, <1>5, <1>6, <2>1, FreshKept
<1>7. m.hdl <= lastHandle /\ FreeSlot.hdl <= lastHandle /\ FreeTimer.hdl <= lastHandle
  BY <1>1, <1>2, SlotTypes DEF QInv, HandlesGiven, FreeSlot, FreeTimer, NoHandle
<1> HIDE DEF m
<1>8. HandlesGiven'
  <2>1. \A s \in Slot : slot'[s].hdl <= lastHandle
    BY <1>5, <1>7 DEF QInv, HandlesGiven
  <2>2. \A i \in Timer : timer'[i].hdl <= lastHandle
    BY <1>5, <1>7 DEF QInv, HandlesGiven
  <2> QED BY <1>2, <1>3, <2>1, <2>2 DEF QInv, HandlesGiven
<1>9. QueueInOrder'
  <2>1. ASSUME NEW j \in DOMAIN queue', queue'[j].new
        PROVE  /\ queue'[j].op = "acq"
               /\ queue'[j].hdl # NoHandle
               /\ \A i \in DOMAIN queue' : i < j => queue'[i].hdl # queue'[j].hdl
               /\ Fresh(queue[j].hdl, queue[j].owner)'
    <3>1. /\ j + 1 \in DOMAIN queue /\ queue'[j] = queue[j + 1] /\ 1 < j + 1 /\ j \in Nat
          /\ queue[j + 1].new
      BY <1>2, <2>1
    <3>2. /\ queue[j + 1].op = "acq" /\ queue[j + 1].hdl # NoHandle
          /\ \A i \in DOMAIN queue : i < j + 1 => queue[i].hdl # queue[j + 1].hdl
          /\ Fresh(queue[j + 1].hdl, queue[j + 1].owner)
      BY <3>1 DEF QInv, QueueInOrder
    <3>3. m.hdl # queue[j + 1].hdl
      BY <1>2, <3>1, <3>2
    <3>4. Fresh(queue'[j].hdl, queue'[j].owner)
      BY <3>1, <3>2
    <3>5. Fresh(queue[j].hdl, queue[j].owner)'
      BY <1>3, <1>5, <3>1, <3>3, <3>4 DEF Fresh, TimersOf, FreeTimer
    <3> QED BY <1>2, <3>1, <3>2, <3>5
  <2>2. \A i \in DOMAIN queue' : queue'[i].op = "rel" => queue'[i].hdl # NoHandle
    BY <1>2 DEF QInv, QueueInOrder
  <2>3. ASSUME NEW i \in DOMAIN queue', NEW j \in DOMAIN queue',
               i < j, queue'[i].op = "rel", queue'[j].op = "acq"
        PROVE  queue'[i].hdl # queue'[j].hdl
    <3>1. i + 1 < j + 1
      BY <1>2, <2>3
    <3> QED BY <1>2, <2>3, <3>1 DEF QInv, QueueInOrder
  <2> QED BY <2>1, <2>2, <2>3 DEF QueueInOrder
<1>10. CallInOrder'
  <2>1. api.pc \in {"register", "enqueue"} =>
          \A i \in DOMAIN queue' : queue'[i].op = "rel" => queue'[i].hdl # api.hdl
    BY <1>2 DEF QInv, CallInOrder
  <2>2. ASSUME api.new
        PROVE  /\ api.pc = "enqueue" /\ api.hdl # NoHandle /\ api.hdl \notin known
               /\ \A i \in DOMAIN queue' : queue'[i].hdl # api.hdl
               /\ Fresh(api.hdl, api.owner)'
    <3>1. /\ api.pc = "enqueue" /\ api.hdl # NoHandle /\ api.hdl \notin known
          /\ \A i \in DOMAIN queue : queue[i].hdl # api.hdl
          /\ Fresh(api.hdl, api.owner)
      BY <2>2 DEF QInv, CallInOrder
    <3>2. Fresh(api.hdl, api.owner)'
      BY <1>2, <1>3, <1>5, <3>1 DEF Fresh, TimersOf, FreeTimer
    <3> QED BY <1>2, <3>1, <3>2
  <2> QED BY <1>3, <2>1, <2>2 DEF CallInOrder
<1> QED BY <1>1, <1>8, <1>9, <1>10 DEF QInv

\* Every step keeps the invariant.
LEMMA NextQueue == QInv /\ [Next]_vars => QInv'
<1> SUFFICES ASSUME QInv, [Next]_vars PROVE QInv'
  OBVIOUS
<1>1. TypeOK' /\ TypeOK /\ lastHandle \in Nat
  BY TypeStep, SlotTypes DEF QInv
<1>2. ASSUME UNCHANGED <<slot, timer, queue, api, known, lastHandle>>, alive' \subseteq alive
      PROVE  QInv'
  <2>1. \A h, c : Fresh(h, c) => Fresh(h, c)'
    BY <1>2 DEF Fresh, TimersOf
  <2>2. HandlesGiven'
    BY <1>2 DEF QInv, HandlesGiven
  <2> QED BY <1>1, <1>2, <2>1, <2>2, QuietQueue
<1>3. ASSUME NEW c \in Client, NEW h \in known \cup {NoHandle}, NEW d \in Durations,
             LockAcq(c, h, d)
      PROVE  QInv'
  <2>1. /\ UNCHANGED <<slot, lastHandle, timer, queue, known, alive>>
        /\ api'.hdl = h /\ api'.new = FALSE
        /\ api'.pc = IF h # NoHandle THEN "check" ELSE "register"
    BY <1>3 DEF LockAcq
  <2>2. \A g, e : Fresh(g, e)' <=> Fresh(g, e)
    BY <2>1 DEF Fresh, TimersOf
  <2>3. h <= lastHandle
    BY <1>1 DEF QInv, HandlesGiven, NoHandle
  <2>4. HandlesGiven'
    BY <2>1, <2>3 DEF QInv, HandlesGiven
  <2>5. QueueInOrder'
    BY <2>1, <2>2 DEF QInv, QueueInOrder
  <2>6. CallInOrder'
    BY <2>1 DEF QInv, QueueInOrder, CallInOrder
  <2> QED BY <1>1, <2>4, <2>5, <2>6 DEF QInv
<1>4. CASE check_work_req
  <2>1. /\ UNCHANGED <<slot, lastHandle, timer, queue, known, alive>>
        /\ api.pc = "check"
        /\ api' = [api EXCEPT !.pc = "register"]
        /\ \A i \in DOMAIN queue : ~(queue[i].op = "rel" /\ queue[i].hdl = api.hdl)
    BY <1>4 DEF check_work_req
  <2>2. api'.hdl = api.hdl /\ api'.new = api.new /\ api'.pc = "register" /\ ~api.new
    BY <1>1, <2>1 DEF TypeOK, QInv, CallInOrder
  <2>3. \A g, e : Fresh(g, e)' <=> Fresh(g, e)
    BY <2>1 DEF Fresh, TimersOf
  <2>4. HandlesGiven' /\ QueueInOrder'
    BY <2>1, <2>2, <2>3 DEF QInv, HandlesGiven, QueueInOrder
  <2>5. CallInOrder'
    BY <2>1, <2>2 DEF CallInOrder
  <2> QED BY <1>1, <2>4, <2>5 DEF QInv
<1>5. CASE Register
  BY <1>1, <1>5, RegisterQueue
<1>6. CASE Enqueue
  BY <1>1, <1>6, EnqueueQueue
<1>7. ASSUME NEW h \in known, LockRel(h) PROVE QInv'
  <2> DEFINE m == Msg("rel", h, NoClient, "infinite", FALSE)
  <2>1. m \in Message /\ m.op = "rel" /\ m.hdl = h /\ ~m.new
    BY <1>1 DEF TypeOK, Msg, Message, Duration
  <2>2. h <= lastHandle /\ h # NoHandle
    BY <1>1, LockServiceAssumption DEF QInv, HandlesGiven, TypeOK, Handle, NoHandle
  <2>3. queue' = Append(queue, m) /\ api.pc = "idle"
        /\ UNCHANGED <<slot, lastHandle, timer, api, known, alive>>
    BY <1>7 DEF LockRel
  <2> HIDE DEF m
  <2> QED BY <1>1, <2>1, <2>2, <2>3, AppendQueue
<1>8. CASE ExitWorker
  <2> DEFINE m == Msg("exit", NoHandle, NoClient, "infinite", FALSE)
  <2>1. m \in Message /\ m.op = "exit" /\ m.hdl <= lastHandle /\ ~m.new
    BY <1>1 DEF Msg, Message, Duration, NoHandle
  <2>2. queue' = Append(queue, m) /\ api.pc = "idle"
        /\ UNCHANGED <<slot, lastHandle, timer, api, known, alive>>
    BY <1>8 DEF ExitWorker
  <2> HIDE DEF m
  <2> QED BY <1>1, <2>1, <2>2, AppendQueue
<1>9. CASE UserScnDisableAll
  BY <1>1, <1>9, DisableAllQueue
<1>10. CASE WorkerWake \/ WorkerDone \/ SetOnOff
  BY <1>2, <1>10 DEF WorkerWake, WorkerDone, SetOnOff
<1>11. CASE WorkerStep
  BY <1>11, WorkerQueue
<1>12. ASSUME NEW i \in Timer, Expire(i) PROVE QInv'
  BY <1>12, ExpireQueue
<1>13. ASSUME NEW c \in Client, Die(c) PROVE QInv'
  BY <1>2, <1>13 DEF Die
<1>14. CASE UNCHANGED vars
  BY <1>2, <1>14 DEF vars
<1> QED
  BY <1>3, <1>4, <1>5, <1>6, <1>7, <1>8, <1>9, <1>10, <1>11, <1>12, <1>13, <1>14 DEF Next

\* Nothing is queued at first, and no handle given out.
LEMMA InitQueue == Init => QInv
<1> SUFFICES ASSUME Init PROVE QInv
  OBVIOUS
<1>1. TypeOK
  BY InitTypes
<1>2. DOMAIN queue = {}
  BY DEF Init
<1>3. HandlesGiven
  BY <1>2 DEF Init, HandlesGiven, FreeSlot, FreeTimer, NoCall, NoHandle
<1>4. QueueInOrder /\ CallInOrder
  BY <1>2 DEF Init, QueueInOrder, CallInOrder, NoCall
<1> QED BY <1>1, <1>3, <1>4 DEF QInv

\* It holds in every reachable state.
LEMMA AlwaysQueue == Spec => []QInv
BY InitQueue, NextQueue, PTL DEF Spec

\* For any number of clients, slots, timers and queued requests, with processes
\* dying, powerd switched on and off and the worker ending: check_work_req lets
\* no acquire overtake a release of its handle, and the slot given out by
\* perfLockCheckHdl is still there when the worker gets to its acquire.
THEOREM QueueValid == Spec => []QueueStaysValid
<1>1. QInv => QueueStaysValid
  <2> SUFFICES ASSUME QInv, NEW i \in DOMAIN queue, queue[i].new, queue[i].owner \in alive
               PROVE  SlotsOf(queue[i].hdl) # {}
    BY DEF QInv, QueueInOrder, QueueStaysValid
  <2> QED BY DEF QInv, QueueInOrder, Fresh, SlotsOf
<1> QED BY <1>1, AlwaysQueue, PTL
-----------------------------------------------------------------------------
(***************************************************************************)
(* Timers.  Whatever happens, a handle has one slot and at most one timer, *)
(* and a lock without limit has none.                                      *)
(***************************************************************************)
TimersUnique ==
  /\ \A s, t \in Slot : (slot[s].hdl # NoHandle /\ slot[s].hdl = slot[t].hdl) => s = t
  /\ \A s \in Slot : slot[s].on => slot[s].hdl # NoHandle
  /\ \A i \in Timer : timer[i].use = "lock" => timer[i].hdl # NoHandle
  /\ \A i, j \in Timer : (/\ timer[i].use = "lock" /\ timer[j].use = "lock"
                          /\ timer[i].hdl = timer[j].hdl) => i = j
  /\ \A s \in Slot : (slot[s].on /\ slot[s].dur = "infinite") => TimersOf(slot[s].hdl) = {}

\* With more timers than slots, all processes alive and powerd on, every timer
\* has a slot, so that one is free for the lock that needs one.
EnoughTimers == OnOff = FALSE /\ Mortal = {} /\ T > N

TimersSuffice ==
  /\ powerdOn /\ alive = Client
  /\ api.pc # "idle" => api.owner \in Client
  /\ \A s \in Slot : slot[s].hdl # NoHandle => slot[s].owner \in Client
  /\ \A i \in Timer : timer[i].use = "check" => i = 1
  /\ \A i \in Timer : timer[i].use = "lock" => timer[i].armed /\ SlotsOf(timer[i].hdl) # {}
  /\ \A h \in Handle : TimedOn(h) => TimersOf(h) # {}

\* A nonempty set of timers has a first one.
LEMMA FirstTimer ==
  ASSUME NEW F \in SUBSET Timer, F # {}
  PROVE  \E i \in F : \A j \in F : i <= j
<1>1. F \subseteq Nat
  BY DEF Timer
<1> QED BY <1>1, LeastNat

\* remove_scn_timer leaves the handle without a timer.
LEMMA WithoutFact ==
  ASSUME TypeOK, TimersUnique, NEW h
  PROVE  \A i \in Timer : Without(h)[i] = IF i \in TimersOf(h) THEN FreeTimer ELSE timer[i]
<1> TAKE i \in Timer
<1>1. CASE i \in TimersOf(h)
  <2>1. \A j \in TimersOf(h) : i <= j
    BY <1>1 DEF TimersOf, TimersUnique, Timer
  <2> QED BY <1>1, <2>1 DEF Without
<1>2. CASE i \notin TimersOf(h)
  BY <1>2 DEF Without
<1> QED BY <1>1, <1>2

\* start_scn_timer takes one free timer, or does nothing when there is none.
LEMMA StartFact ==
  ASSUME NEW table \in TimerTable, NEW h
  PROVE  \/ /\ \A i \in Timer : table[i].use # "free"
            /\ \A i \in Timer : StartIn(table, h)[i] = table[i]
         \/ \E k \in Timer :
              /\ table[k].use = "free"
              /\ StartIn(table, h)[k] = [use |-> "lock", hdl |-> h, armed |-> TRUE]
              /\ \A i \in Timer \ {k} : StartIn(table, h)[i] = table[i]
<1> DEFINE free == {i \in Timer : table[i].use = "free"}
<1>1. CASE free = {}
  BY <1>1 DEF StartIn
<1>2. CASE free # {}
  <2>1. PICK k \in free : \A j \in free : k <= j
    <3>1. free \in SUBSET Timer
      OBVIOUS
    <3> HIDE DEF free
    <3> QED BY <1>2, <3>1, FirstTimer
  <2>2. \A i \in Timer \ {k} : ~(i \in free /\ \A j \in free : i <= j)
    BY <2>1 DEF Timer
  <2>3. \A i \in Timer : StartIn(table, h)[i] =
                           IF i \in free /\ \A j \in free : i <= j
                           THEN [use |-> "lock", hdl |-> h, armed |-> TRUE] ELSE table[i]
    BY DEF StartIn
  <2> QED BY <2>1, <2>2, <2>3
<1> QED BY <1>1, <1>2

\* powerd's acquire leaves the timers of other handles alone, and its own handle
\* with one running timer, or with none if it needs none or none is free.
LEMMA AcqTimers ==
  ASSUME TypeOK, TimersUnique, NEW m \in Message, powerdOn, PowerdAcq(m)
  PROVE  /\ \A g : g # m.hdl => TimersOf(g)' = TimersOf(g)
         /\ \A i \in Timer : timer'[i].use = "lock" =>
                             timer'[i].hdl = m.hdl \/ timer'[i] = timer[i]
         /\ \A i \in Timer : timer'[i].use = "check" => timer[i].use = "check"
         /\ \/ /\ TimersOf(m.hdl)' = {}
               /\ \/ SlotsOf(m.hdl) = {} \/ m.dur = "infinite"
                  \/ \A i \in Timer : timer[i].use # "free" /\ i \notin TimersOf(m.hdl)
            \/ /\ SlotsOf(m.hdl) # {} /\ m.dur # "infinite"
               /\ \E k \in Timer : TimersOf(m.hdl)' = {k} /\ timer'[k].armed
<1> DEFINE h == m.hdl
           table == Without(h)
<1>1. timer \in TimerTable /\ table \in TimerTable
  BY TableTypes DEF Message
<1>2. \A i \in Timer : table[i] = IF i \in TimersOf(h) THEN FreeTimer ELSE timer[i]
  BY WithoutFact
<1>3. FreeTimer.use = "free"
  BY DEF FreeTimer
<1> HIDE DEF table
<1>4. CASE timer' = table /\ (SlotsOf(h) = {} \/ m.dur = "infinite")
  <2>1. \A g : g # h => TimersOf(g)' = TimersOf(g)
    BY <1>2, <1>3, <1>4 DEF TimersOf
  <2>2. TimersOf(h)' = {}
    BY <1>2, <1>3, <1>4 DEF TimersOf
  <2> QED BY <1>2, <1>3, <1>4, <2>1, <2>2
<1>5. CASE timer' = StartIn(table, h) /\ SlotsOf(h) # {} /\ m.dur # "infinite"
  <2>1. CASE /\ \A i \in Timer : table[i].use # "free"
             /\ \A i \in Timer : StartIn(table, h)[i] = table[i]
    <3>1. \A i \in Timer : /\ timer'[i] = timer[i] /\ i \notin TimersOf(h)
                           /\ timer[i].use # "free"
      BY <1>2, <1>3, <1>5, <2>1
    <3>2. \A g : TimersOf(g)' = TimersOf(g)
      BY <3>1 DEF TimersOf
    <3>3. TimersOf(h) = {}
      BY <3>1 DEF TimersOf
    <3> QED BY <3>1, <3>2, <3>3
  <2>2. ASSUME NEW k \in Timer, table[k].use = "free",
               StartIn(table, h)[k] = [use |-> "lock", hdl |-> h, armed |-> TRUE],
               \A i \in Timer \ {k} : StartIn(table, h)[i] = table[i]
        PROVE  /\ \A g : g # m.hdl => TimersOf(g)' = TimersOf(g)
               /\ \A i \in Timer : timer'[i].use = "lock" =>
                                   timer'[i].hdl = m.hdl \/ timer'[i] = timer[i]
               /\ \A i \in Timer : timer'[i].use = "check" => timer[i].use = "check"
               /\ TimersOf(m.hdl)' = {k} /\ timer'[k].armed
    <3>1. /\ timer'[k].use = "lock" /\ timer'[k].hdl = h /\ timer'[k].armed = TRUE
          /\ \A i \in Timer \ {k} :
                timer'[i] = IF i \in TimersOf(h) THEN FreeTimer ELSE timer[i]
      BY <1>2, <1>5, <2>2
    <3>2. k \in TimersOf(h) \/ timer[k].use = "free"
      BY <1>2, <2>2
    <3>3. \A g : g # h => TimersOf(g)' = TimersOf(g)
      BY <1>3, <3>1, <3>2 DEF TimersOf
    <3>4. TimersOf(h)' = {k}
      BY <1>3, <3>1 DEF TimersOf
    <3> QED BY <1>3, <3>1, <3>3, <3>4
  <2> QED BY <1>1, <1>5, <2>1, <2>2, StartFact
<1> QED BY <1>4, <1>5 DEF PowerdAcq, table

\* Slot s keeps its handle and duration, and is not turned on, or is free.
SlotShrinks(s) == \/ slot'[s] = FreeSlot
                  \/ /\ slot'[s].hdl = slot[s].hdl
                     /\ slot'[s].dur = slot[s].dur
                     /\ slot'[s].on => slot[s].on
TimerShrinks(i) == \/ timer'[i] = FreeTimer
                   \/ timer'[i].use = timer[i].use /\ timer'[i].hdl = timer[i].hdl

\* Freeing slots and timers, and turning locks off, keeps them unique.
LEMMA ShrinkUnique ==
  ASSUME TimersUnique, \A s \in Slot : SlotShrinks(s), \A i \in Timer : TimerShrinks(i)
  PROVE  TimersUnique'
<1>1. /\ FreeSlot.hdl = NoHandle /\ FreeSlot.on = FALSE /\ FreeTimer.use = "free"
  BY DEF FreeSlot, FreeTimer
<1>2. \A s \in Slot : slot'[s].hdl # NoHandle =>
                         slot'[s].hdl = slot[s].hdl /\ slot'[s].dur = slot[s].dur
  BY <1>1 DEF SlotShrinks
<1>3. \A s \in Slot : slot'[s].on => /\ slot[s].on /\ slot'[s].hdl = slot[s].hdl
                                     /\ slot'[s].dur = slot[s].dur
  BY <1>1 DEF SlotShrinks
<1>4. \A i \in Timer : timer'[i].use = "lock" =>
                          timer[i].use = "lock" /\ timer'[i].hdl = timer[i].hdl
  BY <1>1 DEF TimerShrinks
<1>5. \A h : TimersOf(h)' \subseteq TimersOf(h)
  BY <1>4 DEF TimersOf
<1>6. \A s, t \in Slot : (slot'[s].hdl # NoHandle /\ slot'[s].hdl = slot'[t].hdl) => s = t
  BY <1>2 DEF TimersUnique
<1>7. \A s \in Slot : slot'[s].on => slot'[s].hdl # NoHandle
  BY <1>3 DEF TimersUnique
<1>8. \A i, j \in Timer : (/\ timer'[i].use = "lock" /\ timer'[j].use = "lock"
                           /\ timer'[i].hdl = timer'[j].hdl) => i = j
  BY <1>4 DEF TimersUnique
<1>9. ASSUME NEW s \in Slot, slot'[s].on, slot'[s].dur = "infinite"
      PROVE  TimersOf(slot[s].hdl)' = {}
  <2>1. /\ slot[s].on /\ slot'[s].hdl = slot[s].hdl /\ slot[s].dur = "infinite"
    BY <1>3, <1>9
  <2>2. TimersOf(slot[s].hdl) = {}
    BY <2>1 DEF TimersUnique
  <2> QED BY <1>4, <2>1, <2>2 DEF TimersOf
<1>10. \A i \in Timer : timer'[i].use = "lock" => timer'[i].hdl # NoHandle
  BY <1>4 DEF TimersUnique
<1> QED BY <1>6, <1>7, <1>8, <1>9, <1>10 DEF TimersUnique

\* What powerd's acquire does to the slots.
LEMMA AcqSlots ==
  ASSUME TypeOK, NEW m \in Message, powerdOn, PowerdAcq(m)
  PROVE  \A s \in Slot :
           /\ slot'[s].hdl = slot[s].hdl /\ slot'[s].owner = slot[s].owner
           /\ s \in SlotsOf(m.hdl) => slot'[s].on /\ slot'[s].dur = m.dur
           /\ s \notin SlotsOf(m.hdl) => slot'[s] = slot[s]
<1>1. slot' = [s \in Slot |-> IF s \in SlotsOf(m.hdl)
                              THEN [slot[s] EXCEPT !.on = TRUE, !.dur = m.dur]
                              ELSE slot[s]]
  BY DEF PowerdAcq
<1>2. slot \in SlotTable
  BY DEF TypeOK, SlotTable
<1> QED BY <1>1, <1>2 DEF SlotTable

\* An acquire replaces the handle's timer by at most one.
LEMMA AcqUnique ==
  ASSUME TypeOK, TimersUnique, NEW m \in Message, powerdOn, PowerdAcq(m)
  PROVE  TimersUnique'
<1>1. \A s \in Slot :
           /\ slot'[s].hdl = slot[s].hdl
           /\ s \in SlotsOf(m.hdl) => slot'[s].on /\ slot'[s].dur = m.dur
           /\ s \notin SlotsOf(m.hdl) => slot'[s] = slot[s]
  BY AcqSlots
<1>2. /\ \A g : g # m.hdl => TimersOf(g)' = TimersOf(g)
      /\ \A i \in Timer : timer'[i].use = "lock" =>
                          timer'[i].hdl = m.hdl \/ timer'[i] = timer[i]
      /\ \/ TimersOf(m.hdl)' = {}
         \/ /\ SlotsOf(m.hdl) # {} /\ m.dur # "infinite"
            /\ \E k \in Timer : TimersOf(m.hdl)' = {k}
  BY AcqTimers
<1>3. SlotsOf(m.hdl) # {} => m.hdl # NoHandle
  BY DEF SlotsOf
<1>4. \A s, t \in Slot : (slot'[s].hdl # NoHandle /\ slot'[s].hdl = slot'[t].hdl) => s = t
  BY <1>1 DEF TimersUnique
<1>5. \A s \in Slot : slot'[s].on => slot'[s].hdl # NoHandle
  BY <1>1 DEF TimersUnique, SlotsOf
<1>6. ASSUME NEW i \in Timer, timer'[i].use = "lock" PROVE timer'[i].hdl # NoHandle
  <2>1. i \in TimersOf(timer[i].hdl)'
    BY <1>6 DEF TimersOf
  <2>2. CASE timer'[i].hdl = m.hdl
    BY <1>2, <1>3, <2>1, <2>2
  <2>3. CASE timer'[i] = timer[i]
    BY <1>6, <2>3 DEF TimersUnique
  <2> QED BY <1>2, <1>6, <2>2, <2>3
<1>7. ASSUME NEW i \in Timer, NEW j \in Timer, timer'[i].use = "lock",
             timer'[j].use = "lock", timer'[i].hdl = timer'[j].hdl
      PROVE  i = j
  <2>1. CASE timer'[i].hdl = m.hdl
    <3>1. i \in TimersOf(m.hdl)' /\ j \in TimersOf(m.hdl)'
      BY <1>7, <2>1 DEF TimersOf
    <3> QED BY <1>2, <3>1
  <2>2. CASE timer'[i].hdl # m.hdl
    BY <1>2, <1>7, <2>2 DEF TimersUnique
  <2> QED BY <2>1, <2>2
<1>8. ASSUME NEW s \in Slot, slot'[s].on, slot'[s].dur = "infinite"
      PROVE  TimersOf(slot[s].hdl)' = {}
  <2>1. CASE s \in SlotsOf(m.hdl)
    <3>1. m.dur = "infinite" /\ slot'[s].hdl = m.hdl
      BY <1>1, <1>8, <2>1 DEF SlotsOf
    <3> QED BY <1>2, <3>1
  <2>2. CASE s \notin SlotsOf(m.hdl)
    <3>1. slot'[s] = slot[s] /\ slot[s].hdl # NoHandle /\ slot[s].hdl # m.hdl
      BY <1>1, <1>5, <1>8, <2>2 DEF SlotsOf
    <3>2. TimersOf(slot[s].hdl) = {}
      BY <1>8, <3>1 DEF TimersUnique
    <3>3. TimersOf(slot'[s].hdl) = {} /\ slot'[s].hdl # m.hdl
      BY <3>1, <3>2
    <3> QED BY <1>2, <3>1, <3>2, <3>3 DEF TimersOf
  <2> QED BY <2>1, <2>2
<1> QED BY <1>4, <1>5, <1>6, <1>7, <1>8 DEF TimersUnique

\* A new handle is in no other slot, and its slot is off.
LEMMA RegisterUnique ==
  ASSUME QInv, TimersUnique, Register
  PROVE  TimersUnique'
<1>1. TypeOK /\ lastHandle \in Nat /\ slot \in SlotTable /\ timer' = timer
  BY SlotTypes, TableTypes, RegisterFact DEF QInv
<1>2. \A s \in Slot : KeptOrReaped(s) => SlotShrinks(s)
  BY DEF KeptOrReaped, SlotShrinks
<1>3. CASE \A s \in Slot : KeptOrReaped(s)
  BY <1>1, <1>2, <1>3, ShrinkUnique DEF TimerShrinks
<1>4. ASSUME NEW s \in Slot, lastHandle' = lastHandle + 1,
             slot'[s] = [hdl |-> lastHandle', owner |-> api.owner,
                         dur |-> api.dur, on |-> FALSE],
             \A t \in Slot \ {s} : KeptOrReaped(t)
      PROVE  TimersUnique'
  <2>1. slot'[s].hdl = lastHandle' /\ slot'[s].on = FALSE
    BY <1>4
  <2>2. ASSUME NEW t \in Slot, t # s
        PROVE  /\ slot'[t].hdl # lastHandle'
               /\ slot'[t] = slot[t] \/ slot'[t] = FreeSlot
    <3>1. slot[t].hdl \in Nat /\ slot[t].hdl <= lastHandle /\ FreeSlot.hdl = 0
      BY <1>1, SlotTypes DEF SlotTable, QInv, HandlesGiven, FreeSlot, NoHandle
    <3>2. slot'[t] = slot[t] \/ slot'[t] = FreeSlot
      BY <1>4, <2>2 DEF KeptOrReaped
    <3> QED BY <1>1, <1>4, <3>1, <3>2
  <2>3. FreeSlot.hdl = NoHandle /\ FreeSlot.on = FALSE
    BY DEF FreeSlot
  <2>4. \A t, u \in Slot : (slot'[t].hdl # NoHandle /\ slot'[t].hdl = slot'[u].hdl) => t = u
    BY <2>1, <2>2, <2>3 DEF TimersUnique
  <2>5. \A t \in Slot : slot'[t].on => slot'[t].hdl # NoHandle
    BY <2>1, <2>2, <2>3 DEF TimersUnique
  <2>6. ASSUME NEW t \in Slot, slot'[t].on, slot'[t].dur = "infinite"
        PROVE  TimersOf(slot[t].hdl)' = {}
    <3>1. slot'[t] = slot[t]
      BY <2>1, <2>2, <2>3, <2>6
    <3>2. TimersOf(slot[t].hdl) = {}
      BY <2>6, <3>1 DEF TimersUnique
    <3> QED BY <1>1, <3>1, <3>2 DEF TimersOf
  <2> QED BY <1>1, <2>4, <2>5, <2>6 DEF TimersUnique
<1> QED BY <1>1, <1>3, <1>4, RegisterFact

\* Every step keeps slots and timers unique.
LEMMA NextUnique == QInv /\ TimersUnique /\ [Next]_vars => TimersUnique'
<1> SUFFICES ASSUME QInv, TimersUnique, [Next]_vars PROVE TimersUnique'
  OBVIOUS
<1>1. TypeOK /\ slot \in SlotTable /\ timer \in TimerTable
  BY TableTypes DEF QInv
<1>2. ASSUME UNCHANGED <<slot, timer>> PROVE TimersUnique'
  BY <1>2, ShrinkUnique DEF SlotShrinks, TimerShrinks
<1>3. CASE Register
  BY <1>3, RegisterUnique
<1>4. CASE UserScnDisableAll
  <2>1. \A s \in Slot : SlotShrinks(s)
    BY <1>1, <1>4, DisableAllFact DEF DisabledOrFreed, SlotShrinks
  <2>2. timer' = timer
    BY <1>4 DEF UserScnDisableAll
  <2> QED BY <2>1, <2>2, ShrinkUnique DEF TimerShrinks
<1>5. CASE WorkerStep
  <2> DEFINE m == Head(queue)
  <2>1. m \in Message
    BY <1>1, <1>5, SlotTypes, TailFact DEF WorkerStep
  <2>2. CASE powerdOn /\ PowerdAcq(m)
    BY <1>1, <2>1, <2>2, AcqUnique
  <2>3. CASE powerdOn /\ PowerdRel(m)
    <3>1. \A s \in Slot : SlotShrinks(s)
      BY <2>3 DEF PowerdRel, Released, SlotShrinks
    <3>2. \A i \in Timer : TimerShrinks(i)
      BY <2>3 DEF PowerdRel, Without, TimerShrinks
    <3> QED BY <3>1, <3>2, ShrinkUnique
  <2> QED BY <1>2, <1>5, <2>2, <2>3 DEF WorkerStep, PowerdAcq, PowerdRel
<1>6. ASSUME NEW i \in Timer, Expire(i) PROVE TimersUnique'
  <2>1. \A s \in Slot : SlotShrinks(s)
    BY <1>6 DEF Expire, Released, Reaped, SlotShrinks
  <2>2. \A j \in Timer : TimerShrinks(j)
    BY <1>1, <1>6 DEF Expire, TimerTable, TimerShrinks
  <2> QED BY <2>1, <2>2, ShrinkUnique
<1>7. ASSUME \/ \E c \in Client, h \in known \cup {NoHandle}, d \in Durations : LockAcq(c, h, d)
             \/ check_work_req \/ Enqueue
             \/ \E h \in known : LockRel(h)
             \/ ExitWorker \/ WorkerWake \/ WorkerDone \/ SetOnOff
             \/ \E c \in Client : Die(c)
      PROVE  UNCHANGED <<slot, timer>>
  BY <1>7 DEF LockAcq, check_work_req, Enqueue, LockRel, ExitWorker, WorkerWake,
              WorkerDone, SetOnOff, Die
<1>8. CASE UNCHANGED vars
  BY <1>2, <1>8 DEF vars
<1> QED BY <1>2, <1>3, <1>4, <1>5, <1>6, <1>7, <1>8 DEF Next

\* There are no locks at first.
LEMMA InitUnique == Init => TimersUnique
BY DEF Init, TimersUnique, FreeSlot, FreeTimer, NoHandle

\* Re-acquires, releases, expiries, reaping and screen-off, in any order and with
\* powerd switched on and off, never leave a handle with two timers or a lock
\* without limit with one that would end it.
THEOREM NoStaleTimer == Spec => []TimersUnique
BY InitUnique, NextUnique, AlwaysQueue, PTL DEF Spec

\* A step may leave a timed lock without a timer only if it was so before, or if
\* it had no timer and every timer was in use.
TimerKept ==
  \A h \in Handle : (TimedOn(h)' /\ TimersOf(h)' = {}) =>
     /\ TimersOf(h) = {} /\ SlotsOf(h) # {}
     /\ TimedOn(h) \/ \A i \in Timer : timer[i].use # "free"

\* Turning locks off and freeing slots loses no timer.
LEMMA ShrinkKeepsTimer ==
  ASSUME \A s \in Slot : SlotShrinks(s), NEW h \in Handle, TimedOn(h)'
  PROVE  TimedOn(h)
<1>1. PICK s \in Slot : /\ slot'[s].hdl = h /\ slot'[s].on /\ slot'[s].dur # "infinite"
                        /\ h # NoHandle
  BY DEF TimedOn, SlotsOf
<1>2. slot'[s] # FreeSlot
  BY <1>1 DEF FreeSlot
<1>3. slot[s].hdl = h /\ slot[s].on /\ slot[s].dur # "infinite"
  BY <1>1, <1>2 DEF SlotShrinks
<1> QED BY <1>1, <1>3 DEF TimedOn, SlotsOf

\* Every step keeps the timers of the locks that need one.
LEMMA NextTimerKept == QInv /\ TimersUnique /\ [Next]_vars => TimerKept
<1> SUFFICES ASSUME QInv, TimersUnique, [Next]_vars, NEW h \in Handle,
                    TimedOn(h)', TimersOf(h)' = {}
             PROVE  /\ TimersOf(h) = {} /\ SlotsOf(h) # {}
                    /\ TimedOn(h) \/ \A i \in Timer : timer[i].use # "free"
  BY DEF TimerKept
<1> DEFINE was == TimedOn(h) /\ TimersOf(h) = {}
<1>0. was => /\ TimersOf(h) = {} /\ SlotsOf(h) # {}
             /\ TimedOn(h) \/ \A i \in Timer : timer[i].use # "free"
  BY DEF TimedOn
<1>1. TypeOK /\ slot \in SlotTable /\ timer \in TimerTable
  BY TableTypes DEF QInv
<1>2. ASSUME \A s \in Slot : SlotShrinks(s), TimersOf(h)' = TimersOf(h) PROVE was
  BY <1>2, ShrinkKeepsTimer
<1>3. ASSUME timer' = timer PROVE TimersOf(h)' = TimersOf(h)
  BY <1>3 DEF TimersOf
<1>4. CASE UNCHANGED <<slot, timer>>
  BY <1>0, <1>2, <1>3, <1>4 DEF SlotShrinks
<1>5. CASE Register
  <2>1. timer' = timer
    BY <1>1, <1>5, RegisterFact
  <2>2. CASE \A s \in Slot : KeptOrReaped(s)
    BY <1>0, <1>2, <1>3, <2>1, <2>2 DEF KeptOrReaped, SlotShrinks
  <2>3. ASSUME NEW s \in Slot, slot'[s].on = FALSE, \A t \in Slot \ {s} : KeptOrReaped(t)
        PROVE  was
    <3>1. PICK t \in Slot : slot'[t].hdl = h /\ slot'[t].on /\ slot'[t].dur # "infinite"
                            /\ h # NoHandle
      BY DEF TimedOn, SlotsOf
    <3>2. slot'[t] = slot[t]
      BY <2>3, <3>1 DEF KeptOrReaped, FreeSlot
    <3>3. TimedOn(h)
      BY <3>1, <3>2 DEF TimedOn, SlotsOf
    <3> QED BY <1>3, <2>1, <3>3
  <2>4. ASSUME NEW s \in Slot, slot'[s] = [hdl |-> lastHandle', owner |-> api.owner,
                                          dur |-> api.dur, on |-> FALSE]
        PROVE  slot'[s].on = FALSE
    BY <2>4
  <2> QED BY <1>0, <1>1, <1>5, <2>2, <2>3, <2>4, RegisterFact
<1>6. CASE UserScnDisableAll
  <2>1. \A s \in Slot : SlotShrinks(s)
    BY <1>1, <1>6, DisableAllFact DEF DisabledOrFreed, SlotShrinks
  <2>2. timer' = timer
    BY <1>6 DEF UserScnDisableAll
  <2> QED BY <1>0, <1>2, <1>3, <2>1, <2>2
<1>7. ASSUME NEW g \in Handle \cup {NoHandle}, slot' = Released(g),
             \A i \in Timer : timer'[i] = timer[i] \/ timer[i].hdl = g
      PROVE  was
  <2>1. \A s \in Slot : SlotShrinks(s)
    BY <1>7 DEF Released, SlotShrinks
  <2>2. h # g
    BY <1>7 DEF TimedOn, SlotsOf, Released, FreeSlot
  <2>3. TimersOf(h) \subseteq TimersOf(h)'
    BY <1>7, <2>2 DEF TimersOf
  <2>4. TimersOf(h) = {} /\ TimedOn(h)
    BY <2>1, <2>3, ShrinkKeepsTimer
  <2> QED BY <2>4
<1>8. CASE WorkerStep
  <2> DEFINE m == Head(queue)
  <2>1. m \in Message
    BY <1>1, <1>8, SlotTypes, TailFact DEF WorkerStep
  <2>2. CASE powerdOn /\ PowerdAcq(m)
    <3>1. CASE h = m.hdl
      <4>1. \/ SlotsOf(m.hdl) = {} \/ m.dur = "infinite"
            \/ \A i \in Timer : timer[i].use # "free" /\ i \notin TimersOf(m.hdl)
        BY <1>1, <2>1, <2>2, <3>1, AcqTimers
      <4>2. ASSUME SlotsOf(m.hdl) = {} \/ m.dur = "infinite" PROVE FALSE
        <5>1. \A s \in Slot :
                /\ slot'[s].hdl = slot[s].hdl
                /\ s \in SlotsOf(m.hdl) => slot'[s].on /\ slot'[s].dur = m.dur
          BY <1>1, <2>1, <2>2, AcqSlots
        <5> QED BY <3>1, <4>2, <5>1 DEF TimedOn, SlotsOf
      <4>3. TimersOf(h) = {} /\ SlotsOf(h) # {}
        BY <3>1, <4>1, <4>2 DEF TimersOf
      <4> QED BY <3>1, <4>1, <4>2, <4>3
    <3>2. CASE h # m.hdl
      <4>1. TimersOf(h)' = TimersOf(h)
        BY <1>1, <2>1, <2>2, <3>2, AcqTimers
      <4>2. \A s \in Slot : /\ slot'[s].hdl = slot[s].hdl
                            /\ s \notin SlotsOf(m.hdl) => slot'[s] = slot[s]
        BY <1>1, <2>1, <2>2, AcqSlots
      <4>3. TimedOn(h)
        BY <3>2, <4>2 DEF TimedOn, SlotsOf
      <4> QED BY <1>0, <4>1, <4>3
    <3> QED BY <3>1, <3>2
  <2>3. CASE powerdOn /\ PowerdRel(m)
    <3>1. slot' = Released(m.hdl) /\ m.hdl \in Handle \cup {NoHandle}
      BY <2>1, <2>3 DEF PowerdRel, Message
    <3>2. \A i \in Timer : timer'[i] = timer[i] \/ timer[i].hdl = m.hdl
      BY <2>3 DEF PowerdRel, Without, TimersOf
    <3> QED BY <1>0, <1>7, <3>1, <3>2
  <2> QED BY <1>4, <1>8, <2>2, <2>3 DEF WorkerStep, PowerdAcq, PowerdRel
<1>9. ASSUME NEW i \in Timer, Expire(i) PROVE was
  <2>1. CASE ~powerdOn
    <3>1. timer' = [timer EXCEPT ![i].armed = FALSE] /\ slot' = slot
      BY <1>9, <2>1 DEF Expire
    <3>2. \A j \in Timer : timer'[j].hdl = timer[j].hdl /\ timer'[j].use = timer[j].use
      BY <1>1, <3>1 DEF TimerTable
    <3>3. TimersOf(h)' = TimersOf(h)
      BY <3>2 DEF TimersOf
    <3> QED BY <1>2, <3>1, <3>3 DEF SlotShrinks
  <2>2. CASE powerdOn /\ timer[i].use = "lock"
    <3>1. /\ slot' = Released(timer[i].hdl)
          /\ \A j \in Timer : timer'[j] = timer[j] \/ timer[j].hdl = timer[i].hdl
          /\ timer[i].hdl \in Handle \cup {NoHandle}
      BY <1>1, <1>9, <2>2 DEF Expire, TimerTable
    <3> QED BY <1>7, <3>1
  <2>3. CASE powerdOn /\ timer[i].use # "lock"
    <3>1. \A s \in Slot : SlotShrinks(s)
      BY <1>9, <2>3 DEF Expire, Reaped, SlotShrinks
    <3>2. timer' = timer
      BY <1>9, <2>3 DEF Expire
    <3> QED BY <1>2, <1>3, <3>1, <3>2
  <2> QED BY <2>1, <2>2, <2>3
<1>10. ASSUME \/ \E c \in Client, g \in known \cup {NoHandle}, d \in Durations : LockAcq(c, g, d)
              \/ check_work_req \/ Enqueue
              \/ \E g \in known : LockRel(g)
              \/ ExitWorker \/ WorkerWake \/ WorkerDone \/ SetOnOff
              \/ \E c \in Client : Die(c)
       PROVE  UNCHANGED <<slot, timer>>
  BY <1>10 DEF LockAcq, check_work_req, Enqueue, LockRel, ExitWorker, WorkerWake,
               WorkerDone, SetOnOff, Die
<1>11. CASE UNCHANGED vars
  BY <1>4, <1>11 DEF vars
<1> HIDE DEF was
<1> QED BY <1>0, <1>4, <1>5, <1>6, <1>8, <1>9, <1>10, <1>11 DEF Next

\* For any size of the timer table: a timed lock loses its timer, or gets none,
\* only in a step that found every timer in use (start_scn_timer then silently
\* does nothing).
THEOREM TimerLostOnlyWhenFull == Spec => [][TimerKept]_vars
BY NextTimerKept, NoStaleTimer, AlwaysQueue, PTL DEF Spec

\* A lock without a timer finds a free one: the other timers have other slots.
LEMMA SomeTimerFree ==
  ASSUME TypeOK, TimersUnique, TimersSuffice, EnoughTimers,
         NEW h \in Handle, SlotsOf(h) # {}, TimersOf(h) = {}
  PROVE  \E i \in Timer : timer[i].use = "free"
<1> SUFFICES ASSUME \A i \in Timer : timer[i].use # "free" PROVE FALSE
  OBVIOUS
<1>1. N \in Nat /\ T \in Nat /\ T > N /\ timer \in TimerTable
  BY LockServiceAssumption, TableTypes DEF EnoughTimers
<1>2. PICK u \in Slot : slot[u].hdl = h
  BY DEF SlotsOf
<1> DEFINE f == [i \in 2..T |-> CHOOSE s \in Slot : slot[s].hdl = timer[i].hdl]
<1>3. ASSUME NEW i \in 2..T
      PROVE  /\ i \in Timer /\ timer[i].use = "lock" /\ timer[i].hdl # NoHandle
             /\ f[i] \in Slot \ {u} /\ slot[f[i]].hdl = timer[i].hdl
  <2>1. i \in Timer /\ i # 1
    BY <1>1 DEF Timer
  <2>2. timer[i].use = "lock"
    BY <1>1, <2>1 DEF TimerTable, TimersSuffice
  <2>3. \E s \in Slot : slot[s].hdl = timer[i].hdl
    BY <2>1, <2>2 DEF TimersSuffice, SlotsOf
  <2>4. f[i] \in Slot /\ slot[f[i]].hdl = timer[i].hdl
    BY <2>3
  <2>5. timer[i].hdl # h
    BY <2>1, <2>2 DEF TimersOf
  <2> QED BY <1>2, <2>1, <2>2, <2>4, <2>5 DEF TimersUnique
<1>4. f \in [2..T -> Slot \ {u}]
  BY <1>3
<1>5. /\ IsFiniteSet(2..T) /\ Cardinality(2..T) = T - 1
      /\ IsFiniteSet(Slot) /\ Cardinality(Slot) = N
  <2>1. N >= 1
    BY LockServiceAssumption
  <2>2. IsFiniteSet(2..T) /\ Cardinality(2..T) = T - 1
    BY <1>1, <2>1, FS_Interval
  <2>3. IsFiniteSet(1..N) /\ Cardinality(1..N) = N
    BY <1>1, <2>1, FS_Interval
  <2> QED BY <2>2, <2>3 DEF Slot
<1>6. IsFiniteSet(Slot \ {u}) /\ Cardinality(Slot \ {u}) = N - 1
  BY <1>5, FS_RemoveElement
<1>7. PICK i \in 2..T, j \in 2..T : i # j /\ f[i] = f[j]
  <2> DEFINE A == 2..T
             B == Slot \ {u}
  <2>1. Cardinality(B) < Cardinality(A)
    BY <1>1, <1>5, <1>6
  <2>2. IsFiniteSet(A) /\ IsFiniteSet(B) /\ f \in [A -> B]
    BY <1>4, <1>5, <1>6
  <2>3. \E x, y \in A : x # y /\ f[x] = f[y]
    <3> HIDE DEF f, A, B
    <3> QED BY <2>1, <2>2, FS_PigeonHole
  <2> HIDE DEF f
  <2> QED BY <2>3
<1> HIDE DEF f
<1>8. timer[i].hdl = timer[j].hdl
  BY <1>3, <1>7
<1> QED BY <1>3, <1>7, <1>8 DEF TimersUnique

\* A timer keeps its slot while slots and timers of one handle go together.
LEMMA SlotOfTimerKept ==
  ASSUME TimersSuffice, NEW g,
         \A s \in Slot : slot'[s].hdl = slot[s].hdl \/ slot[s].hdl \in {g, NoHandle},
         \A i \in Timer : timer'[i].use = "lock" => timer'[i] = timer[i] /\ timer[i].hdl # g
  PROVE  \A i \in Timer : timer'[i].use = "lock" =>
                            timer'[i].armed /\ SlotsOf(timer[i].hdl)' # {}
<1> SUFFICES ASSUME NEW i \in Timer, timer'[i].use = "lock"
             PROVE  timer'[i].armed /\ SlotsOf(timer[i].hdl)' # {}
  OBVIOUS
<1>1. timer'[i] = timer[i] /\ timer[i].use = "lock" /\ timer[i].hdl # g
  OBVIOUS
<1>2. timer[i].armed /\ SlotsOf(timer[i].hdl) # {}
  BY <1>1 DEF TimersSuffice
<1>3. PICK s \in Slot : slot[s].hdl = timer[i].hdl /\ timer[i].hdl # NoHandle
  BY <1>2 DEF SlotsOf
<1>4. slot'[s].hdl = timer'[i].hdl /\ timer'[i].hdl # NoHandle
  BY <1>1, <1>3
<1> QED BY <1>1, <1>2, <1>4 DEF SlotsOf

\* Every step keeps a slot for every timer, and a timer for every timed lock.
LEMMA NextSuffice ==
  EnoughTimers => (QInv /\ TimersUnique /\ TimersSuffice /\ [Next]_vars => TimersSuffice')
<1> SUFFICES ASSUME EnoughTimers, QInv, TimersUnique, TimersSuffice, [Next]_vars
             PROVE  TimersSuffice'
  OBVIOUS
<1>1. /\ TypeOK /\ slot \in SlotTable /\ timer \in TimerTable
      /\ powerdOn /\ alive = Client
  BY TableTypes DEF QInv, TimersSuffice
<1>2. \A s \in Slot : ~Orphan(s)
  BY <1>1 DEF Orphan, TimersSuffice
<1>3. \A h \in Handle : TimedOn(h)' => TimersOf(h)' # {}
  <2> SUFFICES ASSUME NEW h \in Handle, TimedOn(h)', TimersOf(h)' = {} PROVE FALSE
    OBVIOUS
  <2>1. /\ TimersOf(h) = {} /\ SlotsOf(h) # {}
        /\ TimedOn(h) \/ \A i \in Timer : timer[i].use # "free"
    BY NextTimerKept DEF TimerKept
  <2>2. ~TimedOn(h)
    BY <2>1 DEF TimersSuffice
  <2> QED BY <1>1, <2>1, <2>2, SomeTimerFree
\* What is left to show of a step.
<1> DEFINE held ==
      /\ powerdOn' /\ alive' = Client
      /\ api'.pc # "idle" => api'.owner \in Client
      /\ \A s \in Slot : slot'[s].hdl # NoHandle => slot'[s].owner \in Client
      /\ \A i \in Timer : timer'[i].use = "check" => i = 1
      /\ \A i \in Timer : timer'[i].use = "lock" =>
                          timer'[i].armed /\ SlotsOf(timer[i].hdl)' # {}
<1>4. held => TimersSuffice'
  BY <1>3 DEF TimersSuffice
<1>5. ASSUME UNCHANGED <<powerdOn, alive>>,
             api'.pc # "idle" => api.pc # "idle" /\ api'.owner = api.owner,
             \A i \in Timer : timer'[i].use = "check" => timer[i].use = "check",
             \A s \in Slot : slot'[s].hdl # NoHandle => slot'[s].owner \in Client,
             NEW g,
             \A s \in Slot : slot'[s].hdl = slot[s].hdl \/ slot[s].hdl \in {g, NoHandle},
             \A i \in Timer : timer'[i].use = "lock" => timer'[i] = timer[i] /\ timer[i].hdl # g
      PROVE  held
  <2>1. \A i \in Timer : timer'[i].use = "lock" =>
                           timer'[i].armed /\ SlotsOf(timer[i].hdl)' # {}
    BY <1>5, SlotOfTimerKept
  <2> QED BY <1>5, <2>1 DEF TimersSuffice
<1>6. \A i \in Timer : timer[i].use = "lock" => timer[i].hdl # NoHandle
  BY DEF TimersUnique
<1>7. ASSUME UNCHANGED <<slot, timer, powerdOn, alive>>,
             api'.pc # "idle" => api'.owner \in Client
      PROVE  held
  BY <1>7 DEF TimersSuffice, SlotsOf
<1>8. ASSUME NEW c \in Client, NEW h \in known \cup {NoHandle}, NEW d \in Durations,
             LockAcq(c, h, d)
      PROVE  held
  BY <1>7, <1>8 DEF LockAcq
<1>9. ASSUME check_work_req PROVE held
  <2>1. api'.owner \in Client
    BY <1>1, <1>9 DEF check_work_req, TypeOK, TimersSuffice
  <2> QED BY <1>7, <1>9, <2>1 DEF check_work_req
<1>10. ASSUME Register PROVE held
  <2>1. /\ UNCHANGED <<timer, powerdOn, alive>> /\ api.pc = "register"
        /\ api'.owner = api.owner
    BY <1>1, <1>10, RegisterFact
  <2>2. \A s \in Slot : KeptOrReaped(s) => slot'[s] = slot[s]
    BY <1>2 DEF KeptOrReaped
  <2>3. CASE \A s \in Slot : KeptOrReaped(s)
    BY <1>5, <1>6, <2>1, <2>2, <2>3 DEF TimersSuffice
  <2>4. ASSUME NEW s \in Slot, slot[s].hdl = NoHandle \/ Orphan(s),
               slot'[s] = [hdl |-> lastHandle', owner |-> api.owner,
                           dur |-> api.dur, on |-> FALSE],
               \A t \in Slot \ {s} : KeptOrReaped(t)
        PROVE  held
    <3>1. \A t \in Slot : t # s => slot'[t] = slot[t]
      BY <2>2, <2>4
    <3>2. slot[s].hdl = NoHandle /\ slot'[s].owner = api.owner /\ api.owner \in Client
      BY <1>2, <2>1, <2>4 DEF TimersSuffice
    <3>3. \A t \in Slot : slot'[t].hdl # NoHandle => slot'[t].owner \in Client
      BY <3>1, <3>2 DEF TimersSuffice
    <3>4. \A t \in Slot : slot'[t].hdl = slot[t].hdl \/ slot[t].hdl = NoHandle
      BY <3>1, <3>2
    <3> QED BY <1>5, <1>6, <2>1, <3>3, <3>4
  <2> HIDE DEF held
  <2> QED BY <1>1, <1>10, <2>3, <2>4, RegisterFact
<1>11. ASSUME Enqueue PROVE held
  BY <1>7, <1>11 DEF Enqueue, NoCall
<1>12. ASSUME \/ \E h \in known : LockRel(h)
              \/ ExitWorker \/ WorkerWake \/ WorkerDone
       PROVE  held
  <2>1. UNCHANGED <<slot, timer, powerdOn, alive, api>>
    BY <1>12 DEF LockRel, ExitWorker, WorkerWake, WorkerDone
  <2> QED BY <1>7, <2>1 DEF TimersSuffice
<1>13. ASSUME UserScnDisableAll PROVE held
  <2>1. /\ UNCHANGED <<timer, powerdOn, alive, api>>
        /\ \A s \in Slot : DisabledOrFreed(s)
    BY <1>1, <1>13, DisableAllFact DEF UserScnDisableAll
  <2>2. FreeSlot.hdl = NoHandle
    BY DEF FreeSlot
  <2>3. \A s \in Slot : \/ slot'[s].hdl = slot[s].hdl /\ slot'[s].owner = slot[s].owner
                        \/ slot'[s].hdl = NoHandle /\ slot[s].hdl = NoHandle
    BY <1>1, <2>1, <2>2 DEF DisabledOrFreed, TimersSuffice
  <2>4. \A s \in Slot : slot'[s].hdl = slot[s].hdl
    BY <2>3
  <2>5. \A s \in Slot : slot'[s].hdl # NoHandle => slot'[s].owner \in Client
    BY <2>3 DEF TimersSuffice
  <2> QED BY <1>5, <1>6, <2>1, <2>4, <2>5
<1>14. ASSUME WorkerStep PROVE held
  <2>1. PICK m \in Message : m = Head(queue)
    BY <1>1, <1>14, SlotTypes, TailFact DEF WorkerStep
  <2>5. UNCHANGED <<powerdOn, alive, api>>
    BY <1>14 DEF WorkerStep
  <2>2. CASE PowerdAcq(m)
    <3>1. \A s \in Slot : slot'[s].hdl = slot[s].hdl /\ slot'[s].owner = slot[s].owner
      BY <1>1, <2>1, <2>2, AcqSlots
    <3>2. /\ \A i \in Timer : timer'[i].use = "lock" =>
                              timer'[i].hdl = m.hdl \/ timer'[i] = timer[i]
          /\ \A i \in Timer : timer'[i].use = "check" => timer[i].use = "check"
          /\ \/ TimersOf(m.hdl)' = {}
             \/ /\ SlotsOf(m.hdl) # {}
                /\ \E k \in Timer : TimersOf(m.hdl)' = {k} /\ timer'[k].armed
      BY <1>1, <2>1, <2>2, AcqTimers
    <3>3. ASSUME NEW i \in Timer, timer'[i].use = "lock"
          PROVE  timer'[i].armed /\ SlotsOf(timer[i].hdl)' # {}
      <4>1. CASE timer'[i].hdl = m.hdl
        <5>1. i \in TimersOf(m.hdl)'
          BY <3>3, <4>1 DEF TimersOf
        <5>2. timer'[i].armed /\ SlotsOf(m.hdl) # {}
          BY <3>2, <5>1
        <5>3. SlotsOf(timer'[i].hdl) # {}
          BY <4>1, <5>2
        <5> QED BY <3>1, <5>2, <5>3 DEF SlotsOf
      <4>2. CASE timer'[i] = timer[i]
        <5>1. timer[i].armed /\ SlotsOf(timer'[i].hdl) # {}
          BY <3>3, <4>2 DEF TimersSuffice
        <5> QED BY <3>1, <4>2, <5>1 DEF SlotsOf
      <4> QED BY <3>2, <3>3, <4>1, <4>2
    <3>4. \A s \in Slot : slot'[s].hdl # NoHandle => slot'[s].owner \in Client
      BY <3>1 DEF TimersSuffice
    <3> QED BY <2>5, <3>2, <3>3, <3>4 DEF TimersSuffice
  <2>3. CASE PowerdRel(m)
    <3>1. slot' = Released(m.hdl) /\ timer' = Without(m.hdl)
      BY <1>1, <2>3 DEF PowerdRel
    <3>2. \A s \in Slot : slot'[s] = slot[s] \/ (slot'[s] = FreeSlot /\ slot[s].hdl = m.hdl)
      BY <3>1 DEF Released, SlotsOf
    <3>3. \A i \in Timer : timer'[i] = IF i \in TimersOf(m.hdl) THEN FreeTimer ELSE timer[i]
      BY <1>1, <3>1, WithoutFact
    <3>4. FreeSlot.hdl = NoHandle /\ FreeTimer.use = "free"
      BY DEF FreeSlot, FreeTimer
    <3>5. \A i \in Timer : timer'[i].use = "lock" => timer'[i] = timer[i] /\ timer[i].hdl # m.hdl
      BY <3>3, <3>4 DEF TimersOf
    <3>6. \A i \in Timer : timer'[i].use = "check" => timer[i].use = "check"
      BY <3>3, <3>4
    <3>7. \A s \in Slot : slot'[s].hdl # NoHandle => slot'[s].owner \in Client
      BY <3>2, <3>4 DEF TimersSuffice
    <3>8. \A s \in Slot : slot'[s].hdl = slot[s].hdl \/ slot[s].hdl \in {m.hdl, NoHandle}
      BY <3>2
    <3> QED BY <1>5, <2>5, <3>5, <3>6, <3>7, <3>8
  <2>4. CASE UNCHANGED <<slot, timer>>
    BY <1>7, <2>5, <2>4 DEF TimersSuffice
  <2> HIDE DEF held
  <2> QED BY <1>14, <2>1, <2>2, <2>3, <2>4 DEF WorkerStep
<1>15. ASSUME NEW i \in Timer, Expire(i) PROVE held
  <2>1. UNCHANGED <<powerdOn, alive, api>>
    BY <1>15 DEF Expire
  <2>2. CASE timer[i].use = "lock"
    <3>1. slot' = Released(timer[i].hdl) /\ timer' = [timer EXCEPT ![i] = FreeTimer]
      BY <1>1, <1>15, <2>2 DEF Expire
    <3>2. \A s \in Slot : \/ slot'[s] = slot[s]
                          \/ slot'[s] = FreeSlot /\ slot[s].hdl = timer[i].hdl
      BY <3>1 DEF Released, SlotsOf
    <3>3. FreeSlot.hdl = NoHandle /\ FreeTimer.use = "free"
      BY DEF FreeSlot, FreeTimer
    <3>4. \A j \in Timer : timer'[j] = IF j = i THEN FreeTimer ELSE timer[j]
      BY <1>1, <3>1 DEF TimerTable
    <3>5. \A j \in Timer : timer'[j].use = "lock" =>
                             timer'[j] = timer[j] /\ timer[j].hdl # timer[i].hdl
      BY <2>2, <3>3, <3>4 DEF TimersUnique
    <3>6. \A j \in Timer : timer'[j].use = "check" => timer[j].use = "check"
      BY <3>3, <3>4
    <3>7. \A s \in Slot : slot'[s].hdl # NoHandle => slot'[s].owner \in Client
      BY <3>2, <3>3 DEF TimersSuffice
    <3>8. \A s \in Slot : slot'[s].hdl = slot[s].hdl \/ slot[s].hdl \in {timer[i].hdl, NoHandle}
      BY <3>2
    <3> QED BY <1>5, <2>1, <3>5, <3>6, <3>7, <3>8
  <2>3. CASE timer[i].use # "lock"
    <3>1. timer' = timer /\ \E exempt \in SUBSET Slot : slot' = Reaped(exempt)
      BY <1>1, <1>15, <2>3 DEF Expire
    <3>2. \A s \in Slot : slot'[s] = slot[s]
      BY <1>2, <3>1 DEF Reaped
    <3> QED BY <1>5, <1>6, <2>1, <3>1, <3>2 DEF TimersSuffice
  <2> QED BY <2>2, <2>3
<1>16. ~SetOnOff /\ \A c \in Client : ~Die(c)
  BY DEF EnoughTimers, SetOnOff, Die
<1>17. ASSUME UNCHANGED vars PROVE held
  <2>1. UNCHANGED <<slot, timer, powerdOn, alive, api>>
    BY <1>17 DEF vars
  <2> QED BY <1>7, <2>1 DEF TimersSuffice
<1> HIDE DEF held
<1> QED
  BY <1>4, <1>8, <1>9, <1>10, <1>11, <1>12, <1>13, <1>14, <1>15, <1>16, <1>17 DEF Next

\* There are no locks and no lock timers at first.
LEMMA InitSuffice == Init => TimersSuffice
BY DEF Init, TimersSuffice, FreeSlot, FreeTimer, NoCall, TimedOn, SlotsOf

\* With more timers than slots, all processes alive and powerd on: every timed
\* lock that is on has exactly one timer, which is running, and no other lock
\* has one.
THEOREM TimersCorrect == EnoughTimers => (Spec => []TimersMatchLocks)
<1> SUFFICES ASSUME EnoughTimers PROVE Spec => []TimersMatchLocks
  OBVIOUS
<1>1. QInv /\ TimersUnique /\ TimersSuffice /\ [Next]_vars => TimersSuffice'
  BY NextSuffice
<1>2. Spec => []TimersSuffice
  BY <1>1, InitSuffice, AlwaysQueue, NoStaleTimer, PTL DEF Spec
<1>3. TimersUnique /\ TimersSuffice => TimersMatchLocks
  <2> SUFFICES ASSUME TimersUnique, TimersSuffice PROVE TimersMatchLocks
    OBVIOUS
  <2>1. ASSUME NEW h \in Handle, TimedOn(h)
        PROVE  /\ Cardinality(TimersOf(h)) = 1
               /\ \A i \in TimersOf(h) : timer[i].armed
    <3>1. PICK k \in Timer : k \in TimersOf(h)
      BY <2>1 DEF TimersSuffice, TimersOf
    <3>2. TimersOf(h) = {k}
      BY <3>1 DEF TimersOf, TimersUnique
    <3>3. Cardinality(TimersOf(h)) = 1
      BY <3>2, FS_Singleton
    <3>4. \A i \in TimersOf(h) : timer[i].armed
      BY DEF TimersOf, TimersSuffice
    <3> QED BY <3>3, <3>4
  <2> QED BY <2>1 DEF TimersMatchLocks, TimersUnique
<1> QED BY <1>2, <1>3, NoStaleTimer, PTL
=============================================================================
