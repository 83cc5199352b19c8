---------------------------- MODULE HintHandles ----------------------------
(***************************************************************************)
(* The callers inside the system that keep the handle of a lock: setMode   *)
(* and setBoost of the AIDL Power service (Power.cpp), mtkPowerHint of the *)
(* MtkPower service (MtkPowerService.cpp), sendHint of the hint sessions   *)
(* (PowerHintSession.cpp), the touch boost (touch_boost.cpp) and the boot  *)
(* boost (power_boot_handler.cpp).                                         *)
(*                                                                         *)
(* The two services share one binder thread, so a call is one step.  The   *)
(* lock API answers at once and leaves the acquire or the release to its   *)
(* worker (LockService); a hint's hold time is known only when the worker  *)
(* has performed the acquire.  The callers share nothing but the slots of  *)
(* the lock table, which have other users too: a behaviour is one of one   *)
(* caller, and that no slot is left is a choice.  Handles are compared for *)
(* equality only, so they are numbered for each purpose apart: a new one   *)
(* is one that no lock, table or message has.                              *)
(***************************************************************************)
EXTENDS Integers, FiniteSets, Sequences, SequencesExt

CONSTANTS
  LockMode,    \* the modes of setMode that take a lock
  Hint,        \* hints of mtkPowerHint
  HeldHint,    \* hints with PERF_RES_POWER_HINT_HOLD_TIME
  ExtHint,     \* [Hint -> Hint \cup {NoHint}]: PERF_RES_POWER_HINT_EXT_HINT
  NoHint,
  MaxWork,     \* bound on the work queue
  MaxAdrift    \* bound on the locks whose handle their caller has lost

ASSUME HintHandlesAssumption ==
  /\ LockMode \subseteq {"LAUNCH", "GAME_LOADING", "SUSTAINED_PERFORMANCE"}
  /\ HeldHint \subseteq Hint /\ ExtHint \in [Hint -> Hint \cup {NoHint}] /\ NoHint \notin Hint
  /\ \A h \in Hint : ExtHint[h] # h
  /\ Hint \cap {"LAUNCH", "GAME_LOADING", "SUSTAINED_PERFORMANCE", "blc", "touch", "boot", "boost"} = {}
  /\ {MaxWork, MaxAdrift} \subseteq Nat \ {0}

VARIABLES
  caller,        \* whose behaviour it is
  hlocks,        \* the live locks: [hdl, who, timed, state]
  work,          \* the worker's queue: [op, hdl]
  powerTbl,      \* gtCusHintTbl of Power.cpp
  mtkTbl,        \* gtCusHintTbl of MtkPowerService.cpp
  sharedHdl,     \* blc_boost_hdl and t_hdl
  boot,          \* the boot handler: where it is, and its handle
  api_status,    \* powerhalAPI_status of LockAcq and of CusLockHint
  bBacklightOn,
  modeOn,        \* history: modes that were asked for, got a lock and have not timed out
  adrift         \* history: handles that their caller wrote over

handleVars == <<caller, hlocks, work, powerTbl, mtkTbl, sharedHdl, boot, api_status, bBacklightOn, modeOn, adrift>>

Shared == {"blc", "touch"}
NoHdl == <<"none", 0>>
InUse == {l.hdl : l \in hlocks} \cup Range(powerTbl) \cup Range(mtkTbl) \cup Range(sharedHdl)
           \cup {boot.hdl} \cup {work[i].hdl : i \in DOMAIN work}
HandleNumber == 1 .. 20   \* more than can be in use within the bounds
NewHandles(who) ==
  {<<who, k>> : k \in {n \in HandleNumber : /\ <<who, n>> \notin InUse
                                            /\ \A j \in 1 .. n - 1 : <<who, j>> \in InUse}}
Live(h) == \E l \in hlocks : l.hdl = h
Message(op, h) == IF h = NoHdl THEN <<>> ELSE <<[op |-> op, hdl |-> h]>>
Acq(h) == Message("acq", h)
Rel(h) == Message("rel", h)
Dying(h) == \E i \in DOMAIN work : work[i].op = "rel" /\ work[i].hdl = h

HandlesInit ==
  /\ caller \in {"power", "boost", "mtk", "boot"} \cup Shared
  /\ hlocks = {} /\ work = <<>>
  /\ powerTbl = [m \in LockMode |-> NoHdl] /\ mtkTbl = [h \in Hint |-> NoHdl]
  /\ sharedHdl = [s \in Shared |-> NoHdl]
  /\ boot = [pc |-> IF caller = "boot" THEN "start" ELSE "done", hdl |-> NoHdl]
  /\ api_status = [acq |-> caller # "boot", cus |-> caller # "boot"]
  /\ bBacklightOn = TRUE
  /\ modeOn = {} /\ adrift = {}

\* What libpowerhal_CusLockHint may return: nothing when it is switched off or no slot is free.
CusLockHint(who) == {NoHdl} \cup IF api_status.cus THEN NewHandles(who) ELSE {}

\* The slot is taken before the call returns.
NewLock(h, who, timed) ==
  IF h = NoHdl THEN {} ELSE {[hdl |-> h, who |-> who, timed |-> timed, state |-> "registered"]}

Queued(msgs) ==
  /\ Len(work) + Len(msgs) <= MaxWork
  /\ work' = work \o msgs

\* Mutant: the lock of the mode's last request is forgotten.
Replace_Forgets(h1, h2, who, timed) ==
  /\ hlocks' = hlocks \cup NewLock(h2, who, timed)
  /\ Queued(Acq(h2))

\* A lock takes the place of another: the new one is acquired, stored, and the old one
\* released, whether or not a new one was given.
Replace(h1, h2, who, timed) ==
  /\ hlocks' = hlocks \cup NewLock(h2, who, timed)
  /\ Queued(Acq(h2) \o Rel(h1))

\* setMode with a lock.  A mode that is switched off, or LAUNCH with the screen off, only
\* gives the old lock back.
setMode(m, enabled) ==
  \E h2 \in IF enabled /\ (m = "LAUNCH" => bBacklightOn) THEN CusLockHint(m) ELSE {NoHdl} :
    /\ Replace(powerTbl[m], h2, m, m # "SUSTAINED_PERFORMANCE")
    /\ powerTbl' = [powerTbl EXCEPT ![m] = h2]
    /\ modeOn' = IF h2 # NoHdl THEN modeOn \cup {m} ELSE modeOn \ {m}
    /\ UNCHANGED <<caller, mtkTbl, sharedHdl, boot, api_status, bBacklightOn, adrift>>

\* setMode(INTERACTIVE): the screen goes off, every lock that is on is disabled and keeps its
\* slot; when it comes on again nothing is restored.
setInteractive(enabled) ==
  /\ hlocks' = IF enabled THEN hlocks
               ELSE {IF l.state = "on" THEN [l EXCEPT !.state = "off"] ELSE l : l \in hlocks}
  /\ bBacklightOn' = enabled
  /\ UNCHANGED <<caller, work, powerTbl, mtkTbl, sharedHdl, boot, api_status, modeOn, adrift>>

\* setBoost: INTERACTION always has a duration; DISPLAY_UPDATE_IMMINENT passes on the one it
\* is given, and 0 means for ever.  The handle is dropped.
setBoostHint(timed) ==
  \E h \in CusLockHint("boost") \ {NoHdl} :
    /\ Cardinality(adrift) < MaxAdrift
    /\ hlocks' = hlocks \cup NewLock(h, "boost", timed)
    /\ Queued(Acq(h))
    /\ adrift' = adrift \cup {h}
    /\ UNCHANGED <<caller, powerTbl, mtkTbl, sharedHdl, boot, api_status, bBacklightOn, modeOn>>

\* mtkPowerHint with data > 0, and mtkCusPowerHint.
StartHint(hint) ==
  \E h2 \in CusLockHint(hint) :
    /\ Replace(mtkTbl[hint], h2, hint, TRUE)
    /\ mtkTbl' = [mtkTbl EXCEPT ![hint] = h2]
    /\ UNCHANGED <<caller, powerTbl, sharedHdl, boot, api_status, bBacklightOn, modeOn, adrift>>

EndCusHint(hint) ==
  /\ mtkTbl[hint] # NoHdl
  /\ Replace(mtkTbl[hint], NoHdl, hint, TRUE)
  /\ mtkTbl' = [mtkTbl EXCEPT ![hint] = NoHdl]
  /\ UNCHANGED <<caller, powerTbl, sharedHdl, boot, api_status, bBacklightOn, modeOn, adrift>>

\* perfUserGetCapability finds the hold time and the second hint in the slot, where the
\* worker's perfLockAcq puts them.
Performed(h) == \E l \in hlocks : l.hdl = h /\ l.state # "registered"

\* mtkPowerHint with data <= 0: the hint is held for its hold time under a new lock, and its
\* second hint is started.  The handle of the second hint is written over.
EndHint(hint) ==
  LET h1 == mtkTbl[hint]
      ext == IF Performed(h1) THEN ExtHint[hint] ELSE NoHint
  IN  \E h2 \in IF Performed(h1) /\ hint \in HeldHint THEN CusLockHint(hint) ELSE {NoHdl},
         h3 \in IF ext # NoHint THEN CusLockHint(ext) ELSE {NoHdl} :
        /\ h1 # NoHdl
        /\ hlocks' = hlocks \cup NewLock(h2, hint, TRUE) \cup NewLock(h3, ext, TRUE)
        /\ Queued(Acq(h2) \o Rel(h1) \o Acq(h3))
        /\ mtkTbl' = [x \in Hint |-> IF x = hint THEN h2 ELSE IF x = ext THEN h3 ELSE mtkTbl[x]]
        /\ adrift' = IF ext # NoHint /\ Live(mtkTbl[ext]) THEN adrift \cup {mtkTbl[ext]} ELSE adrift
        /\ Cardinality(adrift') <= MaxAdrift
        /\ UNCHANGED <<caller, powerTbl, sharedHdl, boot, api_status, bBacklightOn, modeOn>>

\* LockAcq with the handle of the time before: predictWorkload for every session, and
\* touch_boost.  A handle that is gone gives a new lock.
ReAcquire(s) ==
  LET old == sharedHdl[s]
  IN  \E new \in IF ~api_status.acq THEN {NoHdl}
                 ELSE IF Live(old) THEN {old} ELSE {NoHdl} \cup NewHandles(s) :
        /\ hlocks' = IF new = old THEN hlocks ELSE hlocks \cup NewLock(new, s, TRUE)
        /\ Queued(Acq(new))
        /\ sharedHdl' = [sharedHdl EXCEPT ![s] = new]
        /\ adrift' = IF new # old /\ Live(old) THEN adrift \cup {old} ELSE adrift
        /\ Cardinality(adrift') <= MaxAdrift
        /\ UNCHANGED <<caller, powerTbl, mtkTbl, boot, api_status, bBacklightOn, modeOn>>

touch_boost_end ==
  /\ Queued(Rel(sharedHdl["touch"]))
  /\ sharedHdl' = [sharedHdl EXCEPT !["touch"] = NoHdl]
  /\ UNCHANGED <<caller, hlocks, powerTbl, mtkTbl, boot, api_status, bBacklightOn, modeOn, adrift>>

\* The boot boost, asked for when init has switched the API off; then, when the boot has
\* completed or after three minutes, given back, and the API switched on.
mtkPowerBootHandler ==
  \/ /\ boot.pc = "start"
     /\ \E h \in CusLockHint("boot") :
          /\ Replace(NoHdl, h, "boot", TRUE)
          /\ boot' = [pc |-> "poll", hdl |-> h]
     /\ UNCHANGED <<caller, powerTbl, mtkTbl, sharedHdl, api_status, bBacklightOn, modeOn, adrift>>
  \/ /\ boot.pc = "poll"
     /\ Queued(Rel(boot.hdl))
     /\ boot' = [pc |-> "done", hdl |-> NoHdl]
     /\ api_status' = [acq |-> TRUE, cus |-> TRUE]
     /\ UNCHANGED <<caller, hlocks, powerTbl, mtkTbl, sharedHdl, bBacklightOn, modeOn, adrift>>

\* SETSYS_API_ENABLED and SETSYS_API_DISABLED, and the resource that switches hints.
setAPIstatus(which, enable) ==
  /\ api_status[which] # enable
  /\ api_status' = [api_status EXCEPT ![which] = enable]
  /\ UNCHANGED <<caller, hlocks, work, powerTbl, mtkTbl, sharedHdl, boot, bBacklightOn, modeOn, adrift>>

Gone(h) ==
  /\ modeOn' = {m \in modeOn : powerTbl[m] # h}
  /\ adrift' = adrift \ {h}
  /\ UNCHANGED <<caller, powerTbl, mtkTbl, sharedHdl, boot, api_status, bBacklightOn>>

\* One message of the lock API's worker.
Work ==
  /\ work # <<>>
  /\ work' = Tail(work)
  /\ LET m == Head(work)
     IN  \/ /\ m.op = "acq"
            /\ hlocks' = {IF l.hdl = m.hdl THEN [l EXCEPT !.state = "on"] ELSE l : l \in hlocks}
            /\ UNCHANGED <<caller, powerTbl, mtkTbl, sharedHdl, boot, api_status, bBacklightOn, modeOn, adrift>>
         \/ /\ m.op = "rel"
            /\ hlocks' = {l \in hlocks : l.hdl # m.hdl}
            /\ Gone(m.hdl)

\* A lock's time is over.
TimeOut(l) ==
  /\ l.timed /\ l.state # "registered"
  /\ hlocks' = hlocks \ {l}
  /\ Gone(l.hdl)
  /\ UNCHANGED work

HandlesNext ==
  \/ /\ caller = "power"
     /\ \/ \E m \in LockMode, enabled \in BOOLEAN : setMode(m, enabled)
        \/ \E enabled \in BOOLEAN : setInteractive(enabled)
  \/ caller = "boost" /\ \E timed \in BOOLEAN : setBoostHint(timed)
  \/ /\ caller = "mtk"
     /\ \E hint \in Hint : StartHint(hint) \/ EndCusHint(hint) \/ EndHint(hint)
  \/ caller \in Shared /\ ReAcquire(caller)
  \/ caller = "touch" /\ touch_boost_end
  \/ caller = "boot" /\ mtkPowerBootHandler
  \/ \E which \in IF caller \in Shared THEN {"acq"} ELSE {"cus"}, enable \in BOOLEAN :
       setAPIstatus(which, enable)
  \/ Work
  \/ \E l \in hlocks : TimeOut(l)

HandlesSpec == HandlesInit /\ [][HandlesNext]_handleVars
-----------------------------------------------------------------------------
HandlesTypeOK ==
  /\ {l.hdl : l \in hlocks} \cup Range(powerTbl) \cup Range(mtkTbl) \cup Range(sharedHdl) \subseteq
       {NoHdl} \cup ((LockMode \cup Hint \cup Shared \cup {"boot", "boost"}) \X (1 .. MaxWork + MaxAdrift + 3))
  /\ {l.state : l \in hlocks} \subseteq {"registered", "on", "off"}
  /\ adrift \subseteq {l.hdl : l \in hlocks}

\* Who holds the handle of a lock.
Holder(l) ==
  CASE l.who \in LockMode -> powerTbl[l.who]
    [] l.who \in Hint -> mtkTbl[l.who]
    [] l.who \in Shared -> sharedHdl[l.who]
    [] l.who = "boot" -> boot.hdl
    [] OTHER -> NoHdl

\* No lock is forgotten and none is lost.  Every lock of a service is in its table, about to
\* be released, or, when its handle was written over by a second hint or by a call the API
\* refused, ends by itself; only a boost without a duration may stay.  And a mode that is
\* on has its lock, however calls, time-outs, refusals and the worker interleave: the
\* lock a call has just stored is never the one it releases.
HandlesHeld ==
  /\ \A l \in hlocks :
       Holder(l) = l.hdl \/ Dying(l.hdl) \/ (l.hdl \in adrift /\ (l.timed \/ l.who = "boost"))
  /\ \A m \in modeOn : \E l \in hlocks : l.hdl = powerTbl[m] /\ l.who = m /\ ~Dying(l.hdl)
=============================================================================
