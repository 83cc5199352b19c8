----------------------------- MODULE PowerTimer -----------------------------
(***************************************************************************)
(* The power timer service (power_timer.cpp) and its one user, the         *)
(* weak-signal setter of utility_ril.c.                                    *)
(*                                                                         *)
(* Turning weak-signal optimization off is delayed by a timer; turning it  *)
(* on cancels that timer.  The setter runs in the worker's thread, the     *)
(* expiry in the timer thread, and nothing locks the callback table they   *)
(* share.  The list operations of ptimer.cpp are taken as atomic (see      *)
(* TimerList); when a timer is due is left open.                           *)
(***************************************************************************)
EXTENDS Naturals

CONSTANTS
  MAX_TIMER_COUNT,  \* entries of the callback table
  TimerNode         \* memory malloc can hand out for a timer

ASSUME PowerTimerAssumption ==
  /\ MAX_TIMER_COUNT \in Nat \ {0}
  /\ TimerNode # {} /\ "NULL" \notin TimerNode

VARIABLES
  powerTimer,       \* the callback table
  allocated,        \* timers that are not freed
  started,          \* timers in the manager's list, with the entry given as pData
  thread,           \* mtkPowerTimer: what it is about to do, pTimer and pData
  setting,          \* notify_rild_weak_sig_opt_set: what it is about to do
  mdGameOffTimeout, \* whether turning off is delayed
  weakSigStatus,    \* the static of notify_rild_weak_signal_opt
  modem,            \* what rild was told last
  unsent,           \* history: the last message was lost
  sigWanted,        \* history: the last request
  raced,            \* history: a cancel and the handler worked on one entry
  misfreed          \* history: a freed timer was used or freed again

ptVars == <<powerTimer, allocated, started, thread, setting, mdGameOffTimeout,
            weakSigStatus, modem, unsent, sigWanted, raced, misfreed>>
sigVars == <<weakSigStatus, modem, unsent>>
tableVars == <<powerTimer, allocated, started, misfreed>>

TimerEntry == 0 .. MAX_TIMER_COUNT - 1
NoTimer == [used |-> FALSE, p_pTimer |-> "NULL", timer_cb |-> FALSE]
Waiting == [do |-> "select", pTimer |-> "NULL", pData |-> 0]
NotSetting == [do |-> "idle", idx |-> 0, enable |-> 0]

init_timer ==
  /\ powerTimer = [i \in TimerEntry |-> NoTimer]
  /\ allocated = {} /\ started = {}
  /\ thread = Waiting

PowerTimerInit ==
  /\ init_timer
  /\ setting = NotSetting
  /\ mdGameOffTimeout \in BOOLEAN
  /\ weakSigStatus = 0 /\ modem = 0 /\ unsent = FALSE
  /\ sigWanted = 0 /\ raced = FALSE /\ misfreed = FALSE

allocate_timer(i) == ~powerTimer[i].used /\ \A j \in 0 .. i - 1 : powerTimer[j].used

Pending(i) == powerTimer[i].used /\ powerTimer[i].timer_cb
find_timer(i) == Pending(i) /\ \A j \in 0 .. i - 1 : ~Pending(j)

reset_timer(i) == powerTimer' = [powerTimer EXCEPT ![i] = NoTimer]

\* ptimer_delete unlinks a running timer and frees it; NULL is ignored.
ptimer_delete(n) ==
  /\ started' = {s \in started : s.node # n}
  /\ allocated' = allocated \ {n}
  /\ misfreed' = (misfreed \/ n \notin allocated \cup {"NULL"})

\* The status is changed before the message is sent, and the message can be lost.
notify_rild_weak_signal_opt(enable) ==
  IF weakSigStatus = enable THEN UNCHANGED sigVars
  ELSE /\ weakSigStatus' = enable
       /\ \/ modem' = enable /\ unsent' = FALSE
          \/ modem' = modem /\ unsent' = TRUE
-----------------------------------------------------------------------------
(***************************************************************************)
(* mtkPowerTimer: take an expired timer and run powerTimerHandler, whose   *)
(* steps interleave with the setter's.                                     *)
(***************************************************************************)
Expired ==
  /\ thread.do = "select"
  /\ \E s \in started :
       /\ started' = started \ {s}
       /\ thread' = [do |-> "compare", pTimer |-> s.node, pData |-> s.entry]
  /\ UNCHANGED <<powerTimer, allocated, setting, mdGameOffTimeout, sigVars, sigWanted, raced, misfreed>>

OnSameEntry == setting.do \in {"delete", "reset"} /\ setting.idx = thread.pData

HandlerCompares ==
  /\ thread.do = "compare"
  /\ IF powerTimer[thread.pData].p_pTimer # thread.pTimer
     THEN thread' = Waiting /\ UNCHANGED raced
     ELSE thread' = [thread EXCEPT !.do = "callback"] /\ raced' = (raced \/ OnSameEntry)
  /\ UNCHANGED <<tableVars, setting, mdGameOffTimeout, sigVars, sigWanted>>

\* rild_weak_sig_off_cb.
HandlerCalls ==
  /\ thread.do = "callback"
  /\ IF powerTimer[thread.pData].timer_cb THEN notify_rild_weak_signal_opt(0) ELSE UNCHANGED sigVars
  /\ thread' = [thread EXCEPT !.do = "delete"]
  /\ UNCHANGED <<tableVars, setting, mdGameOffTimeout, sigWanted, raced>>

HandlerDeletes ==
  /\ thread.do = "delete"
  /\ ptimer_delete(powerTimer[thread.pData].p_pTimer)
  /\ thread' = [thread EXCEPT !.do = "reset"]
  /\ UNCHANGED <<powerTimer, setting, mdGameOffTimeout, sigVars, sigWanted, raced>>

HandlerResets ==
  /\ thread.do = "reset"
  /\ reset_timer(thread.pData)
  /\ thread' = Waiting
  /\ UNCHANGED <<allocated, started, misfreed, setting, mdGameOffTimeout, sigVars, sigWanted, raced>>
-----------------------------------------------------------------------------
(***************************************************************************)
(* notify_rild_weak_sig_opt_set: cancelTimerCallback (find and stop,       *)
(* delete, reset), then the notification or addTimerCallback.              *)
(***************************************************************************)
\* Mutant: a request does not cancel the pending switch-off.
notify_rild_weak_sig_opt_set_NoCancel(e) ==
  /\ setting.do = "idle"
  /\ sigWanted' = e
  /\ IF ~mdGameOffTimeout
     THEN notify_rild_weak_signal_opt(e) /\ UNCHANGED setting
     ELSE setting' = [do |-> "apply", idx |-> 0, enable |-> e] /\ UNCHANGED sigVars
  /\ UNCHANGED <<tableVars, raced, thread, mdGameOffTimeout>>

notify_rild_weak_sig_opt_set(e) ==
  /\ setting.do = "idle"
  /\ sigWanted' = e
  /\ \/ /\ ~mdGameOffTimeout
        /\ notify_rild_weak_signal_opt(e)
        /\ UNCHANGED <<tableVars, setting, raced>>
     \/ /\ mdGameOffTimeout /\ ~\E i \in TimerEntry : Pending(i)
        /\ setting' = [do |-> "apply", idx |-> 0, enable |-> e]
        /\ UNCHANGED <<tableVars, sigVars, raced>>
     \/ \E i \in TimerEntry :
          LET n == powerTimer[i].p_pTimer
          IN  /\ mdGameOffTimeout /\ find_timer(i)
              /\ setting' = [do |-> "delete", idx |-> i, enable |-> e]
              /\ started' = {s \in started : s.node # n}
              /\ misfreed' = (misfreed \/ n \notin allocated \cup {"NULL"})
              /\ raced' = (raced \/ (thread.do \in {"callback", "delete", "reset"} /\ thread.pData = i))
              /\ UNCHANGED <<powerTimer, allocated, sigVars>>
  /\ UNCHANGED <<thread, mdGameOffTimeout>>

CancelDeletes ==
  /\ setting.do = "delete"
  /\ ptimer_delete(powerTimer[setting.idx].p_pTimer)
  /\ setting' = [setting EXCEPT !.do = "reset"]
  /\ UNCHANGED <<powerTimer, thread, mdGameOffTimeout, sigVars, sigWanted, raced>>

CancelResets ==
  /\ setting.do = "reset"
  /\ reset_timer(setting.idx)
  /\ setting' = [setting EXCEPT !.do = "apply"]
  /\ UNCHANGED <<allocated, started, misfreed, thread, mdGameOffTimeout, sigVars, sigWanted, raced>>

\* One callback needs one entry, so the table is never full.
addTimerCallback ==
  \E i \in TimerEntry :
    /\ allocate_timer(i)
    /\ UNCHANGED misfreed
    /\ \/ \E n \in TimerNode \ allocated :
            /\ powerTimer' = [powerTimer EXCEPT ![i] = [used |-> TRUE, p_pTimer |-> n, timer_cb |-> TRUE]]
            /\ allocated' = allocated \cup {n}
            /\ started' = started \cup {[node |-> n, entry |-> i]}
       \/ /\ TimerNode \subseteq allocated     \* ptimer_create fails, and so does ptimer_start
          /\ powerTimer' = [powerTimer EXCEPT ![i] = [NoTimer EXCEPT !.used = TRUE, !.timer_cb = TRUE]]
          /\ UNCHANGED <<allocated, started>>

Apply ==
  /\ setting.do = "apply"
  /\ \/ setting.enable = 1 /\ notify_rild_weak_signal_opt(1) /\ UNCHANGED tableVars
     \/ setting.enable = 0 /\ addTimerCallback /\ UNCHANGED sigVars
  /\ setting' = NotSetting
  /\ UNCHANGED <<thread, mdGameOffTimeout, sigWanted, raced>>
-----------------------------------------------------------------------------
PowerTimerNext ==
  \/ Expired \/ HandlerCompares \/ HandlerCalls \/ HandlerDeletes \/ HandlerResets
  \/ \E e \in {0, 1} : notify_rild_weak_sig_opt_set(e)
  \/ CancelDeletes \/ CancelResets \/ Apply

PowerTimerSpec == PowerTimerInit /\ [][PowerTimerNext]_ptVars
-----------------------------------------------------------------------------
PowerTimerTypeOK ==
  /\ powerTimer \in [TimerEntry -> [used : BOOLEAN, p_pTimer : TimerNode \cup {"NULL"}, timer_cb : BOOLEAN]]
  /\ allocated \subseteq TimerNode
  /\ started \subseteq [node : TimerNode, entry : TimerEntry]
  /\ thread.do \in {"select", "compare", "callback", "delete", "reset"} /\ thread.pData \in TimerEntry
  /\ setting.do \in {"idle", "delete", "reset", "apply"} /\ setting.idx \in TimerEntry
  /\ {weakSigStatus, modem, sigWanted} \subseteq {0, 1}

AtRestPT == setting.do = "idle" /\ thread.do = "select"

\* As long as no cancel meets the handler on one entry: no timer is freed twice, every
\* timer that runs is one that exists, and whenever nobody is at work the modem was told
\* what was asked last, or the delayed switch-off is on its way.  A stale expiry, of a
\* timer that was cancelled or whose entry was given to a new one, changes nothing of this.
WeakSigFollows ==
  ~raced =>
    /\ ~misfreed
    /\ \A s \in started : s.node \in allocated /\ powerTimer[s.entry].p_pTimer = s.node
    /\ AtRestPT =>
         /\ \A i \in TimerEntry : powerTimer[i].used <=> \E s \in started : s.entry = i
         /\ weakSigStatus = sigWanted \/ (sigWanted = 0 /\ started # {})
    /\ ~unsent => modem = weakSigStatus
=============================================================================
