----------------------------- MODULE TimerList -----------------------------
(***************************************************************************)
(* The timer list of ptimer.cpp, on the doubly linked list of mi_util.cpp. *)
(*                                                                         *)
(* The library exists twice with the same code: for powerd's lock timers   *)
(* (lib/util) and for the power timer service (timer).  The list is        *)
(* modelled with its pointers.  Time is in milliseconds, the resolution of *)
(* a duration and of the due test; SECOND of them make a second.  The      *)
(* check of the list length against MI_UTIL_MAXCOUNT is left out.          *)
(***************************************************************************)
EXTENDS Naturals, FiniteSets

CONSTANTS
  Timer,      \* timers that were created
  SECOND,     \* milliseconds of a second
  Duration,   \* durations a timer can be started with
  MaxClock    \* bound on the clock

NIL == "NIL"

ASSUME TimerListAssumption ==
  /\ IsFiniteSet(Timer) /\ NIL \notin Timer
  /\ SECOND \in Nat \ {0} /\ Duration \subseteq Nat /\ MaxClock \in Nat

VARIABLES
  list,     \* tMI_DLIST: first, last, count, and the links of the nodes
  pMng,     \* timers whose pMng points to the manager
  expire,   \* when each timer is due
  clock

timerVars == <<list, pMng, expire, clock>>
-----------------------------------------------------------------------------
(***************************************************************************)
(* mi_util.cpp.                                                            *)
(***************************************************************************)
MI_DlInit == [first |-> NIL, last |-> NIL, count |-> 0,
              next |-> [t \in Timer |-> NIL], prev |-> [t \in Timer |-> NIL]]

First(L, n) == [L EXCEPT !.first = n, !.last = n, !.next[n] = NIL, !.prev[n] = NIL, !.count = 1]

MI_DlPushTail(L, n) ==
  IF L.first = NIL THEN First(L, n)
  ELSE [L EXCEPT !.next = [@ EXCEPT ![n] = NIL, ![L.last] = n], !.prev[n] = L.last,
                 !.last = n, !.count = @ + 1]

MI_DlPushHead(L, n) ==
  IF L.first = NIL THEN First(L, n)
  ELSE [L EXCEPT !.prev = [@ EXCEPT ![n] = NIL, ![L.first] = n], !.next[n] = L.first,
                 !.first = n, !.count = @ + 1]

\* Mutant: deleting the last node leaves the list's pointer to it.
MI_DlDelete_KeepsLast(L, n) ==
  LET nx == L.next[n]
      pv == L.prev[n]
  IN  [L EXCEPT
        !.prev = IF nx = NIL THEN [@ EXCEPT ![n] = NIL] ELSE [@ EXCEPT ![nx] = pv, ![n] = NIL],
        !.first = IF pv = NIL THEN nx ELSE @,
        !.next = IF pv = NIL THEN [@ EXCEPT ![n] = NIL] ELSE [@ EXCEPT ![pv] = nx, ![n] = NIL],
        !.count = @ - 1]

MI_DlDelete(L, n) ==
  LET nx == L.next[n]
      pv == L.prev[n]
  IN  IF L.count = 0 THEN L
      ELSE [L EXCEPT
        !.last = IF nx = NIL THEN pv ELSE @,
        !.prev = IF nx = NIL THEN [@ EXCEPT ![n] = NIL] ELSE [@ EXCEPT ![nx] = pv, ![n] = NIL],
        !.first = IF pv = NIL THEN nx ELSE @,
        !.next = IF pv = NIL THEN [@ EXCEPT ![n] = NIL] ELSE [@ EXCEPT ![pv] = nx, ![n] = NIL],
        !.count = @ - 1]

MI_DlInsertAfter(L, pv, n) ==
  IF L.count = 0 \/ L.next[pv] = NIL THEN MI_DlPushTail(L, n)
  ELSE [L EXCEPT !.next = [@ EXCEPT ![n] = L.next[pv], ![pv] = n],
                 !.prev = [@ EXCEPT ![n] = pv, ![L.next[pv]] = n], !.count = @ + 1]

MI_DlInsertBefore(L, nx, n) ==
  IF L.count = 0 \/ L.prev[nx] = NIL THEN MI_DlPushHead(L, n)
  ELSE [L EXCEPT !.prev = [@ EXCEPT ![n] = L.prev[nx], ![nx] = n],
                 !.next = [@ EXCEPT ![n] = nx, ![L.prev[nx]] = n], !.count = @ + 1]

\* MI_DlStep(n, k): k nodes on from n.
MI_DlStep(L, n, k) ==
  LET step[i \in 0 .. k] ==
        IF i = 0 THEN n ELSE IF step[i - 1] = NIL THEN NIL ELSE L.next[step[i - 1]]
  IN  step[k]

\* _comparePTIMER_: -1 is "later".  Within a second an earlier timer counts as equal.
_comparePTIMER_(target, exist) ==
  LET ts == target \div SECOND
      es == exist \div SECOND
  IN  IF ts > es THEN "later" ELSE IF ts < es THEN "earlier"
      ELSE IF target % SECOND > exist % SECOND THEN "later" ELSE "equal"

Probe(L, n, e, m) == _comparePTIMER_(e[n], e[MI_DlStep(L, L.first, m)])

\* A turn of the binary search of MI_DlInsert for the place of n.  At the place nothing
\* moves any more.
SearchTurn(L, n, e, x) ==
  LET c == Probe(L, n, e, x.vMid)
  IN  IF c = "later" /\ x.vMid + 1 # x.vEnd
      THEN [vStart |-> x.vMid, vEnd |-> x.vEnd, vMid |-> (x.vMid + 1 + x.vEnd) \div 2]
      ELSE IF c = "earlier" /\ x.vMid - 1 # x.vStart
      THEN [vStart |-> x.vStart, vEnd |-> x.vMid, vMid |-> (x.vStart + 1 + x.vMid) \div 2]
      ELSE x

\* Where the search ends.  It takes less than L.count turns.
Search(L, n, e) ==
  LET loop[k \in 0 .. L.count] ==
        IF k = 0 THEN [vStart |-> 0, vEnd |-> L.count - 1, vMid |-> L.count \div 2]
        ELSE SearchTurn(L, n, e, loop[k - 1])
  IN  loop[L.count].vMid

MI_DlInsert(L, n, e) ==
  IF L.count = 0 THEN MI_DlPushTail(L, n)
  ELSE IF _comparePTIMER_(e[n], e[L.first]) # "later" THEN MI_DlInsertBefore(L, L.first, n)
  ELSE IF L.count = 1 \/ _comparePTIMER_(e[n], e[L.last]) = "later" THEN MI_DlPushTail(L, n)
  ELSE LET m == Search(L, n, e)
           p == MI_DlStep(L, L.first, m)
       IN  IF Probe(L, n, e, m) = "later" THEN MI_DlInsertAfter(L, p, n) ELSE MI_DlInsertBefore(L, p, n)
-----------------------------------------------------------------------------
(***************************************************************************)
(* ptimer.cpp.                                                             *)
(***************************************************************************)
Unlink(L, t) == IF t \in pMng THEN MI_DlDelete(L, t) ELSE L

ptimer_start(t, mseconds) ==
  /\ expire' = [expire EXCEPT ![t] = clock + mseconds]
  /\ list' = MI_DlInsert(Unlink(list, t), t, expire')
  /\ pMng' = pMng \cup {t}

\* ptimer_stop; ptimer_delete also frees t.
ptimer_stop(t) ==
  /\ list' = Unlink(list, t)
  /\ pMng' = pMng \ {t}
  /\ UNCHANGED expire

\* ptimer_mng_getexpired: only the first timer is looked at.
Due == list.first # NIL /\ expire[list.first] <= clock
ptimer_mng_getexpired ==
  /\ Due
  /\ list' = MI_DlDelete(list, list.first)
  /\ pMng' = pMng \ {list.first}
  /\ UNCHANGED expire
-----------------------------------------------------------------------------
TimerInit ==
  /\ list = MI_DlInit /\ pMng = {}
  /\ expire = [t \in Timer |-> 0] /\ clock = 0

ClockTicks == clock < MaxClock /\ clock' = clock + 1

TimerNext ==
  \/ \E t \in Timer : /\ \/ \E d \in Duration : ptimer_start(t, d)
                         \/ ptimer_stop(t)
                      /\ UNCHANGED clock
  \/ ptimer_mng_getexpired /\ UNCHANGED clock
  \/ ClockTicks /\ UNCHANGED <<list, pMng, expire>>

TimerSpec == TimerInit /\ [][TimerNext]_timerVars
-----------------------------------------------------------------------------
TimerTypeOK ==
  /\ DOMAIN list.next = Timer /\ DOMAIN list.prev = Timer
  /\ list.count \in 0 .. Cardinality(Timer)
  /\ pMng \subseteq Timer
  /\ expire \in [Timer -> Nat] /\ clock \in 0 .. MaxClock

Nth(k) == MI_DlStep(list, list.first, k)

\* The links are those of one list: count nodes forward, the same backward, all of
\* them timers that are running; and the list is in order to the second, so that a
\* timer waits behind a later one for less than a second.  (It is not in order within
\* a second: _comparePTIMER_ takes an earlier timer of the same second for an equal one.)
TimersLinked ==
  /\ pMng = {Nth(k) : k \in 0 .. list.count - 1}
  /\ Cardinality(pMng) = list.count
  /\ Nth(list.count) = NIL
  /\ list.last = IF list.count = 0 THEN NIL ELSE Nth(list.count - 1)
  /\ \A k \in 0 .. list.count - 1 :
       list.prev[Nth(k)] = IF k = 0 THEN NIL ELSE Nth(k - 1)
  /\ \A k \in 1 .. list.count - 1 :
       expire[Nth(k - 1)] \div SECOND <= expire[Nth(k)] \div SECOND

\* ptimer's list is a queue of timers: starting, stopping and reporting do to the set of
\* running timers what TimerQueue says, and the timer reported is one of the earliest
\* second of all that run, not just the first of some list.
Q == INSTANCE TimerQueue WITH running <- pMng, due <- expire, now <- clock
ImplementsQueue == Q!Spec
=============================================================================
