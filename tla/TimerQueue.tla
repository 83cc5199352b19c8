----------------------------- MODULE TimerQueue -----------------------------
(***************************************************************************)
(* What a timer manager (ptimer.cpp) promises to powerd and to the power   *)
(* timer service: a set of running timers, each with the time it is due.   *)
(* Only a timer that is due is reported, and one of the earliest second    *)
(* among those running.  The times are in milliseconds.                    *)
(***************************************************************************)
EXTENDS Naturals

CONSTANTS
  Timer,      \* timers that were created
  SECOND,     \* milliseconds of a second
  Duration    \* durations a timer can be started with

VARIABLES
  running,    \* timers that were started and neither stopped nor reported
  due,        \* when each timer is due
  now         \* the clock

vars == <<running, due, now>>

Second(t) == due[t] \div SECOND
Earliest(t) == t \in running /\ \A u \in running : Second(t) <= Second(u)

Init == running = {} /\ due = [t \in Timer |-> 0] /\ now = 0

\* Starting a timer that runs starts it anew.
Start(t, d) == /\ due' = [due EXCEPT ![t] = now + d]
               /\ running' = running \cup {t}
               /\ UNCHANGED now

Stop(t) == running' = running \ {t} /\ UNCHANGED <<due, now>>

Report(t) == /\ Earliest(t) /\ due[t] <= now
             /\ running' = running \ {t}
             /\ UNCHANGED <<due, now>>

Tick == now' = now + 1 /\ UNCHANGED <<running, due>>

Next == \/ \E t \in Timer : (\E d \in Duration : Start(t, d)) \/ Stop(t) \/ Report(t)
        \/ Tick

Spec == Init /\ [][Next]_vars
=============================================================================
