----------------------------- MODULE ThreadHint -----------------------------
(***************************************************************************)
(* The thread hints of the app list service (power_applist): policies for  *)
(* named threads of the packages on screen, written to the kernel.         *)
(*                                                                         *)
(* Each of the 14 parameters of a policy is decided in the same way; the   *)
(* model has one of them, which a policy may leave unset.  The kernel's    *)
(* file is a value per process and thread.  notifyAPPstate and the reading *)
(* of the XML hold fg_mutex; setThreadHintControllerEnabled does not, and  *)
(* is called by one thread at a time.                                      *)
(***************************************************************************)
EXTENDS ResumedApps

CONSTANTS
  ThreadHintCfg,   \* policies: [package, thread, fps, window, value]
  NotSet           \* the value of a policy that leaves the parameter alone

ASSUME ThreadHintAssumption ==
  Len(ThreadHintCfg) \in Nat /\ DOMAIN ThreadHintCfg = 1 .. Len(ThreadHintCfg)

VARIABLES
  hints,            \* per policy: pid, isThreadHintPolicyEnabled
  gameLoom,         \* what the kernel was told, where it is not the default
  hintController,   \* threadHintControllerEnabled
  resetting,        \* the loop that switches it off: the policy it is at, 0 outside the loop
  hintsFresh,       \* history: a notification came since the controller was switched on
  reloaded          \* history: policies read again since their application was last reported

hintVars == <<listVars, hints, gameLoom, hintController, resetting, hintsFresh, reloaded>>

HintInit ==
  /\ ListInit
  /\ hints = [k \in DOMAIN ThreadHintCfg |-> [pid |-> 0, enabled |-> FALSE]]
  /\ gameLoom = {} /\ hintController = TRUE /\ resetting = 0
  /\ hintsFresh = TRUE /\ reloaded = {}
-----------------------------------------------------------------------------
HintFor(k, pack) ==
  ThreadHintCfg[k].package = pack \/ <<pack, ThreadHintCfg[k].package>> \in NamePrefix

findThreadHintPolicyIdx(r, multi) ==
  {k \in DOMAIN ThreadHintCfg :
     /\ HintFor(k, r.app.pack)
     /\ ThreadHintCfg[k].fps \in {AnyFps, r.fps}
     /\ WindowFits(ThreadHintCfg[k].window, multi)}

Candidates(list, multi) ==
  UNION {{n} \X findThreadHintPolicyIdx(list[n], multi) : n \in DOMAIN list}

\* Only 60, 90 and 120 count as a frame rate that was specified.
Specificity(k) ==
  10 * (IF ThreadHintCfg[k].fps = AnyFps THEN 1 ELSE IF ThreadHintCfg[k].fps \in {60, 90, 120} THEN 2 ELSE 0)
   + (IF ThreadHintCfg[k].window = "Common" THEN 1 ELSE 2)

Place(c) == c[1] * (Len(ThreadHintCfg) + 1) + c[2]
GroupOf(k) == <<ThreadHintCfg[k].package, ThreadHintCfg[k].thread>>

\* What a group of policies writes: the first of the most specific candidates that set
\* the parameter decides it.
DecideGroup(cands, g) ==
  LET mine == {c \in cands : GroupOf(c[2]) = g /\ ThreadHintCfg[c[2]].value # NotSet}
      best == {c \in mine : \A d \in mine : Specificity(d[2]) <= Specificity(c[2])}
  IN  IF mine = {} THEN NotSet
      ELSE ThreadHintCfg[(CHOOSE c \in best : \A d \in best : Place(c) <= Place(d))[2]].value

Key(k, h) == <<h[k].pid, ThreadHintCfg[k].thread>>

\* Groups are written in the order of their first candidates: the last one stays.
decideFinalThreadHintPolicy(cands, h) ==
  LET FirstOf(g) == Min({Place(c) : c \in {d \in cands : GroupOf(d[2]) = g}})
      For(key) == {GroupOf(c[2]) : c \in {d \in cands : Key(d[2], h) = key}}
      keys == {Key(c[2], h) : c \in cands}
  IN  {[key |-> key,
        value |-> DecideGroup(cands, CHOOSE g \in For(key) : \A f \in For(key) : FirstOf(f) <= FirstOf(g))]
         : key \in keys}

\* writeToFile writes nothing while the controller is off, and process 0 is nobody.  The
\* value written for a parameter that is not set is the kernel's default.
disableThreadHintPolicy(loom, K, h) ==
  IF hintController THEN {w \in loom : w.key \notin {Key(k, h) : k \in K}} ELSE loom
Write(loom, ws) ==
  IF hintController
  THEN {w \in loom : \A v \in ws : v.key # w.key} \cup {w \in ws : w.key[1] # 0 /\ w.value # NotSet}
  ELSE loom
-----------------------------------------------------------------------------
\* Mutant: the policies that end are reset after the others were written.
Applied_ResetLast(loom, ended, cands, h) ==
  disableThreadHintPolicy(Write(loom, decideFinalThreadHintPolicy(cands, h)), ended, h)

Applied(loom, ended, cands, h) ==
  Write(disableThreadHintPolicy(loom, ended, h), decideFinalThreadHintPolicy(cands, h))

\* Every policy of an application that is reported gets its process.
GivenTo(a, state) ==
  [k \in DOMAIN hints |->
     IF state \in Listing /\ HintFor(k, a.pack) THEN [hints[k] EXCEPT !.pid = a.pid] ELSE hints[k]]

\* The policies' part of notifyAPPstate.
NotifyHints(a, state) ==
  \E cands \in {Candidates(multi_resumed', isMultiWindow')}, given \in {GivenTo(a, state)} :
    LET InForce(k) == \E c \in cands : c[2] = k
        dead == {k \in DOMAIN given : state = "DEAD" /\ given[k].pid = a.pid}
        ended == {k \in DOMAIN given : given[k].enabled /\ ~InForce(k)}
    IN  /\ hints' = [k \in DOMAIN given |-> [given[k] EXCEPT !.enabled = InForce(k)]]
        /\ gameLoom' = Applied(gameLoom, dead \cup ended, cands, given)
        /\ hintsFresh' = TRUE
        /\ reloaded' = {k \in reloaded : ~(state \in Listing /\ HintFor(k, a.pack))}
        /\ UNCHANGED <<hintController, resetting>>

\* xmlparse, of reloadAppListXml: every policy is reset and read again, without its pid.
ReloadHints ==
  /\ hints' = [k \in DOMAIN hints |-> [hints[k] EXCEPT !.pid = 0]]
  /\ gameLoom' = disableThreadHintPolicy(gameLoom, DOMAIN hints, hints)
  /\ reloaded' = DOMAIN hints
  /\ UNCHANGED <<listVars, hintController, resetting, hintsFresh>>

\* Switching off is a loop over the policies, in steps below, and then the flag.
setThreadHintControllerEnabled(enabled) ==
  /\ resetting = 0
  /\ hintController' = (hintController \/ enabled)
  /\ resetting' = IF enabled THEN 0 ELSE 1
  /\ hintsFresh' = (hintsFresh /\ (~enabled \/ hintController))
  /\ UNCHANGED <<listVars, hints, gameLoom, reloaded>>

ControllerOff ==
  /\ resetting # 0
  /\ IF resetting <= Len(ThreadHintCfg)
     THEN /\ gameLoom' = disableThreadHintPolicy(gameLoom, {resetting}, hints)
          /\ resetting' = resetting + 1
          /\ UNCHANGED hintController
     ELSE /\ hintController' = FALSE /\ resetting' = 0
          /\ UNCHANGED gameLoom
  /\ UNCHANGED <<listVars, hints, hintsFresh, reloaded>>

HintNext ==
  \/ \E a \in Activity, state \in {"RESUMED", "MULTI_WINDOW", "PAUSED", "DEAD"} :
       Reports(a, state) /\ NotifyHints(a, state)
  \/ FpsRead /\ UNCHANGED <<hints, gameLoom, hintController, resetting, hintsFresh, reloaded>>
  \/ FpsReport /\ NotifyHints(fpsSeen, "FPS_UPDATED")
  \/ ReloadHints
  \/ \E enabled \in BOOLEAN : setThreadHintControllerEnabled(enabled)
  \/ ControllerOff

HintSpec == HintInit /\ [][HintNext]_hintVars
-----------------------------------------------------------------------------
HintTypeOK ==
  /\ ListTypeOK
  /\ DOMAIN hints = DOMAIN ThreadHintCfg
  /\ \A k \in DOMAIN hints : hints[k] \in [pid : Nat, enabled : BOOLEAN]
  /\ hintController \in BOOLEAN /\ hintsFresh \in BOOLEAN
  /\ resetting \in 0 .. Len(ThreadHintCfg) + 1 /\ reloaded \subseteq DOMAIN hints

MoreSpecific(k, j) ==
  LET p == ThreadHintCfg[k]  q == ThreadHintCfg[j]
  IN  \/ p.fps \in {60, 90, 120} /\ q.fps = AnyFps
      \/ p.fps = q.fps /\ p.window # "Common" /\ q.window = "Common"

\* What the kernel has for the process and thread of a policy, and what the policy tells it.
Told(k) == {w.value : w \in {v \in gameLoom : v.key = Key(k, hints)}}
Tells(j) == {ThreadHintCfg[j].value} \ {NotSet}

\* While the controller is on, the thread of every policy in force has what such a policy
\* tells it, whatever the end of others, or the death of a process, reset on the way.  Among
\* the policies for the same package and thread it is one that sets the parameter, if one
\* in force does, and none of them is more specific: a policy for the frame rate at hand
\* (60, 90 or 120) beats the common one, and then one for the window mode.  Policies that
\* were read again count from the next report of their application: until then the
\* service has forgotten the process, and the hint is lost.
HintsFollow ==
  hintController /\ resetting = 0 /\ hintsFresh =>
    \A k \in {i \in DOMAIN hints \ reloaded : hints[i].enabled} :
      \E j \in {i \in DOMAIN hints : hints[i].enabled /\ Key(i, hints) = Key(k, hints)} :
        /\ Told(k) = Tells(j)
        /\ GroupOf(j) = GroupOf(k) /\ Tells(k) # {} => Tells(j) # {} /\ ~MoreSpecific(k, j)
=============================================================================
