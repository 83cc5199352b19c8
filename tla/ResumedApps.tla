---------------------------- MODULE ResumedApps ----------------------------
(***************************************************************************)
(* The activities on screen, as the app list service (power_applist) keeps *)
(* them: multi_resumed_app_info, and who changes it.                       *)
(*                                                                         *)
(* notifyAPPstate runs under fg_mutex and is one step.  Its first part, the*)
(* list, is here; what follows from the list is in AppList (the rows of    *)
(* the app table) and ThreadHint (the thread policies), which share nothing*)
(* else.  The thread that watches the frame rate releases the mutex        *)
(* between what it reads and the notification it sends.                    *)
(***************************************************************************)
EXTENDS Integers, Sequences, FiniteSets, FiniteSetsExt

CONSTANTS
  Activity,            \* activities: [pack, act, pid, id]
  NamePrefix,          \* pairs of package names, the first a proper prefix of the second
  FPS,                 \* what _getFPSvalue can return: a frame rate, or -1
  MULTI_WIN_SIZE_MAX   \* size of multi_resumed_app_info

ASSUME ResumedAssumption ==
  /\ IsFiniteSet(Activity) /\ \A a \in Activity : a.pid \in Nat \ {0}
  /\ FPS \subseteq (Nat \cup {-1}) \ {0} /\ MULTI_WIN_SIZE_MAX \in Nat \ {0}

VARIABLES
  multi_resumed,      \* the activities on screen, and their frame rate
  isMultiWindow,
  currentFPS,
  fpsSeen,            \* _checkFPSupdate: the activity it is about to report
  shown,              \* history: activities the activity manager shows
  astray              \* history: the list and what is shown went apart

listVars == <<multi_resumed, isMultiWindow, currentFPS, fpsSeen, shown, astray>>

AnyFps == 0     \* the frame rate "Common"
Nobody == [pack |-> "", act |-> "", pid |-> 0, id |-> 0]

ListInit ==
  /\ multi_resumed = <<>> /\ isMultiWindow = FALSE /\ currentFPS = -1
  /\ fpsSeen = Nobody
  /\ shown = {} /\ astray = FALSE

Same(a, b) == a.pack = b.pack /\ a.act = b.act /\ a.id = b.id

\* RESUMED, FPS_UPDATED and MULTI_WINDOW: an activity already listed keeps its pid.
Resume(list, a) ==
  IF \E n \in DOMAIN list : Same(list[n].app, a)
  THEN [n \in DOMAIN list |-> IF Same(list[n].app, a) THEN [list[n] EXCEPT !.fps = currentFPS] ELSE list[n]]
  ELSE IF Len(list) < MULTI_WIN_SIZE_MAX THEN Append(list, [app |-> a, fps |-> currentFPS])
  ELSE list

Pause(list, a) ==
  LET at == {n \in DOMAIN list : list[n].app = a}
  IN  IF at = {} THEN list
      ELSE SubSeq(list, 1, Min(at) - 1) \o SubSeq(list, Min(at) + 1, Len(list))

\* Mutant: the index is not stepped back after an entry is taken out.
Die_SkipsNext(list, pid) ==
  LET Stays(n) == list[n].app.pid # pid \/ (n > 1 /\ list[n - 1].app.pid = pid)
      left == {n \in DOMAIN list : Stays(n)}
      nth[k \in 0 .. Cardinality(left)] == IF k = 0 THEN 0 ELSE Min({n \in left : n > nth[k - 1]})
  IN  [k \in 1 .. Cardinality(left) |-> list[nth[k]]]

\* DEAD: the entries of the process are taken out, and those behind them move up.
Die(list, pid) ==
  LET left == {n \in DOMAIN list : list[n].app.pid # pid}
      Rank(n) == Cardinality({m \in left : m <= n})
  IN  [k \in 1 .. Cardinality(left) |-> list[CHOOSE n \in left : Rank(n) = k]]

\* getForegroundAPPCount takes a package for an earlier one that is a prefix of it.
SamePackage(later, earlier) == later = earlier \/ <<earlier, later>> \in NamePrefix
getForegroundAPPCount(list) ==
  1 + Cardinality({i \in 2 .. Len(list) :
                     \A j \in 1 .. i - 1 : ~SamePackage(list[i].app.pack, list[j].app.pack)})

WindowFits(window, multi) == window = "Common" \/ window = IF multi THEN "Multi" ELSE "Single"
-----------------------------------------------------------------------------
Listing == {"RESUMED", "FPS_UPDATED", "MULTI_WINDOW"}

\* The list part of notifyAPPstate.
NotifyList(a, state) ==
  /\ multi_resumed' = CASE state \in Listing -> Resume(multi_resumed, a)
                        [] state = "PAUSED" -> Pause(multi_resumed, a)
                        [] state = "DEAD" -> Die(multi_resumed, a.pid)
                        [] OTHER -> multi_resumed
  /\ isMultiWindow' = (getForegroundAPPCount(multi_resumed') > 1)

Listed(list) == {list[n].app : n \in DOMAIN list}
Shows(S, cause) ==
  /\ shown' = S
  /\ astray' = ((astray \/ cause) /\ Listed(multi_resumed') # S)

\* The list keeps the old pid of an activity that comes back in a new process before the
\* death of the old one is reported, and leaves out one for which it has no room.
LeavesOut(list, a) ==
  \/ \E n \in DOMAIN list : Same(list[n].app, a) /\ list[n].app # a
  \/ Len(list) >= MULTI_WIN_SIZE_MAX /\ \A n \in DOMAIN list : ~Same(list[n].app, a)

\* The activity manager.
Reports(a, state) ==
  /\ state \in {"PAUSED", "MULTI_WINDOW"} => a \in shown
  /\ NotifyList(a, state)
  /\ CASE state \in Listing ->
            Shows({b \in shown : ~Same(a, b)} \cup {a}, LeavesOut(multi_resumed, a))
       [] state = "PAUSED" -> Shows(shown \ {a}, FALSE)
       [] state = "DEAD" -> Shows({b \in shown : b.pid # a.pid}, FALSE)
  /\ UNCHANGED <<currentFPS, fpsSeen>>

\* _checkFPSupdate: read under the mutex, then report.  The activity may be gone by then.
FpsRead ==
  /\ fpsSeen = Nobody
  /\ \E n \in DOMAIN multi_resumed, fps \in FPS :
       /\ multi_resumed[n].fps # fps
       /\ \A m \in 1 .. n - 1 : multi_resumed[m].app.pid = multi_resumed[n].app.pid => multi_resumed[m].fps = fps
       /\ currentFPS' = fps /\ fpsSeen' = multi_resumed[n].app
  /\ UNCHANGED <<multi_resumed, isMultiWindow, shown, astray>>

FpsReport ==
  /\ fpsSeen # Nobody
  /\ NotifyList(fpsSeen, "FPS_UPDATED")
  /\ Shows(shown, fpsSeen \notin shown)
  /\ fpsSeen' = Nobody
  /\ UNCHANGED currentFPS
-----------------------------------------------------------------------------
ListTypeOK ==
  /\ Listed(multi_resumed) \subseteq Activity /\ Len(multi_resumed) <= MULTI_WIN_SIZE_MAX
  /\ isMultiWindow \in BOOLEAN /\ currentFPS \in FPS \cup {-1}
  /\ fpsSeen \in Activity \cup {Nobody}
  /\ shown \subseteq Activity /\ astray \in BOOLEAN

\* The list is what is on screen, unless a frame-rate report brought back an activity that
\* had left, or an activity came back in a new process, or the list was full.  The screen
\* counts as shared only between different packages.
ResumedFollows ==
  /\ ~astray => Listed(multi_resumed) = shown /\ Cardinality(shown) = Len(multi_resumed)
  /\ isMultiWindow => \E a, b \in Listed(multi_resumed) : a.pack # b.pack
============================================================================
