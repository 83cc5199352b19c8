---------------------------- MODULE MCServices ----------------------------
(***************************************************************************)
(* The services around the resource table, for model checking.  They share *)
(* no state but the resumed apps, which the app list and the thread hints  *)
(* both follow: a behaviour chooses one of them and is a behaviour of it,  *)
(* the others staying as they were initially.                              *)
(***************************************************************************)
EXTENDS TimerList, PowerTimer, BtGameMode, AppList, ThreadHint, SmartLaunch, HintHandles

VARIABLE family

rowOnly == <<currentMode, modeSet, APPList, rows, locks, fgBoosts, current, bare>>
hintOnly == <<hints, gameLoom, hintController, resetting, hintsFresh, reloaded>>
vars == <<family, timerVars, ptVars, btVars, listVars, rowOnly, hintOnly, launchVars, handleVars>>

Family == {"timer", "powertimer", "bt", "app", "hint", "launch", "handle"}

\* Components that begin in one of several ways do so only in their own behaviours.
Init ==
  /\ family \in Family
  /\ TimerInit /\ PowerTimerInit /\ BtInit /\ AppListInit /\ HintInit
  /\ LaunchInit /\ HandlesInit
  /\ family # "powertimer" => ~mdGameOffTimeout
  /\ family # "app" => APPList = <<>>
  /\ family # "launch" => policy = [supported |-> TRUE, target |-> TRUE]
  /\ family # "handle" => caller = "power"

Next ==
  /\ UNCHANGED family
  /\ \/ /\ family = "timer" /\ TimerNext
        /\ UNCHANGED <<ptVars, btVars, listVars, rowOnly, hintOnly, launchVars, handleVars>>
     \/ /\ family = "powertimer" /\ PowerTimerNext
        /\ UNCHANGED <<timerVars, btVars, listVars, rowOnly, hintOnly, launchVars, handleVars>>
     \/ /\ family = "bt" /\ BtNext
        /\ UNCHANGED <<timerVars, ptVars, listVars, rowOnly, hintOnly, launchVars, handleVars>>
     \/ /\ family = "app" /\ AppListNext
        /\ UNCHANGED <<timerVars, ptVars, btVars, hintOnly, launchVars, handleVars>>
     \/ /\ family = "hint" /\ HintNext
        /\ UNCHANGED <<timerVars, ptVars, btVars, rowOnly, launchVars, handleVars>>
     \/ /\ family = "launch" /\ LaunchNext
        /\ UNCHANGED <<timerVars, ptVars, btVars, listVars, rowOnly, hintOnly, handleVars>>
     \/ /\ family = "handle" /\ HandlesNext
        /\ UNCHANGED <<timerVars, ptVars, btVars, listVars, rowOnly, hintOnly, launchVars>>

Spec == Init /\ [][Next]_vars

\* The types of every component.
TypeOK ==
  /\ family = "timer" => TimerTypeOK
  /\ family = "powertimer" => PowerTimerTypeOK
  /\ family = "bt" => BtTypeOK
  /\ family = "app" => AppListTypeOK
  /\ family = "hint" => HintTypeOK
  /\ family = "launch" => LaunchTypeOK
  /\ family = "handle" => HandlesTypeOK
-----------------------------------------------------------------------------
(***************************************************************************)
(* Values for the app list: a package in two processes, one of which also  *)
(* runs a second package, whose name begins with that of the first.        *)
(***************************************************************************)
MCActivity == {[pack |-> "p", act |-> "A", pid |-> 1, id |-> 1],
               [pack |-> "p", act |-> "A", pid |-> 2, id |-> 1],
               [pack |-> "pq", act |-> "A", pid |-> 2, id |-> 3]}
MCNamePrefix == {<<"p", "pq">>}
MCAppTables ==
  {<<[pack |-> "p", act |-> "A", mode |-> "", fps |-> 60, window |-> "Single", boost |-> "cold"],
     [pack |-> "*", act |-> "A", mode |-> "LOOM", fps |-> 60, window |-> "Single", boost |-> "none"]>>,
   <<>>}
MCThreadHintCfg ==
  <<[package |-> "p", thread |-> "t", fps |-> 0, window |-> "Common", value |-> 1],
    [package |-> "p", thread |-> "t", fps |-> 0, window |-> "Single", value |-> 2],
    [package |-> "p", thread |-> "t", fps |-> 60, window |-> "Common", value |-> NotSet]>>
\* PROCESS_CREATE is held after its end and has a second hint.
MCExtHint == [h \in Hint |-> IF h = "PROCESS_CREATE" THEN "EXT_LAUNCH" ELSE NoHint]
===========================================================================
