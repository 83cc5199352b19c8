------------------------------ MODULE AppList ------------------------------
(***************************************************************************)
(* The app list service (power_applist): which rows of the app table are   *)
(* in force for the activities on screen, and the locks they hold at the   *)
(* power HAL.                                                              *)
(*                                                                         *)
(* A row is a package, an activity ("Common": any other), a mode, a frame  *)
(* rate and a window mode; "*" is a pattern that matches every name.  A    *)
(* lock is counted; asking for one can fail.                               *)
(***************************************************************************)
EXTENDS ResumedApps

CONSTANTS
  AppMode,     \* modes of setCurrentMode
  AppTables    \* row tables reloadAppListXml can find, <<>> for a file it cannot parse

ASSUME AppListAssumption ==
  /\ "LOOM" \in AppMode
  /\ \A table \in AppTables : Len(table) \in Nat /\ DOMAIN table = 1 .. Len(table)

VARIABLES
  currentMode,
  modeSet,     \* setCurrentMode is about to report
  APPList,     \* the rows' contents
  rows,        \* per row: pid, AppScenarioStatusInfo, whether handle_idx is set
  locks,       \* locks held at the power HAL
  fgBoosts,      \* which of hdl_launch and hdl_act_switch are set
  current,     \* currPackname and currActname
  bare         \* history: rows in force whose lock was refused or released

rowVars == <<currentMode, modeSet, APPList, rows, locks, fgBoosts, current, bare>>
appVars == <<listVars, rowVars>>

FreshRow == [pid |-> 0, status |-> FALSE, handle |-> FALSE]

RowInit ==
  /\ currentMode = "LOOM" /\ modeSet = FALSE
  /\ APPList \in AppTables
  /\ rows = [i \in DOMAIN APPList |-> FreshRow]
  /\ locks = 0 /\ fgBoosts = {} /\ current = [pack |-> "", act |-> ""] /\ bare = {}
AppListInit == ListInit /\ RowInit
-----------------------------------------------------------------------------
(***************************************************************************)
(* The rows for the resumed activities: of each kind of row that fits an   *)
(* activity, the last in the table.                                        *)
(***************************************************************************)
isSamePattern(pattern, name) == pattern = "*" \/ pattern = name

RowFits(row, r, multi, mode) ==
  /\ isSamePattern(row.pack, r.app.pack)
  /\ isSamePattern(row.act, r.app.act) \/ row.act = "Common"
  /\ row.mode \in {"", mode}
  /\ row.fps \in {AnyFps, r.fps}
  /\ WindowFits(row.window, multi)
KindOf(row) == <<row.act = "Common", row.fps = AnyFps, row.window = "Common">>

findAppScenarioIndex(r, table, multi, mode) ==
  {i \in DOMAIN table :
     /\ RowFits(table[i], r, multi, mode)
     /\ ~\E j \in i + 1 .. Len(table) :
          RowFits(table[j], r, multi, mode) /\ KindOf(table[j]) = KindOf(table[i])}

RowsFor(list, table, multi, mode) ==
  UNION {findAppScenarioIndex(list[n], table, multi, mode) : n \in DOMAIN list}

AppScenarioEnable(row, granted) == [row EXCEPT !.status = TRUE, !.handle = granted]

\* Mutant: a released handle is remembered.
AppScenarioDisable_KeepsHandle(row) == [row EXCEPT !.pid = 0]

AppScenarioDisable(row) == [row EXCEPT !.pid = 0, !.handle = FALSE]

Held(rs) == {i \in DOMAIN rs : rs[i].handle}
-----------------------------------------------------------------------------
\* The boost of a launch or of a switch between activities: what was started last ends.
\* create: the power HAL says that a process is being created.
Boost(a, started, granted, create) ==
  LET launch == a.pack # current.pack
      switch == ~launch /\ a.act # current.act
      kind == IF ~launch THEN "act" ELSE IF create THEN "cold" ELSE "warm"
      slot == IF launch THEN "launch" ELSE "act"
      new == IF granted /\ (\E i \in started : APPList[i].boost = kind) THEN {slot} ELSE {}
  IN  IF launch \/ switch
      THEN /\ fgBoosts' = (fgBoosts \ {slot}) \cup new
           /\ current' = IF launch THEN [current EXCEPT !.pack = a.pack] ELSE [current EXCEPT !.act = a.act]
      ELSE UNCHANGED <<fgBoosts, current>>

\* The rows' part of notifyAPPstate.  granted: whether the power HAL grants the locks
\* asked for, or refuses them all.
NotifyRows(a, state, granted) ==
  \E want \in {RowsFor(multi_resumed', APPList, isMultiWindow', currentMode)} :
    LET given == [i \in DOMAIN rows |->
                    IF state \in Listing /\ APPList[i].pack = a.pack THEN [rows[i] EXCEPT !.pid = a.pid] ELSE rows[i]]
        freed == {i \in DOMAIN rows : state = "DEAD" /\ given[i].pid = a.pid}
        off == {i \in DOMAIN rows \ want : rows[i].status}
        on == {i \in want : ~rows[i].status}
        after == [i \in DOMAIN rows |-> IF i \in freed \cup off THEN AppScenarioDisable(given[i]) ELSE given[i]]
    IN  /\ granted \/ on # {}
        /\ rows' = [i \in DOMAIN rows |->
                      IF i \in on THEN AppScenarioEnable(after[i], granted)
                      ELSE [after[i] EXCEPT !.status = i \in want]]
        /\ IF state = "RESUMED" THEN \E create \in BOOLEAN : Boost(a, on, granted, create)
           ELSE UNCHANGED <<fgBoosts, current>>
        /\ locks' = locks - Cardinality({i \in freed \cup off : given[i].handle})
                          + (IF granted THEN Cardinality(on) ELSE 0)
                          + Cardinality(fgBoosts' \ fgBoosts) - Cardinality(fgBoosts \ fgBoosts')
        /\ bare' = {i \in want : IF i \in on THEN ~granted ELSE i \in freed \cup bare}
        /\ UNCHANGED <<currentMode, APPList>>

\* setCurrentMode: with an empty list there is nothing to report.
setCurrentMode(mode) ==
  /\ ~modeSet
  /\ currentMode' = mode /\ modeSet' = (multi_resumed # <<>>)
  /\ UNCHANGED <<listVars, APPList, rows, locks, fgBoosts, current, bare>>

ModeReport(granted) ==
  /\ modeSet /\ modeSet' = FALSE
  /\ NotifyList(Nobody, "MODE_UPDATED")
  /\ NotifyRows(Nobody, "MODE_UPDATED", granted)
  /\ UNCHANGED <<currentFPS, fpsSeen, shown, astray>>

reloadReleases == {i \in DOMAIN rows : rows[i].status}

\* reloadAppListXml.  A row whose package is a pattern is marked without a lock.
reloadAppListXml(table, granted) ==
  LET want == RowsFor(multi_resumed, table, isMultiWindow, currentMode)
      locked == {i \in want : granted /\ \E n \in DOMAIN multi_resumed : multi_resumed[n].app.pack = table[i].pack}
  IN  /\ APPList' = table
      /\ rows' = [i \in DOMAIN table |->
                    [FreshRow EXCEPT !.status = i \in want, !.handle = i \in locked]]
      /\ locks' = locks - Cardinality(reloadReleases \cap Held(rows)) + Cardinality(locked)
      /\ bare' = want \ locked
      /\ UNCHANGED <<listVars, currentMode, modeSet, fgBoosts, current>>

AppListNext ==
  \/ \E a \in Activity, state \in {"RESUMED", "MULTI_WINDOW", "PAUSED", "DEAD"}, g \in BOOLEAN :
       Reports(a, state) /\ NotifyRows(a, state, g) /\ UNCHANGED modeSet
  \/ FpsRead /\ UNCHANGED rowVars
  \/ \E g \in BOOLEAN : FpsReport /\ NotifyRows(fpsSeen, "FPS_UPDATED", g) /\ UNCHANGED modeSet
  \/ \E mode \in AppMode : setCurrentMode(mode)
  \/ \E g \in BOOLEAN : ModeReport(g)
  \/ \E table \in AppTables, g \in BOOLEAN : reloadAppListXml(table, g)

AppListSpec == AppListInit /\ [][AppListNext]_appVars
-----------------------------------------------------------------------------
AppListTypeOK ==
  /\ ListTypeOK
  /\ currentMode \in AppMode /\ modeSet \in BOOLEAN
  /\ APPList \in AppTables /\ DOMAIN rows = DOMAIN APPList
  /\ \A i \in DOMAIN rows : rows[i] \in [pid : Nat, status : BOOLEAN, handle : BOOLEAN]
  /\ locks \in Nat /\ fgBoosts \subseteq {"launch", "act"}
  /\ bare \subseteq DOMAIN rows

\* No lock is lost: every lock the power HAL holds is one whose handle is remembered, by a
\* row in force or as the last boost.  Unless a new mode is still to be reported, a row is
\* in force exactly for the activities listed: each row in force fits one, and where a row
\* fits, one of its kind is in force.  A row in force without its lock is one whose lock was
\* refused, was released by the death of one of several processes, or that was reloaded as
\* a pattern.
RowsFollow ==
  /\ locks = Cardinality(Held(rows)) + Cardinality(fgBoosts)
  /\ \A i \in DOMAIN rows : rows[i].handle <=> (rows[i].status /\ i \notin bare)
  /\ ~modeSet =>
       \A i \in DOMAIN rows :
         LET Fit(n) == RowFits(APPList[i], multi_resumed[n], isMultiWindow, currentMode)
         IN  /\ rows[i].status => \E n \in DOMAIN multi_resumed : Fit(n)
             /\ \A n \in DOMAIN multi_resumed :
                  Fit(n) => \E j \in i .. Len(APPList) :
                              rows[j].status /\ KindOf(APPList[j]) = KindOf(APPList[i])
============================================================================
