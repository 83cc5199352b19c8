---------------------------- MODULE SmartLaunch ----------------------------
(***************************************************************************)
(* Smart launch (utility_sbe_handle.cpp): learns, for every package, the   *)
(* operating point of the big cluster that just meets the target launch    *)
(* time, keeps it in a file (perfservice_xmlparse.cpp) and puts it in the  *)
(* resource list of MTKPOWER_HINT_PROCESS_CREATE (perfservice_scn.cpp)     *)
(* while the package starts.                                               *)
(*                                                                         *)
(* A frequency is represented by its operating point: a larger number is a *)
(* lower frequency, and different points have different frequencies.  How  *)
(* far a launch missed its target, the pressure of the system and the      *)
(* kernel's answer are choices.  HintRscList_remove leaves a gap in the    *)
(* list that is never used again, and HintRscList_append does not look at  *)
(* the list's capacity; the model keeps the entries and leaves out the     *)
(* gaps.                                                                   *)
(***************************************************************************)
EXTENDS Integers, Sequences, SequencesExt

CONSTANTS
  LaunchPackage,   \* packages
  DefaultOpp,      \* the point in the hint's own list, if there is one
  MinLevelOpp,     \* gBigClusterOPPMinLevel
  SPAN_MAX,        \* SMART_LAUNCH_CAPABILITY_SPAN_MAX
  DL_MAX,          \* packages below DL_PWR_SIZE_LIMIT
  MaxOpen          \* bound on the launches under way

ASSUME SmartLaunchAssumption ==
  /\ {DefaultOpp, MinLevelOpp} \subseteq Nat /\ DefaultOpp < MinLevelOpp
  /\ {SPAN_MAX, DL_MAX, MaxOpen} \subseteq Nat \ {0}
  /\ "corrupt" \notin LaunchPackage     \* stands for a file that cannot be parsed

VARIABLES
  policy,                    \* the configuration: is the frequency in the hint's list, is there a target
  gSmartLaunchPackageInfo,   \* the point learned for a package, NotLearned if none
  dlFile,                    \* the file: a sequence of packages with their points, or Corrupt
  freqRsc,                   \* the entries for the frequency in the hint's list
  gIsOverPressureThreshold,
  open,                      \* history: launches started and not yet reset
  unsaved                    \* history: packages whose last change did not reach the file

launchVars == <<policy, gSmartLaunchPackageInfo, dlFile, freqRsc, gIsOverPressureThreshold, open, unsaved>>

NotLearned == -1
Corrupt == <<[name |-> "corrupt", value |-> NotLearned]>>
gBigClusterDefaultOPP == IF policy.supported THEN DefaultOpp ELSE 0
DefaultRsc == IF policy.supported THEN <<DefaultOpp>> ELSE <<>>
Known(p) == gSmartLaunchPackageInfo[p] # NotLearned

Entries(p) == {i \in DOMAIN dlFile : dlFile[i].name = p}
FirstOf(S) == CHOOSE i \in S : \A j \in S : i <= j
LastOf(S) == CHOOSE i \in S : \A j \in S : i >= j

\* Of several entries the last one counts.  A file that cannot be parsed gives nothing.
parsePackInfo(file) ==
  [p \in LaunchPackage |->
    LET mine == {i \in DOMAIN file : file[i].name = p}
    IN  IF mine = {} THEN NotLearned ELSE file[LastOf(mine)].value]

insertNewElement2DlTable(p, opp) ==
  IF dlFile = Corrupt \/ Len(dlFile) >= DL_MAX THEN dlFile
  ELSE Append(dlFile, [name |-> p, value |-> opp])

deleteElement2DlTable(p) ==
  IF Entries(p) = {} THEN dlFile ELSE RemoveAt(dlFile, FirstOf(Entries(p)))

\* Mutant: the new value is written as a new entry.
modifyElement2DlTable_Appends(p, opp) ==
  IF dlFile = Corrupt THEN dlFile ELSE Append(dlFile, [name |-> p, value |-> opp])

modifyElement2DlTable(p, opp) ==
  IF Entries(p) = {} THEN dlFile ELSE [dlFile EXCEPT ![FirstOf(Entries(p))].value = opp]

LaunchInit ==
  /\ policy \in [supported : BOOLEAN, target : BOOLEAN]
  /\ gSmartLaunchPackageInfo = [p \in LaunchPackage |-> NotLearned]
  /\ dlFile = <<>>
  /\ freqRsc = DefaultRsc
  /\ gIsOverPressureThreshold = FALSE
  /\ open = 0 /\ unsaved = {}

HintRscList_modify(opp) == IF freqRsc = <<>> THEN freqRsc ELSE [freqRsc EXCEPT ![1] = opp]
HintRscList_remove == IF freqRsc = <<>> THEN freqRsc ELSE Tail(freqRsc)
HintRscList_append(opp) == Append(freqRsc, opp)

\* The pressure of the system is looked at for a package that is known, and for no other.
pickCurrentFreq(p, over) ==
  IF policy.target /\ Known(p) /\ ~over THEN gSmartLaunchPackageInfo[p] ELSE gBigClusterDefaultOPP

handleCurrentLaunchPolicy(p) ==
  /\ open < MaxOpen
  /\ \E over \in BOOLEAN :
       LET opp == pickCurrentFreq(p, over)
       IN  /\ gIsOverPressureThreshold' =
                IF policy.target /\ Known(p) THEN over ELSE gIsOverPressureThreshold
           /\ freqRsc' = IF policy.supported THEN HintRscList_modify(opp)
                         ELSE IF opp # gBigClusterDefaultOPP THEN HintRscList_append(opp)
                         ELSE HintRscList_remove
  /\ open' = open + 1
  /\ UNCHANGED <<policy, gSmartLaunchPackageInfo, dlFile, unsaved>>

\* Mutant: an entry that was added is not taken out again.
resetLaunchPolicyToDefault_Modifies ==
  /\ freqRsc' = HintRscList_modify(gBigClusterDefaultOPP)
  /\ open' = IF open = 0 THEN 0 ELSE open - 1

resetLaunchPolicyToDefault ==
  /\ freqRsc' = IF policy.supported THEN HintRscList_modify(gBigClusterDefaultOPP)
                ELSE HintRscList_remove
  /\ open' = IF open = 0 THEN 0 ELSE open - 1

LaunchEnd ==
  /\ resetLaunchPolicyToDefault
  /\ UNCHANGED <<policy, gSmartLaunchPackageInfo, dlFile, gIsOverPressureThreshold, unsaved>>

\* Memory and file after a change; a change that fails on the file is made in memory all
\* the same.
Store(p, opp, file) ==
  /\ gSmartLaunchPackageInfo' = [gSmartLaunchPackageInfo EXCEPT ![p] = opp]
  /\ dlFile' = file

modifyNextFreqAndSaveToDisk(p, opp) ==
  /\ Store(p, opp, modifyElement2DlTable(p, opp))
  /\ UNCHANGED unsaved

insertNewFreqAndInsertToDisk(p, opp) ==
  /\ Store(p, opp, insertNewElement2DlTable(p, opp))
  /\ unsaved' = IF insertNewElement2DlTable(p, opp) = dlFile THEN unsaved \cup {p} ELSE unsaved

deletePackageAndUpdateToDisk(p) ==
  /\ Store(p, NotLearned, deleteElement2DlTable(p))
  /\ unsaved' = unsaved \ {p}

\* Mutant: the lower bound of the frequency is not kept.
clampFreqOpp_NoLowest(opp) == IF opp <= gBigClusterDefaultOPP THEN gBigClusterDefaultOPP ELSE opp

clampFreqOpp(opp) ==
  LET o == IF opp <= gBigClusterDefaultOPP THEN gBigClusterDefaultOPP ELSE opp
  IN  IF o >= MinLevelOpp THEN MinLevelOpp ELSE o

\* The kernel's answer, -1 when it gave none.
coreAlgorith(answer, pre_opp) == IF answer >= 0 THEN clampFreqOpp(answer) ELSE pre_opp

\* The frequency is lowered by a few steps at a time, and raised at once.
Capped(next, pre) == IF next - pre >= SPAN_MAX THEN pre + SPAN_MAX ELSE next

calcNextLaunchPower(p, needAdjust, answer) ==
  LET pre == IF Known(p) THEN gSmartLaunchPackageInfo[p] ELSE gBigClusterDefaultOPP
      next == coreAlgorith(answer, pre)
      adjusts == policy.target /\ ~gIsOverPressureThreshold /\ needAdjust
  IN  \/ /\ adjusts /\ Known(p) /\ next <= gBigClusterDefaultOPP
         /\ deletePackageAndUpdateToDisk(p)
      \/ /\ adjusts /\ Known(p) /\ next > gBigClusterDefaultOPP /\ Capped(next, pre) # pre
         /\ modifyNextFreqAndSaveToDisk(p, Capped(next, pre))
      \/ /\ adjusts /\ ~Known(p) /\ next > gBigClusterDefaultOPP
         /\ insertNewFreqAndInsertToDisk(p, Capped(next, pre))
      \/ /\ \/ ~adjusts
            \/ Known(p) /\ next > gBigClusterDefaultOPP /\ Capped(next, pre) = pre
            \/ ~Known(p) /\ next <= gBigClusterDefaultOPP
         /\ UNCHANGED <<gSmartLaunchPackageInfo, dlFile, unsaved>>

\* The result of a cold launch.
LaunchInfo(p) ==
  /\ \E needAdjust \in BOOLEAN, answer \in -1 .. MinLevelOpp + 1 :
       calcNextLaunchPower(p, needAdjust, answer)
  /\ resetLaunchPolicyToDefault
  /\ UNCHANGED <<policy, gIsOverPressureThreshold>>

handlePackageUninstall(p) ==
  /\ Known(p)
  /\ deletePackageAndUpdateToDisk(p)
  /\ UNCHANGED <<policy, freqRsc, gIsOverPressureThreshold, open>>

\* The service starts again: loadPowerDlTable reads the file, and the hint's list is its own.
\* The file is cut to nothing before it is written, so a crash in a write loses it; it
\* exists, so it is not created anew, and every later insert fails on it.
Restart ==
  /\ dlFile' \in {dlFile, Corrupt}
  /\ gSmartLaunchPackageInfo' = parsePackInfo(dlFile')
  /\ freqRsc' = DefaultRsc
  /\ gIsOverPressureThreshold' = FALSE
  /\ open' = 0 /\ unsaved' = {}
  /\ UNCHANGED policy

LaunchNext ==
  \/ \E p \in LaunchPackage :
       handleCurrentLaunchPolicy(p) \/ LaunchInfo(p) \/ handlePackageUninstall(p)
  \/ LaunchEnd
  \/ Restart

LaunchSpec == LaunchInit /\ [][LaunchNext]_launchVars
-----------------------------------------------------------------------------
LaunchTypeOK ==
  /\ gSmartLaunchPackageInfo \in [LaunchPackage -> {NotLearned} \cup 1 .. MinLevelOpp]
  /\ Range(freqRsc) \subseteq 0 .. MinLevelOpp
  /\ open \in 0 .. MaxOpen /\ unsaved \subseteq LaunchPackage

\* What was learned survives a restart: after any sequence of inserts, changes, deletes and
\* restarts the file gives back what the memory holds, for every package whose insert
\* did not fail, and a package that was dropped stays dropped.
LearnedSurvivesRestart ==
  dlFile # Corrupt =>
    \A p \in LaunchPackage \ unsaved : parsePackInfo(dlFile)[p] = gSmartLaunchPackageInfo[p]

\* A package's frequency does not outlive its launch: however launches overlap, when every
\* one that was started has been ended the hint has its own frequency again, and where
\* it has none, there are never more entries than launches under way.
LaunchPolicyReset ==
  IF policy.supported THEN open = 0 => freqRsc = DefaultRsc ELSE Len(freqRsc) <= open
=============================================================================
