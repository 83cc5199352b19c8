--------------------------- MODULE ServiceProofs ---------------------------
(***************************************************************************)
(* Proofs about the services around the resource table: the Bluetooth game *)
(* mode, smart launch, the power timers, the callers that keep the handles *)
(* of their locks (HintHandles), and the ordered list of timers.           *)
(***************************************************************************)
EXTENDS BtGameMode, SmartLaunch, PowerTimer, TimerList, HintHandles, SequenceTheorems,
        FiniteSetTheorems, LoopTheorems, TLAPS

(***************************************************************************)
(* Bluetooth game mode.                                                    *)
(***************************************************************************)
\* The last request is at the end of the queue; with the queue empty it was taken, unless a
\* death dropped it.
BtInv ==
  /\ BtTypeOK /\ dropped \in BOOLEAN
  /\ btThread \in {"open", "aidl", "hidl"} => mCurrentMode \in Mode
  /\ asked_bt # -1 => gameProp.game = asked_bt
  /\ mGameQu # <<>> => mGameQu[Len(mGameQu)] = asked_bt
  /\ mGameQu = <<>> /\ ~dropped => mCurrentMode = asked_bt
  /\ btThread = "wait" /\ ~undelivered /\ mCurrentMode # -1 => audioMode = mCurrentMode

\* A request collapses, clears or extends the queue.
LEMMA BtRequestKeeps ==
  ASSUME BtInv, NEW enable \in Mode, NEW is_ultra \in BOOLEAN,
         bt_audio_low_latency(enable, is_ultra)
  PROVE  BtInv'
<1>1. /\ gameProp' = [game |-> enable, ultra |-> IF is_ultra THEN enable ELSE 0]
      /\ asked_bt' = enable /\ dropped' = FALSE
      /\ UNCHANGED <<mCurrentMode, provider, btThread, audioMode, undelivered>>
      /\ mGameQu' = IF enable = mCurrentMode THEN <<>>
                    ELSE IF mGameQu # <<>> /\ mGameQu[Len(mGameQu)] = enable THEN mGameQu
                    ELSE Append(mGameQu, enable)
  BY DEF bt_audio_low_latency, set_performace_prop, EnterGameMode, Last
<1>2. gameProp' \in [game : Mode, ultra : Mode] /\ gameProp'.game = enable
  BY <1>1 DEF Mode
<1>3. /\ mGameQu' \in Seq(Mode)
      /\ mGameQu' # <<>> => mGameQu'[Len(mGameQu')] = enable
      /\ mGameQu' = <<>> => mCurrentMode = enable
  <2>1. mGameQu \in Seq(Mode)
    BY DEF BtInv, BtTypeOK
  <2>2. CASE enable = mCurrentMode
    BY <1>1, <2>2
  <2>3. CASE enable # mCurrentMode /\ mGameQu # <<>> /\ mGameQu[Len(mGameQu)] = enable
    BY <1>1, <2>1, <2>3
  <2>4. CASE enable # mCurrentMode /\ ~(mGameQu # <<>> /\ mGameQu[Len(mGameQu)] = enable)
    <3>1. mGameQu' = Append(mGameQu, enable)
      BY <1>1, <2>4
    <3> QED BY <2>1, <3>1
  <2> QED BY <2>2, <2>3, <2>4
<1> QED BY <1>1, <1>2, <1>3 DEF BtInv, BtTypeOK

\* The thread takes the head of the queue.
LEMMA BtTakeKeeps ==
  ASSUME BtInv, TakeMode
  PROVE  BtInv'
<1>1. /\ mGameQu \in Seq(Mode) /\ mGameQu # <<>> /\ mGameQu[Len(mGameQu)] = asked_bt
      /\ mCurrentMode' = Head(mGameQu) /\ mGameQu' = Tail(mGameQu) /\ btThread' = "open"
      /\ UNCHANGED <<provider, gameProp, audioMode, asked_bt, dropped, undelivered>>
  BY DEF BtInv, BtTypeOK, TakeMode
<1>2. mCurrentMode' \in Mode /\ mGameQu' \in Seq(Mode) /\ Len(mGameQu') = Len(mGameQu) - 1
  BY <1>1
<1>3. mGameQu' # <<>> => mGameQu'[Len(mGameQu')] = asked_bt
  BY <1>1, <1>2
<1>4. ASSUME mGameQu' = <<>> PROVE mCurrentMode' = asked_bt
  <2>1. Len(mGameQu') = 0
    BY <1>4
  <2>2. Len(mGameQu) = 1
    BY <1>1, <1>2, <2>1
  <2> QED BY <1>1, <2>2
<1> QED BY <1>1, <1>2, <1>3, <1>4 DEF BtInv, BtTypeOK

\* The invariant holds in every behaviour.
LEMMA BtInvariant == BtSpec => []BtInv
<1>1. BtInit => BtInv
  <2> SUFFICES ASSUME BtInit PROVE BtInv
    OBVIOUS
  <2>1. BtTypeOK
    BY DEF BtInit, BtTypeOK, Mode
  <2>2. dropped \in BOOLEAN
    BY DEF BtInit
  <2> QED BY <2>1, <2>2 DEF BtInit, BtInv
<1>2. BtInv /\ [BtNext]_btVars => BtInv'
  <2> SUFFICES ASSUME BtInv, [BtNext]_btVars PROVE BtInv'
    OBVIOUS
  <2>1. ASSUME NEW enable \in Mode, NEW is_ultra \in BOOLEAN,
               bt_audio_low_latency(enable, is_ultra)
        PROVE  BtInv'
    BY <2>1, BtRequestKeeps
  <2>2. CASE TakeMode
    BY <2>2, BtTakeKeeps
  <2>3. CASE get_provider
    BY <2>3 DEF get_provider, BtInv, BtTypeOK
  <2>4. CASE notify_to_bluetooth_audio_hal
    <3>1. \/ btThread' = "crashed" /\ UNCHANGED <<provider, audioMode, undelivered>>
          \/ btThread' = "wait" /\ provider' = provider \ {btThread} /\ undelivered' = TRUE /\ UNCHANGED audioMode
          \/ btThread' = "wait" /\ audioMode' = mCurrentMode /\ undelivered' = FALSE /\ UNCHANGED provider
      BY <2>4 DEF notify_to_bluetooth_audio_hal
    <3>2. btThread \in {"aidl", "hidl"} /\ UNCHANGED <<mGameQu, mCurrentMode, gameProp, asked_bt, dropped>>
      BY <2>4 DEF notify_to_bluetooth_audio_hal
    <3> QED BY <3>1, <3>2 DEF BtInv, BtTypeOK
  <2>5. CASE ProviderDied
    <3>1. /\ provider' \subseteq provider /\ mGameQu' = <<>>
          /\ audioMode' = 0 /\ undelivered' = TRUE
          /\ UNCHANGED <<mCurrentMode, btThread, gameProp, asked_bt>>
      BY <2>5 DEF ProviderDied
    <3>2. dropped' \in BOOLEAN /\ (~dropped' => ~dropped /\ mGameQu = <<>>)
      BY <2>5, Zenon DEF ProviderDied
    <3> QED BY <3>1, <3>2 DEF BtInv, BtTypeOK, Mode
  <2>6. CASE UNCHANGED btVars
    BY <2>6 DEF btVars, BtInv, BtTypeOK
  <2> QED BY <2>1, <2>2, <2>3, <2>4, <2>5, <2>6 DEF BtNext
<1> QED BY <1>1, <1>2, PTL DEF BtSpec

\* When the Bluetooth task has nothing left to deliver, the mode it took last is the one
\* that was asked for last, unless a death dropped it, and the audio HAL has that mode
\* unless the call failed or the HAL restarted (BluetoothGameModeTask::EnterGameMode, run,
\* Reset): for every length of the queue.
THEOREM BtModeSettles == BtSpec => []BtSettles
<1>1. BtInv => BtSettles
  BY DEF BtInv, BtSettles
<1> QED BY <1>1, BtInvariant, PTL

\* The types of the Bluetooth game mode.
LEMMA BtTypes == BtSpec => []BtTypeOK
<1>1. BtInv => BtTypeOK
  BY DEF BtInv
<1> QED BY <1>1, BtInvariant, PTL
-----------------------------------------------------------------------------
(***************************************************************************)
(* Smart launch: the file.                                                 *)
(***************************************************************************)
Entry == [name : LaunchPackage, value : Nat]
Mine(file, p) == {i \in DOMAIN file : file[i].name = p}

\* A file that can be read has one entry for a package at most.
GoodFile(file) ==
  /\ file \in Seq(Entry)
  /\ \A i, j \in DOMAIN file : file[i].name = file[j].name => i = j

\* The file has what the memory has, except for packages whose insert failed, and those it
\* does not have at all.
FileInv ==
  /\ policy \in [supported : BOOLEAN, target : BOOLEAN]
  /\ gSmartLaunchPackageInfo \in [LaunchPackage -> Nat \cup {NotLearned}]
  /\ unsaved \subseteq LaunchPackage
  /\ dlFile # Corrupt =>
       /\ GoodFile(dlFile)
       /\ \A p \in unsaved : Known(p) /\ Mine(dlFile, p) = {}
       /\ \A p \in LaunchPackage \ unsaved : \A i \in Mine(dlFile, p) :
            dlFile[i].value = gSmartLaunchPackageInfo[p]
       /\ \A p \in LaunchPackage \ unsaved : Mine(dlFile, p) = {} => ~Known(p)

\* What a readable file gives for a package.
LEMMA ParseFacts ==
  ASSUME NEW file, GoodFile(file), NEW p \in LaunchPackage
  PROVE  /\ Mine(file, p) = {} => parsePackInfo(file)[p] = NotLearned
         /\ \A i \in Mine(file, p) : parsePackInfo(file)[p] = file[i].value
         /\ parsePackInfo(file)[p] \in Nat \cup {NotLearned}
<1>1. parsePackInfo(file)[p] = IF Mine(file, p) = {} THEN NotLearned ELSE file[LastOf(Mine(file, p))].value
  BY DEF parsePackInfo, Mine
<1>2. ASSUME NEW i \in Mine(file, p) PROVE LastOf(Mine(file, p)) = i
  <2>1. i \in Int /\ Mine(file, p) = {i}
    BY DEF Mine, GoodFile
  <2>2. \A k \in {i} : (\A j \in {i} : k >= j) <=> k = i
    BY <2>1
  <2>3. LastOf({i}) = i
    BY <2>1, <2>2 DEF LastOf
  <2> QED BY <2>1, <2>3
<1>3. ASSUME NEW i \in Mine(file, p) PROVE file[i].value \in Nat
  <2>1. file[i] \in Entry
    BY DEF Mine, GoodFile
  <2> QED BY <2>1 DEF Entry
<1> QED BY <1>1, <1>2, <1>3

\* A file that cannot be read has no entry of a package, and no readable file looks like it.
LEMMA CorruptFacts ==
  /\ \A p \in LaunchPackage : Mine(Corrupt, p) = {}
  /\ \A p \in LaunchPackage : parsePackInfo(Corrupt)[p] = NotLearned
  /\ \A file : GoodFile(file) => file # Corrupt
<1>1. DOMAIN Corrupt = {1} /\ Corrupt[1].name = "corrupt" /\ Len(Corrupt) = 1
  BY DEF Corrupt
<1>2. "corrupt" \notin LaunchPackage
  BY SmartLaunchAssumption
<1>3. \A p \in LaunchPackage : Mine(Corrupt, p) = {}
  BY <1>1, <1>2 DEF Mine
<1>4. \A p \in LaunchPackage : parsePackInfo(Corrupt)[p] = NotLearned
  BY <1>3 DEF parsePackInfo, Mine
<1>5. ASSUME NEW file, GoodFile(file), file = Corrupt PROVE FALSE
  <2>1. file[1] \in Entry
    BY <1>1, <1>5 DEF GoodFile
  <2> QED BY <1>1, <1>2, <1>5, <2>1 DEF Entry
<1> QED BY <1>3, <1>4, <1>5

\* Taking an entry out.
LEMMA RemoveAtFacts ==
  ASSUME NEW S, NEW s \in Seq(S), NEW i \in DOMAIN s
  PROVE  /\ RemoveAt(s, i) \in Seq(S) /\ Len(RemoveAt(s, i)) = Len(s) - 1
         /\ \A k \in 1 .. Len(s) - 1 : RemoveAt(s, i)[k] = IF k < i THEN s[k] ELSE s[k + 1]
<1>1. RemoveAt(s, i) = CutOut(s, i)
  BY DEF RemoveAt, CutOut
<1> QED BY <1>1, CutOutFacts

\* The first of one is that one.
LEMMA FirstFact ==
  ASSUME NEW file, GoodFile(file), NEW p, NEW i \in Mine(file, p)
  PROVE  FirstOf(Mine(file, p)) = i
<1>1. i \in Int /\ Mine(file, p) = {i}
  BY DEF Mine, GoodFile
<1>2. \A k \in {i} : (\A j \in {i} : k <= j) <=> k = i
  BY <1>1
<1>3. FirstOf({i}) = i
  BY <1>1, <1>2 DEF FirstOf
<1> QED BY <1>1, <1>3

\* A changed value is changed in memory and in the file.
LEMMA ModifyKeeps ==
  ASSUME FileInv, NEW p \in LaunchPackage, Known(p), NEW opp \in Nat,
         modifyNextFreqAndSaveToDisk(p, opp), policy' = policy
  PROVE  FileInv'
<1>1. /\ gSmartLaunchPackageInfo' = [gSmartLaunchPackageInfo EXCEPT ![p] = opp]
      /\ dlFile' = modifyElement2DlTable(p, opp) /\ unsaved' = unsaved
  BY DEF modifyNextFreqAndSaveToDisk, Store
<1>2. /\ gSmartLaunchPackageInfo' \in [LaunchPackage -> Nat \cup {NotLearned}]
      /\ gSmartLaunchPackageInfo'[p] = opp
      /\ \A q \in LaunchPackage : q # p => gSmartLaunchPackageInfo'[q] = gSmartLaunchPackageInfo[q]
      /\ opp # NotLearned
  BY <1>1 DEF FileInv, NotLearned
<1>3. dlFile' = IF Mine(dlFile, p) = {} THEN dlFile
                ELSE [dlFile EXCEPT ![FirstOf(Mine(dlFile, p))].value = opp]
  BY <1>1 DEF modifyElement2DlTable, Entries, Mine
<1>4. CASE dlFile = Corrupt
  <2>1. dlFile' = Corrupt
    BY <1>3, <1>4, CorruptFacts
  <2> QED BY <1>1, <1>2, <2>1 DEF FileInv
<1>5. CASE dlFile # Corrupt /\ Mine(dlFile, p) = {}
  <2>1. dlFile' = dlFile /\ p \in unsaved
    BY <1>3, <1>5 DEF FileInv
  <2> QED BY <1>1, <1>2, <1>5, <2>1 DEF FileInv, Known
<1>6. CASE dlFile # Corrupt /\ Mine(dlFile, p) # {}
  <2>1. PICK i \in Mine(dlFile, p) : TRUE
    BY <1>6
  <2>2. GoodFile(dlFile) /\ p \notin unsaved
    BY <1>6 DEF FileInv
  <2>3. dlFile' = [dlFile EXCEPT ![i].value = opp]
    BY <1>3, <1>6, <2>1, <2>2, FirstFact
  <2>4. /\ dlFile \in Seq(Entry) /\ i \in DOMAIN dlFile /\ dlFile[i].name = p
        /\ \A j \in DOMAIN dlFile : dlFile[j] \in Entry
    BY <2>1, <2>2 DEF GoodFile, Mine
  <2>5. [dlFile[i] EXCEPT !.value = opp] \in Entry
    BY <2>4 DEF Entry
  <2>6. /\ dlFile' \in Seq(Entry) /\ DOMAIN dlFile' = DOMAIN dlFile
        /\ dlFile'[i] = [dlFile[i] EXCEPT !.value = opp]
        /\ \A j \in DOMAIN dlFile : j # i => dlFile'[j] = dlFile[j]
    BY <2>3, <2>4, <2>5, ExceptSeq
  <2>7. dlFile'[i].name = p /\ dlFile'[i].value = opp
    BY <2>4, <2>6 DEF Entry
  <2>8. \A j \in DOMAIN dlFile : dlFile'[j].name = dlFile[j].name
    BY <2>4, <2>6, <2>7
  <2>9. GoodFile(dlFile') /\ \A q : Mine(dlFile', q) = Mine(dlFile, q)
    BY <2>2, <2>6, <2>8 DEF GoodFile, Mine
  <2>10. Mine(dlFile, p) = {i}
    BY <2>1, <2>2 DEF Mine, GoodFile
  <2>11. ASSUME NEW q \in LaunchPackage, q \notin unsaved, NEW j \in Mine(dlFile, q)
         PROVE  dlFile'[j].value = gSmartLaunchPackageInfo'[q]
    <3>1. CASE q = p
      BY <1>2, <2>7, <2>10, <2>11, <3>1
    <3>2. CASE q # p
      <4>1. j \in DOMAIN dlFile /\ j # i
        BY <2>4, <2>11, <3>2 DEF Mine
      <4> QED BY <1>2, <1>6, <2>6, <2>11, <3>2, <4>1 DEF FileInv
    <3> QED BY <3>1, <3>2
  <2> QED BY <1>1, <1>2, <1>6, <2>2, <2>9, <2>10, <2>11 DEF FileInv, Known
<1> QED BY <1>4, <1>5, <1>6

\* A package that is learned is added, if the file can be read and is not full.
LEMMA InsertKeeps ==
  ASSUME FileInv, NEW p \in LaunchPackage, ~Known(p), NEW opp \in Nat,
         insertNewFreqAndInsertToDisk(p, opp), policy' = policy
  PROVE  FileInv'
<1>1. /\ gSmartLaunchPackageInfo' = [gSmartLaunchPackageInfo EXCEPT ![p] = opp]
      /\ dlFile' = insertNewElement2DlTable(p, opp)
      /\ unsaved' = IF dlFile' = dlFile THEN unsaved \cup {p} ELSE unsaved
  BY DEF insertNewFreqAndInsertToDisk, Store
<1>2. /\ gSmartLaunchPackageInfo' \in [LaunchPackage -> Nat \cup {NotLearned}]
      /\ gSmartLaunchPackageInfo'[p] = opp
      /\ \A q \in LaunchPackage : q # p => gSmartLaunchPackageInfo'[q] = gSmartLaunchPackageInfo[q]
      /\ opp # NotLearned
  BY <1>1 DEF FileInv, NotLearned
<1>3. unsaved' \subseteq LaunchPackage
  BY <1>1 DEF FileInv
<1>4. CASE dlFile = Corrupt
  BY <1>1, <1>2, <1>3, <1>4 DEF insertNewElement2DlTable, FileInv
<1>5. ASSUME dlFile # Corrupt PROVE GoodFile(dlFile) /\ p \notin unsaved /\ Mine(dlFile, p) = {}
  <2>1. GoodFile(dlFile) /\ p \notin unsaved
    BY <1>5 DEF FileInv
  <2>2. \A i \in Mine(dlFile, p) : dlFile[i].value = NotLearned /\ dlFile[i] \in Entry
    BY <1>5, <2>1 DEF FileInv, Known, Mine, GoodFile
  <2> QED BY <2>1, <2>2 DEF Entry, NotLearned
<1>6. CASE dlFile # Corrupt /\ Len(dlFile) >= DL_MAX
  <2>1. dlFile' = dlFile /\ unsaved' = unsaved \cup {p}
    BY <1>1, <1>6 DEF insertNewElement2DlTable
  <2> QED BY <1>2, <1>3, <1>5, <1>6, <2>1 DEF FileInv, Known
<1>7. CASE dlFile # Corrupt /\ ~(Len(dlFile) >= DL_MAX)
  <2>1. dlFile' = Append(dlFile, [name |-> p, value |-> opp])
    BY <1>1, <1>7 DEF insertNewElement2DlTable
  <2>2. PICK e : e = [name |-> p, value |-> opp] /\ e.name = p /\ e.value = opp /\ e \in Entry
    <3>1. [name |-> p, value |-> opp] \in Entry
      BY DEF Entry
    <3> QED BY <3>1
  <2>3. PICK n \in Nat : n = Len(dlFile)
    BY <1>5, <1>7 DEF GoodFile
  <2>4. /\ dlFile \in Seq(Entry) /\ DOMAIN dlFile = 1 .. n
        /\ dlFile' \in Seq(Entry) /\ DOMAIN dlFile' = 1 .. n + 1
        /\ \A i \in 1 .. n : dlFile'[i] = dlFile[i]
        /\ dlFile'[n + 1] = e
    BY <1>5, <1>7, <2>1, <2>2, <2>3, AppendProperties DEF GoodFile
  <2>5. unsaved' = unsaved
    BY <1>1, <2>4
  <2>6. \A q : q # p => Mine(dlFile', q) = Mine(dlFile, q)
    BY <2>2, <2>4 DEF Mine
  <2>7. Mine(dlFile', p) = {n + 1}
    BY <1>5, <1>7, <2>2, <2>4 DEF Mine
  <2>8. \A i \in 1 .. n : dlFile[i].name # p
    BY <1>5, <1>7, <2>4 DEF Mine
  <2>9. GoodFile(dlFile')
    BY <1>5, <1>7, <2>2, <2>4, <2>8 DEF GoodFile
  <2>10. ASSUME NEW q \in LaunchPackage, q \notin unsaved, q # p, NEW i \in Mine(dlFile', q)
         PROVE  dlFile'[i].value = gSmartLaunchPackageInfo'[q]
    <3>1. i \in Mine(dlFile, q) /\ i \in 1 .. n
      BY <2>4, <2>6, <2>10 DEF Mine
    <3>2. dlFile[i].value = gSmartLaunchPackageInfo[q]
      BY <1>7, <2>10, <3>1 DEF FileInv
    <3> QED BY <1>2, <2>4, <2>10, <3>1, <3>2
  <2>11. /\ \A q \in LaunchPackage \ unsaved : \A i \in Mine(dlFile', q) :
              dlFile'[i].value = gSmartLaunchPackageInfo'[q]
    BY <1>2, <2>2, <2>4, <2>7, <2>10
  <2>12. \A q \in LaunchPackage \ unsaved : Mine(dlFile', q) = {} => gSmartLaunchPackageInfo'[q] = NotLearned
    <3> SUFFICES ASSUME NEW q \in LaunchPackage \ unsaved, Mine(dlFile', q) = {}
                 PROVE  gSmartLaunchPackageInfo'[q] = NotLearned
      OBVIOUS
    <3>1. q # p
      BY <2>7
    <3> QED BY <1>2, <1>7, <2>6, <3>1 DEF FileInv, Known
  <2>13. \A q \in unsaved : gSmartLaunchPackageInfo'[q] # NotLearned /\ Mine(dlFile', q) = {}
    BY <1>2, <1>5, <1>7, <2>6 DEF FileInv, Known
  <2> QED BY <1>2, <1>3, <2>5, <2>9, <2>11, <2>12, <2>13 DEF FileInv, Known
<1> QED BY <1>4, <1>6, <1>7

\* A package that is dropped is dropped from the file too.
LEMMA DeleteKeeps ==
  ASSUME FileInv, NEW p \in LaunchPackage, deletePackageAndUpdateToDisk(p), policy' = policy
  PROVE  FileInv'
<1>1. /\ gSmartLaunchPackageInfo' = [gSmartLaunchPackageInfo EXCEPT ![p] = NotLearned]
      /\ dlFile' = IF Mine(dlFile, p) = {} THEN dlFile ELSE RemoveAt(dlFile, FirstOf(Mine(dlFile, p)))
      /\ unsaved' = unsaved \ {p}
  BY DEF deletePackageAndUpdateToDisk, Store, deleteElement2DlTable, Entries, Mine
<1>2. /\ gSmartLaunchPackageInfo' \in [LaunchPackage -> Nat \cup {NotLearned}]
      /\ gSmartLaunchPackageInfo'[p] = NotLearned
      /\ \A q \in LaunchPackage : q # p => gSmartLaunchPackageInfo'[q] = gSmartLaunchPackageInfo[q]
  BY <1>1 DEF FileInv
<1>3. CASE dlFile = Corrupt
  <2>1. dlFile' = Corrupt
    BY <1>1, <1>3, CorruptFacts
  <2> QED BY <1>1, <1>2, <2>1 DEF FileInv
<1>4. CASE dlFile # Corrupt /\ Mine(dlFile, p) = {}
  BY <1>1, <1>2, <1>4 DEF FileInv, Known
<1>5. CASE dlFile # Corrupt /\ Mine(dlFile, p) # {}
  <2>1. PICK i \in Mine(dlFile, p) : TRUE
    BY <1>5
  <2>2. GoodFile(dlFile) /\ p \notin unsaved
    BY <1>5 DEF FileInv
  <2>3. PICK n \in Nat : n = Len(dlFile) /\ dlFile \in Seq(Entry) /\ DOMAIN dlFile = 1 .. n
    BY <2>2 DEF GoodFile
  <2>4. i \in 1 .. n /\ dlFile[i].name = p
    BY <2>1, <2>3 DEF Mine
  <2>5. /\ dlFile' \in Seq(Entry) /\ DOMAIN dlFile' = 1 .. n - 1
        /\ \A k \in 1 .. n - 1 : dlFile'[k] = IF k < i THEN dlFile[k] ELSE dlFile[k + 1]
    <3>1. dlFile' = RemoveAt(dlFile, i)
      BY <1>1, <1>5, <2>1, <2>2, FirstFact
    <3> QED BY <2>3, <2>4, <3>1, RemoveAtFacts, SMTT(60)
  <2> DEFINE old(k) == IF k < i THEN k ELSE k + 1
  <2>6. \A k \in 1 .. n - 1 : old(k) \in 1 .. n /\ old(k) # i /\ dlFile'[k] = dlFile[old(k)]
    BY <2>4, <2>5
  <2>7. \A k, l \in 1 .. n - 1 : old(k) = old(l) => k = l
    BY <2>4
  <2>8. ASSUME NEW m \in 1 .. n, m # i PROVE \E k \in 1 .. n - 1 : old(k) = m
    <3>1. CASE m < i
      BY <2>4, <3>1
    <3>2. CASE ~(m < i)
      <4>1. m - 1 \in 1 .. n - 1 /\ old(m - 1) = m
        BY <2>4, <2>8, <3>2
      <4> QED BY <4>1
    <3> QED BY <3>1, <3>2
  <2> HIDE DEF old
  <2>9. GoodFile(dlFile')
    <3> SUFFICES ASSUME NEW k \in 1 .. n - 1, NEW l \in 1 .. n - 1, dlFile'[k].name = dlFile'[l].name
                 PROVE  k = l
      BY <2>5 DEF GoodFile
    <3>1. dlFile[old(k)].name = dlFile[old(l)].name
      BY <2>6
    <3>2. old(k) = old(l)
      BY <2>2, <2>3, <2>6, <3>1 DEF GoodFile
    <3> QED BY <2>7, <3>2
  <2>10. \A q, k : k \in Mine(dlFile', q) => k \in 1 .. n - 1 /\ old(k) \in Mine(dlFile, q)
    BY <2>3, <2>5, <2>6 DEF Mine
  <2>11. \A q : q # p /\ Mine(dlFile', q) = {} => Mine(dlFile, q) = {}
    <3> SUFFICES ASSUME NEW q, q # p, NEW m \in Mine(dlFile, q) PROVE Mine(dlFile', q) # {}
      OBVIOUS
    <3>1. m \in 1 .. n /\ m # i /\ dlFile[m].name = q
      BY <2>3, <2>4 DEF Mine
    <3>2. PICK k \in 1 .. n - 1 : old(k) = m
      BY <2>8, <3>1
    <3>3. k \in Mine(dlFile', q)
      BY <2>5, <2>6, <3>1, <3>2 DEF Mine
    <3> QED BY <3>3
  <2>12. Mine(dlFile', p) = {}
    <3> SUFFICES ASSUME NEW k \in Mine(dlFile', p) PROVE FALSE
      OBVIOUS
    <3>1. k \in 1 .. n - 1 /\ old(k) \in 1 .. n /\ old(k) # i /\ dlFile[old(k)].name = p
      BY <2>6, <2>10 DEF Mine
    <3> QED BY <2>2, <2>3, <2>4, <3>1 DEF GoodFile
  <2>13. \A q \in LaunchPackage \ unsaved : \A k \in Mine(dlFile', q) :
           dlFile'[k].value = gSmartLaunchPackageInfo'[q]
    <3> SUFFICES ASSUME NEW q \in LaunchPackage \ unsaved, NEW k \in Mine(dlFile', q)
                 PROVE  dlFile'[k].value = gSmartLaunchPackageInfo'[q]
      OBVIOUS
    <3>1. q # p
      BY <2>12
    <3>2. k \in 1 .. n - 1 /\ old(k) \in Mine(dlFile, q)
      BY <2>10
    <3>3. dlFile[old(k)].value = gSmartLaunchPackageInfo[q]
      BY <1>5, <3>2 DEF FileInv
    <3> QED BY <1>2, <2>6, <3>1, <3>2, <3>3
  <2>14. \A q \in LaunchPackage \ unsaved : Mine(dlFile', q) = {} => gSmartLaunchPackageInfo'[q] = NotLearned
    BY <1>2, <1>5, <2>11 DEF FileInv, Known
  <2>15. \A q \in unsaved : gSmartLaunchPackageInfo'[q] # NotLearned /\ Mine(dlFile', q) = {}
    <3> SUFFICES ASSUME NEW q \in unsaved
                 PROVE  gSmartLaunchPackageInfo'[q] # NotLearned /\ Mine(dlFile', q) = {}
      OBVIOUS
    <3>1. q \in LaunchPackage /\ q # p /\ Known(q) /\ Mine(dlFile, q) = {}
      BY <1>5, <2>2 DEF FileInv
    <3> QED BY <1>2, <2>10, <3>1 DEF Known
  <2>16. unsaved' = unsaved
    BY <1>1, <2>2
  <2> QED BY <1>2, <2>9, <2>13, <2>14, <2>15, <2>16 DEF FileInv, Known
<1> QED BY <1>3, <1>4, <1>5

\* What calcNextLaunchPower does with the result of a launch.
LEMMA CalcKeeps ==
  ASSUME FileInv, NEW p \in LaunchPackage, NEW needAdjust \in BOOLEAN,
         NEW answer \in -1 .. MinLevelOpp + 1,
         calcNextLaunchPower(p, needAdjust, answer), policy' = policy
  PROVE  FileInv'
<1>1. /\ DefaultOpp \in Nat /\ MinLevelOpp \in Nat /\ SPAN_MAX \in Nat
  BY SmartLaunchAssumption
<1>2. PICK d \in Nat : d = gBigClusterDefaultOPP
  BY <1>1 DEF gBigClusterDefaultOPP
<1>3. PICK pre \in Nat : pre = IF Known(p) THEN gSmartLaunchPackageInfo[p] ELSE gBigClusterDefaultOPP
  BY <1>2 DEF FileInv, Known
<1>4. PICK next \in Int : next = coreAlgorith(answer, pre)
  BY <1>1, <1>2, <1>3 DEF coreAlgorith, clampFreqOpp
<1>5. next > d => Capped(next, pre) \in Nat
  BY <1>1, <1>2, <1>3, <1>4 DEF Capped
<1>6. \/ Known(p) /\ next <= d /\ deletePackageAndUpdateToDisk(p)
      \/ Known(p) /\ next > d /\ modifyNextFreqAndSaveToDisk(p, Capped(next, pre))
      \/ ~Known(p) /\ next > d /\ insertNewFreqAndInsertToDisk(p, Capped(next, pre))
      \/ UNCHANGED <<gSmartLaunchPackageInfo, dlFile, unsaved>>
  BY <1>2, <1>3, <1>4 DEF calcNextLaunchPower
<1>7. CASE UNCHANGED <<gSmartLaunchPackageInfo, dlFile, unsaved>>
  BY <1>7 DEF FileInv, Known
<1> QED BY <1>5, <1>6, <1>7, DeleteKeeps, ModifyKeeps, InsertKeeps

\* File and memory agree in every state.
LEMMA FileInvariant == LaunchSpec => []FileInv
<1>1. LaunchInit => FileInv
  <2> SUFFICES ASSUME LaunchInit PROVE FileInv
    OBVIOUS
  <2>1. dlFile = <<>> /\ unsaved = {} /\ gSmartLaunchPackageInfo = [p \in LaunchPackage |-> NotLearned]
    BY DEF LaunchInit
  <2>2. GoodFile(dlFile) /\ \A p : Mine(dlFile, p) = {}
    BY <2>1 DEF GoodFile, Mine
  <2> QED BY <2>1, <2>2 DEF LaunchInit, FileInv, Known
<1>2. FileInv /\ [LaunchNext]_launchVars => FileInv'
  <2> SUFFICES ASSUME FileInv, [LaunchNext]_launchVars PROVE FileInv'
    OBVIOUS
  <2>1. ASSUME NEW p \in LaunchPackage, handleCurrentLaunchPolicy(p) PROVE FileInv'
    BY <2>1 DEF handleCurrentLaunchPolicy, FileInv, Known
  <2>2. ASSUME NEW p \in LaunchPackage, LaunchInfo(p) PROVE FileInv'
    BY <2>2, CalcKeeps DEF LaunchInfo
  <2>3. ASSUME NEW p \in LaunchPackage, handlePackageUninstall(p) PROVE FileInv'
    BY <2>3, DeleteKeeps DEF handlePackageUninstall
  <2>4. CASE LaunchEnd
    BY <2>4 DEF LaunchEnd, FileInv, Known
  <2>5. CASE Restart
    <3>1. /\ dlFile' \in {dlFile, Corrupt} /\ unsaved' = {} /\ policy' = policy
          /\ gSmartLaunchPackageInfo' = parsePackInfo(dlFile')
      BY <2>5 DEF Restart
    <3>2. CASE dlFile' = Corrupt
      <4>1. gSmartLaunchPackageInfo' \in [LaunchPackage -> Nat \cup {NotLearned}]
        BY <3>1, <3>2, CorruptFacts DEF parsePackInfo
      <4> QED BY <3>1, <3>2, <4>1 DEF FileInv
    <3>3. CASE dlFile' # Corrupt
      <4>1. dlFile' = dlFile /\ GoodFile(dlFile)
        BY <3>1, <3>3 DEF FileInv
      <4>2. gSmartLaunchPackageInfo' \in [LaunchPackage -> Nat \cup {NotLearned}]
        BY <3>1, <4>1, ParseFacts DEF parsePackInfo
      <4>3. \A p \in LaunchPackage :
              /\ Mine(dlFile, p) = {} => gSmartLaunchPackageInfo'[p] = NotLearned
              /\ \A i \in Mine(dlFile, p) : gSmartLaunchPackageInfo'[p] = dlFile[i].value
        BY <3>1, <4>1, ParseFacts
      <4> QED BY <3>1, <4>1, <4>2, <4>3 DEF FileInv, Known
    <3> QED BY <3>2, <3>3
  <2>6. CASE UNCHANGED launchVars
    BY <2>6 DEF launchVars, FileInv, Known
  <2> QED BY <2>1, <2>2, <2>3, <2>4, <2>5, <2>6 DEF LaunchNext
<1> QED BY <1>1, <1>2, PTL DEF LaunchSpec

\* What was learned survives a restart: the file gives back what the memory holds, for
\* every package whose insert did not fail (calcNextLaunchPower, handlePackageUninstall,
\* loadPowerDlTable), for all packages and every capacity of the file.
THEOREM LearnedIsKept == LaunchSpec => []LearnedSurvivesRestart
<1>1. FileInv => LearnedSurvivesRestart
  <2> SUFFICES ASSUME FileInv, dlFile # Corrupt, NEW p \in LaunchPackage \ unsaved
               PROVE  parsePackInfo(dlFile)[p] = gSmartLaunchPackageInfo[p]
    BY DEF LearnedSurvivesRestart
  <2>1. GoodFile(dlFile)
    BY DEF FileInv
  <2> QED BY <2>1, ParseFacts DEF FileInv, Known
<1> QED BY <1>1, FileInvariant, PTL
-----------------------------------------------------------------------------
(***************************************************************************)
(* Smart launch: the hint's resource list.                                 *)
(***************************************************************************)
RscInv ==
  /\ freqRsc \in Seq(Int) /\ open \in Nat
  /\ policy.supported => Len(freqRsc) = 1 /\ (open = 0 => freqRsc = <<DefaultOpp>>)
  /\ ~policy.supported => Len(freqRsc) <= open

\* The invariant holds in every behaviour.
LEMMA RscInvariant == LaunchSpec => []RscInv
<1> USE SmartLaunchAssumption
<1>1. LaunchInit => RscInv
  BY DEF LaunchInit, RscInv, DefaultRsc
<1>2. FileInv /\ RscInv /\ [LaunchNext]_launchVars => RscInv'
  <2> SUFFICES ASSUME FileInv, RscInv, [LaunchNext]_launchVars PROVE RscInv'
    OBVIOUS
  <2>1. freqRsc \in Seq(Int) /\ gBigClusterDefaultOPP \in Int
    BY DEF RscInv, gBigClusterDefaultOPP
  <2>2. /\ \A v \in Int : HintRscList_modify(v) \in Seq(Int)
        /\ \A v \in Int : Len(HintRscList_modify(v)) = Len(freqRsc)
        /\ HintRscList_remove \in Seq(Int)
        /\ Len(HintRscList_remove) = IF Len(freqRsc) = 0 THEN 0 ELSE Len(freqRsc) - 1
    BY <2>1 DEF HintRscList_modify, HintRscList_remove
  <2>3. policy.supported => HintRscList_modify(gBigClusterDefaultOPP) = <<DefaultOpp>>
    BY <2>1 DEF HintRscList_modify, RscInv, gBigClusterDefaultOPP
  <2>4. ASSUME resetLaunchPolicyToDefault, policy' = policy PROVE RscInv'
    <3>1. /\ freqRsc' = IF policy.supported THEN HintRscList_modify(gBigClusterDefaultOPP) ELSE HintRscList_remove
          /\ open' = IF open = 0 THEN 0 ELSE open - 1
      BY <2>4 DEF resetLaunchPolicyToDefault
    <3>2. CASE policy.supported
      BY <2>1, <2>2, <2>3, <2>4, <3>1, <3>2 DEF RscInv
    <3>3. CASE ~policy.supported
      <4>1. freqRsc' \in Seq(Int) /\ Len(freqRsc') = IF Len(freqRsc) = 0 THEN 0 ELSE Len(freqRsc) - 1
        BY <2>2, <3>1, <3>3
      <4>2. Len(freqRsc) \in Nat /\ open \in Nat /\ Len(freqRsc) <= open
        BY <2>1, <3>3 DEF RscInv
      <4>3. open' \in Nat /\ Len(freqRsc') <= open'
        BY <3>1, <4>1, <4>2
      <4> QED BY <2>4, <3>3, <4>1, <4>3 DEF RscInv
    <3> QED BY <3>2, <3>3
  <2>5. ASSUME NEW p \in LaunchPackage, handleCurrentLaunchPolicy(p) PROVE RscInv'
    <3>1. PICK opp \in Int :
            freqRsc' = IF policy.supported THEN HintRscList_modify(opp)
                       ELSE IF opp # gBigClusterDefaultOPP THEN HintRscList_append(opp)
                       ELSE HintRscList_remove
      <4>1. \A over \in BOOLEAN : pickCurrentFreq(p, over) \in Int
        BY <2>1 DEF FileInv, pickCurrentFreq, NotLearned
      <4> QED BY <2>5, <4>1 DEF handleCurrentLaunchPolicy
    <3>2. open' = open + 1 /\ policy' = policy
      BY <2>5 DEF handleCurrentLaunchPolicy
    <3>3. HintRscList_append(opp) \in Seq(Int) /\ Len(HintRscList_append(opp)) = Len(freqRsc) + 1
      BY <2>1 DEF HintRscList_append
    <3>4. CASE policy.supported
      <4>1. freqRsc' \in Seq(Int) /\ Len(freqRsc') = 1
        BY <2>2, <3>1, <3>4 DEF RscInv
      <4>2. open' \in Nat /\ open' # 0
        BY <3>2 DEF RscInv
      <4> QED BY <3>2, <3>4, <4>1, <4>2 DEF RscInv
    <3>5. CASE ~policy.supported
      <4>1. Len(freqRsc) \in Nat /\ open \in Nat /\ Len(freqRsc) <= open
        BY <2>1, <3>5 DEF RscInv
      <4>2. freqRsc' \in Seq(Int) /\ Len(freqRsc') <= Len(freqRsc) + 1
        <5>1. freqRsc' \in {HintRscList_append(opp), HintRscList_remove}
          BY <3>1, <3>5
        <5> QED BY <2>2, <3>3, <4>1, <5>1
      <4>3. open' \in Nat /\ Len(freqRsc') <= open'
        BY <3>2, <4>1, <4>2
      <4> QED BY <3>2, <3>5, <4>2, <4>3 DEF RscInv
    <3> QED BY <3>4, <3>5
  <2>6. ASSUME NEW p \in LaunchPackage, LaunchInfo(p) PROVE RscInv'
    BY <2>4, <2>6 DEF LaunchInfo
  <2>7. CASE LaunchEnd
    BY <2>4, <2>7 DEF LaunchEnd
  <2>8. ASSUME NEW p \in LaunchPackage, handlePackageUninstall(p) PROVE RscInv'
    BY <2>8 DEF handlePackageUninstall, RscInv
  <2>9. CASE Restart
    BY <2>9 DEF Restart, RscInv, DefaultRsc
  <2>10. CASE UNCHANGED launchVars
    BY <2>10 DEF launchVars, RscInv
  <2> QED BY <2>5, <2>6, <2>7, <2>8, <2>9, <2>10 DEF LaunchNext
<1> QED BY <1>1, <1>2, FileInvariant, PTL DEF LaunchSpec

\* A package's frequency does not outlive its launch: however launches overlap, when every
\* one that was started has been ended the hint has its own frequency again, and where it
\* has none there are never more entries than launches under way
\* (handleCurrentLaunchPolicy, resetLaunchPolicyToDefault).
THEOREM LaunchPolicyIsReset == LaunchSpec => []LaunchPolicyReset
<1>1. RscInv => LaunchPolicyReset
  BY DEF RscInv, LaunchPolicyReset, DefaultRsc
<1> QED BY <1>1, RscInvariant, PTL

\* What is learned is an operating point above the default and not below the lowest, and the
\* hint's list has operating points.
LevelInv ==
  /\ \A p \in LaunchPackage : gSmartLaunchPackageInfo[p] \in {NotLearned} \cup 1 .. MinLevelOpp
  /\ freqRsc \in Seq(0 .. MinLevelOpp)
  /\ open \in 0 .. MaxOpen

\* A new point is at most SPAN_MAX steps below the last one and within the limits.
LEMMA LearnsLevel ==
  ASSUME FileInv, LevelInv, NEW p \in LaunchPackage, NEW needAdjust \in BOOLEAN,
         NEW answer \in -1 .. MinLevelOpp + 1,
         calcNextLaunchPower(p, needAdjust, answer)
  PROVE  \A q \in LaunchPackage : gSmartLaunchPackageInfo'[q] \in {NotLearned} \cup 1 .. MinLevelOpp
<1>1. /\ DefaultOpp \in Nat /\ MinLevelOpp \in Nat /\ SPAN_MAX \in Nat \ {0} /\ DefaultOpp < MinLevelOpp
  BY SmartLaunchAssumption
<1>2. PICK d \in Nat : d = gBigClusterDefaultOPP /\ d < MinLevelOpp
  BY <1>1 DEF gBigClusterDefaultOPP
<1>3. PICK pre \in 0 .. MinLevelOpp : pre = IF Known(p) THEN gSmartLaunchPackageInfo[p] ELSE gBigClusterDefaultOPP
  BY <1>1, <1>2 DEF LevelInv, Known
<1>4. PICK next \in 0 .. MinLevelOpp : next = coreAlgorith(answer, pre)
  BY <1>1, <1>2, <1>3 DEF coreAlgorith, clampFreqOpp
<1>5. next > d => Capped(next, pre) \in 1 .. MinLevelOpp
  BY <1>1, <1>2, <1>3, <1>4 DEF Capped
<1>6. \/ Known(p) /\ next <= d /\ deletePackageAndUpdateToDisk(p)
      \/ Known(p) /\ next > d /\ modifyNextFreqAndSaveToDisk(p, Capped(next, pre))
      \/ ~Known(p) /\ next > d /\ insertNewFreqAndInsertToDisk(p, Capped(next, pre))
      \/ UNCHANGED <<gSmartLaunchPackageInfo, dlFile, unsaved>>
  BY <1>2, <1>3, <1>4 DEF calcNextLaunchPower
<1>7. \/ gSmartLaunchPackageInfo' = gSmartLaunchPackageInfo
      \/ \E v \in {NotLearned} \cup 1 .. MinLevelOpp :
           gSmartLaunchPackageInfo' = [gSmartLaunchPackageInfo EXCEPT ![p] = v]
  BY <1>5, <1>6 DEF deletePackageAndUpdateToDisk, modifyNextFreqAndSaveToDisk,
                    insertNewFreqAndInsertToDisk, Store
<1> QED BY <1>7 DEF LevelInv, FileInv

\* A restart reads back what was learned, or nothing.
LEMMA RestartLevel ==
  ASSUME FileInv, LevelInv, Restart
  PROVE  \A q \in LaunchPackage : gSmartLaunchPackageInfo'[q] \in {NotLearned} \cup 1 .. MinLevelOpp
<1>1. dlFile' \in {dlFile, Corrupt} /\ gSmartLaunchPackageInfo' = parsePackInfo(dlFile')
  BY DEF Restart
<1>2. CASE dlFile' = Corrupt
  BY <1>1, <1>2, CorruptFacts
<1>3. ASSUME dlFile' # Corrupt, NEW q \in LaunchPackage
      PROVE  gSmartLaunchPackageInfo'[q] \in {NotLearned} \cup 1 .. MinLevelOpp
  <2>1. dlFile' = dlFile /\ GoodFile(dlFile)
    BY <1>1, <1>3 DEF FileInv
  <2>2. CASE Mine(dlFile, q) = {}
    BY <1>1, <2>1, <2>2, ParseFacts
  <2>3. ASSUME NEW i \in Mine(dlFile, q)
        PROVE  gSmartLaunchPackageInfo'[q] \in {NotLearned} \cup 1 .. MinLevelOpp
    <3>1. gSmartLaunchPackageInfo'[q] = dlFile[i].value
      BY <1>1, <2>1, ParseFacts
    <3>2. q \notin unsaved
      BY <1>1, <1>3, <2>1 DEF FileInv
    <3>3. dlFile[i].value = gSmartLaunchPackageInfo[q]
      BY <1>3, <2>1, <3>2 DEF FileInv
    <3> QED BY <3>1, <3>3 DEF LevelInv
  <2> QED BY <2>2, <2>3
<1> QED BY <1>2, <1>3

\* The hint's own list has operating points.
LEMMA DefaultLevel == DefaultRsc \in Seq(0 .. MinLevelOpp) /\ 0 \in 0 .. MaxOpen
<1>1. DefaultOpp \in 0 .. MinLevelOpp /\ 0 \in 0 .. MaxOpen
  BY SmartLaunchAssumption
<1>2. PICK S : S = 0 .. MinLevelOpp
  OBVIOUS
<1>3. <<DefaultOpp>> \in Seq(S) /\ <<>> \in Seq(S)
  BY <1>1, <1>2
<1> QED BY <1>1, <1>2, <1>3 DEF DefaultRsc

\* Ending a launch puts an operating point back, or takes one out.
LEMMA ResetLevel ==
  ASSUME LevelInv, resetLaunchPolicyToDefault
  PROVE  freqRsc' \in Seq(0 .. MinLevelOpp) /\ open' \in 0 .. MaxOpen
<1>1. /\ DefaultOpp \in Nat /\ MinLevelOpp \in Nat /\ DefaultOpp < MinLevelOpp /\ MaxOpen \in Nat
  BY SmartLaunchAssumption
<1>2. PICK S : S = 0 .. MinLevelOpp
  OBVIOUS
<1>3. PICK d \in S : d = gBigClusterDefaultOPP
  BY <1>1, <1>2 DEF gBigClusterDefaultOPP
<1>4. freqRsc \in Seq(S)
  BY <1>2 DEF LevelInv
<1>5. HintRscList_modify(d) \in Seq(S) /\ HintRscList_remove \in Seq(S)
  BY <1>3, <1>4 DEF HintRscList_modify, HintRscList_remove
<1>6. freqRsc' \in Seq(S)
  BY <1>3, <1>5 DEF resetLaunchPolicyToDefault
<1>7. open' \in 0 .. MaxOpen
  BY <1>1 DEF resetLaunchPolicyToDefault, LevelInv
<1> QED BY <1>2, <1>6, <1>7

\* Starting one puts the learned point, or the default, in its place.
LEMMA StartLevel ==
  ASSUME LevelInv, NEW p \in LaunchPackage, handleCurrentLaunchPolicy(p)
  PROVE  freqRsc' \in Seq(0 .. MinLevelOpp) /\ open' \in 0 .. MaxOpen
<1>1. /\ DefaultOpp \in Nat /\ MinLevelOpp \in Nat /\ DefaultOpp < MinLevelOpp /\ MaxOpen \in Nat
  BY SmartLaunchAssumption
<1>2. PICK S : S = 0 .. MinLevelOpp
  OBVIOUS
<1>3. freqRsc \in Seq(S)
  BY <1>2 DEF LevelInv
<1>4. \A over \in BOOLEAN : pickCurrentFreq(p, over) \in S
  BY <1>1, <1>2 DEF pickCurrentFreq, gBigClusterDefaultOPP, LevelInv, Known
<1>5. PICK v \in S :
        freqRsc' = IF policy.supported THEN HintRscList_modify(v)
                   ELSE IF v # gBigClusterDefaultOPP THEN HintRscList_append(v)
                   ELSE HintRscList_remove
  BY <1>4 DEF handleCurrentLaunchPolicy
<1>6. /\ HintRscList_modify(v) \in Seq(S) /\ HintRscList_remove \in Seq(S)
      /\ HintRscList_append(v) \in Seq(S)
  BY <1>3 DEF HintRscList_modify, HintRscList_remove, HintRscList_append
<1>7. freqRsc' \in Seq(S)
  BY <1>5, <1>6
<1>8. open' \in 0 .. MaxOpen
  BY <1>1 DEF handleCurrentLaunchPolicy, LevelInv
<1> QED BY <1>2, <1>7, <1>8

\* Whatever the kernel answers, however fast the launches follow each other, and whatever a
\* restart reads back: no point outside the big cluster's table is learned or put in the hint's
\* list (clampFreqOpp, Capped).
LEMMA LaunchTypes == LaunchSpec => []LaunchTypeOK
<1>1. LaunchInit => LevelInv
  <2> SUFFICES ASSUME LaunchInit PROVE LevelInv
    OBVIOUS
  <2> QED BY DefaultLevel DEF LaunchInit, LevelInv
<1>2. FileInv /\ LevelInv /\ [LaunchNext]_launchVars => LevelInv'
  <2> SUFFICES ASSUME FileInv, LevelInv, [LaunchNext]_launchVars PROVE LevelInv'
    OBVIOUS
  <2>1. ASSUME NEW p \in LaunchPackage, handleCurrentLaunchPolicy(p) PROVE LevelInv'
    <3>1. gSmartLaunchPackageInfo' = gSmartLaunchPackageInfo
      BY <2>1 DEF handleCurrentLaunchPolicy
    <3> QED BY <2>1, <3>1, StartLevel DEF LevelInv
  <2>2. ASSUME NEW p \in LaunchPackage, LaunchInfo(p) PROVE LevelInv'
    <3>1. freqRsc' \in Seq(0 .. MinLevelOpp) /\ open' \in 0 .. MaxOpen
      BY <2>2, ResetLevel DEF LaunchInfo
    <3>2. \A q \in LaunchPackage : gSmartLaunchPackageInfo'[q] \in {NotLearned} \cup 1 .. MinLevelOpp
      BY <2>2, LearnsLevel DEF LaunchInfo
    <3> QED BY <3>1, <3>2 DEF LevelInv
  <2>3. ASSUME NEW p \in LaunchPackage, handlePackageUninstall(p) PROVE LevelInv'
    <3>1. gSmartLaunchPackageInfo' = [gSmartLaunchPackageInfo EXCEPT ![p] = NotLearned]
          /\ freqRsc' = freqRsc /\ open' = open
      BY <2>3 DEF handlePackageUninstall, deletePackageAndUpdateToDisk, Store
    <3> QED BY <3>1 DEF LevelInv, FileInv
  <2>4. CASE LaunchEnd
    BY <2>4, ResetLevel DEF LaunchEnd, LevelInv
  <2>5. CASE Restart
    <3>1. freqRsc' = DefaultRsc /\ open' = 0
      BY <2>5 DEF Restart
    <3> QED BY <2>5, <3>1, DefaultLevel, RestartLevel DEF LevelInv
  <2>6. CASE UNCHANGED launchVars
    BY <2>6 DEF launchVars, LevelInv
  <2> QED BY <2>1, <2>2, <2>3, <2>4, <2>5, <2>6 DEF LaunchNext
<1>3. FileInv /\ LevelInv => LaunchTypeOK
  <2> SUFFICES ASSUME FileInv, LevelInv PROVE LaunchTypeOK
    OBVIOUS
  <2>1. gSmartLaunchPackageInfo \in [LaunchPackage -> {NotLearned} \cup 1 .. MinLevelOpp]
    BY DEF FileInv, LevelInv
  <2>2. Range(freqRsc) \subseteq 0 .. MinLevelOpp
    <3>1. PICK S : S = 0 .. MinLevelOpp
      OBVIOUS
    <3>2. freqRsc \in Seq(S)
      BY <3>1 DEF LevelInv
    <3>3. \A i \in DOMAIN freqRsc : freqRsc[i] \in S
      BY <3>2
    <3> QED BY <3>1, <3>3 DEF Range
  <2> QED BY <2>1, <2>2 DEF LaunchTypeOK, FileInv, LevelInv
<1> QED BY <1>1, <1>2, <1>3, FileInvariant, PTL DEF LaunchSpec
-----------------------------------------------------------------------------
(***************************************************************************)
(* Power timers: the weak-signal setter against the expiry.                *)
(***************************************************************************)
PtType ==
  /\ powerTimer \in [TimerEntry -> [used : BOOLEAN, p_pTimer : TimerNode \cup {"NULL"}, timer_cb : BOOLEAN]]
  /\ allocated \subseteq TimerNode
  /\ started \subseteq [node : TimerNode, entry : TimerEntry]
  /\ thread \in [do : {"select", "compare", "callback", "delete", "reset"},
                 pTimer : TimerNode \cup {"NULL"}, pData : TimerEntry]
  /\ setting \in [do : {"idle", "delete", "reset", "apply"}, idx : TimerEntry, enable : {0, 1}]
  /\ weakSigStatus \in {0, 1} /\ sigWanted \in {0, 1} /\ modem \in {0, 1}
  /\ mdGameOffTimeout \in BOOLEAN /\ raced \in BOOLEAN /\ misfreed \in BOOLEAN /\ unsent \in BOOLEAN

\* One entry of the table is used at most, and has a timer of its own.
TableInv ==
  /\ \A i \in TimerEntry : /\ powerTimer[i].used => powerTimer[i].timer_cb /\ powerTimer[i].p_pTimer \in TimerNode
                           /\ ~powerTimer[i].used => powerTimer[i].p_pTimer = "NULL"
  /\ \A i, j \in TimerEntry : powerTimer[i].used /\ powerTimer[j].used => i = j
  /\ ~mdGameOffTimeout => \A i \in TimerEntry : ~powerTimer[i].used
  /\ \A n \in allocated : \E i \in TimerEntry : powerTimer[i].used /\ powerTimer[i].p_pTimer = n
  /\ \A i \in TimerEntry : powerTimer[i].used /\ thread.do # "reset" /\ setting.do # "reset" =>
       powerTimer[i].p_pTimer \in allocated
  /\ \A s \in started : s.node \in allocated /\ powerTimer[s.entry].p_pTimer = s.node

\* Where the handler and the setter are: the entry they work on is the used one, and they are
\* never at work on it together.
WorkInv ==
  /\ thread.do # "select" => thread.pTimer \in TimerNode
  /\ thread.do \in {"callback", "delete", "reset"} => powerTimer[thread.pData].used /\ setting.do = "idle"
  /\ setting.do # "idle" => mdGameOffTimeout /\ started = {} /\ setting.enable = sigWanted
  /\ setting.do \in {"delete", "reset"} => powerTimer[setting.idx].used
  /\ setting.do = "apply" => \A i \in TimerEntry : ~powerTimer[i].used
  /\ thread.do = "reset" => started = {}
  /\ thread.do = "reset" \/ setting.do = "reset" => allocated = {}
  /\ setting.do = "idle" /\ thread.do \in {"select", "compare"} =>
       \A i \in TimerEntry : powerTimer[i].used =>
         \/ \E s \in started : s.entry = i
         \/ thread.do = "compare" /\ thread.pData = i /\ powerTimer[i].p_pTimer = thread.pTimer

\* What was asked and what was told.
SigInv ==
  /\ setting.do = "idle" => \A i \in TimerEntry : powerTimer[i].used => sigWanted = 0
  /\ setting.do = "idle" => \/ weakSigStatus = sigWanted
                            \/ /\ sigWanted = 0 /\ thread.do \notin {"delete", "reset"}
                               /\ \E i \in TimerEntry : powerTimer[i].used
  /\ ~unsent => modem = weakSigStatus

PtGood == ~misfreed /\ TableInv /\ WorkInv /\ SigInv
PtInv == PtType /\ (~raced => PtGood)

\* The types are kept.
LEMMA PtTypeKept ==
  ASSUME PtType, PowerTimerNext
  PROVE  PtType'
<1> USE PowerTimerAssumption
<1>1. 0 \in TimerEntry
  BY DEF TimerEntry
<1>2. CASE Expired
  BY <1>2 DEF PtType, Expired, sigVars
<1>3. CASE HandlerCompares
  <2>1. raced' \in BOOLEAN
    BY <1>3, Zenon DEF PtType, HandlerCompares
  <2> QED BY <1>1, <1>3, <2>1 DEF PtType, HandlerCompares, tableVars, sigVars, Waiting
<1>4. CASE HandlerCalls
  BY <1>4 DEF PtType, HandlerCalls, tableVars, sigVars, notify_rild_weak_signal_opt
<1>5. CASE HandlerDeletes
  BY <1>5 DEF PtType, HandlerDeletes, ptimer_delete, sigVars
<1>6. CASE HandlerResets
  BY <1>1, <1>6 DEF PtType, HandlerResets, reset_timer, NoTimer, sigVars, Waiting
<1>7. ASSUME NEW e \in {0, 1}, notify_rild_weak_sig_opt_set(e) PROVE PtType'
  <2>1. raced' \in BOOLEAN /\ misfreed' \in BOOLEAN
    BY <1>7, Zenon DEF PtType, notify_rild_weak_sig_opt_set, tableVars
  <2>2. /\ UNCHANGED <<powerTimer, allocated, thread, mdGameOffTimeout>> /\ sigWanted' = e
        /\ started' \subseteq started
    BY <1>7 DEF notify_rild_weak_sig_opt_set, tableVars
  <2>3. weakSigStatus' \in {0, 1} /\ modem' \in {0, 1} /\ unsent' \in BOOLEAN
    BY <1>7 DEF PtType, notify_rild_weak_sig_opt_set, notify_rild_weak_signal_opt, sigVars
  <2>4. \/ setting' = setting \/ setting' = [do |-> "apply", idx |-> 0, enable |-> e]
        \/ \E i \in TimerEntry : setting' = [do |-> "delete", idx |-> i, enable |-> e]
    BY <1>7 DEF notify_rild_weak_sig_opt_set
  <2>5. setting' \in [do : {"idle", "delete", "reset", "apply"}, idx : TimerEntry, enable : {0, 1}]
    BY <1>1, <2>4 DEF PtType
  <2> QED BY <2>1, <2>2, <2>3, <2>5 DEF PtType
<1>8. CASE CancelDeletes
  BY <1>8 DEF PtType, CancelDeletes, ptimer_delete, sigVars
<1>9. CASE CancelResets
  BY <1>9 DEF PtType, CancelResets, reset_timer, NoTimer, sigVars
<1>10. CASE Apply
  <2>1. /\ setting' = NotSetting /\ UNCHANGED <<thread, mdGameOffTimeout, sigWanted, raced>>
        /\ misfreed' = misfreed
    BY <1>10 DEF Apply, addTimerCallback, tableVars
  <2>2. NotSetting \in [do : {"idle", "delete", "reset", "apply"}, idx : TimerEntry, enable : {0, 1}]
    BY <1>1 DEF NotSetting
  <2>3. CASE notify_rild_weak_signal_opt(1) /\ UNCHANGED tableVars
    BY ZenonT(60), <2>1, <2>2, <2>3 DEF PtType, notify_rild_weak_signal_opt, tableVars, sigVars
  <2>4. CASE addTimerCallback /\ UNCHANGED sigVars
    <3>1. PICK i \in TimerEntry, r \in [used : BOOLEAN, p_pTimer : TimerNode \cup {"NULL"}, timer_cb : BOOLEAN] :
            powerTimer' = [powerTimer EXCEPT ![i] = r]
      BY <2>4 DEF addTimerCallback, NoTimer
    <3>2. allocated' \subseteq TimerNode /\ started' \subseteq [node : TimerNode, entry : TimerEntry]
      BY <2>4 DEF addTimerCallback, PtType
    <3> QED BY <2>1, <2>2, <2>4, <3>1, <3>2 DEF PtType, sigVars
  <2> QED BY <1>10, <2>3, <2>4 DEF Apply
<1> QED BY <1>2, <1>3, <1>4, <1>5, <1>6, <1>7, <1>8, <1>9, <1>10 DEF PowerTimerNext

\* The handler's steps.
LEMMA HandlerKeeps ==
  ASSUME PtType, PtGood, ~raced',
         Expired \/ HandlerCompares \/ HandlerCalls \/ HandlerDeletes \/ HandlerResets
  PROVE  PtGood'
<1> USE PowerTimerAssumption
<1>1. CASE Expired
  <2>1. TableInv'
    BY <1>1 DEF PtType, PtGood, TableInv, WorkInv, Expired
  <2>2. WorkInv'
    BY <1>1 DEF PtType, PtGood, TableInv, WorkInv, Expired
  <2>3. SigInv'
    BY <1>1 DEF PtType, PtGood, TableInv, WorkInv, SigInv, Expired, sigVars
  <2> QED BY <1>1, <2>1, <2>2, <2>3 DEF PtGood, Expired
<1>2. CASE HandlerCompares
  <2>1. TableInv'
    BY <1>2 DEF PtType, PtGood, TableInv, WorkInv, HandlerCompares, tableVars, Waiting
  <2>2. WorkInv'
    BY <1>2 DEF PtType, PtGood, TableInv, WorkInv, HandlerCompares, tableVars, Waiting, OnSameEntry
  <2>3. SigInv'
    BY <1>2 DEF PtType, PtGood, TableInv, WorkInv, SigInv, HandlerCompares, tableVars, sigVars, Waiting
  <2> QED BY <1>2, <2>1, <2>2, <2>3 DEF PtGood, HandlerCompares, tableVars
<1>3. CASE HandlerCalls
  <2>1. TableInv'
    BY <1>3 DEF PtType, PtGood, TableInv, WorkInv, HandlerCalls, tableVars
  <2>2. WorkInv'
    BY <1>3 DEF PtType, PtGood, TableInv, WorkInv, HandlerCalls, tableVars
  <2>3. SigInv'
    BY <1>3 DEF PtType, PtGood, TableInv, WorkInv, SigInv, HandlerCalls, tableVars, sigVars, notify_rild_weak_signal_opt
  <2> QED BY <1>3, <2>1, <2>2, <2>3 DEF PtGood, HandlerCalls, tableVars
<1>4. CASE HandlerDeletes
  <2>1. TableInv'
    BY <1>4 DEF PtType, PtGood, TableInv, WorkInv, HandlerDeletes, ptimer_delete
  <2>2. WorkInv'
    BY <1>4 DEF PtType, PtGood, TableInv, WorkInv, HandlerDeletes, ptimer_delete
  <2>3. SigInv'
    BY <1>4 DEF PtType, PtGood, TableInv, WorkInv, SigInv, HandlerDeletes, sigVars
  <2>4. ~misfreed'
    BY <1>4 DEF PtType, PtGood, TableInv, WorkInv, HandlerDeletes, ptimer_delete
  <2> QED BY <2>1, <2>2, <2>3, <2>4 DEF PtGood
<1>5. CASE HandlerResets
  <2>1. TableInv'
    BY <1>5 DEF PtType, PtGood, TableInv, WorkInv, HandlerResets, reset_timer, NoTimer, Waiting
  <2>2. WorkInv'
    BY <1>5 DEF PtType, PtGood, TableInv, WorkInv, HandlerResets, reset_timer, NoTimer, Waiting
  <2>3. SigInv'
    BY <1>5 DEF PtType, PtGood, TableInv, WorkInv, SigInv, HandlerResets, reset_timer, NoTimer, Waiting, sigVars
  <2> QED BY <1>5, <2>1, <2>2, <2>3 DEF PtGood, HandlerResets
<1> QED BY <1>1, <1>2, <1>3, <1>4, <1>5

\* The setter's steps.
LEMMA SetterKeeps ==
  ASSUME PtType, PtGood, ~raced', PtType',
         \/ \E e \in {0, 1} : notify_rild_weak_sig_opt_set(e)
         \/ CancelDeletes \/ CancelResets \/ Apply
  PROVE  PtGood'
<1> USE PowerTimerAssumption
<1>1. ASSUME NEW e \in {0, 1}, notify_rild_weak_sig_opt_set(e) PROVE PtGood'
  <2>1. /\ UNCHANGED <<powerTimer, allocated, thread, mdGameOffTimeout>>
        /\ setting.do = "idle" /\ sigWanted' = e
    BY <1>1 DEF notify_rild_weak_sig_opt_set, tableVars
  <2>2. ASSUME ~mdGameOffTimeout, notify_rild_weak_signal_opt(e), UNCHANGED <<tableVars, setting, raced>>
        PROVE  PtGood'
    <3>1. TableInv'
      BY <2>1, <2>2 DEF PtGood, TableInv, tableVars
    <3>2. \A i \in TimerEntry : ~powerTimer[i].used
      BY <2>2 DEF PtGood, TableInv
    <3>3. WorkInv'
      BY <2>1, <2>2, <3>2 DEF PtGood, WorkInv, tableVars
    <3>4. SigInv'
      BY <2>1, <2>2, <3>2 DEF PtGood, SigInv, tableVars, sigVars, notify_rild_weak_signal_opt
    <3> QED BY <2>2, <3>1, <3>3, <3>4 DEF PtGood, tableVars
  <2>3. ASSUME mdGameOffTimeout, \A i \in TimerEntry : ~Pending(i),
               setting' = [do |-> "apply", idx |-> 0, enable |-> e], UNCHANGED <<tableVars, sigVars, raced>>
        PROVE  PtGood'
    <3>1. \A i \in TimerEntry : ~powerTimer[i].used
      BY <2>3 DEF PtGood, TableInv, Pending
    <3>2. allocated = {} /\ started = {}
      BY <3>1 DEF PtGood, TableInv
    <3>3. TableInv'
      BY <2>1, <2>3 DEF PtGood, TableInv, tableVars
    <3>4. WorkInv'
      BY <2>1, <2>3, <3>1, <3>2 DEF PtGood, PtType, WorkInv, tableVars
    <3>5. SigInv'
      BY <2>1, <2>3 DEF PtGood, SigInv, tableVars, sigVars
    <3> QED BY <2>3, <3>3, <3>4, <3>5 DEF PtGood, tableVars
  <2>4. ASSUME NEW i \in TimerEntry, NEW n, n = powerTimer[i].p_pTimer,
               mdGameOffTimeout, find_timer(i),
               setting' = [do |-> "delete", idx |-> i, enable |-> e],
               started' = {s \in started : s.node # n},
               misfreed' = (misfreed \/ n \notin allocated \cup {"NULL"}),
               raced' = (raced \/ (thread.do \in {"callback", "delete", "reset"} /\ thread.pData = i)),
               UNCHANGED sigVars
        PROVE  PtGood'
    <3>1. powerTimer[i].used /\ \A j \in TimerEntry : powerTimer[j].used => j = i
      BY <2>4 DEF find_timer, Pending, PtGood, TableInv
    <3>2. ~(thread.do \in {"callback", "delete", "reset"} /\ thread.pData = i)
      BY <2>4, Zenon
    <3>3. thread.do \notin {"callback", "delete", "reset"}
      BY <3>1, <3>2 DEF PtGood, WorkInv, PtType
    <3>4. n \in allocated /\ n \in TimerNode
      BY <2>1, <2>4, <3>1, <3>3 DEF PtGood, TableInv
    <3>5. started' = {}
      BY <2>4, <3>1 DEF PtGood, TableInv, PtType
    <3>6. ~misfreed'
      BY <2>4, <3>4, Zenon DEF PtGood
    <3>7. TableInv'
      BY <2>1, <2>4, <3>3, <3>5 DEF PtGood, TableInv
    <3>8. WorkInv'
      BY <2>1, <2>4, <3>1, <3>3, <3>5 DEF PtGood, WorkInv
    <3>9. SigInv'
      BY <2>4 DEF PtGood, SigInv, sigVars
    <3> QED BY <3>6, <3>7, <3>8, <3>9 DEF PtGood
  <2> QED BY <1>1, <2>2, <2>3, <2>4 DEF notify_rild_weak_sig_opt_set
<1>2. CASE CancelDeletes
  <2>1. /\ setting.do = "delete" /\ setting' = [setting EXCEPT !.do = "reset"]
        /\ UNCHANGED <<powerTimer, thread, mdGameOffTimeout, sigVars, sigWanted>>
    BY <1>2 DEF CancelDeletes
  <2>2. PICK i \in TimerEntry : i = setting.idx
    BY DEF PtType
  <2>3. /\ powerTimer[i].used /\ thread.do \in {"select", "compare"}
        /\ \A j \in TimerEntry : powerTimer[j].used => j = i
    BY <2>1, <2>2 DEF PtGood, WorkInv, TableInv, PtType
  <2>4. powerTimer[i].p_pTimer \in allocated /\ allocated' = allocated \ {powerTimer[i].p_pTimer}
    BY <1>2, <2>1, <2>2, <2>3 DEF PtGood, TableInv, CancelDeletes, ptimer_delete
  <2>5. allocated' = {} /\ started' = {}
    BY <1>2, <2>1, <2>3, <2>4 DEF PtGood, TableInv, WorkInv, CancelDeletes, ptimer_delete
  <2>6. ~misfreed'
    BY <1>2, <2>2, <2>4 DEF PtGood, CancelDeletes, ptimer_delete
  <2>7. setting'.do = "reset" /\ setting'.idx = i /\ setting'.enable = setting.enable
    BY <2>1, <2>2 DEF PtType
  <2>8. TableInv'
    BY <2>1, <2>5, <2>7 DEF PtGood, TableInv
  <2>9. WorkInv'
    BY <2>1, <2>3, <2>5, <2>7 DEF PtGood, WorkInv
  <2>10. SigInv'
    BY <2>1, <2>7 DEF PtGood, SigInv, sigVars
  <2> QED BY <2>6, <2>8, <2>9, <2>10 DEF PtGood
<1>3. CASE CancelResets
  <2>1. /\ setting.do = "reset" /\ setting' = [setting EXCEPT !.do = "apply"]
        /\ powerTimer' = [powerTimer EXCEPT ![setting.idx] = NoTimer]
        /\ UNCHANGED <<allocated, started, misfreed, thread, mdGameOffTimeout, sigVars, sigWanted>>
    BY <1>3 DEF CancelResets, reset_timer
  <2>2. /\ powerTimer[setting.idx].used /\ thread.do \in {"select", "compare"}
        /\ allocated = {} /\ started = {} /\ setting.idx \in TimerEntry
        /\ \A j \in TimerEntry : powerTimer[j].used => j = setting.idx
    BY <2>1 DEF PtGood, WorkInv, TableInv, PtType
  <2>3. \A j \in TimerEntry : ~powerTimer'[j].used /\ powerTimer'[j].p_pTimer = "NULL"
    BY <2>1, <2>2 DEF PtType, PtGood, TableInv, NoTimer
  <2>4. setting'.do = "apply" /\ setting'.enable = setting.enable
    BY <2>1 DEF PtType
  <2>5. TableInv'
    BY <2>1, <2>2, <2>3 DEF TableInv
  <2>6. WorkInv'
    BY <2>1, <2>2, <2>3, <2>4 DEF PtGood, WorkInv
  <2>7. SigInv'
    BY <2>1, <2>4 DEF PtGood, SigInv, sigVars
  <2> QED BY <2>1, <2>5, <2>6, <2>7 DEF PtGood
<1>4. CASE Apply
  <2>1. /\ setting.do = "apply" /\ setting' = NotSetting
        /\ UNCHANGED <<thread, mdGameOffTimeout, sigWanted>>
        /\ setting.enable = sigWanted /\ mdGameOffTimeout /\ started = {}
    BY <1>4 DEF Apply, PtGood, WorkInv
  <2>2. /\ \A i \in TimerEntry : ~powerTimer[i].used
        /\ allocated = {} /\ thread.do \in {"select", "compare"}
    BY <2>1 DEF PtGood, WorkInv, TableInv, PtType
  <2>3. setting'.do = "idle"
    BY <2>1 DEF NotSetting
  <2>4. CASE setting.enable = 1 /\ notify_rild_weak_signal_opt(1) /\ UNCHANGED tableVars
    <3>1. TableInv'
      BY <2>1, <2>2, <2>4 DEF PtGood, TableInv, tableVars
    <3>2. WorkInv'
      BY <2>1, <2>2, <2>3, <2>4 DEF PtGood, WorkInv, tableVars
    <3>3. SigInv'
      BY <2>1, <2>2, <2>3, <2>4 DEF PtGood, SigInv, tableVars, sigVars, notify_rild_weak_signal_opt
    <3> QED BY <2>4, <3>1, <3>2, <3>3 DEF PtGood, tableVars
  <2>5. CASE setting.enable = 0 /\ addTimerCallback /\ UNCHANGED sigVars
    <3>1. PICK i \in TimerEntry, n \in TimerNode :
            /\ powerTimer' = [powerTimer EXCEPT ![i] = [used |-> TRUE, p_pTimer |-> n, timer_cb |-> TRUE]]
            /\ allocated' = allocated \cup {n}
            /\ started' = started \cup {[node |-> n, entry |-> i]}
            /\ misfreed' = misfreed
      BY <2>2, <2>5 DEF addTimerCallback
    <3>2. allocated' = {n} /\ started' = {[node |-> n, entry |-> i]}
      BY <2>1, <2>2, <3>1
    <3>3. /\ powerTimer'[i].used /\ powerTimer'[i].p_pTimer = n /\ powerTimer'[i].timer_cb
          /\ \A j \in TimerEntry : j # i => powerTimer'[j] = powerTimer[j]
      BY <3>1 DEF PtType
    <3>4. TableInv'
      BY <2>1, <2>2, <3>2, <3>3 DEF PtGood, TableInv
    <3>5. WorkInv'
      BY <2>1, <2>2, <2>3, <3>2, <3>3 DEF PtGood, WorkInv
    <3>6. SigInv'
      BY <2>1, <2>2, <2>3, <2>5, <3>3 DEF PtGood, SigInv, sigVars
    <3> QED BY <3>1, <3>4, <3>5, <3>6 DEF PtGood
  <2> QED BY <1>4, <2>4, <2>5 DEF Apply
<1> QED BY <1>1, <1>2, <1>3, <1>4

\* The invariant holds in every behaviour.
LEMMA PtInvariant == PowerTimerSpec => []PtInv
<1> USE PowerTimerAssumption
<1>1. PowerTimerInit => PtInv
  <2> SUFFICES ASSUME PowerTimerInit PROVE PtInv
    OBVIOUS
  <2>1. PtType
    <3>1. 0 \in TimerEntry
      BY DEF TimerEntry
    <3>2. /\ thread = [do |-> "select", pTimer |-> "NULL", pData |-> 0]
          /\ setting = [do |-> "idle", idx |-> 0, enable |-> 0]
          /\ powerTimer = [i \in TimerEntry |-> [used |-> FALSE, p_pTimer |-> "NULL", timer_cb |-> FALSE]]
      BY DEF PowerTimerInit, init_timer, NoTimer, Waiting, NotSetting
    <3>3. /\ mdGameOffTimeout \in BOOLEAN /\ raced \in BOOLEAN /\ misfreed \in BOOLEAN /\ unsent \in BOOLEAN
          /\ weakSigStatus \in {0, 1} /\ sigWanted \in {0, 1} /\ modem \in {0, 1} /\ allocated = {} /\ started = {}
      BY DEF PowerTimerInit, init_timer
    <3> QED BY <3>1, <3>2, <3>3 DEF PtType
  <2>2. PtGood
    BY DEF PowerTimerInit, init_timer, PtGood, TableInv, WorkInv, SigInv, NoTimer, Waiting, NotSetting
  <2> QED BY <2>1, <2>2 DEF PtInv
<1>2. PtInv /\ [PowerTimerNext]_ptVars => PtInv'
  <2> SUFFICES ASSUME PtInv, [PowerTimerNext]_ptVars PROVE PtInv'
    OBVIOUS
  <2>1. CASE PowerTimerNext
    <3>1. PtType'
      BY <2>1, PtTypeKept DEF PtInv
    <3>2. raced => raced'
      BY <2>1, Zenon DEF PowerTimerNext, Expired, HandlerCompares, HandlerCalls, HandlerDeletes, HandlerResets,
                         notify_rild_weak_sig_opt_set, CancelDeletes, CancelResets, Apply
    <3>3. ASSUME ~raced' PROVE PtGood'
      BY <2>1, <3>1, <3>2, <3>3, HandlerKeeps, SetterKeeps DEF PtInv, PowerTimerNext
    <3> QED BY <3>1, <3>3 DEF PtInv
  <2>2. CASE UNCHANGED ptVars
    BY <2>2 DEF ptVars, PtInv, PtType, PtGood, TableInv, WorkInv, SigInv
  <2> QED BY <2>1, <2>2
<1> QED BY <1>1, <1>2, PTL DEF PowerTimerSpec

\* As long as no cancel meets the handler on one entry, no timer is freed twice, and whenever
\* nobody is at work the modem was told what was asked last, or the delayed switch-off is
\* on its way (powerTimerHandler against notify_rild_weak_sig_opt_set): for every size of
\* the callback table and whatever memory malloc hands out again.
THEOREM WeakSigIsFollowed == PowerTimerSpec => []WeakSigFollows
<1>1. PtInv => WeakSigFollows
  <2> SUFFICES ASSUME PtType, PtGood PROVE WeakSigFollows
    BY DEF PtInv, WeakSigFollows
  <2>1. \A s \in started : s.entry \in TimerEntry /\ s.node \in TimerNode /\ powerTimer[s.entry].used
    BY PowerTimerAssumption DEF PtType, PtGood, TableInv
  <2> QED BY <2>1 DEF PtGood, TableInv, WorkInv, SigInv, WeakSigFollows, AtRestPT
<1> QED BY <1>1, PtInvariant, PTL

\* The types of the power timers, raced or not.
LEMMA PtTypes == PowerTimerSpec => []PowerTimerTypeOK
<1>1. PtInv => PowerTimerTypeOK
  BY DEF PtInv, PtType, PowerTimerTypeOK
<1> QED BY <1>1, PtInvariant, PTL

-----------------------------------------------------------------------------
(***************************************************************************)
(* Handles that callers keep.                                              *)
(***************************************************************************)
Purpose == LockMode \cup Hint \cup Shared \cup {"boot", "boost"}
RealHandle == Purpose \X (Nat \ {0})
AnyHandle == RealHandle \cup {NoHdl}
WorkMsg == [op : {"acq", "rel"}, hdl : RealHandle]
DyingIn(w, h) == \E i \in DOMAIN w : w[i].op = "rel" /\ w[i].hdl = h

Lock == [hdl : RealHandle, who : Purpose, timed : BOOLEAN, state : {"registered", "on", "off"}]

\* A lock has a handle of its own, of its purpose.
LocksOK(L) ==
  /\ L \subseteq Lock
  /\ \A l \in L : l.hdl[1] = l.who /\ (l.who \in Hint \cup Shared => l.timed)
  /\ \A l, k \in L : l.hdl = k.hdl => l = k

\* So has an entry of a table.
TableOK(t, S) == t \in [S -> AnyHandle] /\ \A x \in S : t[x] # NoHdl => t[x][1] = x
TablesOK ==
  /\ TableOK(powerTbl, LockMode) /\ TableOK(mtkTbl, Hint) /\ TableOK(sharedHdl, Shared)
  /\ boot \in [pc : {"start", "poll", "done"}, hdl : AnyHandle]
  /\ boot.hdl # NoHdl => boot.hdl[1] = "boot"

HandleInv ==
  /\ LocksOK(hlocks) /\ TablesOK /\ work \in Seq(WorkMsg) /\ modeOn \subseteq LockMode
  /\ boot.pc = "start" => boot.hdl = NoHdl
  /\ HandlesHeld

\* The purposes are apart.
LEMMA PurposesApart ==
  /\ LockMode \cap Hint = {} /\ LockMode \cap Shared = {} /\ Hint \cap Shared = {}
  /\ {"boot", "boost"} \cap (LockMode \cup Hint \cup Shared) = {}
BY HintHandlesAssumption DEF Shared

\* Who holds a lock.
LEMMA HolderFacts ==
  ASSUME NEW l
  PROVE  /\ l.who \in LockMode => Holder(l) = powerTbl[l.who]
         /\ l.who \in Hint => Holder(l) = mtkTbl[l.who]
         /\ l.who \in Shared => Holder(l) = sharedHdl[l.who]
         /\ l.who = "boot" => Holder(l) = boot.hdl
         /\ l.who = "boost" => Holder(l) = NoHdl
BY PurposesApart DEF Holder

\* The same one step later.
LEMMA HolderNext ==
  ASSUME NEW l
  PROVE  /\ l.who \in LockMode => Holder(l)' = powerTbl'[l.who]
         /\ l.who \in Hint => Holder(l)' = mtkTbl'[l.who]
         /\ l.who \in Shared => Holder(l)' = sharedHdl'[l.who]
         /\ l.who = "boot" => Holder(l)' = boot'.hdl
         /\ l.who = "boost" => Holder(l)' = NoHdl
BY PurposesApart DEF Holder

\* A new handle is one of its purpose that nobody has.
LEMMA NewHandleFacts ==
  ASSUME NEW who \in Purpose, NEW h \in NewHandles(who)
  PROVE  /\ h \in RealHandle /\ h[1] = who /\ h # NoHdl
         /\ \A l \in hlocks : l.hdl # h
         /\ \A x \in DOMAIN powerTbl : powerTbl[x] # h
         /\ \A x \in DOMAIN mtkTbl : mtkTbl[x] # h
         /\ ~Dying(h)
<1>1. PICK n \in HandleNumber : h = <<who, n>> /\ h \notin InUse
  BY DEF NewHandles
<1>2. n \in Nat \ {0}
  BY DEF HandleNumber
<1>3. h \in RealHandle /\ h[1] = who /\ h[2] = n
  BY <1>1, <1>2 DEF RealHandle
<1>4. h # NoHdl
  BY <1>2, <1>3 DEF NoHdl
<1>5. /\ \A l \in hlocks : l.hdl # h
      /\ \A i \in DOMAIN work : work[i].hdl # h
  BY <1>1 DEF InUse
<1>6. /\ \A x \in DOMAIN powerTbl : powerTbl[x] # h
      /\ \A x \in DOMAIN mtkTbl : mtkTbl[x] # h
  BY <1>1 DEF InUse, Range
<1> QED BY <1>3, <1>4, <1>5, <1>6 DEF Dying

\* What CusLockHint gives.
LEMMA CusLockFacts ==
  ASSUME NEW who \in Purpose, NEW h \in CusLockHint(who)
  PROVE  h = NoHdl \/ h \in NewHandles(who)
BY DEF CusLockHint

\* A lock is added under a new handle.
LEMMA AddLock ==
  ASSUME NEW L, LocksOK(L), NEW x \in Lock, x.hdl[1] = x.who, x.who \in Hint \cup Shared => x.timed,
         \A l \in L : l.hdl # x.hdl
  PROVE  LocksOK(L \cup {x})
BY DEF LocksOK, Lock

\* What a call adds to the locks: nothing, or one lock under its new handle.
Added(N, h, who) ==
  IF h = NoHdl THEN N = {}
  ELSE \E x \in Lock : /\ N = {x} /\ x.hdl = h /\ x.who = who
                       /\ who \in Hint \cup Shared => x.timed

\* So it is with the lock a call asks for.
LEMMA NewLockFacts ==
  ASSUME NEW who, NEW timed \in BOOLEAN, NEW h \in AnyHandle, h # NoHdl => who \in Purpose,
         who \in Hint \cup Shared => timed
  PROVE  Added(NewLock(h, who, timed), h, who)
<1>1. CASE h = NoHdl
  BY <1>1 DEF Added, NewLock
<1>2. CASE h # NoHdl
  <2>1. PICK x : x = [hdl |-> h, who |-> who, timed |-> timed, state |-> "registered"]
    OBVIOUS
  <2>2. NewLock(h, who, timed) = {x}
    BY <1>2, <2>1 DEF NewLock
  <2>3. h \in RealHandle /\ who \in Purpose
    BY <1>2 DEF AnyHandle
  <2>4. x \in Lock /\ x.hdl = h /\ x.who = who /\ x.timed = timed
    BY <2>1, <2>3 DEF Lock
  <2> QED BY <1>2, <2>2, <2>4 DEF Added
<1> QED BY <1>1, <1>2

\* The locks after a call.
LEMMA AddedFacts ==
  ASSUME NEW L, LocksOK(L), NEW N, NEW h, NEW who, Added(N, h, who),
         h # NoHdl => h[1] = who /\ \A l \in L : l.hdl # h
  PROVE  LocksOK(L \cup N)
<1>1. CASE h = NoHdl
  BY <1>1 DEF Added
<1>2. CASE h # NoHdl
  <2>1. PICK x \in Lock : /\ N = {x} /\ x.hdl = h /\ x.who = who
                          /\ who \in Hint \cup Shared => x.timed
    BY <1>2 DEF Added
  <2>2. LocksOK(L \cup {x})
    BY <1>2, <2>1, AddLock
  <2> QED BY <2>1, <2>2, Zenon
<1> QED BY <1>1, <1>2

\* What the messages of a call release.
LEMMA MessageFacts ==
  ASSUME NEW h \in AnyHandle
  PROVE  /\ Acq(h) \in Seq(WorkMsg) /\ Rel(h) \in Seq(WorkMsg)
         /\ \A x : ~DyingIn(Acq(h), x)
         /\ \A x : DyingIn(Rel(h), x) <=> h # NoHdl /\ x = h
<1>1. CASE h = NoHdl
  BY <1>1 DEF Acq, Rel, Message, DyingIn
<1>2. CASE h # NoHdl
  <2>1. Acq(h) = <<[op |-> "acq", hdl |-> h]>> /\ Rel(h) = <<[op |-> "rel", hdl |-> h]>>
    BY <1>2 DEF Acq, Rel, Message
  <2>2. [op |-> "acq", hdl |-> h] \in WorkMsg /\ [op |-> "rel", hdl |-> h] \in WorkMsg
    BY <1>2 DEF WorkMsg, AnyHandle
  <2>3. DOMAIN Acq(h) = {1} /\ Acq(h)[1].op = "acq"
    BY <2>1
  <2>4. DOMAIN Rel(h) = {1} /\ Rel(h)[1].op = "rel" /\ Rel(h)[1].hdl = h
    BY <2>1
  <2> QED BY <1>2, <2>1, <2>2, <2>3, <2>4 DEF DyingIn
<1> QED BY <1>1, <1>2

\* Queues one after the other.
LEMMA ConcatFacts ==
  ASSUME NEW a \in Seq(WorkMsg), NEW b \in Seq(WorkMsg)
  PROVE  /\ a \o b \in Seq(WorkMsg)
         /\ \A x : DyingIn(a \o b, x) <=> DyingIn(a, x) \/ DyingIn(b, x)
<1>1. PICK c : c = a \o b
  OBVIOUS
<1>2. PICK m \in Nat, n \in Nat : m = Len(a) /\ n = Len(b) /\ DOMAIN a = 1 .. m /\ DOMAIN b = 1 .. n
  OBVIOUS
<1>3. /\ c \in Seq(WorkMsg) /\ DOMAIN c = 1 .. m + n
      /\ \A i \in 1 .. m + n : c[i] = IF i <= m THEN a[i] ELSE b[i - m]
  <2>1. /\ c \in Seq(WorkMsg) /\ Len(c) = Len(a) + Len(b)
        /\ \A i \in 1 .. Len(a) + Len(b) : c[i] = IF i <= Len(a) THEN a[i] ELSE b[i - Len(a)]
    BY <1>1, ConcatProperties
  <2> QED BY <1>2, <2>1
<1>4. ASSUME NEW x, DyingIn(c, x) PROVE DyingIn(a, x) \/ DyingIn(b, x)
  <2>1. PICK i \in 1 .. m + n : c[i].op = "rel" /\ c[i].hdl = x
    BY <1>3, <1>4 DEF DyingIn
  <2>2. CASE i <= m
    <3>1. i \in DOMAIN a /\ c[i] = a[i]
      BY <1>2, <1>3, <2>2
    <3> QED BY <2>1, <3>1 DEF DyingIn
  <2>3. CASE ~(i <= m)
    <3>1. i - m \in 1 .. n
      BY <2>3
    <3> QED BY <1>2, <1>3, <2>1, <2>3, <3>1 DEF DyingIn
  <2> QED BY <2>2, <2>3
<1>5. ASSUME NEW x, DyingIn(a, x) PROVE DyingIn(c, x)
  <2>1. PICK i \in 1 .. m : a[i].op = "rel" /\ a[i].hdl = x
    BY <1>2, <1>5 DEF DyingIn
  <2>2. i \in 1 .. m + n /\ c[i] = a[i]
    BY <1>3
  <2> QED BY <1>3, <2>1, <2>2 DEF DyingIn
<1>6. ASSUME NEW x, DyingIn(b, x) PROVE DyingIn(c, x)
  <2>1. PICK i \in 1 .. n : b[i].op = "rel" /\ b[i].hdl = x
    BY <1>2, <1>6 DEF DyingIn
  <2>2. PICK j \in 1 .. m + n : j = i + m /\ ~(j <= m) /\ j - m = i
    <3>1. i + m \in 1 .. m + n /\ ~(i + m <= m) /\ (i + m) - m = i
      OBVIOUS
    <3> QED BY <3>1
  <2>3. c[j] = b[i]
    BY <1>3, <2>2
  <2> QED BY <1>3, <2>1, <2>2, <2>3 DEF DyingIn
<1> QED BY <1>1, <1>3, <1>4, <1>5, <1>6

\* The queue after a call.
LEMMA QueuedFacts ==
  ASSUME work \in Seq(WorkMsg), NEW msgs \in Seq(WorkMsg), Queued(msgs)
  PROVE  /\ work' \in Seq(WorkMsg)
         /\ \A x : Dying(x)' <=> Dying(x) \/ DyingIn(msgs, x)
<1>1. work' = work \o msgs
  BY DEF Queued
<1>2. \A x : (Dying(x) <=> DyingIn(work, x)) /\ (Dying(x)' <=> DyingIn(work', x))
  BY DEF Dying, DyingIn
<1> QED BY <1>1, <1>2, ConcatFacts

\* The queue and the locks after one lock took another's place.
Replaced(h1, h2, who) ==
  /\ work' \in Seq(WorkMsg) /\ LocksOK(hlocks') /\ hlocks \subseteq hlocks'
  /\ \A x : Dying(x)' <=> Dying(x) \/ (h1 # NoHdl /\ x = h1)
  /\ \A l \in hlocks' \ hlocks : l.hdl = h2 /\ l.who = who
  /\ h2 # NoHdl => \E l \in hlocks' : l.hdl = h2 /\ l.who = who

\* A new handle takes the place of an old one: the old lock is on its way to be released.
LEMMA ReplaceFacts ==
  ASSUME HandleInv, NEW who \in Purpose, NEW h1 \in AnyHandle,
         NEW h2, h2 = NoHdl \/ h2 \in NewHandles(who), NEW N, Added(N, h2, who),
         hlocks' = hlocks \cup N, Queued(Acq(h2) \o Rel(h1))
  PROVE  Replaced(h1, h2, who)
<1>1. h2 = NoHdl \/ (h2 \in RealHandle /\ h2[1] = who /\ \A l \in hlocks : l.hdl # h2)
  BY NewHandleFacts
<1>2. h2 \in AnyHandle
  BY <1>1 DEF AnyHandle
<1>3. /\ Acq(h2) \o Rel(h1) \in Seq(WorkMsg)
      /\ \A x : DyingIn(Acq(h2) \o Rel(h1), x) <=> h1 # NoHdl /\ x = h1
  BY <1>2, MessageFacts, ConcatFacts
<1>4. LocksOK(hlocks) /\ work \in Seq(WorkMsg)
  BY DEF HandleInv
<1>5. LocksOK(hlocks \cup N)
  <2>1. h2 # NoHdl => h2[1] = who /\ \A l \in hlocks : l.hdl # h2
    BY <1>1
  <2> QED BY <1>4, <2>1, AddedFacts, Zenon
<1>6. LocksOK(hlocks')
  BY <1>5, Zenon
<1>7. /\ \A l \in N : l.hdl = h2 /\ l.who = who
      /\ h2 # NoHdl => \E l \in N : l.hdl = h2 /\ l.who = who
  BY DEF Added
<1>8. work' \in Seq(WorkMsg) /\ \A x : Dying(x)' <=> Dying(x) \/ DyingIn(Acq(h2) \o Rel(h1), x)
  BY <1>3, <1>4, QueuedFacts
<1> QED BY <1>3, <1>6, <1>7, <1>8 DEF Replaced

\* A lock that was accounted for still is, if its handle is still held or has become dying or
\* adrift.
Accounted(l) ==
  Holder(l) = l.hdl \/ Dying(l.hdl) \/ (l.hdl \in adrift /\ (l.timed \/ l.who = "boost"))

\* So no step need look at the locks it does not touch.
LEMMA OldKept ==
  ASSUME HandleInv, NEW l \in hlocks, \A x : Dying(x) => Dying(x)', adrift \subseteq adrift',
         Holder(l) = l.hdl =>
           Holder(l)' = l.hdl \/ Dying(l.hdl)' \/ (l.hdl \in adrift' /\ (l.timed \/ l.who = "boost"))
  PROVE  Accounted(l)'
BY DEF HandleInv, HandlesHeld, Accounted

\* A handle has the purpose of its holder.
LEMMA LockFacts ==
  ASSUME HandleInv, NEW l \in hlocks
  PROVE  /\ l.hdl \in RealHandle /\ l.hdl # NoHdl /\ l.who \in Purpose /\ l.hdl[1] = l.who
         /\ l.who \in Hint \cup Shared => l.timed
<1>1. l.hdl \in RealHandle /\ l.who \in Purpose /\ l.hdl[1] = l.who
  BY DEF HandleInv, LocksOK, Lock
<1>2. NoHdl \notin RealHandle
  BY DEF NoHdl, RealHandle
<1> QED BY <1>1, <1>2 DEF HandleInv, LocksOK, Lock

\* setMode: the old lock is released, and it is not the one that was just stored.
LEMMA SetModeKeeps ==
  ASSUME HandleInv, NEW m \in LockMode, NEW enabled \in BOOLEAN, setMode(m, enabled)
  PROVE  HandleInv'
<1>1. PICK h2 : /\ h2 = NoHdl \/ h2 \in NewHandles(m)
                /\ Replace(powerTbl[m], h2, m, m # "SUSTAINED_PERFORMANCE")
                /\ powerTbl' = [powerTbl EXCEPT ![m] = h2]
                /\ modeOn' = IF h2 # NoHdl THEN modeOn \cup {m} ELSE modeOn \ {m}
                /\ UNCHANGED <<mtkTbl, sharedHdl, boot, adrift>>
  BY DEF setMode, CusLockHint
<1>2. m \in Purpose /\ m \notin Hint \cup Shared
  BY PurposesApart DEF Purpose
<1>3. TableOK(powerTbl, LockMode)
  BY DEF HandleInv, TablesOK
<1>4. PICK h1 \in AnyHandle : h1 = powerTbl[m] /\ (h1 # NoHdl => h1[1] = m)
  BY <1>3 DEF TableOK
<1>5. PICK N : Added(N, h2, m) /\ hlocks' = hlocks \cup N /\ Queued(Acq(h2) \o Rel(h1))
  <2>1. PICK t \in BOOLEAN : Replace(h1, h2, m, t)
    BY <1>1, <1>4
  <2>2. h2 \in AnyHandle
    BY <1>1, <1>2, NewHandleFacts DEF AnyHandle
  <2>3. Added(NewLock(h2, m, t), h2, m)
    BY <1>2, <2>2, NewLockFacts
  <2> QED BY <2>1, <2>3 DEF Replace
<1>6. Replaced(h1, h2, m)
  BY <1>1, <1>2, <1>5, ReplaceFacts, Zenon
<1>7. /\ h2 \in AnyHandle /\ (h2 # NoHdl => h2[1] = m /\ h2 # h1 /\ ~Dying(h2))
  <2>1. h2 # NoHdl => h2 \in RealHandle /\ h2[1] = m /\ h2 # powerTbl[m] /\ ~Dying(h2)
    BY <1>1, <1>2, <1>3, NewHandleFacts DEF TableOK
  <2> QED BY <1>4, <2>1 DEF AnyHandle
<1>8. /\ TableOK(powerTbl', LockMode) /\ powerTbl'[m] = h2
      /\ \A x \in LockMode : x # m => powerTbl'[x] = powerTbl[x]
  BY <1>1, <1>3, <1>7 DEF TableOK
<1>9. ASSUME NEW l \in hlocks' PROVE Accounted(l)'
  <2>1. CASE l \in hlocks
    <3>1. l.who \in Purpose /\ l.hdl # NoHdl
      BY <2>1, LockFacts
    <3>2. Holder(l) = l.hdl => Holder(l)' = l.hdl \/ Dying(l.hdl)'
      <4>1. CASE l.who = m
        BY <1>4, <1>6, <3>1, <4>1, HolderFacts DEF Replaced
      <4>2. CASE l.who # m
        BY <1>1, <1>8, <3>1, <4>2, HolderFacts, HolderNext DEF Purpose
      <4> QED BY <4>1, <4>2
    <3> QED BY <1>1, <1>6, <2>1, <3>2, OldKept DEF Replaced
  <2>2. CASE l \notin hlocks
    <3>1. l.hdl = h2 /\ l.who = m
      BY <1>6, <2>2 DEF Replaced
    <3>2. Holder(l)' = h2
      BY <1>8, <3>1, HolderNext
    <3> QED BY <3>1, <3>2 DEF Accounted
  <2> QED BY <2>1, <2>2
<1>10. ASSUME NEW x \in modeOn'
       PROVE  \E l \in hlocks' : l.hdl = powerTbl'[x] /\ l.who = x /\ ~Dying(l.hdl)'
  <2>1. CASE x = m
    <3>1. h2 # NoHdl
      BY <1>1, <1>10, <2>1
    <3>2. PICK l \in hlocks' : l.hdl = h2 /\ l.who = m
      BY <1>6, <3>1 DEF Replaced
    <3>3. ~Dying(h2)'
      BY <1>6, <1>7, <3>1 DEF Replaced
    <3> QED BY <1>8, <2>1, <3>2, <3>3
  <2>2. CASE x # m
    <3>1. x \in modeOn /\ x \in LockMode
      BY <1>1, <1>10, <2>2 DEF HandleInv
    <3>2. PICK l \in hlocks : l.hdl = powerTbl[x] /\ l.who = x /\ ~Dying(l.hdl)
      BY <3>1 DEF HandleInv, HandlesHeld
    <3>3. l.hdl[1] = x
      BY <3>2, LockFacts
    <3>4. ~Dying(l.hdl)'
      BY <1>4, <1>6, <2>2, <3>2, <3>3 DEF Replaced
    <3> QED BY <1>6, <1>8, <2>2, <3>1, <3>2, <3>4 DEF Replaced
  <2> QED BY <2>1, <2>2
<1>11. modeOn' \subseteq LockMode
  BY <1>1 DEF HandleInv
<1>12. HandlesHeld'
  BY <1>9, <1>10 DEF HandlesHeld, Accounted
<1> QED BY <1>1, <1>6, <1>8, <1>11, <1>12 DEF HandleInv, TablesOK, Replaced

\* The modes' locks are left alone by a step that releases none of theirs.
LEMMA ModesKept ==
  ASSUME HandleInv, powerTbl' = powerTbl, modeOn' = modeOn,
         \A l \in hlocks : \E k \in hlocks' : k.hdl = l.hdl /\ k.who = l.who,
         \A x : Dying(x)' => Dying(x) \/ x[1] \notin LockMode
  PROVE  \A m \in modeOn' : \E l \in hlocks' : l.hdl = powerTbl'[m] /\ l.who = m /\ ~Dying(l.hdl)'
<1> SUFFICES ASSUME NEW m \in modeOn'
             PROVE  \E l \in hlocks' : l.hdl = powerTbl'[m] /\ l.who = m /\ ~Dying(l.hdl)'
  OBVIOUS
<1>1. m \in modeOn /\ m \in LockMode
  BY DEF HandleInv
<1>2. PICK l \in hlocks : l.hdl = powerTbl[m] /\ l.who = m /\ ~Dying(l.hdl)
  BY <1>1 DEF HandleInv, HandlesHeld
<1>3. l.hdl[1] = m
  BY <1>2, LockFacts
<1>4. PICK k \in hlocks' : k.hdl = l.hdl /\ k.who = l.who
  BY <1>2
<1>5. ~Dying(l.hdl)'
  BY <1>1, <1>2, <1>3
<1> QED BY <1>2, <1>4, <1>5

\* StartHint and EndCusHint: the same for a hint of the other service.
LEMMA HintKeeps ==
  ASSUME HandleInv, NEW hint \in Hint, NEW h2, h2 = NoHdl \/ h2 \in NewHandles(hint),
         Replace(mtkTbl[hint], h2, hint, TRUE), mtkTbl' = [mtkTbl EXCEPT ![hint] = h2],
         UNCHANGED <<powerTbl, sharedHdl, boot, modeOn, adrift>>
  PROVE  HandleInv'
<1>1. hint \in Purpose /\ hint \notin LockMode \cup Shared
  BY PurposesApart DEF Purpose
<1>2. TableOK(mtkTbl, Hint)
  BY DEF HandleInv, TablesOK
<1>3. PICK h1 \in AnyHandle : h1 = mtkTbl[hint] /\ (h1 # NoHdl => h1[1] = hint)
  BY <1>2 DEF TableOK
<1>4. h2 \in AnyHandle /\ (h2 # NoHdl => h2[1] = hint)
  BY <1>1, NewHandleFacts DEF AnyHandle
<1>5. PICK N : Added(N, h2, hint) /\ hlocks' = hlocks \cup N /\ Queued(Acq(h2) \o Rel(h1))
  <2>1. Added(NewLock(h2, hint, TRUE), h2, hint)
    BY <1>1, <1>4, NewLockFacts
  <2> QED BY <1>3, <2>1 DEF Replace
<1>6. Replaced(h1, h2, hint)
  BY <1>1, <1>5, ReplaceFacts, Zenon
<1>7. /\ TableOK(mtkTbl', Hint) /\ mtkTbl'[hint] = h2
      /\ \A x \in Hint : x # hint => mtkTbl'[x] = mtkTbl[x]
  BY <1>2, <1>4 DEF TableOK
<1>8. ASSUME NEW l \in hlocks' PROVE Accounted(l)'
  <2>1. CASE l \in hlocks
    <3>1. l.who \in Purpose /\ l.hdl # NoHdl
      BY <2>1, LockFacts
    <3>2. Holder(l) = l.hdl => Holder(l)' = l.hdl \/ Dying(l.hdl)'
      <4>1. CASE l.who = hint
        BY <1>3, <1>6, <3>1, <4>1, HolderFacts DEF Replaced
      <4>2. CASE l.who # hint
        BY <1>7, <3>1, <4>2, HolderFacts, HolderNext DEF Purpose
      <4> QED BY <4>1, <4>2
    <3> QED BY <1>6, <2>1, <3>2, OldKept DEF Replaced
  <2>2. CASE l \notin hlocks
    <3>1. l.hdl = h2 /\ l.who = hint
      BY <1>6, <2>2 DEF Replaced
    <3>2. Holder(l)' = h2
      BY <1>7, <3>1, HolderNext
    <3> QED BY <3>1, <3>2 DEF Accounted
  <2> QED BY <2>1, <2>2
<1>9. \A m \in modeOn' : \E l \in hlocks' : l.hdl = powerTbl'[m] /\ l.who = m /\ ~Dying(l.hdl)'
  <2>1. \A x : Dying(x)' => Dying(x) \/ x[1] \notin LockMode
    BY <1>1, <1>3, <1>6 DEF Replaced
  <2> QED BY <1>6, <2>1, ModesKept DEF Replaced
<1>10. HandlesHeld'
  BY <1>8, <1>9 DEF HandlesHeld, Accounted
<1> QED BY <1>6, <1>7, <1>10 DEF HandleInv, TablesOK, Replaced

\* EndHint: the hint's lock is released, and the handle of its second hint is written over; the
\* lock that had it is a hint's, and ends by itself.
LEMMA EndHintKeeps ==
  ASSUME HandleInv, NEW hint \in Hint, EndHint(hint)
  PROVE  HandleInv'
<1>1. PICK h1, ext : h1 = mtkTbl[hint] /\ ext = IF Performed(h1) THEN ExtHint[hint] ELSE NoHint
  OBVIOUS
<1>2. PICK h2, h3 :
        /\ h2 = NoHdl \/ h2 \in NewHandles(hint)
        /\ h3 = NoHdl \/ (ext # NoHint /\ h3 \in NewHandles(ext))
        /\ hlocks' = hlocks \cup NewLock(h2, hint, TRUE) \cup NewLock(h3, ext, TRUE)
        /\ Queued(Acq(h2) \o Rel(h1) \o Acq(h3))
        /\ mtkTbl' = [x \in Hint |-> IF x = hint THEN h2 ELSE IF x = ext THEN h3 ELSE mtkTbl[x]]
        /\ adrift' = IF ext # NoHint /\ Live(mtkTbl[ext]) THEN adrift \cup {mtkTbl[ext]} ELSE adrift
        /\ UNCHANGED <<powerTbl, sharedHdl, boot, modeOn>>
  <2> DEFINE g1 == mtkTbl[hint]
             gx == IF Performed(g1) THEN ExtHint[hint] ELSE NoHint
  <2>1. PICK h2 \in IF Performed(g1) /\ hint \in HeldHint THEN CusLockHint(hint) ELSE {NoHdl},
             h3 \in IF gx # NoHint THEN CusLockHint(gx) ELSE {NoHdl} :
        /\ g1 # NoHdl
        /\ hlocks' = hlocks \cup NewLock(h2, hint, TRUE) \cup NewLock(h3, gx, TRUE)
        /\ Queued(Acq(h2) \o Rel(g1) \o Acq(h3))
        /\ mtkTbl' = [x \in Hint |-> IF x = hint THEN h2 ELSE IF x = gx THEN h3 ELSE mtkTbl[x]]
        /\ adrift' = IF gx # NoHint /\ Live(mtkTbl[gx]) THEN adrift \cup {mtkTbl[gx]} ELSE adrift
        /\ Cardinality(adrift') <= MaxAdrift
        /\ UNCHANGED <<caller, powerTbl, sharedHdl, boot, api_status, bBacklightOn, modeOn>>
    BY Zenon DEF EndHint
  <2>2. /\ h2 = NoHdl \/ h2 \in NewHandles(hint)
        /\ h3 = NoHdl \/ (ext # NoHint /\ h3 \in NewHandles(ext))
    BY <1>1, <2>1 DEF CusLockHint
  <2> QED BY <1>1, <2>1, <2>2, Zenon
<1>3. hint \in Purpose /\ hint \notin LockMode \cup Shared
  BY PurposesApart DEF Purpose
<1>4. ext # NoHint => ext \in Hint /\ ext \in Purpose /\ ext # hint
  BY <1>1, HintHandlesAssumption DEF Purpose
<1>5. TableOK(mtkTbl, Hint) /\ LocksOK(hlocks) /\ work \in Seq(WorkMsg)
  BY DEF HandleInv, TablesOK
<1>6. h1 \in AnyHandle /\ (h1 # NoHdl => h1[1] = hint)
  BY <1>1, <1>5 DEF TableOK
<1>7. h2 \in AnyHandle /\ (h2 # NoHdl => h2[1] = hint /\ \A l \in hlocks : l.hdl # h2)
  BY <1>2, <1>3, NewHandleFacts DEF AnyHandle
<1>8. h3 \in AnyHandle /\ (h3 # NoHdl => ext # NoHint /\ h3[1] = ext /\ \A l \in hlocks : l.hdl # h3)
  BY <1>2, <1>4, NewHandleFacts DEF AnyHandle
<1>9. PICK N, O : /\ Added(N, h2, hint) /\ Added(O, h3, ext)
                  /\ N = NewLock(h2, hint, TRUE) /\ O = NewLock(h3, ext, TRUE)
  BY <1>3, <1>4, <1>7, <1>8, NewLockFacts
<1>10. /\ \A l \in N : l.hdl = h2 /\ l.who = hint /\ h2 # NoHdl
       /\ \A l \in O : l.hdl = h3 /\ l.who = ext /\ h3 # NoHdl
  BY <1>9 DEF Added
<1>11. LocksOK(hlocks \cup N)
  BY <1>5, <1>7, <1>9, AddedFacts, Zenon
<1>12. LocksOK((hlocks \cup N) \cup O)
  <2>1. h3 # NoHdl => h3[1] = ext /\ \A l \in hlocks \cup N : l.hdl # h3
    BY <1>4, <1>7, <1>8, <1>10
  <2> QED BY <1>9, <1>11, <2>1, AddedFacts, Zenon
<1>13. hlocks' = (hlocks \cup N) \cup O
  BY <1>2, <1>9, Zenon
<1>14. LocksOK(hlocks')
  BY <1>12, <1>13, Zenon
<1>15. work' \in Seq(WorkMsg) /\ \A x : Dying(x)' <=> Dying(x) \/ (h1 # NoHdl /\ x = h1)
  <2>1. /\ Acq(h2) \in Seq(WorkMsg) /\ Rel(h1) \in Seq(WorkMsg) /\ Acq(h3) \in Seq(WorkMsg)
        /\ \A x : ~DyingIn(Acq(h2), x) /\ ~DyingIn(Acq(h3), x)
        /\ \A x : DyingIn(Rel(h1), x) <=> h1 # NoHdl /\ x = h1
    BY <1>6, <1>7, <1>8, MessageFacts
  <2>2. PICK a : a = Acq(h2) \o Rel(h1)
    OBVIOUS
  <2>3. a \in Seq(WorkMsg) /\ \A x : DyingIn(a, x) <=> h1 # NoHdl /\ x = h1
    BY <2>1, <2>2, ConcatFacts
  <2>4. PICK b : b = a \o Acq(h3)
    OBVIOUS
  <2>5. b \in Seq(WorkMsg) /\ \A x : DyingIn(b, x) <=> h1 # NoHdl /\ x = h1
    BY <2>1, <2>3, <2>4, ConcatFacts
  <2>6. Queued(b)
    BY <1>2, <2>2, <2>4
  <2> QED BY <1>5, <2>5, <2>6, QueuedFacts
<1>16. /\ TableOK(mtkTbl', Hint) /\ mtkTbl'[hint] = h2
       /\ ext # NoHint => mtkTbl'[ext] = h3
       /\ \A x \in Hint : x # hint /\ x # ext => mtkTbl'[x] = mtkTbl[x]
  BY <1>2, <1>4, <1>5, <1>7, <1>8 DEF TableOK
<1>17. ASSUME NEW l \in hlocks' PROVE Accounted(l)'
  <2>1. CASE l \in hlocks
    <3>1. l.who \in Purpose /\ l.hdl # NoHdl /\ (l.who \in Hint \cup Shared => l.timed)
      BY <2>1, LockFacts
    <3>2. Holder(l) = l.hdl => Holder(l)' = l.hdl \/ Dying(l.hdl)' \/ (l.hdl \in adrift' /\ l.timed)
      <4>1. CASE l.who = hint
        BY <1>1, <1>15, <3>1, <4>1, HolderFacts
      <4>2. CASE l.who = ext /\ l.who \in Hint
        <5>1. ext # NoHint /\ Holder(l) = mtkTbl[ext]
          BY <4>2, HintHandlesAssumption, HolderFacts
        <5>2. Holder(l) = l.hdl => Live(mtkTbl[ext])
          BY <2>1, <5>1 DEF Live
        <5> QED BY <1>2, <3>1, <4>2, <5>1, <5>2
      <4>3. CASE l.who \in Hint /\ l.who # hint /\ l.who # ext
        BY <1>16, <4>3, HolderFacts, HolderNext
      <4>4. CASE l.who \notin Hint
        BY <1>2, <3>1, <4>4, HolderFacts, HolderNext DEF Purpose
      <4> QED BY <4>1, <4>2, <4>3, <4>4
    <3>3. adrift \subseteq adrift' /\ \A x : Dying(x) => Dying(x)'
      BY <1>2, <1>15
    <3> QED BY <2>1, <3>2, <3>3, OldKept
  <2>2. CASE l \in N
    BY <1>10, <1>16, <2>2, HolderNext DEF Accounted
  <2>3. CASE l \in O
    BY <1>4, <1>8, <1>10, <1>16, <2>3, HolderNext DEF Accounted
  <2> QED BY <1>13, <2>1, <2>2, <2>3
<1>18. \A m \in modeOn' : \E l \in hlocks' : l.hdl = powerTbl'[m] /\ l.who = m /\ ~Dying(l.hdl)'
  <2>1. \A x : Dying(x)' => Dying(x) \/ x[1] \notin LockMode
    BY <1>3, <1>6, <1>15
  <2>2. hlocks \subseteq hlocks'
    BY <1>13
  <2> QED BY <1>2, <2>1, <2>2, ModesKept
<1>19. HandlesHeld'
  BY <1>17, <1>18 DEF HandlesHeld, Accounted
<1> QED BY <1>2, <1>14, <1>15, <1>16, <1>19 DEF HandleInv, TablesOK

\* A release alone.
LEMMA ReleaseFacts ==
  ASSUME HandleInv, NEW h \in AnyHandle, Queued(Rel(h))
  PROVE  work' \in Seq(WorkMsg) /\ \A x : Dying(x)' <=> Dying(x) \/ (h # NoHdl /\ x = h)
<1>1. work \in Seq(WorkMsg) /\ Rel(h) \in Seq(WorkMsg)
  BY MessageFacts DEF HandleInv
<1>2. \A x : DyingIn(Rel(h), x) <=> h # NoHdl /\ x = h
  BY MessageFacts
<1> QED BY <1>1, <1>2, QueuedFacts

\* An acquire alone.
LEMMA AcquireFacts ==
  ASSUME HandleInv, NEW h \in AnyHandle, Queued(Acq(h))
  PROVE  work' \in Seq(WorkMsg) /\ \A x : Dying(x)' <=> Dying(x)
<1>1. work \in Seq(WorkMsg) /\ Acq(h) \in Seq(WorkMsg)
  BY MessageFacts DEF HandleInv
<1>2. \A x : ~DyingIn(Acq(h), x)
  BY MessageFacts
<1> QED BY <1>1, <1>2, QueuedFacts

\* setBoost: its lock is known to be adrift.
LEMMA BoostKeeps ==
  ASSUME HandleInv, NEW timed \in BOOLEAN, setBoostHint(timed)
  PROVE  HandleInv'
<1>1. PICK h : /\ h \in NewHandles("boost")
               /\ hlocks' = hlocks \cup NewLock(h, "boost", timed)
               /\ Queued(Acq(h)) /\ adrift' = adrift \cup {h}
               /\ UNCHANGED <<powerTbl, mtkTbl, sharedHdl, boot, modeOn>>
  BY DEF setBoostHint, CusLockHint
<1>2. "boost" \in Purpose /\ "boost" \notin Hint \cup Shared
  BY PurposesApart DEF Purpose
<1>3. h \in AnyHandle /\ h # NoHdl /\ h[1] = "boost" /\ \A l \in hlocks : l.hdl # h
  BY <1>1, <1>2, NewHandleFacts DEF AnyHandle
<1>4. PICK N : Added(N, h, "boost") /\ hlocks' = hlocks \cup N
  <2>1. Added(NewLock(h, "boost", timed), h, "boost")
    BY <1>2, <1>3, NewLockFacts
  <2> QED BY <1>1, <2>1
<1>5. LocksOK(hlocks')
  <2>1. LocksOK(hlocks)
    BY DEF HandleInv
  <2>2. LocksOK(hlocks \cup N)
    BY <1>3, <1>4, <2>1, AddedFacts, Zenon
  <2> QED BY <1>4, <2>2, Zenon
<1>6. \A l \in N : l.hdl = h /\ l.who = "boost"
  BY <1>4 DEF Added
<1>7. work' \in Seq(WorkMsg) /\ \A x : Dying(x)' <=> Dying(x)
  BY <1>1, <1>3, AcquireFacts
<1>8. ASSUME NEW l \in hlocks' PROVE Accounted(l)'
  <2>1. CASE l \in hlocks
    <3>1. l.who \in Purpose
      BY <2>1, LockFacts
    <3>2. Holder(l)' = Holder(l)
      BY <1>1, <3>1, HolderFacts, HolderNext DEF Purpose
    <3> QED BY <1>1, <1>7, <2>1, <3>2, OldKept
  <2>2. CASE l \in N
    BY <1>1, <1>6, <2>2 DEF Accounted
  <2> QED BY <1>4, <2>1, <2>2
<1>9. \A m \in modeOn' : \E l \in hlocks' : l.hdl = powerTbl'[m] /\ l.who = m /\ ~Dying(l.hdl)'
  BY <1>1, <1>4, <1>7, ModesKept
<1>10. HandlesHeld'
  BY <1>8, <1>9 DEF HandlesHeld, Accounted
<1> QED BY <1>1, <1>5, <1>7, <1>10 DEF HandleInv, TablesOK

\* A step that changes nothing of a lock but its state.
LEMMA RestateKeeps ==
  ASSUME HandleInv, NEW S \in [hlocks -> {"registered", "on", "off"}],
         hlocks' = {[l EXCEPT !.state = S[l]] : l \in hlocks},
         work' \in Seq(WorkMsg), \A x : Dying(x)' <=> Dying(x),
         UNCHANGED <<powerTbl, mtkTbl, sharedHdl, boot, modeOn, adrift>>
  PROVE  HandleInv'
<1> DEFINE R(l) == [l EXCEPT !.state = S[l]]
<1>1. hlocks \subseteq Lock /\ LocksOK(hlocks)
  BY DEF HandleInv, LocksOK
<1>2. ASSUME NEW l \in hlocks
      PROVE  R(l) \in Lock /\ R(l).hdl = l.hdl /\ R(l).who = l.who /\ R(l).timed = l.timed
  BY <1>1 DEF Lock
<1>3. \A k \in hlocks' : \E l \in hlocks : k = R(l)
  OBVIOUS
<1>4. \A l \in hlocks : R(l) \in hlocks'
  OBVIOUS
<1> HIDE DEF R
<1>5. LocksOK(hlocks')
  <2>1. hlocks' \subseteq Lock
    BY <1>2, <1>3
  <2>2. \A l \in hlocks' : l.hdl[1] = l.who /\ (l.who \in Hint \cup Shared => l.timed)
    BY <1>1, <1>2, <1>3 DEF LocksOK
  <2>3. \A l, k \in hlocks' : l.hdl = k.hdl => l = k
    BY <1>1, <1>2, <1>3 DEF LocksOK
  <2> QED BY <2>1, <2>2, <2>3 DEF LocksOK
<1>6. ASSUME NEW k \in hlocks' PROVE Accounted(k)'
  <2>1. PICK l \in hlocks : k = R(l)
    BY <1>3
  <2>2. k.hdl = l.hdl /\ k.who = l.who /\ k.timed = l.timed /\ l.who \in Purpose
    BY <1>2, <2>1, LockFacts
  <2>3. Holder(k)' = Holder(l)
    BY <2>2, HolderFacts, HolderNext DEF Purpose
  <2>4. Holder(l) = l.hdl \/ Dying(l.hdl) \/ (l.hdl \in adrift /\ (l.timed \/ l.who = "boost"))
    BY DEF HandleInv, HandlesHeld
  <2> QED BY <2>2, <2>3, <2>4 DEF Accounted
<1>7. \A m \in modeOn' : \E l \in hlocks' : l.hdl = powerTbl'[m] /\ l.who = m /\ ~Dying(l.hdl)'
  <2>1. \A l \in hlocks : \E k \in hlocks' : k.hdl = l.hdl /\ k.who = l.who
    BY <1>2, <1>4
  <2> QED BY <2>1, ModesKept
<1>8. HandlesHeld'
  BY <1>6, <1>7 DEF HandlesHeld, Accounted
<1> QED BY <1>5, <1>8 DEF HandleInv, TablesOK

\* setInteractive.
LEMMA InteractiveKeeps ==
  ASSUME HandleInv, NEW enabled \in BOOLEAN, setInteractive(enabled)
  PROVE  HandleInv'
<1>1. /\ UNCHANGED <<work, powerTbl, mtkTbl, sharedHdl, boot, modeOn, adrift>>
      /\ work' \in Seq(WorkMsg) /\ \A x : Dying(x)' <=> Dying(x)
  BY DEF setInteractive, HandleInv, Dying
<1>2. hlocks \subseteq Lock
  BY DEF HandleInv, LocksOK
<1>3. PICK S : S = [l \in hlocks |-> IF ~enabled /\ l.state = "on" THEN "off" ELSE l.state]
  OBVIOUS
<1>4. S \in [hlocks -> {"registered", "on", "off"}]
  BY <1>2, <1>3 DEF Lock
<1>5. \A l \in hlocks : [l EXCEPT !.state = l.state] = l
  BY <1>2 DEF Lock
<1>6. hlocks' = {[l EXCEPT !.state = S[l]] : l \in hlocks}
  <2>1. CASE enabled
    <3>1. \A l \in hlocks : [l EXCEPT !.state = S[l]] = l
      BY <1>3, <1>5, <2>1
    <3>2. hlocks' = hlocks
      BY <2>1 DEF setInteractive
    <3> QED BY <3>1, <3>2
  <2>2. CASE ~enabled
    <3>1. hlocks' = {IF l.state = "on" THEN [l EXCEPT !.state = "off"] ELSE l : l \in hlocks}
      BY <2>2 DEF setInteractive
    <3>2. \A l \in hlocks : (IF l.state = "on" THEN [l EXCEPT !.state = "off"] ELSE l) = [l EXCEPT !.state = S[l]]
      BY <1>3, <1>5, <2>2
    <3> QED BY <3>1, <3>2, ZenonT(60)
  <2> QED BY <2>1, <2>2
<1> QED BY <1>1, <1>4, <1>6, RestateKeeps

\* ReAcquire: the handle is kept while its lock is there; a lock whose handle a refused call
\* wrote over ends by itself.
LEMMA ReAcquireKeeps ==
  ASSUME HandleInv, NEW s \in Shared, ReAcquire(s)
  PROVE  HandleInv'
<1>1. PICK old : old = sharedHdl[s]
  OBVIOUS
<1>2. PICK new :
        /\ new = NoHdl \/ (new = old /\ Live(old)) \/ new \in NewHandles(s)
        /\ hlocks' = IF new = old THEN hlocks ELSE hlocks \cup NewLock(new, s, TRUE)
        /\ Queued(Acq(new))
        /\ sharedHdl' = [sharedHdl EXCEPT ![s] = new]
        /\ adrift' = IF new # old /\ Live(old) THEN adrift \cup {old} ELSE adrift
        /\ UNCHANGED <<powerTbl, mtkTbl, boot, modeOn>>
  BY <1>1 DEF ReAcquire
<1>3. s \in Purpose /\ s \notin LockMode \cup Hint
  BY PurposesApart DEF Purpose
<1>4. TableOK(sharedHdl, Shared) /\ LocksOK(hlocks)
  BY DEF HandleInv, TablesOK
<1>5. old \in AnyHandle /\ (old # NoHdl => old[1] = s)
  BY <1>1, <1>4 DEF TableOK
<1>6. /\ new \in AnyHandle /\ (new # NoHdl => new[1] = s)
      /\ new # NoHdl /\ new # old => \A l \in hlocks : l.hdl # new
  BY <1>2, <1>3, <1>5, NewHandleFacts DEF AnyHandle
<1>7. PICK N : /\ hlocks' = hlocks \cup N /\ LocksOK(hlocks')
               /\ \A l \in N : l.hdl = new /\ l.who = s
  <2>1. CASE new = old
    <3>1. PICK N : N = {}
      OBVIOUS
    <3>2. hlocks' = hlocks
      BY <1>2, <2>1
    <3>3. hlocks' = hlocks \cup N /\ \A l \in N : l.hdl = new /\ l.who = s
      BY <3>1, <3>2
    <3>4. LocksOK(hlocks')
      BY <1>4, <3>2
    <3> QED BY <3>3, <3>4
  <2>2. CASE new # old
    <3>1. PICK N : Added(N, new, s) /\ N = NewLock(new, s, TRUE)
      BY <1>3, <1>6, NewLockFacts
    <3>2. LocksOK(hlocks \cup N)
      BY <1>4, <1>6, <2>2, <3>1, AddedFacts, Zenon
    <3>3. hlocks' = hlocks \cup N
      BY <1>2, <2>2, <3>1, Zenon
    <3>4. LocksOK(hlocks')
      BY <3>2, <3>3, Zenon
    <3>5. \A l \in N : l.hdl = new /\ l.who = s
      BY <3>1 DEF Added
    <3> QED BY <3>3, <3>4, <3>5
  <2> QED BY <2>1, <2>2
<1>8. work' \in Seq(WorkMsg) /\ \A x : Dying(x)' <=> Dying(x)
  BY <1>2, <1>6, AcquireFacts
<1>9. /\ TableOK(sharedHdl', Shared) /\ sharedHdl'[s] = new
      /\ \A x \in Shared : x # s => sharedHdl'[x] = sharedHdl[x]
  BY <1>2, <1>4, <1>6 DEF TableOK
<1>10. ASSUME NEW l \in hlocks' PROVE Accounted(l)'
  <2>1. CASE l \in hlocks
    <3>1. l.who \in Purpose /\ (l.who \in Hint \cup Shared => l.timed)
      BY <2>1, LockFacts
    <3>2. Holder(l) = l.hdl => Holder(l)' = l.hdl \/ (l.hdl \in adrift' /\ l.timed)
      <4>1. CASE l.who = s
        <5>1. Holder(l) = old /\ Holder(l)' = new
          BY <1>1, <1>9, <4>1, HolderFacts, HolderNext
        <5>2. Holder(l) = l.hdl => Live(old)
          BY <2>1, <5>1 DEF Live
        <5> QED BY <1>2, <3>1, <4>1, <5>1, <5>2
      <4>2. CASE l.who # s
        BY <1>2, <1>9, <3>1, <4>2, HolderFacts, HolderNext DEF Purpose
      <4> QED BY <4>1, <4>2
    <3>3. adrift \subseteq adrift'
      BY <1>2
    <3> QED BY <1>8, <2>1, <3>2, <3>3, OldKept
  <2>2. CASE l \in N
    BY <1>7, <1>9, <2>2, HolderNext DEF Accounted
  <2> QED BY <1>7, <2>1, <2>2
<1>11. \A m \in modeOn' : \E l \in hlocks' : l.hdl = powerTbl'[m] /\ l.who = m /\ ~Dying(l.hdl)'
  BY <1>2, <1>7, <1>8, ModesKept
<1>12. HandlesHeld'
  BY <1>10, <1>11 DEF HandlesHeld, Accounted
<1> QED BY <1>2, <1>7, <1>8, <1>9, <1>12 DEF HandleInv, TablesOK

\* touch_boost_end.
LEMMA TouchEndKeeps ==
  ASSUME HandleInv, touch_boost_end
  PROVE  HandleInv'
<1>1. PICK h : h = sharedHdl["touch"]
  OBVIOUS
<1>2. /\ Queued(Rel(h)) /\ sharedHdl' = [sharedHdl EXCEPT !["touch"] = NoHdl]
      /\ UNCHANGED <<hlocks, powerTbl, mtkTbl, boot, modeOn, adrift>>
  BY <1>1 DEF touch_boost_end
<1>3. TableOK(sharedHdl, Shared) /\ "touch" \in Shared /\ "touch" \notin LockMode
  BY PurposesApart DEF HandleInv, TablesOK, Shared
<1>4. h \in AnyHandle /\ (h # NoHdl => h[1] = "touch")
  BY <1>1, <1>3 DEF TableOK
<1>5. work' \in Seq(WorkMsg) /\ \A x : Dying(x)' <=> Dying(x) \/ (h # NoHdl /\ x = h)
  BY <1>2, <1>4, ReleaseFacts
<1>6. /\ TableOK(sharedHdl', Shared)
      /\ \A x \in Shared : x # "touch" => sharedHdl'[x] = sharedHdl[x]
  BY <1>2, <1>3 DEF TableOK, AnyHandle
<1>7. ASSUME NEW l \in hlocks' PROVE Accounted(l)'
  <2>1. l \in hlocks
    BY <1>2
  <2>2. l.who \in Purpose /\ l.hdl # NoHdl
    BY <2>1, LockFacts
  <2>3. Holder(l) = l.hdl => Holder(l)' = l.hdl \/ Dying(l.hdl)'
    <3>1. CASE l.who = "touch"
      BY <1>1, <1>3, <1>5, <2>2, <3>1, HolderFacts
    <3>2. CASE l.who # "touch"
      BY <1>2, <1>6, <2>2, <3>2, HolderFacts, HolderNext DEF Purpose
    <3> QED BY <3>1, <3>2
  <2> QED BY <1>2, <1>5, <2>1, <2>3, OldKept
<1>8. \A m \in modeOn' : \E l \in hlocks' : l.hdl = powerTbl'[m] /\ l.who = m /\ ~Dying(l.hdl)'
  <2>1. \A x : Dying(x)' => Dying(x) \/ x[1] \notin LockMode
    BY <1>3, <1>4, <1>5
  <2> QED BY <1>2, <2>1, ModesKept
<1>9. HandlesHeld'
  BY <1>7, <1>8 DEF HandlesHeld, Accounted
<1> QED BY <1>2, <1>5, <1>6, <1>9 DEF HandleInv, TablesOK

\* The boot boost: a lock that is asked for while no handle is kept, and given back.
LEMMA BootKeeps ==
  ASSUME HandleInv, mtkPowerBootHandler
  PROVE  HandleInv'
<1>1. "boot" \in Purpose /\ "boot" \notin LockMode \cup Hint \cup Shared
  BY PurposesApart DEF Purpose
<1>2. PICK h1 : h1 = boot.hdl /\ h1 \in AnyHandle /\ (h1 # NoHdl => h1[1] = "boot")
  BY DEF HandleInv, TablesOK
<1>3. ASSUME NEW h2, h2 = NoHdl \/ h2 \in NewHandles("boot"), NEW p \in {"poll", "done"},
             boot' = [pc |-> p, hdl |-> h2], UNCHANGED <<powerTbl, mtkTbl, sharedHdl, modeOn, adrift>>,
             Replaced(h1, h2, "boot")
      PROVE  HandleInv'
  <2>1. h2 \in AnyHandle /\ (h2 # NoHdl => h2[1] = "boot")
    BY <1>1, <1>3, NewHandleFacts DEF AnyHandle
  <2>2. boot' \in [pc : {"start", "poll", "done"}, hdl : AnyHandle] /\ boot'.hdl = h2 /\ boot'.pc # "start"
    BY <1>3, <2>1
  <2>3. ASSUME NEW l \in hlocks' PROVE Accounted(l)'
    <3>1. CASE l \in hlocks
      <4>1. l.who \in Purpose /\ l.hdl # NoHdl
        BY <3>1, LockFacts
      <4>2. Holder(l) = l.hdl => Holder(l)' = l.hdl \/ Dying(l.hdl)'
        <5>1. CASE l.who = "boot"
          BY <1>2, <1>3, <4>1, <5>1, HolderFacts DEF Replaced
        <5>2. CASE l.who # "boot"
          BY <1>3, <4>1, <5>2, HolderFacts, HolderNext DEF Purpose
        <5> QED BY <5>1, <5>2
      <4> QED BY <1>3, <3>1, <4>2, OldKept DEF Replaced
    <3>2. CASE l \notin hlocks
      BY <1>3, <2>2, <3>2, HolderNext DEF Replaced, Accounted
    <3> QED BY <3>1, <3>2
  <2>4. \A m \in modeOn' : \E l \in hlocks' : l.hdl = powerTbl'[m] /\ l.who = m /\ ~Dying(l.hdl)'
    <3>1. \A x : Dying(x)' => Dying(x) \/ x[1] \notin LockMode
      BY <1>1, <1>2, <1>3 DEF Replaced
    <3> QED BY <1>3, <3>1, ModesKept DEF Replaced
  <2>5. HandlesHeld'
    BY <2>3, <2>4 DEF HandlesHeld, Accounted
  <2> QED BY <1>3, <2>1, <2>2, <2>5 DEF HandleInv, TablesOK, Replaced
<1>4. CASE boot.pc = "start"
  <2>1. PICK h : /\ h = NoHdl \/ h \in NewHandles("boot")
                 /\ Replace(NoHdl, h, "boot", TRUE) /\ boot' = [pc |-> "poll", hdl |-> h]
                 /\ UNCHANGED <<powerTbl, mtkTbl, sharedHdl, modeOn, adrift>>
    BY <1>4 DEF mtkPowerBootHandler, CusLockHint
  <2>2. h1 = NoHdl
    BY <1>2, <1>4 DEF HandleInv
  <2>3. h \in AnyHandle
    BY <1>1, <2>1, NewHandleFacts DEF AnyHandle
  <2>4. PICK N : Added(N, h, "boot") /\ hlocks' = hlocks \cup N /\ Queued(Acq(h) \o Rel(h1))
    <3>1. Added(NewLock(h, "boot", TRUE), h, "boot")
      BY <1>1, <2>3, NewLockFacts
    <3> QED BY <2>1, <2>2, <3>1 DEF Replace
  <2>5. Replaced(h1, h, "boot")
    BY <1>1, <1>2, <2>1, <2>4, ReplaceFacts, Zenon
  <2> QED BY <1>3, <2>1, <2>5
<1>5. CASE boot.pc # "start"
  <2>1. /\ Queued(Rel(h1)) /\ boot' = [pc |-> "done", hdl |-> NoHdl]
        /\ UNCHANGED <<hlocks, powerTbl, mtkTbl, sharedHdl, modeOn, adrift>>
    BY <1>2, <1>5 DEF mtkPowerBootHandler
  <2>2. work' \in Seq(WorkMsg) /\ \A x : Dying(x)' <=> Dying(x) \/ (h1 # NoHdl /\ x = h1)
    BY <1>2, <2>1, ReleaseFacts
  <2>3. LocksOK(hlocks')
    BY <2>1 DEF HandleInv
  <2>4. Replaced(h1, NoHdl, "boot")
    BY <2>1, <2>2, <2>3 DEF Replaced
  <2> QED BY <1>3, <2>1, <2>4
<1> QED BY <1>4, <1>5

\* A lock goes: the lock of a mode that stays on has another handle.
LEMMA GoneKeeps ==
  ASSUME HandleInv, NEW h, Gone(h), hlocks' = {l \in hlocks : l.hdl # h},
         work' \in Seq(WorkMsg), \A x : Dying(x)' => Dying(x), \A x : Dying(x) /\ x # h => Dying(x)'
  PROVE  HandleInv'
<1>1. /\ modeOn' = {m \in modeOn : powerTbl[m] # h} /\ adrift' = adrift \ {h}
      /\ UNCHANGED <<powerTbl, mtkTbl, sharedHdl, boot>>
  BY DEF Gone
<1>2. LocksOK(hlocks')
  BY DEF HandleInv, LocksOK
<1>3. ASSUME NEW l \in hlocks' PROVE Accounted(l)'
  <2>1. l \in hlocks /\ l.hdl # h
    OBVIOUS
  <2>2. l.who \in Purpose
    BY <2>1, LockFacts
  <2>3. Holder(l)' = Holder(l)
    BY <1>1, <2>2, HolderFacts, HolderNext DEF Purpose
  <2>4. Holder(l) = l.hdl \/ Dying(l.hdl) \/ (l.hdl \in adrift /\ (l.timed \/ l.who = "boost"))
    BY <2>1 DEF HandleInv, HandlesHeld
  <2> QED BY <1>1, <2>1, <2>3, <2>4 DEF Accounted
<1>4. ASSUME NEW m \in modeOn'
      PROVE  \E l \in hlocks' : l.hdl = powerTbl'[m] /\ l.who = m /\ ~Dying(l.hdl)'
  <2>1. m \in modeOn /\ powerTbl[m] # h
    BY <1>1
  <2>2. PICK l \in hlocks : l.hdl = powerTbl[m] /\ l.who = m /\ ~Dying(l.hdl)
    BY <2>1 DEF HandleInv, HandlesHeld
  <2> QED BY <1>1, <2>1, <2>2
<1>5. HandlesHeld'
  BY <1>3, <1>4 DEF HandlesHeld, Accounted
<1> QED BY <1>1, <1>2, <1>5 DEF HandleInv, TablesOK

\* The worker's message.
LEMMA WorkKeeps ==
  ASSUME HandleInv, Work
  PROVE  HandleInv'
<1>1. PICK m : m = Head(work)
  OBVIOUS
<1>2. work \in Seq(WorkMsg) /\ work # <<>> /\ work' = Tail(work)
  BY DEF Work, HandleInv
<1>3. PICK n \in Nat : n = Len(work) /\ n > 0 /\ DOMAIN work = 1 .. n
  BY <1>2
<1>4. /\ work' \in Seq(WorkMsg) /\ DOMAIN work' = 1 .. n - 1 /\ m = work[1] /\ m \in WorkMsg
      /\ \A i \in 1 .. n - 1 : work'[i] = work[i + 1]
  BY <1>1, <1>2, <1>3
<1>5. \A x : Dying(x)' => Dying(x)
  BY <1>3, <1>4 DEF Dying
<1>6. ASSUME NEW x, Dying(x), ~(m.op = "rel" /\ m.hdl = x) PROVE Dying(x)'
  <2>1. PICK i \in 1 .. n : work[i].op = "rel" /\ work[i].hdl = x
    BY <1>3, <1>6 DEF Dying
  <2>2. PICK j \in 1 .. n - 1 : i = j + 1
    <3>1. i # 1
      BY <1>4, <1>6, <2>1
    <3>2. i - 1 \in 1 .. n - 1 /\ i = (i - 1) + 1
      BY <3>1
    <3> QED BY <3>2
  <2> QED BY <1>4, <2>1, <2>2 DEF Dying
<1>7. CASE m.op = "acq"
  <2>1. /\ hlocks' = {IF l.hdl = m.hdl THEN [l EXCEPT !.state = "on"] ELSE l : l \in hlocks}
        /\ UNCHANGED <<powerTbl, mtkTbl, sharedHdl, boot, modeOn, adrift>>
    BY <1>1, <1>7 DEF Work
  <2>2. \A x : Dying(x)' <=> Dying(x)
    BY <1>5, <1>6, <1>7
  <2>3. hlocks \subseteq Lock
    BY DEF HandleInv, LocksOK
  <2>4. PICK S : S = [l \in hlocks |-> IF l.hdl = m.hdl THEN "on" ELSE l.state]
    OBVIOUS
  <2>5. S \in [hlocks -> {"registered", "on", "off"}]
    BY <2>3, <2>4 DEF Lock
  <2>6. \A l \in hlocks : [l EXCEPT !.state = l.state] = l
    BY <2>3 DEF Lock
  <2>7. \A l \in hlocks : (IF l.hdl = m.hdl THEN [l EXCEPT !.state = "on"] ELSE l) = [l EXCEPT !.state = S[l]]
    BY <2>4, <2>6
  <2>8. hlocks' = {[l EXCEPT !.state = S[l]] : l \in hlocks}
    <3> DEFINE F(l) == IF l.hdl = m.hdl THEN [l EXCEPT !.state = "on"] ELSE l
               G(l) == [l EXCEPT !.state = S[l]]
    <3>1. hlocks' = {F(l) : l \in hlocks} /\ \A l \in hlocks : F(l) = G(l)
      BY <2>1, <2>7
    <3> HIDE DEF F, G
    <3>2. hlocks' = {G(l) : l \in hlocks}
      BY <3>1
    <3> QED BY <3>2 DEF G
  <2> QED BY <1>4, <2>1, <2>2, <2>5, <2>8, RestateKeeps
<1>8. CASE m.op = "rel"
  <2>1. hlocks' = {l \in hlocks : l.hdl # m.hdl} /\ Gone(m.hdl)
    BY <1>1, <1>8 DEF Work
  <2> QED BY <1>4, <1>5, <1>6, <2>1, GoneKeeps
<1> QED BY <1>4, <1>7, <1>8 DEF WorkMsg

\* The end of a lock's time.
LEMMA TimeOutKeeps ==
  ASSUME HandleInv, NEW l \in hlocks, TimeOut(l)
  PROVE  HandleInv'
<1>1. Gone(l.hdl) /\ hlocks' = hlocks \ {l} /\ work' = work
  BY DEF TimeOut
<1>2. hlocks' = {k \in hlocks : k.hdl # l.hdl}
  BY <1>1 DEF HandleInv, LocksOK
<1>3. work' \in Seq(WorkMsg) /\ \A x : Dying(x)' <=> Dying(x)
  BY <1>1 DEF HandleInv, Dying
<1> QED BY <1>1, <1>2, <1>3, GoneKeeps

\* The invariant holds in every behaviour.
LEMMA HandleInvariant == HandlesSpec => []HandleInv
<1>1. HandlesInit => HandleInv
  <2> SUFFICES ASSUME HandlesInit PROVE HandleInv
    OBVIOUS
  <2>1. LocksOK(hlocks) /\ work \in Seq(WorkMsg) /\ modeOn \subseteq LockMode /\ HandlesHeld
    BY DEF HandlesInit, LocksOK, HandlesHeld
  <2>2. TableOK(powerTbl, LockMode) /\ TableOK(mtkTbl, Hint) /\ TableOK(sharedHdl, Shared)
    BY DEF HandlesInit, TableOK, AnyHandle
  <2>3. boot \in [pc : {"start", "poll", "done"}, hdl : AnyHandle] /\ boot.hdl = NoHdl
    BY DEF HandlesInit, AnyHandle
  <2> QED BY <2>1, <2>2, <2>3 DEF HandleInv, TablesOK
<1>2. HandleInv /\ [HandlesNext]_handleVars => HandleInv'
  <2> SUFFICES ASSUME HandleInv, [HandlesNext]_handleVars PROVE HandleInv'
    OBVIOUS
  <2>1. ASSUME NEW m \in LockMode, NEW enabled \in BOOLEAN, setMode(m, enabled) PROVE HandleInv'
    BY <2>1, SetModeKeeps
  <2>2. ASSUME NEW enabled \in BOOLEAN, setInteractive(enabled) PROVE HandleInv'
    BY <2>2, InteractiveKeeps
  <2>3. ASSUME NEW timed \in BOOLEAN, setBoostHint(timed) PROVE HandleInv'
    BY <2>3, BoostKeeps
  <2>4. ASSUME NEW hint \in Hint, StartHint(hint) PROVE HandleInv'
    <3>1. PICK h2 \in CusLockHint(hint) :
            /\ Replace(mtkTbl[hint], h2, hint, TRUE) /\ mtkTbl' = [mtkTbl EXCEPT ![hint] = h2]
            /\ UNCHANGED <<powerTbl, sharedHdl, boot, modeOn, adrift>>
      BY <2>4 DEF StartHint
    <3>2. h2 = NoHdl \/ h2 \in NewHandles(hint)
      BY DEF CusLockHint
    <3> QED BY <3>1, <3>2, HintKeeps
  <2>5. ASSUME NEW hint \in Hint, EndCusHint(hint) PROVE HandleInv'
    BY <2>5, HintKeeps DEF EndCusHint
  <2>6. ASSUME NEW hint \in Hint, EndHint(hint) PROVE HandleInv'
    BY <2>6, EndHintKeeps
  <2>7. ASSUME NEW s \in Shared, ReAcquire(s) PROVE HandleInv'
    BY <2>7, ReAcquireKeeps
  <2>8. CASE touch_boost_end
    BY <2>8, TouchEndKeeps
  <2>9. CASE mtkPowerBootHandler
    BY <2>9, BootKeeps
  <2>10. CASE UNCHANGED <<hlocks, work, powerTbl, mtkTbl, sharedHdl, boot, modeOn, adrift>>
    BY <2>10 DEF HandleInv, TablesOK, HandlesHeld, Holder, Dying
  <2>11. ASSUME NEW which, NEW enable \in BOOLEAN, setAPIstatus(which, enable) PROVE HandleInv'
    BY <2>10, <2>11 DEF setAPIstatus
  <2>12. CASE Work
    BY <2>12, WorkKeeps
  <2>13. ASSUME NEW l \in hlocks, TimeOut(l) PROVE HandleInv'
    BY <2>13, TimeOutKeeps
  <2>14. CASE UNCHANGED handleVars
    BY <2>10, <2>14 DEF handleVars
  <2> QED BY <2>1, <2>2, <2>3, <2>4, <2>5, <2>6, <2>7, <2>8, <2>9, <2>11, <2>12, <2>13, <2>14
          DEF HandlesNext
<1> QED BY <1>1, <1>2, PTL DEF HandlesSpec

\* Whatever the calls, the time-outs, the refusals of the lock API and its worker's delay: no
\* service loses a lock that does not end by itself, and a mode that is on has its lock (setMode
\* of Power.cpp, mtkPowerHint, the touch and boot boosts).
THEOREM HandlesAreHeld == HandlesSpec => []HandlesHeld
<1>1. HandleInv => HandlesHeld
  BY DEF HandleInv
<1> QED BY <1>1, HandleInvariant, PTL

\* The handles that can be in use within the bounds: a purpose has the one of its table, those of
\* the queue, and those adrift.
HandleBound == MaxWork + MaxAdrift + 3
BoundedHandle == {NoHdl} \cup (Purpose \X (1 .. HandleBound))
BoundedMsg == [op : {"acq", "rel"}, hdl : BoundedHandle]
BoundInv ==
  /\ \A l \in hlocks : l.hdl \in BoundedHandle
  /\ powerTbl \in [LockMode -> BoundedHandle] /\ mtkTbl \in [Hint -> BoundedHandle]
  /\ sharedHdl \in [Shared -> BoundedHandle] /\ boot.hdl \in BoundedHandle
  /\ work \in Seq(BoundedMsg) /\ Len(work) <= MaxWork
  /\ IsFiniteSet(adrift) /\ Cardinality(adrift) <= MaxAdrift
  /\ \A h \in adrift : Live(h)

\* The entry of the tables that a purpose has.
Own(w) == Holder([who |-> w])

\* Every handle of a purpose that is in use is its own, queued or adrift.
LEMMA InUseFacts ==
  ASSUME HandleInv, NEW w \in Purpose, NEW h \in InUse, h[1] = w, h # NoHdl
  PROVE  h = Own(w) \/ h \in adrift \/ \E i \in DOMAIN work : work[i].hdl = h
<1>1. PICK r : r = [who |-> w] /\ r.who = w /\ Own(w) = Holder(r)
  BY DEF Own
<1>2. /\ w \in LockMode => Own(w) = powerTbl[w]
      /\ w \in Hint => Own(w) = mtkTbl[w]
      /\ w \in Shared => Own(w) = sharedHdl[w]
      /\ w = "boot" => Own(w) = boot.hdl
  BY <1>1, HolderFacts
<1>3. ASSUME NEW l \in hlocks, h = l.hdl
      PROVE  h = Own(w) \/ h \in adrift \/ \E i \in DOMAIN work : work[i].hdl = h
  <2>1. l.who = w /\ l.who \in Purpose
    BY <1>3 DEF HandleInv, LocksOK, Lock
  <2>2. Holder(l) = Own(w) \/ Holder(l) = NoHdl
    BY <1>2, <2>1, HolderFacts DEF Purpose
  <2>3. Holder(l) = l.hdl \/ Dying(l.hdl) \/ l.hdl \in adrift
    BY DEF HandleInv, HandlesHeld
  <2> QED BY <1>3, <2>2, <2>3 DEF Dying
<1>4. ASSUME NEW x \in DOMAIN powerTbl, h = powerTbl[x] PROVE h = Own(w)
  <2>1. x \in LockMode /\ x = w
    BY <1>4 DEF HandleInv, TablesOK, TableOK
  <2> QED BY <1>2, <1>4, <2>1
<1>5. ASSUME NEW x \in DOMAIN mtkTbl, h = mtkTbl[x] PROVE h = Own(w)
  <2>1. x \in Hint /\ x = w
    BY <1>5 DEF HandleInv, TablesOK, TableOK
  <2> QED BY <1>2, <1>5, <2>1
<1>6. ASSUME NEW x \in DOMAIN sharedHdl, h = sharedHdl[x] PROVE h = Own(w)
  <2>1. x \in Shared /\ x = w
    BY <1>6 DEF HandleInv, TablesOK, TableOK
  <2> QED BY <1>2, <1>6, <2>1
<1>7. CASE h = boot.hdl
  <2>1. w = "boot"
    BY <1>7 DEF HandleInv, TablesOK
  <2> QED BY <1>2, <1>7, <2>1
<1>8. \/ \E l \in hlocks : h = l.hdl
      \/ \E x \in DOMAIN powerTbl : h = powerTbl[x]
      \/ \E x \in DOMAIN mtkTbl : h = mtkTbl[x]
      \/ \E x \in DOMAIN sharedHdl : h = sharedHdl[x]
      \/ h = boot.hdl
      \/ \E i \in DOMAIN work : work[i].hdl = h
  BY DEF InUse, Range
<1> QED BY <1>3, <1>4, <1>5, <1>6, <1>7, <1>8

\* So a new handle, which is the first that is free, is within the bound.
LEMMA NewIsBounded ==
  ASSUME HandleInv, BoundInv, NEW w \in Purpose, NEW h \in NewHandles(w)
  PROVE  h \in BoundedHandle
<1>1. PICK n \in HandleNumber : h = <<w, n>> /\ \A j \in 1 .. n - 1 : <<w, j>> \in InUse
  BY DEF NewHandles
<1>2. n \in Nat \ {0} /\ MaxWork \in Nat /\ MaxAdrift \in Nat
  BY HintHandlesAssumption DEF HandleNumber
<1>3. PICK Q1 : Q1 = {work[i].hdl : i \in DOMAIN work}
  OBVIOUS
<1>4. IsFiniteSet(Q1) /\ Cardinality(Q1) <= MaxWork /\ Cardinality(Q1) \in Nat
  <2>1. PICK m \in Nat : m = Len(work) /\ DOMAIN work = 1 .. m /\ m <= MaxWork
    BY DEF BoundInv
  <2>2. PICK f : f = [i \in 1 .. m |-> work[i].hdl]
    OBVIOUS
  <2>3. f \in Surjection(1 .. m, Q1)
    BY <1>3, <2>1, <2>2 DEF Surjection
  <2>4. IsFiniteSet(1 .. m) /\ Cardinality(1 .. m) = m
    BY FS_Interval
  <2>5. IsFiniteSet(Q1) /\ Cardinality(Q1) <= m
    BY <2>3, <2>4, FS_Surjection
  <2> QED BY <1>2, <2>1, <2>5, FS_CardinalityType
<1>5. IsFiniteSet(adrift) /\ Cardinality(adrift) <= MaxAdrift /\ Cardinality(adrift) \in Nat
  BY FS_CardinalityType DEF BoundInv
<1>6. PICK U : U = Q1 \cup adrift
  OBVIOUS
<1>7. IsFiniteSet(U) /\ Cardinality(U) \in Nat /\ Cardinality(U) <= MaxWork + MaxAdrift
  <2>1. /\ IsFiniteSet(U) /\ Cardinality(U) = Cardinality(Q1) + Cardinality(adrift) - Cardinality(Q1 \cap adrift)
    BY <1>4, <1>5, <1>6, FS_Union
  <2>2. Cardinality(Q1 \cap adrift) \in Nat
    BY <1>4, FS_Intersection, FS_CardinalityType
  <2> QED BY <1>2, <1>4, <1>5, <2>1, <2>2, FS_CardinalityType
<1>8. PICK D : D = U \cup {Own(w)}
  OBVIOUS
<1>9. IsFiniteSet(D) /\ Cardinality(D) \in Nat /\ Cardinality(D) <= MaxWork + MaxAdrift + 1
  <2>1. PICK y : y = Own(w)
    OBVIOUS
  <2>2. IsFiniteSet(U \cup {y}) /\ Cardinality(U \cup {y}) = IF y \in U THEN Cardinality(U) ELSE Cardinality(U) + 1
    BY <1>7, FS_AddElement
  <2>3. IsFiniteSet(D) /\ Cardinality(D) <= Cardinality(U) + 1
    BY <1>7, <1>8, <2>1, <2>2
  <2> QED BY <1>2, <1>7, <2>3, FS_CardinalityType
<1>10. ASSUME NEW j \in 1 .. n - 1 PROVE <<w, j>> \in D
  <2>1. PICK x : x = <<w, j>>
    OBVIOUS
  <2>2. x \in InUse /\ x[1] = w /\ x[2] = j /\ j # 0
    BY <1>1, <1>2, <2>1
  <2>3. x # NoHdl
    BY <2>2 DEF NoHdl
  <2>4. x = Own(w) \/ x \in adrift \/ \E i \in DOMAIN work : work[i].hdl = x
    BY <2>2, <2>3, InUseFacts
  <2> QED BY <1>3, <1>6, <1>8, <2>1, <2>4
<1>11. PICK g : g = [j \in 1 .. n - 1 |-> <<w, j>>]
  OBVIOUS
<1>12. g \in Injection(1 .. n - 1, D)
  <2>1. g \in [1 .. n - 1 -> D]
    BY <1>10, <1>11
  <2>2. \A i, j \in 1 .. n - 1 : g[i] = g[j] => i = j
    BY <1>11
  <2> QED BY <2>1, <2>2 DEF Injection, IsInjective
<1>13. Cardinality(1 .. n - 1) <= Cardinality(D)
  BY <1>9, <1>12, FS_Injection
<1>14. Cardinality(1 .. n - 1) = n - 1
  BY <1>2, FS_Interval
<1>15. n \in 1 .. HandleBound
  BY <1>2, <1>9, <1>13, <1>14 DEF HandleBound
<1> QED BY <1>1, <1>15 DEF BoundedHandle

\* What a call gets, locks and queues is within the bound.
LEMMA CusIsBounded ==
  ASSUME HandleInv, BoundInv, NEW w \in Purpose, NEW h \in CusLockHint(w)
  PROVE  h \in BoundedHandle
BY NewIsBounded DEF CusLockHint, BoundedHandle

\* Its lock.
LEMMA NewLockIsBounded ==
  ASSUME NEW h \in BoundedHandle, NEW w, NEW timed
  PROVE  \A l \in NewLock(h, w, timed) : l.hdl \in BoundedHandle
BY DEF NewLock

\* Its messages.
LEMMA MessageIsBounded ==
  ASSUME NEW h \in BoundedHandle
  PROVE  Acq(h) \in Seq(BoundedMsg) /\ Rel(h) \in Seq(BoundedMsg)
<1>1. [op |-> "acq", hdl |-> h] \in BoundedMsg /\ [op |-> "rel", hdl |-> h] \in BoundedMsg
  BY DEF BoundedMsg
<1> QED BY <1>1 DEF Acq, Rel, Message

\* The queue they are put in.
LEMMA QueuedIsBounded ==
  ASSUME BoundInv, NEW msgs \in Seq(BoundedMsg), Queued(msgs)
  PROVE  work' \in Seq(BoundedMsg) /\ Len(work') <= MaxWork
<1>1. work \in Seq(BoundedMsg)
  BY DEF BoundInv
<1>2. work \o msgs \in Seq(BoundedMsg) /\ Len(work \o msgs) = Len(work) + Len(msgs)
  BY <1>1
<1> QED BY <1>2 DEF Queued

\* While locks are only added, a handle adrift is that of a lock.
LEMMA LiveStays ==
  ASSUME BoundInv, hlocks \subseteq hlocks'
  PROVE  \A h \in adrift : Live(h)'
BY DEF BoundInv, Live

\* A lock in the place of another.
LEMMA ReplaceBounded ==
  ASSUME BoundInv, NEW h1 \in BoundedHandle, NEW h2 \in BoundedHandle, NEW w, NEW timed,
         Replace(h1, h2, w, timed)
  PROVE  /\ \A l \in hlocks' : l.hdl \in BoundedHandle
         /\ work' \in Seq(BoundedMsg) /\ Len(work') <= MaxWork
         /\ \A h \in adrift : Live(h)'
<1>1. \A l \in hlocks' : l.hdl \in BoundedHandle
  BY NewLockIsBounded DEF BoundInv, Replace
<1>2. Acq(h2) \o Rel(h1) \in Seq(BoundedMsg)
  BY MessageIsBounded
<1>3. work' \in Seq(BoundedMsg) /\ Len(work') <= MaxWork
  BY <1>2, QueuedIsBounded DEF Replace
<1>4. \A h \in adrift : Live(h)'
  BY LiveStays DEF Replace
<1> QED BY <1>1, <1>3, <1>4

\* A mode.
LEMMA SetModeBounded ==
  ASSUME HandleInv, BoundInv, NEW m \in LockMode, NEW enabled \in BOOLEAN, setMode(m, enabled)
  PROVE  BoundInv'
<1>1. PICK h2 : /\ h2 = NoHdl \/ h2 \in CusLockHint(m)
                /\ Replace(powerTbl[m], h2, m, m # "SUSTAINED_PERFORMANCE")
                /\ powerTbl' = [powerTbl EXCEPT ![m] = h2]
                /\ UNCHANGED <<mtkTbl, sharedHdl, boot, adrift>>
  BY DEF setMode
<1>2. m \in Purpose
  BY DEF Purpose
<1>3. h2 \in BoundedHandle /\ powerTbl[m] \in BoundedHandle
  BY <1>1, <1>2, CusIsBounded DEF BoundInv, BoundedHandle
<1>4. /\ \A l \in hlocks' : l.hdl \in BoundedHandle
      /\ work' \in Seq(BoundedMsg) /\ Len(work') <= MaxWork
      /\ \A h \in adrift : Live(h)'
  BY <1>1, <1>3, ReplaceBounded
<1>5. powerTbl' \in [LockMode -> BoundedHandle]
  BY <1>1, <1>3 DEF BoundInv
<1> QED BY <1>1, <1>4, <1>5 DEF BoundInv

\* mtkPowerHint and mtkCusPowerHint.
LEMMA HintBounded ==
  ASSUME HandleInv, BoundInv, NEW hint \in Hint, StartHint(hint) \/ EndCusHint(hint)
  PROVE  BoundInv'
<1>1. PICK h2 : /\ h2 = NoHdl \/ h2 \in CusLockHint(hint)
                /\ Replace(mtkTbl[hint], h2, hint, TRUE)
                /\ mtkTbl' = [mtkTbl EXCEPT ![hint] = h2]
                /\ UNCHANGED <<powerTbl, sharedHdl, boot, adrift>>
  BY DEF StartHint, EndCusHint
<1>2. hint \in Purpose
  BY DEF Purpose
<1>3. h2 \in BoundedHandle /\ mtkTbl[hint] \in BoundedHandle
  BY <1>1, <1>2, CusIsBounded DEF BoundInv, BoundedHandle
<1>4. /\ \A l \in hlocks' : l.hdl \in BoundedHandle
      /\ work' \in Seq(BoundedMsg) /\ Len(work') <= MaxWork
      /\ \A h \in adrift : Live(h)'
  BY <1>1, <1>3, ReplaceBounded
<1>5. mtkTbl' \in [Hint -> BoundedHandle]
  BY <1>1, <1>3 DEF BoundInv
<1> QED BY <1>1, <1>4, <1>5 DEF BoundInv

\* The end of a hint writes over the handle of the second hint.
LEMMA EndHintBounded ==
  ASSUME HandleInv, BoundInv, NEW hint \in Hint, EndHint(hint)
  PROVE  BoundInv'
<1>0. PICK h1, ext : /\ h1 = mtkTbl[hint] /\ ext = IF Performed(h1) THEN ExtHint[hint] ELSE NoHint
                     /\ ext \in Hint \cup {NoHint}
  BY HintHandlesAssumption
<1>1. PICK h2, h3 :
        /\ h2 = NoHdl \/ h2 \in CusLockHint(hint)
        /\ h3 = NoHdl \/ (ext # NoHint /\ h3 \in CusLockHint(ext))
        /\ hlocks' = hlocks \cup NewLock(h2, hint, TRUE) \cup NewLock(h3, ext, TRUE)
        /\ Queued(Acq(h2) \o Rel(h1) \o Acq(h3))
        /\ mtkTbl' = [x \in Hint |-> IF x = hint THEN h2 ELSE IF x = ext THEN h3 ELSE mtkTbl[x]]
        /\ adrift' = IF ext # NoHint /\ Live(mtkTbl[ext]) THEN adrift \cup {mtkTbl[ext]} ELSE adrift
        /\ Cardinality(adrift') <= MaxAdrift
        /\ UNCHANGED <<powerTbl, sharedHdl, boot>>
  <2> DEFINE g1 == mtkTbl[hint]
             gx == IF Performed(g1) THEN ExtHint[hint] ELSE NoHint
  <2>1. PICK h2 \in IF Performed(g1) /\ hint \in HeldHint THEN CusLockHint(hint) ELSE {NoHdl},
             h3 \in IF gx # NoHint THEN CusLockHint(gx) ELSE {NoHdl} :
        /\ g1 # NoHdl
        /\ hlocks' = hlocks \cup NewLock(h2, hint, TRUE) \cup NewLock(h3, gx, TRUE)
        /\ Queued(Acq(h2) \o Rel(g1) \o Acq(h3))
        /\ mtkTbl' = [x \in Hint |-> IF x = hint THEN h2 ELSE IF x = gx THEN h3 ELSE mtkTbl[x]]
        /\ adrift' = IF gx # NoHint /\ Live(mtkTbl[gx]) THEN adrift \cup {mtkTbl[gx]} ELSE adrift
        /\ Cardinality(adrift') <= MaxAdrift
        /\ UNCHANGED <<caller, powerTbl, sharedHdl, boot, api_status, bBacklightOn, modeOn>>
    BY Zenon DEF EndHint
  <2>2. /\ h2 = NoHdl \/ h2 \in CusLockHint(hint)
        /\ h3 = NoHdl \/ (ext # NoHint /\ h3 \in CusLockHint(ext))
    BY <1>0, <2>1
  <2> QED BY <1>0, <2>1, <2>2, Zenon
<1>2. hint \in Purpose /\ (ext # NoHint => ext \in Purpose)
  BY <1>0 DEF Purpose
<1>3. h1 \in BoundedHandle /\ h2 \in BoundedHandle /\ h3 \in BoundedHandle
  BY <1>0, <1>1, <1>2, CusIsBounded DEF BoundInv, BoundedHandle
<1>4. \A l \in hlocks' : l.hdl \in BoundedHandle
  BY <1>1, <1>3, NewLockIsBounded DEF BoundInv
<1>5. PICK ms \in Seq(BoundedMsg) : ms = Acq(h2) \o Rel(h1) \o Acq(h3)
  <2>1. Acq(h2) \in Seq(BoundedMsg) /\ Rel(h1) \in Seq(BoundedMsg) /\ Acq(h3) \in Seq(BoundedMsg)
    BY <1>3, MessageIsBounded
  <2>2. (Acq(h2) \o Rel(h1)) \in Seq(BoundedMsg)
    BY <2>1, ConcatProperties
  <2>3. (Acq(h2) \o Rel(h1)) \o Acq(h3) \in Seq(BoundedMsg)
    BY <2>1, <2>2, ConcatProperties
  <2> QED BY <2>3
<1>6. work' \in Seq(BoundedMsg) /\ Len(work') <= MaxWork
  BY <1>1, <1>5, QueuedIsBounded
<1>7. mtkTbl' \in [Hint -> BoundedHandle]
  BY <1>1, <1>3 DEF BoundInv
<1>8. IsFiniteSet(adrift')
  <2>1. IsFiniteSet(adrift)
    BY DEF BoundInv
  <2>2. PICK y : y = mtkTbl[ext]
    OBVIOUS
  <2>3. IsFiniteSet(adrift \cup {y})
    BY <2>1, FS_AddElement
  <2> QED BY <1>1, <2>1, <2>2, <2>3
<1>9. \A h \in adrift' : Live(h)'
  <2>1. \A h : Live(h) => Live(h)'
    BY <1>1 DEF Live
  <2>2. \A h \in adrift' : Live(h)
    BY <1>1 DEF BoundInv
  <2> QED BY <2>1, <2>2
<1>10. sharedHdl' = sharedHdl /\ powerTbl' = powerTbl /\ boot' = boot /\ Cardinality(adrift') <= MaxAdrift
  BY <1>1
<1> QED BY <1>4, <1>6, <1>7, <1>8, <1>9, <1>10 DEF BoundInv

\* A boost's handle is adrift at once.
LEMMA BoostBounded ==
  ASSUME HandleInv, BoundInv, NEW timed \in BOOLEAN, setBoostHint(timed)
  PROVE  BoundInv'
<1>1. PICK h \in CusLockHint("boost") \ {NoHdl} :
        /\ Cardinality(adrift) < MaxAdrift
        /\ hlocks' = hlocks \cup NewLock(h, "boost", timed)
        /\ Queued(Acq(h)) /\ adrift' = adrift \cup {h}
        /\ UNCHANGED <<powerTbl, mtkTbl, sharedHdl, boot>>
  BY DEF setBoostHint
<1>2. "boost" \in Purpose
  BY DEF Purpose
<1>3. h \in BoundedHandle
  BY <1>1, <1>2, CusIsBounded
<1>4. \A l \in hlocks' : l.hdl \in BoundedHandle
  BY <1>1, <1>3, NewLockIsBounded DEF BoundInv
<1>5. work' \in Seq(BoundedMsg) /\ Len(work') <= MaxWork
  BY <1>1, <1>3, MessageIsBounded, QueuedIsBounded
<1>6. IsFiniteSet(adrift') /\ Cardinality(adrift') <= MaxAdrift
  <2>1. IsFiniteSet(adrift) /\ Cardinality(adrift) \in Nat /\ MaxAdrift \in Nat
    BY FS_CardinalityType, HintHandlesAssumption DEF BoundInv
  <2>2. IsFiniteSet(adrift \cup {h}) /\ Cardinality(adrift \cup {h}) =
           IF h \in adrift THEN Cardinality(adrift) ELSE Cardinality(adrift) + 1
    BY <2>1, FS_AddElement
  <2> QED BY <1>1, <2>1, <2>2
<1>7. \A x \in adrift' : Live(x)'
  <2>1. \A x : Live(x) => Live(x)'
    BY <1>1 DEF Live
  <2>2. Live(h)'
    <3>1. PICK k : k = [hdl |-> h, who |-> "boost", timed |-> timed, state |-> "registered"]
      OBVIOUS
    <3>2. k \in hlocks' /\ k.hdl = h
      BY <1>1, <3>1 DEF NewLock
    <3> QED BY <3>2 DEF Live
  <2> QED BY <1>1, <2>1, <2>2 DEF BoundInv
<1>8. powerTbl' = powerTbl /\ mtkTbl' = mtkTbl /\ sharedHdl' = sharedHdl /\ boot' = boot
  BY <1>1
<1> QED BY <1>4, <1>5, <1>6, <1>7, <1>8 DEF BoundInv

\* A refused re-acquire writes over the handle of a lock that lives.
LEMMA ReAcquireBounded ==
  ASSUME HandleInv, BoundInv, NEW s \in Shared, ReAcquire(s)
  PROVE  BoundInv'
<1>1. PICK old, new :
        /\ old = sharedHdl[s] /\ (new \in {NoHdl, old} \/ new \in NewHandles(s))
        /\ hlocks' = IF new = old THEN hlocks ELSE hlocks \cup NewLock(new, s, TRUE)
        /\ Queued(Acq(new))
        /\ sharedHdl' = [sharedHdl EXCEPT ![s] = new]
        /\ adrift' = IF new # old /\ Live(old) THEN adrift \cup {old} ELSE adrift
        /\ Cardinality(adrift') <= MaxAdrift
        /\ UNCHANGED <<powerTbl, mtkTbl, boot>>
  <2>1. PICK old : old = sharedHdl[s]
    OBVIOUS
  <2>2. PICK new \in IF ~api_status.acq THEN {NoHdl}
                     ELSE IF Live(old) THEN {old} ELSE {NoHdl} \cup NewHandles(s) :
        /\ hlocks' = IF new = old THEN hlocks ELSE hlocks \cup NewLock(new, s, TRUE)
        /\ Queued(Acq(new))
        /\ sharedHdl' = [sharedHdl EXCEPT ![s] = new]
        /\ adrift' = IF new # old /\ Live(old) THEN adrift \cup {old} ELSE adrift
        /\ Cardinality(adrift') <= MaxAdrift
        /\ UNCHANGED <<powerTbl, mtkTbl, boot>>
    BY <2>1 DEF ReAcquire
  <2>3. new \in {NoHdl, old} \/ new \in NewHandles(s)
    BY <2>2
  <2> QED BY <2>1, <2>2, <2>3, Zenon
<1>2. s \in Purpose
  BY DEF Purpose
<1>3. old \in BoundedHandle /\ new \in BoundedHandle
  BY <1>1, <1>2, NewIsBounded DEF BoundInv, BoundedHandle
<1>4. \A l \in hlocks' : l.hdl \in BoundedHandle
  BY <1>1, <1>3, NewLockIsBounded DEF BoundInv
<1>5. work' \in Seq(BoundedMsg) /\ Len(work') <= MaxWork
  BY <1>1, <1>3, MessageIsBounded, QueuedIsBounded
<1>6. IsFiniteSet(adrift')
  <2>1. IsFiniteSet(adrift)
    BY DEF BoundInv
  <2>2. IsFiniteSet(adrift \cup {old})
    BY <2>1, FS_AddElement
  <2> QED BY <1>1, <2>1, <2>2
<1>7. \A x \in adrift' : Live(x)'
  <2>1. \A x : Live(x) => Live(x)'
    BY <1>1 DEF Live
  <2>2. \A x \in adrift' : Live(x)
    BY <1>1 DEF BoundInv
  <2> QED BY <2>1, <2>2
<1>8. sharedHdl' \in [Shared -> BoundedHandle]
  BY <1>1, <1>3 DEF BoundInv
<1>9. powerTbl' = powerTbl /\ mtkTbl' = mtkTbl /\ boot' = boot /\ Cardinality(adrift') <= MaxAdrift
  BY <1>1
<1> QED BY <1>4, <1>5, <1>6, <1>7, <1>8, <1>9 DEF BoundInv

\* The end of the touch boost, and the boot boost.
LEMMA EndingBounded ==
  ASSUME HandleInv, BoundInv, touch_boost_end \/ mtkPowerBootHandler
  PROVE  BoundInv'
<1>1. "boot" \in Purpose /\ "touch" \in Shared /\ NoHdl \in BoundedHandle
  BY DEF Purpose, Shared, BoundedHandle
<1>2. CASE touch_boost_end
  <2>1. /\ Queued(Rel(sharedHdl["touch"])) /\ sharedHdl' = [sharedHdl EXCEPT !["touch"] = NoHdl]
        /\ UNCHANGED <<hlocks, powerTbl, mtkTbl, boot, adrift>>
    BY <1>2 DEF touch_boost_end
  <2>2. PICK h \in BoundedHandle : h = sharedHdl["touch"]
    BY <1>1 DEF BoundInv
  <2>3. work' \in Seq(BoundedMsg) /\ Len(work') <= MaxWork
    BY <2>1, <2>2, MessageIsBounded, QueuedIsBounded
  <2>4. sharedHdl' \in [Shared -> BoundedHandle]
    BY <1>1, <2>1 DEF BoundInv
  <2> QED BY <2>1, <2>3, <2>4 DEF BoundInv, Live
<1>3. CASE boot.pc = "start" /\ mtkPowerBootHandler
  <2>1. PICK h \in CusLockHint("boot") : /\ Replace(NoHdl, h, "boot", TRUE) /\ boot' = [pc |-> "poll", hdl |-> h]
                                         /\ UNCHANGED <<powerTbl, mtkTbl, sharedHdl, adrift>>
    BY <1>3 DEF mtkPowerBootHandler
  <2>2. h \in BoundedHandle
    BY <1>1, CusIsBounded
  <2>3. /\ \A l \in hlocks' : l.hdl \in BoundedHandle
        /\ work' \in Seq(BoundedMsg) /\ Len(work') <= MaxWork
        /\ \A x \in adrift : Live(x)'
    BY <1>1, <2>1, <2>2, ReplaceBounded
  <2>4. boot'.hdl = h
    BY <2>1
  <2> QED BY <2>1, <2>2, <2>3, <2>4 DEF BoundInv
<1>4. CASE boot.pc # "start" /\ mtkPowerBootHandler
  <2>1. /\ Queued(Rel(boot.hdl)) /\ boot' = [pc |-> "done", hdl |-> NoHdl]
        /\ UNCHANGED <<hlocks, powerTbl, mtkTbl, sharedHdl, adrift>>
    BY <1>4 DEF mtkPowerBootHandler
  <2>2. PICK h \in BoundedHandle : h = boot.hdl
    BY DEF BoundInv
  <2>3. work' \in Seq(BoundedMsg) /\ Len(work') <= MaxWork
    BY <2>1, <2>2, MessageIsBounded, QueuedIsBounded
  <2>4. boot'.hdl = NoHdl
    BY <2>1
  <2> QED BY <1>1, <2>1, <2>3, <2>4 DEF BoundInv, Live
<1> QED BY <1>2, <1>3, <1>4

\* Locks that change their state keep their handle.
LEMMA InteractiveBounded ==
  ASSUME BoundInv, NEW enabled \in BOOLEAN, setInteractive(enabled), LocksOK(hlocks)
  PROVE  BoundInv'
<1>1. /\ hlocks' = IF enabled THEN hlocks
                   ELSE {IF l.state = "on" THEN [l EXCEPT !.state = "off"] ELSE l : l \in hlocks}
      /\ UNCHANGED <<work, powerTbl, mtkTbl, sharedHdl, boot, adrift>>
  BY DEF setInteractive
<1>2. \A l \in hlocks : (IF l.state = "on" THEN [l EXCEPT !.state = "off"] ELSE l).hdl = l.hdl
  BY DEF LocksOK, Lock
<1>3. /\ \A k \in hlocks' : \E l \in hlocks : k.hdl = l.hdl
      /\ \A l \in hlocks : \E k \in hlocks' : k.hdl = l.hdl
  BY <1>1, <1>2
<1>4. \A x : Live(x) => Live(x)'
  BY <1>3 DEF Live
<1>5. \A l \in hlocks' : l.hdl \in BoundedHandle
  BY <1>3 DEF BoundInv
<1> QED BY <1>1, <1>4, <1>5 DEF BoundInv

\* The end of a lock is the end of its drift.
LEMMA GoneBounded ==
  ASSUME BoundInv, NEW h, Gone(h), hlocks' \subseteq hlocks,
         \A l \in hlocks : l.hdl # h => l \in hlocks',
         work' \in Seq(BoundedMsg), Len(work') <= MaxWork
  PROVE  BoundInv'
<1>1. adrift' = adrift \ {h} /\ UNCHANGED <<powerTbl, mtkTbl, sharedHdl, boot>>
  BY DEF Gone
<1>2. IsFiniteSet(adrift) /\ Cardinality(adrift) \in Nat /\ MaxAdrift \in Nat /\ Cardinality(adrift) <= MaxAdrift
  BY FS_CardinalityType, HintHandlesAssumption DEF BoundInv
<1>3. IsFiniteSet(adrift') /\ Cardinality(adrift') <= MaxAdrift
  <2>1. IsFiniteSet(adrift \ {h}) /\ Cardinality(adrift \ {h}) =
           IF h \in adrift THEN Cardinality(adrift) - 1 ELSE Cardinality(adrift)
    BY <1>2, FS_RemoveElement
  <2> QED BY <1>1, <1>2, <2>1
<1>4. \A x \in adrift' : Live(x)'
  BY <1>1 DEF BoundInv, Live
<1>5. \A l \in hlocks' : l.hdl \in BoundedHandle
  BY DEF BoundInv
<1> QED BY <1>1, <1>3, <1>4, <1>5 DEF BoundInv

\* The worker.
LEMMA WorkBounded ==
  ASSUME HandleInv, BoundInv, Work
  PROVE  BoundInv'
<1>1. work # <<>> /\ work' = Tail(work) /\ work \in Seq(BoundedMsg) /\ Len(work) <= MaxWork /\ MaxWork \in Nat
  BY HintHandlesAssumption DEF Work, BoundInv
<1>2. work' \in Seq(BoundedMsg) /\ Len(work') <= MaxWork
  BY <1>1
<1>3. PICK m : m = Head(work)
  OBVIOUS
<1>4. CASE m.op = "acq" /\ hlocks' = {IF l.hdl = m.hdl THEN [l EXCEPT !.state = "on"] ELSE l : l \in hlocks}
           /\ UNCHANGED <<powerTbl, mtkTbl, sharedHdl, boot, adrift>>
  <2>1. \A l \in hlocks : (IF l.hdl = m.hdl THEN [l EXCEPT !.state = "on"] ELSE l).hdl = l.hdl
    BY DEF HandleInv, LocksOK, Lock
  <2>2. /\ \A k \in hlocks' : \E l \in hlocks : k.hdl = l.hdl
        /\ \A l \in hlocks : \E k \in hlocks' : k.hdl = l.hdl
    BY <1>4, <2>1
  <2>3. \A x : Live(x) => Live(x)'
    BY <2>2 DEF Live
  <2>4. \A l \in hlocks' : l.hdl \in BoundedHandle
    BY <2>2 DEF BoundInv
  <2> QED BY <1>2, <1>4, <2>3, <2>4 DEF BoundInv
<1>5. CASE hlocks' = {l \in hlocks : l.hdl # m.hdl} /\ Gone(m.hdl)
  BY <1>2, <1>5, GoneBounded
<1> QED BY <1>3, <1>4, <1>5 DEF Work

\* The timer.
LEMMA TimeOutBounded ==
  ASSUME HandleInv, BoundInv, NEW l \in hlocks, TimeOut(l)
  PROVE  BoundInv'
<1>1. hlocks' = hlocks \ {l} /\ Gone(l.hdl) /\ work' = work
  BY DEF TimeOut
<1>2. work' \in Seq(BoundedMsg) /\ Len(work') <= MaxWork
  BY <1>1 DEF BoundInv
<1> QED BY <1>1, <1>2, GoneBounded

\* The handles in use stay within the bound: whatever is refused, replaced, lost or late.
LEMMA HandlesBounded == HandlesSpec => []BoundInv
<1>1. HandlesInit => BoundInv
  <2> SUFFICES ASSUME HandlesInit PROVE BoundInv
    OBVIOUS
  <2>1. NoHdl \in BoundedHandle /\ <<>> \in Seq(BoundedMsg) /\ Len(<<>>) = 0
    BY DEF BoundedHandle
  <2>2. {MaxWork, MaxAdrift} \subseteq Nat
    BY HintHandlesAssumption
  <2>3. IsFiniteSet({}) /\ Cardinality({}) = 0
    BY FS_EmptySet
  <2> QED BY <2>1, <2>2, <2>3 DEF HandlesInit, BoundInv
<1>2. HandleInv /\ BoundInv /\ [HandlesNext]_handleVars => BoundInv'
  <2> SUFFICES ASSUME HandleInv, BoundInv, [HandlesNext]_handleVars PROVE BoundInv'
    OBVIOUS
  <2>1. ASSUME NEW m \in LockMode, NEW enabled \in BOOLEAN, setMode(m, enabled) PROVE BoundInv'
    BY <2>1, SetModeBounded
  <2>2. ASSUME NEW enabled \in BOOLEAN, setInteractive(enabled) PROVE BoundInv'
    BY <2>2, InteractiveBounded DEF HandleInv
  <2>3. ASSUME NEW timed \in BOOLEAN, setBoostHint(timed) PROVE BoundInv'
    BY <2>3, BoostBounded
  <2>4. ASSUME NEW hint \in Hint, StartHint(hint) \/ EndCusHint(hint) PROVE BoundInv'
    BY <2>4, HintBounded
  <2>5. ASSUME NEW hint \in Hint, EndHint(hint) PROVE BoundInv'
    BY <2>5, EndHintBounded
  <2>6. ASSUME NEW s \in Shared, ReAcquire(s) PROVE BoundInv'
    BY <2>6, ReAcquireBounded
  <2>7. CASE touch_boost_end \/ mtkPowerBootHandler
    BY <2>7, EndingBounded
  <2>8. CASE UNCHANGED <<hlocks, work, powerTbl, mtkTbl, sharedHdl, boot, adrift>>
    BY <2>8 DEF BoundInv, Live
  <2>9. ASSUME NEW which, NEW enable \in BOOLEAN, setAPIstatus(which, enable) PROVE BoundInv'
    BY <2>8, <2>9 DEF setAPIstatus
  <2>10. CASE Work
    BY <2>10, WorkBounded
  <2>11. ASSUME NEW l \in hlocks, TimeOut(l) PROVE BoundInv'
    BY <2>11, TimeOutBounded
  <2>12. CASE UNCHANGED handleVars
    BY <2>8, <2>12 DEF handleVars
  <2> QED BY <2>1, <2>2, <2>3, <2>4, <2>5, <2>6, <2>7, <2>9, <2>10, <2>11, <2>12 DEF HandlesNext
<1> QED BY <1>1, <1>2, HandleInvariant, PTL DEF HandlesSpec

\* The types of the handles.
LEMMA HandleTypes == HandlesSpec => []HandlesTypeOK
<1>1. HandleInv /\ BoundInv => HandlesTypeOK
  <2> SUFFICES ASSUME HandleInv, BoundInv PROVE HandlesTypeOK
    OBVIOUS
  <2>1. BoundedHandle = {NoHdl} \cup ((LockMode \cup Hint \cup Shared \cup {"boot", "boost"}) \X (1 .. MaxWork + MaxAdrift + 3))
    BY DEF BoundedHandle, HandleBound, Purpose
  <2>2. {l.hdl : l \in hlocks} \cup Range(powerTbl) \cup Range(mtkTbl) \cup Range(sharedHdl) \subseteq BoundedHandle
    BY DEF BoundInv, Range
  <2>3. {l.state : l \in hlocks} \subseteq {"registered", "on", "off"}
    BY DEF HandleInv, LocksOK, Lock
  <2>4. adrift \subseteq {l.hdl : l \in hlocks}
    BY DEF BoundInv, Live
  <2> QED BY <2>1, <2>2, <2>3, <2>4 DEF HandlesTypeOK
<1> QED BY <1>1, HandlesBounded, HandleInvariant, PTL

(***************************************************************************)
(* The timer list.  The pointers are those of a sequence of timers without *)
(* repetition (Links); each pointer operation does to them what PutIn or   *)
(* TakeOut does to the sequence, and MI_DlInsert's binary search ends at a *)
(* place that keeps the order of the seconds.                              *)
(***************************************************************************)
\* The pointers of the list, and the record tMI_DLIST.
Node == Timer \cup {NIL}
DList == [first : Node, last : Node, count : Nat, next : [Timer -> Node], prev : [Timer -> Node]]

\* L is the list of the n different nodes q, in this order.
Links(L, n, q) ==
  /\ L \in DList /\ n \in Nat /\ q \in [1 .. n -> Timer]
  /\ \A i, j \in 1 .. n : q[i] = q[j] => i = j
  /\ L.count = n
  /\ L.first = IF n = 0 THEN NIL ELSE q[1]
  /\ L.last = IF n = 0 THEN NIL ELSE q[n]
  /\ \A i \in 1 .. n : L.next[q[i]] = IF i = n THEN NIL ELSE q[i + 1]
  /\ \A i \in 1 .. n : L.prev[q[i]] = IF i = 1 THEN NIL ELSE q[i - 1]

\* q with x at place i, and without its i-th node.
PutIn(q, n, i, x) == [k \in 1 .. n + 1 |-> IF k < i THEN q[k] ELSE IF k = i THEN x ELSE q[k - 1]]
TakeOut(q, n, i) == [k \in 1 .. n - 1 |-> IF k < i THEN q[k] ELSE q[k + 1]]

\* x is not one of the nodes q.
Fresh(q, n, x) == \A k \in 1 .. n : q[k] # x

\* PutIn is a sequence of n + 1 different nodes.
LEMMA PutInFacts ==
  ASSUME NEW n \in Nat, NEW q \in [1 .. n -> Timer], \A i, j \in 1 .. n : q[i] = q[j] => i = j,
         NEW x \in Timer, Fresh(q, n, x), NEW i \in 1 .. n + 1,
         NEW r, r = PutIn(q, n, i, x)
  PROVE  /\ r \in [1 .. n + 1 -> Timer]
         /\ \A k \in 1 .. n + 1 : r[k] = IF k < i THEN q[k] ELSE IF k = i THEN x ELSE q[k - 1]
         /\ \A k, j \in 1 .. n + 1 : r[k] = r[j] => k = j
<1>1. /\ r \in [1 .. n + 1 -> Timer]
      /\ \A k \in 1 .. n + 1 : r[k] = IF k < i THEN q[k] ELSE IF k = i THEN x ELSE q[k - 1]
  BY DEF PutIn
<1>2. ASSUME NEW k \in 1 .. n + 1, NEW j \in 1 .. n + 1, r[k] = r[j] PROVE k = j
  <2>1. \A m \in 1 .. n + 1 : m # i => \E l \in 1 .. n : r[m] = q[l] /\ l = IF m < i THEN m ELSE m - 1
    BY <1>1
  <2>2. r[i] = x
    BY <1>1
  <2> QED BY <1>2, <2>1, <2>2 DEF Fresh
<1> QED BY <1>1, <1>2

\* A node is linked in at place i when its neighbours point to it and it to them.
LEMMA LinkedIn ==
  ASSUME NEW L, NEW n, NEW q, Links(L, n, q), NEW x \in Timer, Fresh(q, n, x), NEW i \in 1 .. n + 1,
         NEW M \in DList, M.count = n + 1,
         M.first = IF i = 1 THEN x ELSE L.first,
         M.last = IF i = n + 1 THEN x ELSE L.last,
         M.next[x] = IF i = n + 1 THEN NIL ELSE q[i],
         M.prev[x] = IF i = 1 THEN NIL ELSE q[i - 1],
         \A k \in 1 .. n : M.next[q[k]] = IF k = i - 1 THEN x ELSE L.next[q[k]],
         \A k \in 1 .. n : M.prev[q[k]] = IF k = i THEN x ELSE L.prev[q[k]]
  PROVE  Links(M, n + 1, PutIn(q, n, i, x))
<1>1. /\ n \in Nat /\ n + 1 \in Nat /\ q \in [1 .. n -> Timer] /\ i \in 1 .. n + 1
      /\ \A k, j \in 1 .. n : q[k] = q[j] => k = j
  BY DEF Links
<1>2. PICK r : r = PutIn(q, n, i, x)
  OBVIOUS
<1>3. /\ r \in [1 .. n + 1 -> Timer]
      /\ \A k \in 1 .. n + 1 : r[k] = IF k < i THEN q[k] ELSE IF k = i THEN x ELSE q[k - 1]
      /\ \A k, j \in 1 .. n + 1 : r[k] = r[j] => k = j
  BY <1>1, <1>2, PutInFacts
<1>4. M.first = r[1]
  BY <1>1, <1>3 DEF Links
<1>5. M.last = r[n + 1]
  BY <1>1, <1>3 DEF Links
<1>6. ASSUME NEW k \in 1 .. n + 1 PROVE M.next[r[k]] = IF k = n + 1 THEN NIL ELSE r[k + 1]
  <2>1. CASE k = i
    <3>1. r[k] = x /\ (k # n + 1 => r[k + 1] = q[k] /\ k \in 1 .. n)
      BY <1>1, <1>3, <2>1
    <3> QED BY <2>1, <3>1
  <2>2. CASE k < i
    <3>1. k \in 1 .. n /\ r[k] = q[k]
      BY <1>1, <1>3, <2>2
    <3>2. CASE k = i - 1
      <4>1. r[k + 1] = x /\ k # n + 1
        BY <1>1, <1>3, <3>2
      <4> QED BY <3>1, <3>2, <4>1
    <3>3. CASE k # i - 1
      <4>1. k + 1 \in 1 .. n /\ r[k + 1] = q[k + 1] /\ k # n + 1 /\ k # n
        BY <1>1, <1>3, <2>2, <3>3
      <4>2. L.next[q[k]] = q[k + 1]
        BY <3>1, <4>1 DEF Links
      <4> QED BY <3>1, <3>3, <4>1, <4>2
    <3> QED BY <3>2, <3>3
  <2>3. CASE k > i
    <3>1. k - 1 \in 1 .. n /\ r[k] = q[k - 1] /\ k - 1 # i - 1
      BY <1>1, <1>3, <2>3
    <3>2. M.next[r[k]] = L.next[q[k - 1]]
      BY <3>1
    <3>3. L.next[q[k - 1]] = IF k - 1 = n THEN NIL ELSE q[(k - 1) + 1]
      BY <3>1 DEF Links
    <3>4. k # n + 1 => r[k + 1] = q[k]
      BY <1>1, <1>3, <2>3
    <3> QED BY <1>1, <3>2, <3>3, <3>4
  <2> QED BY <1>1, <2>1, <2>2, <2>3
<1>7. ASSUME NEW k \in 1 .. n + 1 PROVE M.prev[r[k]] = IF k = 1 THEN NIL ELSE r[k - 1]
  <2>1. CASE k = i
    <3>1. r[k] = x /\ (k # 1 => r[k - 1] = q[k - 1])
      BY <1>1, <1>3, <2>1
    <3> QED BY <2>1, <3>1
  <2>2. CASE k < i
    <3>1. k \in 1 .. n /\ r[k] = q[k] /\ k # i
      BY <1>1, <1>3, <2>2
    <3>2. M.prev[r[k]] = L.prev[q[k]]
      BY <3>1
    <3>3. L.prev[q[k]] = IF k = 1 THEN NIL ELSE q[k - 1]
      BY <3>1 DEF Links
    <3>4. k # 1 => r[k - 1] = q[k - 1]
      BY <1>1, <1>3, <2>2
    <3> QED BY <3>2, <3>3, <3>4
  <2>3. CASE k > i
    <3>1. k - 1 \in 1 .. n /\ r[k] = q[k - 1] /\ k # 1
      BY <1>1, <1>3, <2>3
    <3>2. CASE k - 1 = i
      <4>1. r[k - 1] = x
        BY <1>1, <1>3, <3>2
      <4> QED BY <3>1, <3>2, <4>1
    <3>3. CASE k - 1 # i
      <4>1. r[k - 1] = q[(k - 1) - 1] /\ k - 1 # 1
        BY <1>1, <1>3, <2>3, <3>3
      <4>2. L.prev[q[k - 1]] = q[(k - 1) - 1]
        BY <3>1, <4>1 DEF Links
      <4> QED BY <3>1, <3>3, <4>1, <4>2
    <3> QED BY <3>2, <3>3
  <2> QED BY <1>1, <2>1, <2>2, <2>3
<1>8. n + 1 # 0
  BY <1>1
<1>9. Links(M, n + 1, r)
  BY <1>1, <1>3, <1>4, <1>5, <1>6, <1>7, <1>8 DEF Links
<1> QED BY <1>2, <1>9

\* MI_DlPushTail puts a node behind the last one.
LEMMA PushTailLinks ==
  ASSUME NEW L, NEW n, NEW q, Links(L, n, q), NEW x \in Timer, Fresh(q, n, x)
  PROVE  Links(MI_DlPushTail(L, x), n + 1, PutIn(q, n, n + 1, x))
<1>1. /\ L \in DList /\ n \in Nat /\ q \in [1 .. n -> Timer] /\ NIL \notin Timer
      /\ \A k, j \in 1 .. n : q[k] = q[j] => k = j
      /\ L.count = n /\ n + 1 \in 1 .. n + 1
  BY TimerListAssumption DEF Links
<1>2. PICK M : M = MI_DlPushTail(L, x)
  OBVIOUS
<1>3. CASE n = 0
  <2>1. L.first = NIL
    BY <1>3 DEF Links
  <2>2. M = [L EXCEPT !.first = x, !.last = x, !.next[x] = NIL, !.prev[x] = NIL, !.count = 1]
    BY <1>2, <2>1 DEF MI_DlPushTail, First
  <2>3. /\ M \in DList /\ M.count = 1 /\ M.first = x /\ M.last = x
        /\ M.next[x] = NIL /\ M.prev[x] = NIL
    BY <1>1, <2>2 DEF DList, Node
  <2>4. 1 .. n = {}
    BY <1>3
  <2> QED BY <1>1, <1>2, <1>3, <2>3, <2>4, LinkedIn
<1>4. CASE n # 0
  <2>1. /\ n \in 1 .. n /\ L.last = q[n] /\ q[n] \in Timer /\ q[n] # x
        /\ L.first = q[1] /\ q[1] \in Timer /\ L.first # NIL
    BY <1>1, <1>4 DEF Links, Fresh
  <2>2. M = [L EXCEPT !.next = [@ EXCEPT ![x] = NIL, ![L.last] = x], !.prev[x] = L.last,
                      !.last = x, !.count = @ + 1]
    BY <1>2, <2>1 DEF MI_DlPushTail
  <2>3. /\ M \in DList /\ M.count = n + 1 /\ M.first = L.first /\ M.last = x
        /\ M.next[x] = NIL /\ M.prev[x] = q[n]
    <3>1. PICK nx \in [Timer -> Node], pv \in [Timer -> Node] :
            nx = [L.next EXCEPT ![x] = NIL, ![q[n]] = x] /\ pv = [L.prev EXCEPT ![x] = q[n]]
      BY <1>1, <2>1 DEF DList, Node
    <3>2. M = [L EXCEPT !.next = nx, !.prev = pv, !.last = x, !.count = n + 1]
      BY <1>1, <2>1, <2>2, <3>1 DEF DList
    <3>3. nx[x] = NIL /\ pv[x] = q[n]
      BY <1>1, <2>1, <3>1 DEF DList
    <3>4. x \in Node /\ n + 1 \in Nat
      BY <1>1 DEF Node
    <3> QED BY <1>1, <3>2, <3>3, <3>4 DEF DList
  <2>4. \A t \in Timer : t # x => /\ M.next[t] = IF t = q[n] THEN x ELSE L.next[t]
                                  /\ M.prev[t] = L.prev[t]
    BY <1>1, <2>1, <2>2 DEF DList, Node
  <2>5. \A k \in 1 .. n : q[k] \in Timer /\ q[k] # x /\ (q[k] = q[n] <=> k = n)
    BY <1>1, <2>1 DEF Fresh
  <2>6. \A k \in 1 .. n : /\ M.next[q[k]] = IF k = (n + 1) - 1 THEN x ELSE L.next[q[k]]
                          /\ M.prev[q[k]] = IF k = n + 1 THEN x ELSE L.prev[q[k]]
    BY <1>1, <2>4, <2>5
  <2>7. M.prev[x] = IF n + 1 = 1 THEN NIL ELSE q[(n + 1) - 1]
    BY <1>1, <1>4, <2>3
  <2>8. M.first = IF n + 1 = 1 THEN x ELSE L.first
    BY <1>1, <1>4, <2>3
  <2> QED BY <1>1, <1>2, <2>3, <2>6, <2>7, <2>8, LinkedIn
<1> QED BY <1>3, <1>4

\* MI_DlPushHead puts a node before the first one.
LEMMA PushHeadLinks ==
  ASSUME NEW L, NEW n, NEW q, Links(L, n, q), NEW x \in Timer, Fresh(q, n, x)
  PROVE  Links(MI_DlPushHead(L, x), n + 1, PutIn(q, n, 1, x))
<1>1. /\ L \in DList /\ n \in Nat /\ q \in [1 .. n -> Timer] /\ NIL \notin Timer
      /\ \A k, j \in 1 .. n : q[k] = q[j] => k = j
      /\ L.count = n /\ 1 \in 1 .. n + 1
  BY TimerListAssumption DEF Links
<1>2. PICK M : M = MI_DlPushHead(L, x)
  OBVIOUS
<1>3. CASE n = 0
  <2>1. L.first = NIL
    BY <1>3 DEF Links
  <2>2. M = [L EXCEPT !.first = x, !.last = x, !.next[x] = NIL, !.prev[x] = NIL, !.count = 1]
    BY <1>2, <2>1 DEF MI_DlPushHead, First
  <2>3. /\ M \in DList /\ M.count = 1 /\ M.first = x /\ M.last = x
        /\ M.next[x] = NIL /\ M.prev[x] = NIL
    BY <1>1, <2>2 DEF DList, Node
  <2>4. 1 .. n = {}
    BY <1>3
  <2> QED BY <1>1, <1>2, <1>3, <2>3, <2>4, LinkedIn
<1>4. CASE n # 0
  <2>1. 1 \in 1 .. n /\ L.first = q[1] /\ q[1] \in Timer /\ q[1] # x /\ L.first # NIL
    BY <1>1, <1>4 DEF Links, Fresh
  <2>2. M = [L EXCEPT !.prev = [@ EXCEPT ![x] = NIL, ![L.first] = x], !.next[x] = L.first,
                      !.first = x, !.count = @ + 1]
    BY <1>2, <2>1 DEF MI_DlPushHead
  <2>3. /\ M \in DList /\ M.count = n + 1 /\ M.last = L.last /\ M.first = x
        /\ M.prev[x] = NIL /\ M.next[x] = q[1]
    <3>1. PICK nx \in [Timer -> Node], pv \in [Timer -> Node] :
            pv = [L.prev EXCEPT ![x] = NIL, ![q[1]] = x] /\ nx = [L.next EXCEPT ![x] = q[1]]
      <4>1. L.next \in [Timer -> Node] /\ L.prev \in [Timer -> Node]
        BY <1>1 DEF DList
      <4>2. x \in Node /\ q[1] \in Node /\ NIL \in Node
        BY <2>1 DEF Node
      <4>3. [L.prev EXCEPT ![x] = NIL, ![q[1]] = x] \in [Timer -> Node]
        BY <4>1, <4>2
      <4>4. [L.next EXCEPT ![x] = q[1]] \in [Timer -> Node]
        BY <4>1, <4>2
      <4> QED BY <4>3, <4>4
    <3>2. M = [L EXCEPT !.next = nx, !.prev = pv, !.first = x, !.count = n + 1]
      BY <1>1, <2>1, <2>2, <3>1 DEF DList
    <3>3. pv[x] = NIL /\ nx[x] = q[1]
      BY <1>1, <2>1, <3>1 DEF DList
    <3>4. x \in Node /\ n + 1 \in Nat
      BY <1>1 DEF Node
    <3> QED BY <1>1, <3>2, <3>3, <3>4 DEF DList
  <2>4. \A t \in Timer : t # x => /\ M.prev[t] = IF t = q[1] THEN x ELSE L.prev[t]
                                  /\ M.next[t] = L.next[t]
    BY <1>1, <2>1, <2>2 DEF DList, Node
  <2>5. \A k \in 1 .. n : q[k] \in Timer /\ q[k] # x /\ (q[k] = q[1] <=> k = 1)
    BY <1>1, <2>1 DEF Fresh
  <2>6. \A k \in 1 .. n : /\ M.next[q[k]] = IF k = 1 - 1 THEN x ELSE L.next[q[k]]
                          /\ M.prev[q[k]] = IF k = 1 THEN x ELSE L.prev[q[k]]
    BY <1>1, <2>4, <2>5
  <2>7. M.next[x] = IF 1 = n + 1 THEN NIL ELSE q[1]
    BY <1>1, <1>4, <2>3
  <2>8. M.last = IF 1 = n + 1 THEN x ELSE L.last
    BY <1>1, <1>4, <2>3
  <2> QED BY <1>1, <1>2, <2>3, <2>6, <2>7, <2>8, LinkedIn
<1> QED BY <1>3, <1>4

\* Linking in between two nodes.
LEMMA InsertBetweenLinks ==
  ASSUME NEW L, NEW n, NEW q, Links(L, n, q), NEW x \in Timer, Fresh(q, n, x), NEW i \in 2 .. n
  PROVE  Links([L EXCEPT !.next = [@ EXCEPT ![x] = q[i], ![q[i - 1]] = x],
                         !.prev = [@ EXCEPT ![x] = q[i - 1], ![q[i]] = x], !.count = @ + 1],
               n + 1, PutIn(q, n, i, x))
<1>0. PICK M : M = [L EXCEPT !.next = [@ EXCEPT ![x] = q[i], ![q[i - 1]] = x],
                             !.prev = [@ EXCEPT ![x] = q[i - 1], ![q[i]] = x], !.count = @ + 1]
  OBVIOUS
<1>1. /\ L \in DList /\ n \in Nat /\ q \in [1 .. n -> Timer] /\ NIL \notin Timer
      /\ \A k, j \in 1 .. n : q[k] = q[j] => k = j
      /\ L.count = n /\ i \in 1 .. n + 1
  BY TimerListAssumption DEF Links
<1>2. /\ i \in 1 .. n /\ i - 1 \in 1 .. n /\ i # 1 /\ i # n + 1
  BY <1>1
<1>3. q[i] \in Timer /\ q[i - 1] \in Timer /\ q[i] # x /\ q[i - 1] # x
  BY <1>1, <1>2 DEF Fresh
<1>4. /\ M \in DList /\ M.count = n + 1 /\ M.first = L.first /\ M.last = L.last
      /\ M.next[x] = q[i] /\ M.prev[x] = q[i - 1]
  <2>1. PICK nx \in [Timer -> Node], pv \in [Timer -> Node] :
          nx = [L.next EXCEPT ![x] = q[i], ![q[i - 1]] = x] /\ pv = [L.prev EXCEPT ![x] = q[i - 1], ![q[i]] = x]
    BY <1>1, <1>3 DEF DList, Node
  <2>2. M = [L EXCEPT !.next = nx, !.prev = pv, !.count = n + 1]
    BY <1>0, <1>1, <2>1 DEF DList
  <2>3. nx[x] = q[i] /\ pv[x] = q[i - 1]
    BY <1>1, <1>3, <2>1 DEF DList
  <2>4. n + 1 \in Nat
    BY <1>1
  <2> QED BY <1>1, <2>2, <2>3, <2>4 DEF DList
<1>5. \A t \in Timer : t # x => /\ M.next[t] = IF t = q[i - 1] THEN x ELSE L.next[t]
                                /\ M.prev[t] = IF t = q[i] THEN x ELSE L.prev[t]
  BY <1>0, <1>1, <1>3 DEF DList, Node
<1>6. \A k \in 1 .. n : q[k] \in Timer /\ q[k] # x /\ (q[k] = q[i] <=> k = i) /\ (q[k] = q[i - 1] <=> k = i - 1)
  BY <1>1, <1>2 DEF Fresh
<1>7. \A k \in 1 .. n : /\ M.next[q[k]] = IF k = i - 1 THEN x ELSE L.next[q[k]]
                        /\ M.prev[q[k]] = IF k = i THEN x ELSE L.prev[q[k]]
  BY <1>5, <1>6
<1>8. /\ M.first = IF i = 1 THEN x ELSE L.first
      /\ M.last = IF i = n + 1 THEN x ELSE L.last
      /\ M.next[x] = IF i = n + 1 THEN NIL ELSE q[i]
      /\ M.prev[x] = IF i = 1 THEN NIL ELSE q[i - 1]
  BY <1>2, <1>4
<1>9. Links(M, n + 1, PutIn(q, n, i, x))
  BY <1>1, <1>4, <1>7, <1>8, LinkedIn
<1> QED BY <1>0, <1>9

\* MI_DlInsertAfter puts a node behind the i-th one.
LEMMA InsertAfterLinks ==
  ASSUME NEW L, NEW n, NEW q, Links(L, n, q), NEW x \in Timer, Fresh(q, n, x), NEW j \in 1 .. n
  PROVE  Links(MI_DlInsertAfter(L, q[j], x), n + 1, PutIn(q, n, j + 1, x))
<1>1. /\ n \in Nat /\ L.count = n /\ n # 0 /\ q \in [1 .. n -> Timer] /\ NIL \notin Timer
      /\ L.next[q[j]] = IF j = n THEN NIL ELSE q[j + 1]
  BY TimerListAssumption DEF Links
<1>2. CASE j = n
  <2>1. MI_DlInsertAfter(L, q[j], x) = MI_DlPushTail(L, x)
    BY <1>1, <1>2 DEF MI_DlInsertAfter
  <2> QED BY <1>2, <2>1, PushTailLinks
<1>3. CASE j # n
  <2>1. j + 1 \in 2 .. n /\ q[j + 1] \in Timer /\ (j + 1) - 1 = j /\ j + 1 \in 1 .. n
    BY <1>1, <1>3
  <2>2. L.next[q[j]] # NIL
    BY <1>1, <1>3, <2>1
  <2>3. MI_DlInsertAfter(L, q[j], x) =
          [L EXCEPT !.next = [@ EXCEPT ![x] = q[j + 1], ![q[j]] = x],
                    !.prev = [@ EXCEPT ![x] = q[j], ![q[j + 1]] = x], !.count = @ + 1]
    BY <1>1, <1>3, <2>2 DEF MI_DlInsertAfter
  <2>4. PICK i \in 2 .. n : i = j + 1 /\ i - 1 = j
    BY <2>1
  <2>5. Links([L EXCEPT !.next = [@ EXCEPT ![x] = q[i], ![q[i - 1]] = x],
                        !.prev = [@ EXCEPT ![x] = q[i - 1], ![q[i]] = x], !.count = @ + 1],
              n + 1, PutIn(q, n, i, x))
    BY InsertBetweenLinks
  <2> QED BY <2>3, <2>4, <2>5
<1> QED BY <1>2, <1>3

\* MI_DlInsertBefore puts a node before the i-th one.
LEMMA InsertBeforeLinks ==
  ASSUME NEW L, NEW n, NEW q, Links(L, n, q), NEW x \in Timer, Fresh(q, n, x), NEW j \in 1 .. n
  PROVE  Links(MI_DlInsertBefore(L, q[j], x), n + 1, PutIn(q, n, j, x))
<1>1. /\ n \in Nat /\ L \in DList /\ L.count = n /\ n # 0 /\ q \in [1 .. n -> Timer] /\ NIL \notin Timer
      /\ L.prev[q[j]] = IF j = 1 THEN NIL ELSE q[j - 1]
  BY TimerListAssumption DEF Links
<1>2. CASE j = 1
  <2>1. MI_DlInsertBefore(L, q[j], x) = MI_DlPushHead(L, x)
    BY <1>1, <1>2 DEF MI_DlInsertBefore
  <2> QED BY <1>2, <2>1, PushHeadLinks
<1>3. CASE j # 1
  <2>1. j \in 2 .. n /\ j - 1 \in 1 .. n /\ q[j - 1] \in Timer
    BY <1>1, <1>3
  <2>2. L.prev[q[j]] # NIL
    BY <1>1, <1>3, <2>1
  <2>3. MI_DlInsertBefore(L, q[j], x) =
          [L EXCEPT !.next = [@ EXCEPT ![x] = q[j], ![q[j - 1]] = x],
                    !.prev = [@ EXCEPT ![x] = q[j - 1], ![q[j]] = x], !.count = @ + 1]
    BY <1>1, <1>3, <2>2 DEF MI_DlInsertBefore, DList
  <2>4. Links([L EXCEPT !.next = [@ EXCEPT ![x] = q[j], ![q[j - 1]] = x],
                        !.prev = [@ EXCEPT ![x] = q[j - 1], ![q[j]] = x], !.count = @ + 1],
              n + 1, PutIn(q, n, j, x))
    BY <2>1, InsertBetweenLinks
  <2> QED BY <2>3, <2>4
<1> QED BY <1>2, <1>3

\* TakeOut is a sequence of n - 1 different nodes.
LEMMA TakeOutFacts ==
  ASSUME NEW n \in Nat, NEW q \in [1 .. n -> Timer], \A i, j \in 1 .. n : q[i] = q[j] => i = j,
         NEW i \in 1 .. n, NEW r, r = TakeOut(q, n, i)
  PROVE  /\ n - 1 \in Nat /\ r \in [1 .. n - 1 -> Timer]
         /\ \A k \in 1 .. n - 1 : r[k] = IF k < i THEN q[k] ELSE q[k + 1]
         /\ \A k, j \in 1 .. n - 1 : r[k] = r[j] => k = j
<1>1. /\ n - 1 \in Nat /\ r \in [1 .. n - 1 -> Timer]
      /\ \A k \in 1 .. n - 1 : r[k] = IF k < i THEN q[k] ELSE q[k + 1]
  BY DEF TakeOut
<1>2. ASSUME NEW k \in 1 .. n - 1, NEW j \in 1 .. n - 1, r[k] = r[j] PROVE k = j
  <2>1. \A m \in 1 .. n - 1 : \E l \in 1 .. n : r[m] = q[l] /\ l = IF m < i THEN m ELSE m + 1
    BY <1>1
  <2> QED BY <1>2, <2>1
<1> QED BY <1>1, <1>2

\* A node is linked out when its neighbours point to each other.
LEMMA DeleteLinks ==
  ASSUME NEW L, NEW n, NEW q, Links(L, n, q), NEW i \in 1 .. n
  PROVE  Links(MI_DlDelete(L, q[i]), n - 1, TakeOut(q, n, i))
<1>1. /\ L \in DList /\ n \in Nat /\ q \in [1 .. n -> Timer] /\ NIL \notin Timer
      /\ \A k, j \in 1 .. n : q[k] = q[j] => k = j
      /\ L.count = n /\ n # 0 /\ q[i] \in Timer
      /\ L.first = q[1] /\ L.last = q[n]
      /\ L.next[q[i]] = IF i = n THEN NIL ELSE q[i + 1]
      /\ L.prev[q[i]] = IF i = 1 THEN NIL ELSE q[i - 1]
  BY TimerListAssumption DEF Links
<1>2. PICK r : r = TakeOut(q, n, i)
  OBVIOUS
<1>3. /\ n - 1 \in Nat /\ r \in [1 .. n - 1 -> Timer]
      /\ \A k \in 1 .. n - 1 : r[k] = IF k < i THEN q[k] ELSE q[k + 1]
      /\ \A k, j \in 1 .. n - 1 : r[k] = r[j] => k = j
  <2>1. n \in Nat /\ q \in [1 .. n -> Timer] /\ \A k, j \in 1 .. n : q[k] = q[j] => k = j
    BY <1>1
  <2> QED BY <1>2, <2>1, TakeOutFacts
<1>4. PICK M : M = MI_DlDelete(L, q[i])
  OBVIOUS
<1>5. i + 1 \in 1 .. n <=> i # n
  BY <1>1
<1>6. i - 1 \in 1 .. n <=> i # 1
  BY <1>1
<1>7. PICK nx \in [Timer -> Node] :
        nx = IF i = 1 THEN [L.next EXCEPT ![q[i]] = NIL]
             ELSE [L.next EXCEPT ![q[i - 1]] = L.next[q[i]], ![q[i]] = NIL]
  <2>1. L.next \in [Timer -> Node] /\ NIL \in Node /\ L.next[q[i]] \in Node
    BY <1>1 DEF DList, Node
  <2> QED BY <1>1, <2>1
<1>8. PICK pv \in [Timer -> Node] :
        pv = IF i = n THEN [L.prev EXCEPT ![q[i]] = NIL]
             ELSE [L.prev EXCEPT ![q[i + 1]] = L.prev[q[i]], ![q[i]] = NIL]
  <2>1. L.prev \in [Timer -> Node] /\ NIL \in Node /\ L.prev[q[i]] \in Node
    BY <1>1 DEF DList, Node
  <2> QED BY <1>1, <2>1
<1>9. M = [L EXCEPT !.last = IF i = n THEN L.prev[q[i]] ELSE L.last,
                    !.prev = pv,
                    !.first = IF i = 1 THEN L.next[q[i]] ELSE L.first,
                    !.next = nx, !.count = n - 1]
  <2>1. L.next[q[i]] = NIL <=> i = n
    BY <1>1, <1>5
  <2>2. L.prev[q[i]] = NIL <=> i = 1
    BY <1>1, <1>6
  <2>3. i # n => L.next[q[i]] = q[i + 1]
    BY <1>1
  <2>4. i # 1 => L.prev[q[i]] = q[i - 1]
    BY <1>1
  <2>5. M = [L EXCEPT
               !.last = IF i = n THEN L.prev[q[i]] ELSE @,
               !.prev = IF i = n THEN [@ EXCEPT ![q[i]] = NIL] ELSE [@ EXCEPT ![L.next[q[i]]] = L.prev[q[i]], ![q[i]] = NIL],
               !.first = IF i = 1 THEN L.next[q[i]] ELSE @,
               !.next = IF i = 1 THEN [@ EXCEPT ![q[i]] = NIL] ELSE [@ EXCEPT ![L.prev[q[i]]] = L.next[q[i]], ![q[i]] = NIL],
               !.count = @ - 1]
    BY <1>1, <1>4, <2>1, <2>2 DEF MI_DlDelete
  <2> QED BY <1>1, <1>7, <1>8, <2>3, <2>4, <2>5 DEF DList
<1>10. /\ M \in DList /\ M.count = n - 1 /\ M.next = nx /\ M.prev = pv
       /\ M.last = IF i = n THEN L.prev[q[i]] ELSE L.last
       /\ M.first = IF i = 1 THEN L.next[q[i]] ELSE L.first
  <2>1. L.prev[q[i]] \in Node /\ L.next[q[i]] \in Node
    BY <1>1 DEF DList
  <2> QED BY <1>1, <1>3, <1>9, <2>1 DEF DList
<1>11. M.first = IF n - 1 = 0 THEN NIL ELSE r[1]
  BY <1>1, <1>3, <1>10
<1>12. M.last = IF n - 1 = 0 THEN NIL ELSE r[n - 1]
  BY <1>1, <1>3, <1>10
<1>13. ASSUME NEW k \in 1 .. n, k # i
       PROVE  /\ nx[q[k]] = IF k = i - 1 THEN L.next[q[i]] ELSE L.next[q[k]]
              /\ pv[q[k]] = IF k = i + 1 THEN L.prev[q[i]] ELSE L.prev[q[k]]
  <2>1. q[k] \in Timer /\ q[k] # q[i] /\ L.next \in [Timer -> Node] /\ L.prev \in [Timer -> Node]
    BY <1>1, <1>13 DEF DList
  <2>2. i # 1 => (q[k] = q[i - 1] <=> k = i - 1)
    BY <1>1, <1>6
  <2>3. i # n => (q[k] = q[i + 1] <=> k = i + 1)
    BY <1>1, <1>5
  <2>4. i = 1 => k # i - 1
    OBVIOUS
  <2>5. i = n => k # i + 1
    BY <1>1
  <2> QED BY <1>1, <1>7, <1>8, <2>1, <2>2, <2>3, <2>4, <2>5
<1>14. ASSUME NEW k \in 1 .. n - 1 PROVE M.next[r[k]] = IF k = n - 1 THEN NIL ELSE r[k + 1]
  <2>1. CASE k < i
    <3>1. k \in 1 .. n /\ k # i /\ r[k] = q[k]
      BY <1>1, <1>3, <2>1
    <3>2. L.next[q[k]] = q[k + 1]
      BY <1>1, <3>1 DEF Links
    <3>3. CASE k = i - 1
      <4>1. M.next[r[k]] = L.next[q[i]]
        BY <1>10, <1>13, <3>1, <3>3
      <4>2. k # n - 1 => r[k + 1] = q[i + 1]
        BY <1>1, <1>3, <3>3
      <4> QED BY <1>1, <3>3, <4>1, <4>2
    <3>4. CASE k # i - 1
      <4>1. M.next[r[k]] = q[k + 1]
        BY <1>10, <1>13, <3>1, <3>2, <3>4
      <4>2. k # n - 1 /\ r[k + 1] = q[k + 1]
        BY <1>1, <1>3, <2>1, <3>4
      <4> QED BY <4>1, <4>2
    <3> QED BY <3>3, <3>4
  <2>2. CASE ~(k < i)
    <3>1. k + 1 \in 1 .. n /\ k + 1 # i /\ r[k] = q[k + 1] /\ k + 1 # i - 1
      BY <1>1, <1>3, <2>2
    <3>2. L.next[q[k + 1]] = IF k + 1 = n THEN NIL ELSE q[(k + 1) + 1]
      BY <3>1 DEF Links
    <3>3. M.next[r[k]] = L.next[q[k + 1]]
      BY <1>10, <1>13, <3>1
    <3>4. k # n - 1 => r[k + 1] = q[(k + 1) + 1]
      <4>1. k # n - 1 => k + 1 \in 1 .. n - 1 /\ ~(k + 1 < i)
        BY <1>1, <2>2
      <4> QED BY <1>3, <4>1
    <3> QED BY <1>1, <3>2, <3>3, <3>4
  <2> QED BY <2>1, <2>2
<1>15. ASSUME NEW k \in 1 .. n - 1 PROVE M.prev[r[k]] = IF k = 1 THEN NIL ELSE r[k - 1]
  <2>1. CASE k < i
    <3>1. k \in 1 .. n /\ k # i /\ r[k] = q[k] /\ k # i + 1
      BY <1>1, <1>3, <2>1
    <3>2. L.prev[q[k]] = IF k = 1 THEN NIL ELSE q[k - 1]
      BY <3>1 DEF Links
    <3>3. M.prev[r[k]] = L.prev[q[k]]
      BY <1>10, <1>13, <3>1
    <3>4. k # 1 => r[k - 1] = q[k - 1]
      BY <1>1, <1>3, <2>1
    <3> QED BY <3>2, <3>3, <3>4
  <2>2. CASE ~(k < i)
    <3>1. k + 1 \in 1 .. n /\ k + 1 # i /\ r[k] = q[k + 1]
      BY <1>1, <1>3, <2>2
    <3>2. CASE k = i
      <4>1. M.prev[r[k]] = L.prev[q[i]]
        BY <1>10, <1>13, <3>1, <3>2
      <4>2. k # 1 => r[k - 1] = q[i - 1]
        BY <1>1, <1>3, <3>2
      <4> QED BY <1>1, <3>2, <4>1, <4>2
    <3>3. CASE k # i
      <4>1. L.prev[q[k + 1]] = q[k]
        BY <1>1, <3>1 DEF Links
      <4>2. M.prev[r[k]] = q[k]
        BY <1>10, <1>13, <3>1, <3>3, <4>1
      <4>3. k # 1 /\ r[k - 1] = q[k]
        <5>1. k - 1 \in 1 .. n - 1 /\ ~(k - 1 < i) /\ (k - 1) + 1 = k
          BY <1>1, <2>2, <3>3
        <5> QED BY <1>3, <5>1
      <4> QED BY <4>2, <4>3
    <3> QED BY <3>2, <3>3
  <2> QED BY <2>1, <2>2
<1>16. Links(M, n - 1, r)
  BY <1>3, <1>10, <1>11, <1>12, <1>14, <1>15 DEF Links
<1> QED BY <1>2, <1>4, <1>16

\* MI_DlStep from the first node counts along the list.
LEMMA StepLinks ==
  ASSUME NEW L, NEW n, NEW q, Links(L, n, q), NEW k \in 0 .. n
  PROVE  MI_DlStep(L, L.first, k) = IF k = n THEN NIL ELSE q[k + 1]
<1> DEFINE G == CHOOSE g : g = [i \in 0 .. k |->
                  IF i = 0 THEN L.first ELSE IF g[i - 1] = NIL THEN NIL ELSE L.next[g[i - 1]]]
<1>1. /\ n \in Nat /\ k \in Nat /\ k <= n /\ q \in [1 .. n -> Timer] /\ NIL \notin Timer
      /\ L.first = IF n = 0 THEN NIL ELSE q[1]
      /\ \A i \in 1 .. n : L.next[q[i]] = IF i = n THEN NIL ELSE q[i + 1]
  BY TimerListAssumption DEF Links
<1>2. PICK h : h = [i \in 0 .. k |-> IF i = n THEN NIL ELSE q[i + 1]]
  OBVIOUS
<1>3. h[0] = L.first
  BY <1>1, <1>2
<1>4. ASSUME NEW i \in 1 .. k
      PROVE  h[i - 1] # NIL /\ h[i] = L.next[h[i - 1]]
  <2>1. i - 1 \in 0 .. k /\ i - 1 # n /\ (i - 1) + 1 = i /\ i \in 1 .. n /\ i \in 0 .. k
    BY <1>1
  <2>2. h[i - 1] = q[i] /\ q[i] \in Timer
    BY <1>1, <1>2, <2>1
  <2>3. h[i] = IF i = n THEN NIL ELSE q[i + 1]
    BY <1>2, <2>1
  <2> QED BY <1>1, <2>1, <2>2, <2>3
<1>5. h = [i \in 0 .. k |-> IF i = 0 THEN L.first ELSE IF h[i - 1] = NIL THEN NIL ELSE L.next[h[i - 1]]]
  <2>1. \A i \in 0 .. k : h[i] = IF i = 0 THEN L.first ELSE IF h[i - 1] = NIL THEN NIL ELSE L.next[h[i - 1]]
    BY <1>1, <1>3, <1>4
  <2> QED BY <1>2, <2>1
<1>6. G = [i \in 0 .. k |-> IF i = 0 THEN L.first ELSE IF G[i - 1] = NIL THEN NIL ELSE L.next[G[i - 1]]]
  BY <1>5
<1>7. MI_DlStep(L, L.first, k) = G[k]
  BY DEF MI_DlStep
<1> HIDE DEF G
<1>8. G[0] = L.first /\ \A i \in 1 .. k : G[i] = IF G[i - 1] = NIL THEN NIL ELSE L.next[G[i - 1]]
  BY <1>1, <1>6
<1>9. PICK Good : Good = {i \in 0 .. k : G[i] = h[i]}
  OBVIOUS
<1>10. 0 \in Good /\ \A i \in 1 .. k : i - 1 \in Good => i \in Good
  BY <1>1, <1>3, <1>4, <1>8, <1>9
<1>11. k \in Good
  <2>1. k \in Nat /\ k \in 0 .. k
    BY <1>1
  <2>2. \A i \in 0 .. k : i \in Good
    BY <1>10, <2>1, TurnByTurn
  <2> QED BY <2>1, <2>2
<1> QED BY <1>1, <1>2, <1>7, <1>9, <1>11

-----------------------------------------------------------------------------
\* The list is in order to the second.
InOrder(e, n, q) == \A k \in 2 .. n : e[q[k - 1]] \div SECOND <= e[q[k]] \div SECOND

\* A time has a second.
LEMMA SecondIsNat ==
  ASSUME NEW v \in Nat
  PROVE  v \div SECOND \in Nat
BY TimerListAssumption

\* What an answer of _comparePTIMER_ says about the seconds.
LEMMA CompareFacts ==
  ASSUME NEW a \in Nat, NEW b \in Nat
  PROVE  /\ _comparePTIMER_(a, b) \in {"later", "earlier", "equal"}
         /\ _comparePTIMER_(a, b) = "later" => b \div SECOND <= a \div SECOND
         /\ _comparePTIMER_(a, b) = "earlier" => a \div SECOND <= b \div SECOND
         /\ _comparePTIMER_(a, b) = "equal" => a \div SECOND = b \div SECOND
<1>1. PICK s \in Nat, t \in Nat : s = a \div SECOND /\ t = b \div SECOND
  BY SecondIsNat
<1>2. _comparePTIMER_(a, b) =
        IF s > t THEN "later" ELSE IF s < t THEN "earlier"
        ELSE IF a % SECOND > b % SECOND THEN "later" ELSE "equal"
  BY <1>1 DEF _comparePTIMER_
<1>3. CASE s > t
  BY <1>1, <1>2, <1>3
<1>4. CASE s < t
  BY <1>1, <1>2, <1>4
<1>5. CASE s = t
  BY <1>1, <1>2, <1>5
<1> QED BY <1>3, <1>4, <1>5

\* A node between two that it fits leaves the list in order.
LEMMA PutInOrder ==
  ASSUME NEW n \in Nat, NEW q \in [1 .. n -> Timer], NEW e \in [Timer -> Nat], InOrder(e, n, q),
         NEW x \in Timer, NEW i \in 1 .. n + 1,
         i > 1 => e[q[i - 1]] \div SECOND <= e[x] \div SECOND,
         i <= n => e[x] \div SECOND <= e[q[i]] \div SECOND
  PROVE  InOrder(e, n + 1, PutIn(q, n, i, x))
<1>1. PICK r : r = PutIn(q, n, i, x)
  OBVIOUS
<1>2. \A k \in 1 .. n + 1 : r[k] = IF k < i THEN q[k] ELSE IF k = i THEN x ELSE q[k - 1]
  BY <1>1 DEF PutIn
<1>3. ASSUME NEW k \in 2 .. n + 1 PROVE e[r[k - 1]] \div SECOND <= e[r[k]] \div SECOND
  <2>1. k - 1 \in 1 .. n + 1 /\ k \in 1 .. n + 1
    OBVIOUS
  <2>2. CASE k < i
    <3>1. r[k] = q[k] /\ r[k - 1] = q[k - 1] /\ k \in 2 .. n
      BY <1>2, <2>1, <2>2
    <3> QED BY <3>1 DEF InOrder
  <2>3. CASE k = i
    <3>1. r[k] = x /\ r[k - 1] = q[i - 1] /\ i > 1
      BY <1>2, <2>1, <2>3
    <3> QED BY <3>1
  <2>4. CASE k = i + 1
    <3>1. r[k] = q[i] /\ r[k - 1] = x /\ i <= n
      BY <1>2, <2>1, <2>4
    <3> QED BY <3>1
  <2>5. CASE k > i + 1
    <3>1. r[k] = q[k - 1] /\ r[k - 1] = q[(k - 1) - 1] /\ k - 1 \in 2 .. n
      BY <1>2, <2>1, <2>5
    <3> QED BY <3>1 DEF InOrder
  <2> QED BY <2>2, <2>3, <2>4, <2>5
<1>4. InOrder(e, n + 1, r)
  BY <1>3 DEF InOrder
<1> QED BY <1>1, <1>4

\* Without one of its nodes the list is still in order.
LEMMA TakeOutOrder ==
  ASSUME NEW n \in Nat, NEW q \in [1 .. n -> Timer], NEW e \in [Timer -> Nat], InOrder(e, n, q),
         NEW i \in 1 .. n
  PROVE  InOrder(e, n - 1, TakeOut(q, n, i))
<1>1. PICK r : r = TakeOut(q, n, i)
  OBVIOUS
<1>2. \A k \in 1 .. n - 1 : r[k] = IF k < i THEN q[k] ELSE q[k + 1]
  BY <1>1 DEF TakeOut
<1>3. ASSUME NEW k \in 2 .. n - 1 PROVE e[r[k - 1]] \div SECOND <= e[r[k]] \div SECOND
  <2>1. k - 1 \in 1 .. n - 1 /\ k \in 1 .. n - 1 /\ k \in 2 .. n /\ k + 1 \in 2 .. n /\ (k + 1) - 1 = k
    OBVIOUS
  <2>2. CASE k < i
    <3>1. r[k] = q[k] /\ r[k - 1] = q[k - 1]
      BY <1>2, <2>1, <2>2
    <3> QED BY <2>1, <3>1 DEF InOrder
  <2>3. CASE k = i
    <3>1. r[k] = q[k + 1] /\ r[k - 1] = q[k - 1]
      BY <1>2, <2>1, <2>3
    <3>2. PICK a \in Nat, b \in Nat, c \in Nat :
            a = e[q[k - 1]] \div SECOND /\ b = e[q[k]] \div SECOND /\ c = e[q[k + 1]] \div SECOND
      <4>1. e[q[k - 1]] \in Nat /\ e[q[k]] \in Nat /\ e[q[k + 1]] \in Nat
        BY <2>1
      <4> QED BY <4>1, SecondIsNat
    <3>3. a <= b /\ b <= c
      BY <2>1, <3>2 DEF InOrder
    <3> QED BY <3>1, <3>2, <3>3
  <2>4. CASE k > i
    <3>1. r[k] = q[k + 1] /\ r[k - 1] = q[(k - 1) + 1] /\ (k - 1) + 1 = k
      BY <1>2, <2>1, <2>4
    <3> QED BY <2>1, <3>1 DEF InOrder
  <2> QED BY <2>2, <2>3, <2>4
<1>4. InOrder(e, n - 1, r)
  BY <1>3 DEF InOrder
<1> QED BY <1>1, <1>4

-----------------------------------------------------------------------------
\* The state of the search: x belongs behind vStart and not behind vEnd.
Bracket(L, x, e, n) ==
  {b \in [vStart : Nat, vEnd : Nat, vMid : Nat] :
     /\ b.vStart < b.vMid /\ b.vEnd <= n - 1
     /\ b.vMid < b.vEnd \/ (b.vMid = b.vEnd /\ b.vEnd = b.vStart + 1)
     /\ Probe(L, x, e, b.vStart) = "later" /\ Probe(L, x, e, b.vEnd) # "later"}

\* The place of the search is inside its bracket.
LEMMA BracketFacts ==
  ASSUME NEW L, NEW x, NEW e, NEW n, NEW b \in [vStart : Nat, vEnd : Nat, vMid : Nat],
         b.vStart < b.vMid, b.vMid < b.vEnd, b.vEnd <= n - 1,
         Probe(L, x, e, b.vStart) = "later", Probe(L, x, e, b.vEnd) # "later"
  PROVE  b \in Bracket(L, x, e, n)
BY DEF Bracket

\* A turn keeps it, and brings the ends closer unless the place is found.
LEMMA SearchTurnNarrows ==
  ASSUME NEW L, NEW x, NEW e, NEW n \in Nat, NEW b \in Bracket(L, x, e, n),
         NEW c, c = SearchTurn(L, x, e, b)
  PROVE  /\ c \in Bracket(L, x, e, n)
         /\ c # b => c.vEnd - c.vStart < b.vEnd - b.vStart
<1>1. /\ b \in [vStart : Nat, vEnd : Nat, vMid : Nat]
      /\ b.vStart < b.vMid /\ b.vEnd <= n - 1
      /\ b.vMid < b.vEnd \/ (b.vMid = b.vEnd /\ b.vEnd = b.vStart + 1)
      /\ Probe(L, x, e, b.vStart) = "later" /\ Probe(L, x, e, b.vEnd) # "later"
  BY DEF Bracket
<1>2. b.vStart \in Nat /\ b.vEnd \in Nat /\ b.vMid \in Nat
  BY <1>1
<1>3. PICK p : p = Probe(L, x, e, b.vMid)
  OBVIOUS
<1>4. CASE p = "later" /\ b.vMid + 1 # b.vEnd
  <2>1. PICK m : m = (b.vMid + 1 + b.vEnd) \div 2
    OBVIOUS
  <2>2. c = [vStart |-> b.vMid, vEnd |-> b.vEnd, vMid |-> m]
    BY <1>3, <1>4, <2>1 DEF SearchTurn
  <2>3. b.vMid # b.vEnd
    BY <1>1, <1>3, <1>4
  <2>4. b.vMid + 1 < b.vEnd
    BY <1>1, <1>2, <1>4, <2>3
  <2>5. m \in Nat /\ b.vMid < m /\ m < b.vEnd
    BY <1>2, <2>1, <2>4
  <2>6. c \in [vStart : Nat, vEnd : Nat, vMid : Nat]
    BY <1>2, <2>2, <2>5
  <2>7. c \in Bracket(L, x, e, n)
    <3>1. c.vStart = b.vMid /\ c.vEnd = b.vEnd /\ c.vMid = m
      BY <2>2
    <3>2. Probe(L, x, e, c.vStart) = "later" /\ Probe(L, x, e, c.vEnd) # "later"
      BY <1>1, <1>3, <1>4, <3>1
    <3>3. c.vStart < c.vMid /\ c.vMid < c.vEnd /\ c.vEnd <= n - 1
      BY <1>1, <2>5, <3>1
    <3> QED BY <2>6, <3>2, <3>3, BracketFacts
  <2>8. c.vEnd - c.vStart < b.vEnd - b.vStart
    BY <1>1, <1>2, <2>2
  <2> QED BY <2>7, <2>8
<1>5. CASE p = "earlier" /\ b.vMid - 1 # b.vStart
  <2>1. PICK m : m = (b.vStart + 1 + b.vMid) \div 2
    OBVIOUS
  <2>2. c = [vStart |-> b.vStart, vEnd |-> b.vMid, vMid |-> m]
    BY <1>3, <1>5, <2>1 DEF SearchTurn
  <2>3. b.vStart + 1 < b.vMid
    BY <1>1, <1>2, <1>5
  <2>4. m \in Nat /\ b.vStart < m /\ m < b.vMid
    BY <1>2, <2>1, <2>3
  <2>5. c \in [vStart : Nat, vEnd : Nat, vMid : Nat]
    BY <1>2, <2>2, <2>4
  <2>6. c.vStart = b.vStart /\ c.vEnd = b.vMid /\ c.vMid = m
    BY <2>2
  <2>7. c \in Bracket(L, x, e, n)
    <3>1. Probe(L, x, e, c.vStart) = "later" /\ Probe(L, x, e, c.vEnd) # "later"
      BY <1>1, <1>3, <1>5, <2>6
    <3>2. c.vStart < c.vMid /\ c.vMid < c.vEnd /\ c.vEnd <= n - 1
      BY <1>1, <1>2, <2>4, <2>6
    <3> QED BY <2>5, <3>1, <3>2, BracketFacts
  <2>8. c.vEnd - c.vStart < b.vEnd - b.vStart
    BY <1>1, <1>2, <2>3, <2>6
  <2> QED BY <2>7, <2>8
<1>6. CASE ~(p = "later" /\ b.vMid + 1 # b.vEnd) /\ ~(p = "earlier" /\ b.vMid - 1 # b.vStart)
  <2>1. c = b
    BY <1>3, <1>6 DEF SearchTurn
  <2> QED BY <2>1
<1> QED BY <1>4, <1>5, <1>6

\* The search ends at the place: n turns are enough.
LEMMA SearchEnds ==
  ASSUME NEW L, NEW x, NEW e, NEW n \in Nat, n >= 2, L.count = n,
         Probe(L, x, e, 0) = "later", Probe(L, x, e, n - 1) # "later",
         NEW m, m = Search(L, x, e)
  PROVE  \E b \in Bracket(L, x, e, n) : b.vMid = m /\ SearchTurn(L, x, e, b) = b
<1> DEFINE G == CHOOSE g : g = [k \in 0 .. L.count |->
                  IF k = 0 THEN [vStart |-> 0, vEnd |-> L.count - 1, vMid |-> L.count \div 2]
                  ELSE SearchTurn(L, x, e, g[k - 1])]
<1>1. PICK t : t = [vStart |-> 0, vEnd |-> n - 1, vMid |-> n \div 2]
  OBVIOUS
<1>2. PICK S : S = Bracket(L, x, e, n)
  OBVIOUS
<1>3. t \in S /\ t.vEnd - t.vStart = n - 1
  <2>1. PICK h : h = n \div 2
    OBVIOUS
  <2>2. h \in Nat /\ 0 < h /\ n - 1 \in Nat /\ (h < n - 1 \/ (h = n - 1 /\ n - 1 = 0 + 1))
    <3>1. CASE n = 2
      BY <2>1, <3>1
    <3>2. CASE n > 2
      <4>1. h \in Int /\ 2 * h <= n /\ n <= 2 * h + 1
        BY <2>1
      <4> QED BY <3>2, <4>1
    <3> QED BY <3>1, <3>2
  <2>3. t \in [vStart : Nat, vEnd : Nat, vMid : Nat] /\ t.vStart = 0 /\ t.vEnd = n - 1 /\ t.vMid = h
    BY <1>1, <2>1, <2>2
  <2>4. t \in Bracket(L, x, e, n)
    BY <2>2, <2>3 DEF Bracket
  <2> QED BY <1>2, <2>3, <2>4
<1>4. \A b \in S : /\ SearchTurn(L, x, e, b) \in S
                   /\ b.vStart \in Nat /\ b.vEnd \in Nat /\ b.vStart < b.vEnd
                   /\ LET c == SearchTurn(L, x, e, b) IN c # b => c.vEnd - c.vStart < b.vEnd - b.vStart
  <2>1. ASSUME NEW b \in S PROVE b.vStart \in Nat /\ b.vEnd \in Nat /\ b.vStart < b.vEnd
    <3>1. /\ b \in [vStart : Nat, vEnd : Nat, vMid : Nat] /\ b.vStart < b.vMid
          /\ b.vMid < b.vEnd \/ b.vMid = b.vEnd
      BY <1>2 DEF Bracket
    <3> QED BY <3>1
  <2> QED BY <1>2, <2>1, SearchTurnNarrows
<1>5. PICK body : body = [y \in S \X (1 .. n) |-> SearchTurn(L, x, e, y[1])]
  OBVIOUS
<1>6. body \in [S \X (1 .. n) -> S] /\ \A b \in S, k \in 1 .. n : body[<<b, k>>] = SearchTurn(L, x, e, b)
  BY <1>4, <1>5
<1>7. PICK h \in [0 .. n -> S] : h[0] = t /\ \A k \in 1 .. n : h[k] = body[<<h[k - 1], k>>]
  <2>1. Looped(n, S, t, body)
    BY <1>3, <1>6, LoopExists
  <2> QED BY <2>1, Zenon DEF Looped
<1>8. h = [k \in 0 .. L.count |->
             IF k = 0 THEN [vStart |-> 0, vEnd |-> L.count - 1, vMid |-> L.count \div 2]
             ELSE SearchTurn(L, x, e, h[k - 1])]
  <2>1. ASSUME NEW k \in 1 .. n PROVE h[k] = SearchTurn(L, x, e, h[k - 1])
    <3>1. h[k - 1] \in S
      OBVIOUS
    <3> QED BY <1>6, <1>7, <3>1
  <2>2. h = [k \in 0 .. n |-> IF k = 0 THEN t ELSE SearchTurn(L, x, e, h[k - 1])]
    BY <1>7, <2>1
  <2> QED BY <1>1, <2>2
<1>9. G = [k \in 0 .. L.count |->
             IF k = 0 THEN [vStart |-> 0, vEnd |-> L.count - 1, vMid |-> L.count \div 2]
             ELSE SearchTurn(L, x, e, G[k - 1])]
  BY <1>8
<1>10. m = G[n].vMid
  BY DEF Search
<1> HIDE DEF G
<1>11. G[0] = t /\ \A k \in 1 .. n : G[k] = SearchTurn(L, x, e, G[k - 1])
  BY <1>1, <1>9
<1>12. PICK Good : Good = {k \in 0 .. n : /\ G[k] \in S
                                          /\ \/ SearchTurn(L, x, e, G[k]) = G[k]
                                             \/ G[k].vEnd - G[k].vStart <= n - 1 - k}
  OBVIOUS
<1>13. 0 \in Good
  BY <1>3, <1>11, <1>12
<1>14. ASSUME NEW k \in 1 .. n, k - 1 \in Good PROVE k \in Good
  <2>1. PICK b \in S, c \in S : b = G[k - 1] /\ c = G[k] /\ c = SearchTurn(L, x, e, b)
    BY <1>4, <1>11, <1>12, <1>14
  <2>0. k \in 0 .. n
    OBVIOUS
  <2>2. CASE c = b
    <3>1. SearchTurn(L, x, e, G[k]) = G[k] /\ G[k] \in S
      BY <2>1, <2>2, Zenon
    <3> QED BY <1>12, <2>0, <3>1, Zenon
  <2>3. CASE c # b
    <3>1. b.vEnd - b.vStart <= n - 1 - (k - 1)
      BY <1>12, <1>14, <2>1, <2>3
    <3>2. c.vEnd - c.vStart < b.vEnd - b.vStart
      BY <1>4, <2>1, <2>3
    <3>3. c.vEnd - c.vStart <= n - 1 - k
      BY <1>4, <3>1, <3>2
    <3>4. G[k] \in S /\ G[k].vEnd - G[k].vStart <= n - 1 - k
      BY <2>1, <3>3, Zenon
    <3> QED BY <1>12, <2>0, <3>4, Zenon
  <2> QED BY <2>2, <2>3
<1>15. n \in Good
  <2>1. \A k \in 0 .. n : k \in Good
    BY <1>13, <1>14, TurnByTurn
  <2> QED BY <2>1
<1>16. G[n] \in S /\ SearchTurn(L, x, e, G[n]) = G[n]
  <2>1. G[n] \in S /\ G[n].vStart < G[n].vEnd /\ G[n].vStart \in Nat /\ G[n].vEnd \in Nat
    BY <1>4, <1>12, <1>15
  <2>2. ~(G[n].vEnd - G[n].vStart <= n - 1 - n)
    BY <2>1
  <2> QED BY <1>12, <1>15, <2>1, <2>2
<1> QED BY <1>2, <1>10, <1>16

\* A node is inserted at a place where the list stays in order.
LEMMA InsertLinks ==
  ASSUME NEW L, NEW n, NEW q, Links(L, n, q), NEW e \in [Timer -> Nat], InOrder(e, n, q),
         NEW x \in Timer, Fresh(q, n, x)
  PROVE  \E i \in 1 .. n + 1 : /\ Links(MI_DlInsert(L, x, e), n + 1, PutIn(q, n, i, x))
                               /\ InOrder(e, n + 1, PutIn(q, n, i, x))
<1> DEFINE Sec(t) == e[t] \div SECOND
           cmp(t) == _comparePTIMER_(e[x], e[t])
<1>1. /\ n \in Nat /\ L.count = n /\ q \in [1 .. n -> Timer]
      /\ n # 0 => L.first = q[1] /\ L.last = q[n]
  BY DEF Links
<1>2. \A t \in Timer : /\ Sec(t) \in Nat /\ cmp(t) \in {"later", "earlier", "equal"}
                       /\ cmp(t) = "later" => Sec(t) <= Sec(x)
                       /\ cmp(t) = "earlier" => Sec(x) <= Sec(t)
                       /\ cmp(t) = "equal" => Sec(x) = Sec(t)
  BY SecondIsNat, CompareFacts
<1>3. \A m \in 0 .. n - 1 : m + 1 \in 1 .. n /\ q[m + 1] \in Timer /\ Probe(L, x, e, m) = cmp(q[m + 1])
                            /\ MI_DlStep(L, L.first, m) = q[m + 1]
  <2>1. ASSUME NEW m \in 0 .. n - 1 PROVE MI_DlStep(L, L.first, m) = q[m + 1] /\ m + 1 \in 1 .. n
    <3>1. m \in 0 .. n /\ m # n /\ m + 1 \in 1 .. n
      BY <1>1
    <3> QED BY <3>1, StepLinks
  <2> QED BY <1>1, <2>1 DEF Probe
<1>4. ASSUME NEW i \in 1 .. n + 1,
             i > 1 => Sec(q[i - 1]) <= Sec(x), i <= n => Sec(x) <= Sec(q[i])
      PROVE  InOrder(e, n + 1, PutIn(q, n, i, x))
  BY <1>1, <1>4, PutInOrder
<1>5. \A k \in 2 .. n : Sec(q[k - 1]) <= Sec(q[k])
  BY DEF InOrder
<1> HIDE DEF Sec, cmp
<1>6. CASE n = 0
  <2>1. MI_DlInsert(L, x, e) = MI_DlPushTail(L, x)
    BY <1>1, <1>6 DEF MI_DlInsert
  <2>2. n + 1 \in 1 .. n + 1 /\ ~(n + 1 > 1) /\ ~(n + 1 <= n)
    BY <1>6
  <2>3. InOrder(e, n + 1, PutIn(q, n, n + 1, x))
    BY <1>4, <2>2
  <2> QED BY <2>1, <2>2, <2>3, PushTailLinks
<1>7. CASE n # 0 /\ cmp(q[1]) # "later"
  <2>1. MI_DlInsert(L, x, e) = MI_DlInsertBefore(L, q[1], x)
    BY <1>1, <1>7 DEF MI_DlInsert, cmp
  <2>2. 1 \in 1 .. n + 1 /\ 1 \in 1 .. n /\ ~(1 > 1)
    BY <1>1, <1>7
  <2>3. Sec(x) <= Sec(q[1])
    BY <1>1, <1>2, <1>7, <2>2
  <2>4. InOrder(e, n + 1, PutIn(q, n, 1, x))
    BY <1>4, <2>2, <2>3
  <2> QED BY <2>1, <2>2, <2>4, InsertBeforeLinks
<1>8. CASE n # 0 /\ cmp(q[1]) = "later" /\ (n = 1 \/ cmp(q[n]) = "later")
  <2>1. MI_DlInsert(L, x, e) = MI_DlPushTail(L, x)
    BY <1>1, <1>8 DEF MI_DlInsert, cmp
  <2>2. n + 1 \in 1 .. n + 1 /\ ~(n + 1 <= n) /\ (n + 1) - 1 = n /\ n \in 1 .. n
    BY <1>1, <1>8
  <2>3. Sec(q[n]) <= Sec(x)
    BY <1>1, <1>2, <1>8, <2>2
  <2>4. InOrder(e, n + 1, PutIn(q, n, n + 1, x))
    BY <1>4, <2>2, <2>3
  <2> QED BY <2>1, <2>2, <2>4, PushTailLinks
<1>9. CASE n # 0 /\ cmp(q[1]) = "later" /\ ~(n = 1 \/ cmp(q[n]) = "later")
  <2>1. n >= 2 /\ 0 \in 0 .. n - 1 /\ n - 1 \in 0 .. n - 1 /\ (n - 1) + 1 = n /\ 0 + 1 = 1
    BY <1>1, <1>9
  <2>2. Probe(L, x, e, 0) = "later" /\ Probe(L, x, e, n - 1) # "later"
    BY <1>3, <1>9, <2>1
  <2>3. PICK m : m = Search(L, x, e)
    OBVIOUS
  <2>4. PICK b \in Bracket(L, x, e, n) : b.vMid = m /\ SearchTurn(L, x, e, b) = b
    <3>1. n \in Nat /\ n >= 2 /\ L.count = n
      BY <1>1, <2>1
    <3> QED BY <2>2, <2>3, <3>1, SearchEnds, ZenonT(60)
  <2>5. /\ b \in [vStart : Nat, vEnd : Nat, vMid : Nat]
        /\ b.vStart < b.vMid /\ b.vEnd <= n - 1
        /\ b.vMid < b.vEnd \/ (b.vMid = b.vEnd /\ b.vEnd = b.vStart + 1)
        /\ Probe(L, x, e, b.vStart) = "later" /\ Probe(L, x, e, b.vEnd) # "later"
    BY <2>4 DEF Bracket
  <2>6. b.vStart \in Nat /\ b.vEnd \in Nat /\ b.vMid \in Nat
    BY <2>5
  <2>7. m \in 1 .. n - 1 /\ m \in 0 .. n - 1 /\ m + 1 \in 2 .. n /\ (m + 1) - 1 = m
    BY <1>1, <2>4, <2>5, <2>6
  <2>8. /\ MI_DlStep(L, L.first, m) = q[m + 1] /\ Probe(L, x, e, m) = cmp(q[m + 1])
        /\ q[m + 1] \in Timer /\ q[m] \in Timer /\ m + 1 \in 1 .. n
    BY <1>1, <1>3, <2>7
  <2>9. CASE cmp(q[m + 1]) = "later"
    <3>1. b.vMid + 1 = b.vEnd
      <4>1. ~(b.vMid + 1 # b.vEnd)
        <5>1. SUFFICES ASSUME b.vMid + 1 # b.vEnd PROVE FALSE
          OBVIOUS
        <5>2. SearchTurn(L, x, e, b) = [vStart |-> b.vMid, vEnd |-> b.vEnd, vMid |-> (b.vMid + 1 + b.vEnd) \div 2]
          BY <2>4, <2>8, <2>9, <5>1 DEF SearchTurn
        <5>3. b.vStart = b.vMid
          BY <2>4, <5>2
        <5> QED BY <2>5, <2>6, <5>3
      <4> QED BY <4>1
    <3>2. MI_DlInsert(L, x, e) = MI_DlInsertAfter(L, q[m + 1], x)
      BY <1>1, <1>9, <2>3, <2>8, <2>9 DEF MI_DlInsert, cmp
    <3>3. m + 1 \in 0 .. n - 1 /\ Probe(L, x, e, m + 1) # "later"
      BY <1>1, <2>4, <2>5, <2>6, <3>1
    <3>4. cmp(q[(m + 1) + 1]) # "later" /\ q[(m + 1) + 1] \in Timer
      BY <1>3, <3>3
    <3>5. Sec(q[m + 1]) <= Sec(x) /\ Sec(x) <= Sec(q[(m + 1) + 1])
      BY <1>2, <2>8, <2>9, <3>4
    <3>6. (m + 1) + 1 \in 1 .. n + 1 /\ ((m + 1) + 1) - 1 = m + 1
      BY <1>1, <2>7
    <3>7. InOrder(e, n + 1, PutIn(q, n, (m + 1) + 1, x))
      BY <1>4, <3>5, <3>6
    <3>8. Links(MI_DlInsertAfter(L, q[m + 1], x), n + 1, PutIn(q, n, (m + 1) + 1, x))
      BY <2>8, InsertAfterLinks
    <3> QED BY <3>2, <3>6, <3>7, <3>8
  <2>10. CASE cmp(q[m + 1]) # "later"
    <3>1. MI_DlInsert(L, x, e) = MI_DlInsertBefore(L, q[m + 1], x)
      BY <1>1, <1>9, <2>3, <2>8, <2>10 DEF MI_DlInsert, cmp
    <3>2. Sec(x) <= Sec(q[m + 1])
      BY <1>2, <2>8, <2>10
    <3>3. Sec(q[m]) <= Sec(x)
      <4>1. CASE cmp(q[m + 1]) = "equal"
        <5>1. Sec(q[m]) <= Sec(q[m + 1])
          BY <1>5, <2>7
        <5> QED BY <1>2, <2>8, <4>1, <5>1
      <4>2. CASE cmp(q[m + 1]) = "earlier"
        <5>1. b.vMid - 1 = b.vStart
          <6>1. SUFFICES ASSUME b.vMid - 1 # b.vStart PROVE FALSE
            OBVIOUS
          <6>2. SearchTurn(L, x, e, b) = [vStart |-> b.vStart, vEnd |-> b.vMid, vMid |-> (b.vStart + 1 + b.vMid) \div 2]
            BY <2>4, <2>8, <4>2, <6>1 DEF SearchTurn
          <6>3. b.vEnd = b.vMid
            BY <2>4, <6>2
          <6> QED BY <2>5, <2>6, <6>1, <6>3
        <5>2. m - 1 \in 0 .. n - 1 /\ (m - 1) + 1 = m /\ Probe(L, x, e, m - 1) = "later"
          <6>1. m - 1 = b.vStart /\ m - 1 \in 0 .. n - 1 /\ (m - 1) + 1 = m
            BY <1>1, <2>4, <2>7, <5>1
          <6> QED BY <2>5, <6>1
        <5>3. cmp(q[m]) = "later"
          BY <1>3, <5>2
        <5> QED BY <1>2, <2>8, <5>3
      <4> QED BY <1>2, <2>8, <2>10, <4>1, <4>2
    <3>4. m + 1 \in 1 .. n + 1
      BY <1>1, <2>7
    <3>5. InOrder(e, n + 1, PutIn(q, n, m + 1, x))
      BY <1>4, <2>7, <3>2, <3>3, <3>4
    <3>6. Links(MI_DlInsertBefore(L, q[m + 1], x), n + 1, PutIn(q, n, m + 1, x))
      BY <2>8, InsertBeforeLinks
    <3> QED BY <3>1, <3>4, <3>5, <3>6
  <2> QED BY <2>9, <2>10
<1> QED BY <1>6, <1>7, <1>8, <1>9

-----------------------------------------------------------------------------
\* The list is that of the running timers, in order.
TimerInv ==
  /\ expire \in [Timer -> Nat] /\ clock \in 0 .. MaxClock
  /\ \E n, q :
       /\ Links(list, n, q) /\ InOrder(expire, n, q)
       /\ pMng = {q[k] : k \in 1 .. n}

\* The empty list.
LEMMA TimerInvInit == TimerInit => TimerInv
<1> SUFFICES ASSUME TimerInit PROVE TimerInv
  OBVIOUS
<1>1. PICK q : q = [k \in 1 .. 0 |-> CHOOSE t \in Timer : TRUE]
  OBVIOUS
<1>2. q \in [1 .. 0 -> Timer] /\ {q[k] : k \in 1 .. 0} = {}
  BY <1>1
<1>3. list \in DList /\ list.count = 0 /\ list.first = NIL /\ list.last = NIL
  BY DEF TimerInit, MI_DlInit, DList, Node
<1>4. Links(list, 0, q) /\ InOrder(expire, 0, q)
  BY <1>2, <1>3 DEF Links, InOrder
<1>5. expire \in [Timer -> Nat] /\ clock \in 0 .. MaxClock /\ pMng = {}
  BY TimerListAssumption DEF TimerInit
<1>6. 0 \in Nat
  OBVIOUS
<1> QED BY <1>2, <1>4, <1>5, <1>6 DEF TimerInv

\* Taking a timer off the list.
LEMMA UnlinkKeeps ==
  ASSUME NEW n, NEW q, NEW t \in Timer, NEW e \in [Timer -> Nat],
         Links(list, n, q), InOrder(e, n, q), pMng = {q[k] : k \in 1 .. n}
  PROVE  \E m, r :
           /\ Links(Unlink(list, t), m, r) /\ InOrder(e, m, r)
           /\ pMng \ {t} = {r[k] : k \in 1 .. m} /\ Fresh(r, m, t)
           /\ \A k \in 1 .. m : r[k] # t
<1>1. CASE t \notin pMng
  <2>1. Unlink(list, t) = list /\ pMng \ {t} = pMng
    BY <1>1 DEF Unlink
  <2>2. Fresh(q, n, t)
    BY <1>1 DEF Fresh
  <2> QED BY <2>1, <2>2 DEF Fresh
<1>2. CASE t \in pMng
  <2>1. PICK i \in 1 .. n : q[i] = t
    BY <1>2
  <2>2. PICK r : r = TakeOut(q, n, i)
    OBVIOUS
  <2>3. n \in Nat /\ q \in [1 .. n -> Timer] /\ \A k, j \in 1 .. n : q[k] = q[j] => k = j
    BY DEF Links
  <2>4. /\ n - 1 \in Nat /\ r \in [1 .. n - 1 -> Timer]
        /\ \A k \in 1 .. n - 1 : r[k] = IF k < i THEN q[k] ELSE q[k + 1]
    <3>1. i \in 1 .. n
      BY <2>1
    <3>2. n \in Nat /\ q \in [1 .. n -> Timer]
      BY <2>3
    <3> QED BY <2>2, <3>1, <3>2 DEF TakeOut
  <2>5. Links(Unlink(list, t), n - 1, r)
    BY <1>2, <2>1, <2>2, DeleteLinks DEF Unlink
  <2>6. InOrder(e, n - 1, r)
    BY <2>1, <2>2, <2>3, TakeOutOrder
  <2>7. \A k \in 1 .. n - 1 : r[k] \in pMng /\ r[k] # t
    <3>1. \A k \in 1 .. n - 1 : \E j \in 1 .. n : r[k] = q[j] /\ j # i
      BY <2>1, <2>3, <2>4
    <3> QED BY <2>1, <2>3, <3>1
  <2>8. \A u \in pMng \ {t} : \E k \in 1 .. n - 1 : r[k] = u
    <3>1. ASSUME NEW j \in 1 .. n, q[j] # t PROVE \E k \in 1 .. n - 1 : r[k] = q[j]
      <4>1. CASE j < i
        <5>1. j \in 1 .. n - 1 /\ r[j] = q[j]
          BY <2>3, <2>4, <4>1
        <5> QED BY <5>1
      <4>2. CASE j > i
        <5>1. j - 1 \in 1 .. n - 1 /\ ~(j - 1 < i) /\ (j - 1) + 1 = j
          BY <2>1, <2>3, <4>2
        <5>2. r[j - 1] = q[j]
          BY <2>4, <5>1
        <5> QED BY <5>1, <5>2
      <4> QED BY <2>1, <2>3, <3>1, <4>1, <4>2
    <3> QED BY <3>1
  <2>9. pMng \ {t} = {r[k] : k \in 1 .. n - 1} /\ Fresh(r, n - 1, t)
    BY <2>7, <2>8 DEF Fresh
  <2> QED BY <2>4, <2>5, <2>6, <2>7, <2>9
<1> QED BY <1>1, <1>2

\* The same of a state with the invariant.
LEMMA UnlinkTimer ==
  ASSUME TimerInv, NEW t \in Timer
  PROVE  \E m, r :
           /\ Links(Unlink(list, t), m, r) /\ InOrder(expire, m, r)
           /\ pMng \ {t} = {r[k] : k \in 1 .. m} /\ Fresh(r, m, t)
           /\ \A k \in 1 .. m : r[k] # t
<1>1. PICK n, q :
        Links(list, n, q) /\ InOrder(expire, n, q) /\ pMng = {q[k] : k \in 1 .. n}
  BY DEF TimerInv
<1>2. PICK e \in [Timer -> Nat] : e = expire
  BY DEF TimerInv
<1>3. Links(list, n, q) /\ InOrder(e, n, q) /\ pMng = {q[k] : k \in 1 .. n}
  BY <1>1, <1>2
<1>4. \E m, r :
        /\ Links(Unlink(list, t), m, r) /\ InOrder(e, m, r)
        /\ pMng \ {t} = {r[k] : k \in 1 .. m} /\ Fresh(r, m, t)
        /\ \A k \in 1 .. m : r[k] # t
  BY <1>3, UnlinkKeeps
<1> QED BY <1>2, <1>4

\* Starting a timer takes it off the list, if it is there, and inserts it.
LEMMA StartKeeps ==
  ASSUME TimerInv, NEW t \in Timer, NEW d \in Duration, ptimer_start(t, d), UNCHANGED clock
  PROVE  TimerInv'
<1>2. expire \in [Timer -> Nat] /\ clock \in 0 .. MaxClock /\ MaxClock \in Nat /\ d \in Nat
  BY TimerListAssumption DEF TimerInv
<1>3. PICK m, r :
        /\ Links(Unlink(list, t), m, r) /\ InOrder(expire, m, r)
        /\ pMng \ {t} = {r[k] : k \in 1 .. m} /\ Fresh(r, m, t)
        /\ \A k \in 1 .. m : r[k] # t
  BY UnlinkTimer
<1>12. m \in Nat /\ r \in [1 .. m -> Timer]
  BY <1>3 DEF Links
<1>4. PICK e \in [Timer -> Nat] : e = expire' /\ \A u \in Timer : u # t => e[u] = expire[u]
  <2>1. clock + d \in Nat
    BY <1>2
  <2> QED BY <1>2, <2>1 DEF ptimer_start
<1>5. InOrder(e, m, r)
  <2>1. ASSUME NEW k \in 2 .. m PROVE e[r[k - 1]] \div SECOND <= e[r[k]] \div SECOND
    <3>1. k - 1 \in 1 .. m /\ k \in 1 .. m
      BY <1>12
    <3>2. e[r[k - 1]] = expire[r[k - 1]] /\ e[r[k]] = expire[r[k]]
      BY <1>12, <1>3, <1>4, <3>1
    <3> QED BY <1>3, <3>2 DEF InOrder
  <2> QED BY <2>1 DEF InOrder
<1>6. PICK i \in 1 .. m + 1 : /\ Links(list', m + 1, PutIn(r, m, i, t))
                              /\ InOrder(e, m + 1, PutIn(r, m, i, t))
  <2>1. list' = MI_DlInsert(Unlink(list, t), t, e)
    BY <1>4 DEF ptimer_start
  <2>2. \E j \in 1 .. m + 1 : /\ Links(MI_DlInsert(Unlink(list, t), t, e), m + 1, PutIn(r, m, j, t))
                              /\ InOrder(e, m + 1, PutIn(r, m, j, t))
    BY <1>3, <1>5, InsertLinks
  <2> QED BY <2>1, <2>2
<1>7. PICK s : s = PutIn(r, m, i, t)
  OBVIOUS
<1>8. /\ s \in [1 .. m + 1 -> Timer] /\ m + 1 \in Nat
      /\ \A k \in 1 .. m + 1 : s[k] = IF k < i THEN r[k] ELSE IF k = i THEN t ELSE r[k - 1]
  BY <1>12, <1>6, <1>7 DEF PutIn
<1>9. pMng' = {s[k] : k \in 1 .. m + 1}
  <2>1. pMng' = {r[k] : k \in 1 .. m} \cup {t}
    <3>1. pMng' = pMng \cup {t}
      BY DEF ptimer_start
    <3> QED BY <1>3, <3>1
  <2>2. \A k \in 1 .. m + 1 : s[k] \in {r[j] : j \in 1 .. m} \cup {t}
    <3>1. \A k \in 1 .. m + 1 : k # i => \E j \in 1 .. m : s[k] = r[j]
      BY <1>12, <1>6, <1>8
    <3> QED BY <1>8, <3>1
  <2>3. \A j \in 1 .. m : \E k \in 1 .. m + 1 : s[k] = r[j]
    <3>1. ASSUME NEW j \in 1 .. m PROVE \E k \in 1 .. m + 1 : s[k] = r[j]
      <4>1. CASE j < i
        <5>1. j \in 1 .. m + 1 /\ s[j] = r[j]
          BY <1>12, <1>8, <4>1
        <5> QED BY <5>1
      <4>2. CASE j >= i
        <5>1. j + 1 \in 1 .. m + 1 /\ (j + 1) - 1 = j /\ ~(j + 1 < i) /\ j + 1 # i
          BY <1>12, <1>6, <4>2
        <5>2. s[j + 1] = r[j]
          BY <1>8, <5>1
        <5> QED BY <5>1, <5>2
      <4> QED BY <1>12, <1>6, <4>1, <4>2
    <3> QED BY <3>1
  <2>4. s[i] = t
    BY <1>6, <1>8
  <2> QED BY <1>6, <2>1, <2>2, <2>3, <2>4
<1>10. expire' \in [Timer -> Nat] /\ clock' \in 0 .. MaxClock
  BY <1>2, <1>4
<1>11. Links(list', m + 1, s) /\ InOrder(expire', m + 1, s)
  BY <1>4, <1>6, <1>7
<1>13. PICK k : k = m + 1
  OBVIOUS
<1>14. Links(list', k, s) /\ InOrder(expire', k, s) /\ pMng' = {s[j] : j \in 1 .. k}
  BY <1>9, <1>11, <1>13
<1> QED BY <1>10, <1>14 DEF TimerInv

\* Stopping a timer, on the list or not.
LEMMA StopKeeps ==
  ASSUME TimerInv, NEW t \in Timer, ptimer_stop(t), UNCHANGED clock
  PROVE  TimerInv'
<1>2. expire \in [Timer -> Nat] /\ clock \in 0 .. MaxClock
  BY DEF TimerInv
<1>3. PICK m, r :
        /\ Links(Unlink(list, t), m, r) /\ InOrder(expire, m, r)
        /\ pMng \ {t} = {r[k] : k \in 1 .. m}
  BY UnlinkTimer
<1>4. list' = Unlink(list, t) /\ pMng' = pMng \ {t} /\ expire' = expire /\ clock' = clock
  BY DEF ptimer_stop
<1>5. Links(list', m, r) /\ InOrder(expire', m, r) /\ pMng' = {r[k] : k \in 1 .. m}
  BY <1>3, <1>4
<1> QED BY <1>2, <1>4, <1>5 DEF TimerInv

\* The first node, if any, is a running timer.
LEMMA FirstIsRunning ==
  ASSUME TimerInv, list.first # NIL
  PROVE  list.first \in pMng /\ list.first \in Timer
<1>1. PICK n, q :
        Links(list, n, q) /\ InOrder(expire, n, q) /\ pMng = {q[k] : k \in 1 .. n}
  BY DEF TimerInv
<1>2. n # 0 /\ list.first = q[1] /\ 1 \in 1 .. n
  BY <1>1 DEF Links
<1>3. q[1] \in Timer
  BY <1>1, <1>2 DEF Links
<1> QED BY <1>1, <1>2, <1>3

\* Reporting the first timer stops it.
LEMMA ExpiredKeeps ==
  ASSUME TimerInv, ptimer_mng_getexpired, UNCHANGED clock
  PROVE  TimerInv'
<1>1. list.first \in pMng /\ list.first \in Timer
  BY FirstIsRunning DEF ptimer_mng_getexpired, Due
<1>2. ptimer_stop(list.first)
  BY <1>1 DEF ptimer_mng_getexpired, ptimer_stop, Unlink
<1> QED BY <1>1, <1>2, StopKeeps

\* Every step keeps the invariant.
LEMMA TimerInvStep == TimerInv /\ [TimerNext]_timerVars => TimerInv'
<1> SUFFICES ASSUME TimerInv, [TimerNext]_timerVars PROVE TimerInv'
  OBVIOUS
<1>1. CASE UNCHANGED timerVars
  <2>1. list' = list /\ pMng' = pMng /\ expire' = expire /\ clock' = clock
    BY <1>1 DEF timerVars
  <2> QED BY <2>1, Zenon DEF TimerInv
<1>2. ASSUME NEW t \in Timer, NEW d \in Duration, ptimer_start(t, d), UNCHANGED clock PROVE TimerInv'
  BY <1>2, StartKeeps
<1>3. ASSUME NEW t \in Timer, ptimer_stop(t), UNCHANGED clock PROVE TimerInv'
  BY <1>3, StopKeeps
<1>4. CASE ptimer_mng_getexpired /\ UNCHANGED clock
  BY <1>4, ExpiredKeeps
<1>5. CASE ClockTicks /\ UNCHANGED <<list, pMng, expire>>
  <2>1. clock' \in 0 .. MaxClock
    BY <1>5, TimerListAssumption DEF ClockTicks, TimerInv
  <2>2. list' = list /\ pMng' = pMng /\ expire' = expire
    BY <1>5
  <2> QED BY <2>1, <2>2, Zenon DEF TimerInv
<1> QED BY <1>1, <1>2, <1>3, <1>4, <1>5 DEF TimerNext

\* A running timer is one of the n nodes, and there are n of them.
LEMMA ListCounts ==
  ASSUME NEW n \in Nat, NEW q \in [1 .. n -> Timer], \A i, j \in 1 .. n : q[i] = q[j] => i = j,
         pMng = {q[k] : k \in 1 .. n}
  PROVE  Cardinality(pMng) = n /\ n \in 0 .. Cardinality(Timer)
<1>1. q \in [1 .. n -> pMng]
  OBVIOUS
<1>2. q \in Bijection(1 .. n, pMng)
  BY <1>1 DEF Bijection, Injection, Surjection, IsInjective
<1>3. ExistsBijection(1 .. n, pMng)
  BY <1>2 DEF ExistsBijection
<1>4. IsFiniteSet(1 .. n) /\ Cardinality(1 .. n) = n
  BY FS_Interval
<1>5. Cardinality(pMng) = n
  BY <1>3, <1>4, FS_Bijection
<1>6. pMng \subseteq Timer /\ IsFiniteSet(Timer)
  BY TimerListAssumption
<1>7. Cardinality(pMng) <= Cardinality(Timer) /\ Cardinality(Timer) \in Nat
  BY <1>6, FS_Subset, FS_CardinalityType
<1> QED BY <1>5, <1>7

\* The invariant has the types.
LEMMA TimerInvTypes == TimerInv => TimerTypeOK
<1> SUFFICES ASSUME TimerInv PROVE TimerTypeOK
  OBVIOUS
<1>1. PICK n, q : Links(list, n, q) /\ pMng = {q[k] : k \in 1 .. n}
  BY DEF TimerInv
<1>2. /\ n \in Nat /\ q \in [1 .. n -> Timer] /\ list.count = n /\ list \in DList
      /\ \A i, j \in 1 .. n : q[i] = q[j] => i = j
  BY <1>1 DEF Links
<1>3. n \in 0 .. Cardinality(Timer)
  BY <1>1, <1>2, ListCounts
<1>4. DOMAIN list.next = Timer /\ DOMAIN list.prev = Timer
  BY <1>2 DEF DList
<1>5. pMng \subseteq Timer
  BY <1>1, <1>2
<1> QED BY <1>2, <1>3, <1>4, <1>5 DEF TimerTypeOK, TimerInv

\* Nth(k) is the k-th node, so the invariant is what TimersLinked says of the pointers.
LEMMA TimerInvLinked == TimerInv => TimersLinked
<1> SUFFICES ASSUME TimerInv PROVE TimersLinked
  OBVIOUS
<1>1. PICK n, q : Links(list, n, q) /\ InOrder(expire, n, q) /\ pMng = {q[k] : k \in 1 .. n}
  BY DEF TimerInv
<1>2. /\ n \in Nat /\ q \in [1 .. n -> Timer] /\ list.count = n
      /\ \A i, j \in 1 .. n : q[i] = q[j] => i = j
      /\ list.last = IF n = 0 THEN NIL ELSE q[n]
      /\ \A i \in 1 .. n : list.prev[q[i]] = IF i = 1 THEN NIL ELSE q[i - 1]
  BY <1>1 DEF Links
<1>3. \A k \in 0 .. n : Nth(k) = IF k = n THEN NIL ELSE q[k + 1]
  BY <1>1, StepLinks DEF Nth
<1>4. \A k \in 0 .. n - 1 : k \in 0 .. n /\ k # n /\ k + 1 \in 1 .. n /\ (k + 1) - 1 = k
  BY <1>2
<1>5. pMng = {Nth(k) : k \in 0 .. n - 1}
  <2>1. \A k \in 0 .. n - 1 : Nth(k) \in pMng
    BY <1>1, <1>3, <1>4
  <2>2. \A i \in 1 .. n : i - 1 \in 0 .. n - 1 /\ Nth(i - 1) = q[i]
    BY <1>2, <1>3
  <2> QED BY <1>1, <2>1, <2>2
<1>6. Cardinality(pMng) = n
  BY <1>1, <1>2, ListCounts
<1>7. Nth(n) = NIL
  BY <1>2, <1>3
<1>8. list.last = IF n = 0 THEN NIL ELSE Nth(n - 1)
  <2>1. n # 0 => n - 1 \in 0 .. n /\ n - 1 # n /\ (n - 1) + 1 = n
    BY <1>2
  <2> QED BY <1>2, <1>3, <2>1
<1>9. ASSUME NEW k \in 0 .. n - 1 PROVE list.prev[Nth(k)] = IF k = 0 THEN NIL ELSE Nth(k - 1)
  <2>1. Nth(k) = q[k + 1] /\ list.prev[q[k + 1]] = IF k + 1 = 1 THEN NIL ELSE q[(k + 1) - 1]
    BY <1>2, <1>3, <1>4
  <2>2. k # 0 => k - 1 \in 0 .. n /\ k - 1 # n /\ (k - 1) + 1 = k
    BY <1>2
  <2>3. k # 0 => Nth(k - 1) = q[k]
    BY <1>3, <2>2
  <2>4. (k + 1 = 1 <=> k = 0) /\ (k + 1) - 1 = k
    BY <1>2
  <2> QED BY <2>1, <2>3, <2>4
<1>10. ASSUME NEW k \in 1 .. n - 1
       PROVE  expire[Nth(k - 1)] \div SECOND <= expire[Nth(k)] \div SECOND
  <2>1. /\ k + 1 \in 2 .. n /\ (k + 1) - 1 = k /\ k \in 0 .. n /\ k # n
        /\ k - 1 \in 0 .. n /\ k - 1 # n /\ (k - 1) + 1 = k
    BY <1>2
  <2>2. Nth(k) = q[k + 1] /\ Nth(k - 1) = q[k]
    BY <1>3, <2>1
  <2>3. expire[q[(k + 1) - 1]] \div SECOND <= expire[q[k + 1]] \div SECOND
    BY <1>1, <2>1 DEF InOrder
  <2> QED BY <2>1, <2>2, <2>3
<1> QED BY <1>2, <1>5, <1>6, <1>7, <1>8, <1>9, <1>10 DEF TimersLinked

\* The first timer is of the earliest second: a timer is overdue only behind one that is due.
NoneOverdue == ~Due => \A t \in pMng : clock \div SECOND <= expire[t] \div SECOND

\* A later time is not of an earlier second.
LEMMA DivMonotone ==
  ASSUME NEW a \in Nat, NEW b \in Nat, a <= b
  PROVE  a \div SECOND <= b \div SECOND
BY TimerListAssumption

\* The first node is of the earliest second of all running timers.
LEMMA FirstIsEarliest ==
  ASSUME TimerInv, NEW t \in pMng
  PROVE  /\ list.first \in Timer /\ list.first \in pMng /\ list.first # NIL /\ t \in Timer
         /\ expire[list.first] \div SECOND <= expire[t] \div SECOND
<1>1. PICK n, q : Links(list, n, q) /\ InOrder(expire, n, q) /\ pMng = {q[k] : k \in 1 .. n}
  BY DEF TimerInv
<1>2. /\ n \in Nat /\ q \in [1 .. n -> Timer] /\ NIL \notin Timer
      /\ n # 0 => list.first = q[1]
  BY <1>1, TimerListAssumption DEF Links
<1>3. PICK i \in 1 .. n : t = q[i]
  BY <1>1
<1>4. n # 0 /\ 1 \in 1 .. n /\ q[1] \in Timer
  BY <1>2, <1>3
<1>5. expire \in [Timer -> Nat]
  BY DEF TimerInv
<1>6. list.first = q[1] /\ q[1] \in pMng /\ q[1] # NIL /\ t \in Timer
  BY <1>1, <1>2, <1>3, <1>4
<1>7. PICK s \in [1 .. n -> Nat] : \A k \in 1 .. n : s[k] = expire[q[k]] \div SECOND
  <2>1. \A k \in 1 .. n : expire[q[k]] \div SECOND \in Nat
    BY <1>2, <1>5, SecondIsNat
  <2>2. [k \in 1 .. n |-> expire[q[k]] \div SECOND] \in [1 .. n -> Nat]
    BY <2>1
  <2> QED BY <2>2
<1>8. ASSUME NEW k \in 2 .. n PROVE s[k - 1] <= s[k]
  <2>1. k \in 1 .. n /\ k - 1 \in 1 .. n
    BY <1>2
  <2>2. expire[q[k - 1]] \div SECOND <= expire[q[k]] \div SECOND
    BY <1>1 DEF InOrder
  <2> QED BY <1>7, <2>1, <2>2
<1>11. PICK G : G = {k \in 0 .. n - 1 : s[1] <= s[k + 1]}
  OBVIOUS
<1>12. 0 \in G /\ \A k \in 1 .. n - 1 : k - 1 \in G => k \in G
  <2>1. 0 \in G
    BY <1>2, <1>4, <1>7, <1>11
  <2>2. ASSUME NEW k \in 1 .. n - 1, k - 1 \in G PROVE k \in G
    <3>1. k + 1 \in 2 .. n /\ (k + 1) - 1 = k /\ (k - 1) + 1 = k /\ k \in 0 .. n - 1 /\ k \in 1 .. n /\ k + 1 \in 1 .. n
      BY <1>2
    <3>2. s[1] <= s[k] /\ s[k] <= s[k + 1]
      BY <1>8, <1>11, <2>2, <3>1
    <3> QED BY <1>4, <1>7, <1>11, <3>1, <3>2
  <2> QED BY <2>1, <2>2
<1>13. n - 1 \in Nat /\ i - 1 \in 0 .. n - 1 /\ (i - 1) + 1 = i
  BY <1>2, <1>3
<1>14. i - 1 \in G
  BY <1>12, <1>13, TurnByTurn
<1>15. s[1] <= s[i]
  BY <1>11, <1>13, <1>14
<1> QED BY <1>3, <1>4, <1>6, <1>7, <1>15

\* If the first timer is not due, no timer was due in an earlier second.
LEMMA TimerInvDue == TimerInv => NoneOverdue
<1> SUFFICES ASSUME TimerInv, ~Due, NEW t \in pMng PROVE clock \div SECOND <= expire[t] \div SECOND
  BY DEF NoneOverdue
<1>1. expire \in [Timer -> Nat] /\ clock \in Nat
  BY TimerListAssumption DEF TimerInv
<1>2. PICK f \in Timer : f = list.first
  BY FirstIsEarliest
<1>3. t \in Timer /\ f # NIL /\ expire[f] \div SECOND <= expire[t] \div SECOND
  BY <1>2, FirstIsEarliest
<1>4. clock <= expire[f]
  BY <1>1, <1>2, <1>3 DEF Due
<1>5. clock \div SECOND <= expire[f] \div SECOND
  BY <1>1, <1>2, <1>4, DivMonotone
<1>6. /\ clock \div SECOND \in Nat /\ expire[f] \div SECOND \in Nat /\ expire[t] \div SECOND \in Nat
  BY <1>1, <1>2, <1>3, SecondIsNat
<1> QED BY <1>3, <1>5, <1>6

\* The invariant holds in every behaviour.
LEMMA TimerListInductive == TimerSpec => []TimerInv
<1>1. TimerInit => TimerInv
  BY TimerInvInit
<1>2. TimerInv /\ [TimerNext]_timerVars => TimerInv'
  BY TimerInvStep
<1> QED BY <1>1, <1>2, PTL DEF TimerSpec

\* The types of the timer list.
LEMMA TimerTypes == TimerSpec => []TimerTypeOK
BY TimerListInductive, TimerInvTypes, PTL

\* The links of the timer list stay those of one list of the running timers, in order to the
\* second, whatever MI_DlInsert's binary search and MI_DlDelete do to it.
THEOREM TimersAreLinked == TimerSpec => []TimersLinked
BY TimerListInductive, TimerInvLinked, PTL

\* When ptimer_mng_getexpired has nothing to report, no running timer was due in an earlier
\* second.
THEOREM NoTimerOverdue == TimerSpec => []NoneOverdue
BY TimerListInductive, TimerInvDue, PTL

\* A step of the list is the step of the queue that it is called for: what is reported is of the
\* earliest second.
LEMMA TimerStepIsQueueStep == TimerInv /\ [TimerNext]_timerVars => [Q!Next]_(Q!vars)
<1> SUFFICES ASSUME TimerInv, [TimerNext]_timerVars PROVE Q!Next \/ UNCHANGED Q!vars
  OBVIOUS
<1>1. CASE UNCHANGED timerVars
  BY <1>1 DEF timerVars, Q!vars
<1>2. ASSUME NEW t \in Timer, NEW d \in Duration, ptimer_start(t, d), UNCHANGED clock PROVE Q!Next
  <2>1. Q!Start(t, d)
    BY <1>2 DEF ptimer_start, Q!Start
  <2> QED BY <2>1, Zenon DEF Q!Next
<1>3. ASSUME NEW t \in Timer, ptimer_stop(t), UNCHANGED clock PROVE Q!Next
  <2>1. Q!Stop(t)
    BY <1>3 DEF ptimer_stop, Q!Stop
  <2> QED BY <2>1, Zenon DEF Q!Next
<1>4. CASE ptimer_mng_getexpired /\ UNCHANGED clock
  <2>1. list.first \in pMng
    BY <1>4, FirstIsRunning DEF ptimer_mng_getexpired, Due
  <2>2. list.first \in Timer /\ Q!Earliest(list.first)
    BY <2>1, FirstIsEarliest DEF Q!Earliest, Q!Second
  <2>3. Q!Report(list.first)
    BY <1>4, <2>2 DEF ptimer_mng_getexpired, Due, Q!Report
  <2> QED BY <2>2, <2>3, Zenon DEF Q!Next
<1>5. CASE ClockTicks /\ UNCHANGED <<list, pMng, expire>>
  <2>1. Q!Tick
    BY <1>5 DEF ClockTicks, Q!Tick
  <2> QED BY <2>1 DEF Q!Next
<1> QED BY <1>1, <1>2, <1>3, <1>4, <1>5 DEF TimerNext

\* ptimer.cpp on mi_util's list implements the queue of timers: only running timers that are due
\* are reported, one of the earliest second first, and starting, stopping and restarting a timer
\* do to the others nothing at all.
THEOREM TimersImplementQueue == TimerSpec => ImplementsQueue
<1>1. TimerInit => Q!Init
  BY DEF TimerInit, Q!Init
<1>2. TimerInv /\ [TimerNext]_timerVars => [Q!Next]_(Q!vars)
  BY TimerStepIsQueueStep
<1> QED BY <1>1, <1>2, TimerListInductive, PTL DEF TimerSpec, ImplementsQueue, Q!Spec
=============================================================================
