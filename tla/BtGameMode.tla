----------------------------- MODULE BtGameMode -----------------------------
(***************************************************************************)
(* Bluetooth low latency (utility_consys_bt.cpp): BluetoothGameModeTask    *)
(* queues the modes that are asked for, and a thread of its own delivers   *)
(* them to the Bluetooth audio HAL.                                        *)
(*                                                                         *)
(* The HAL is reached through the AIDL provider or, where that cannot be   *)
(* opened, the HIDL one.  A call can fail, and the HAL can die; its death  *)
(* notice runs in a binder thread and sets the provider's pointer to null  *)
(* without a lock.                                                         *)
(***************************************************************************)
EXTENDS Integers, Sequences, SequencesExt

CONSTANT QUEUE_MAX   \* bound on the queue, which the code does not bound

ASSUME BtAssumption == QUEUE_MAX \in Nat \ {0}

VARIABLES
  mGameQu,        \* modes to deliver
  mCurrentMode,   \* the mode taken last, -1 before the first
  provider,       \* the provider pointers that are not null
  btThread,       \* where run is: "wait", "open", or the provider it calls
  gameProp,       \* the two system properties
  audioMode,      \* the mode of the audio HAL
  asked_bt,       \* history: the last mode asked for
  dropped,        \* history: a death dropped what was asked for last
  undelivered     \* history: the last mode taken did not arrive, or the HAL restarted since

btVars == <<mGameQu, mCurrentMode, provider, btThread, gameProp, audioMode,
            asked_bt, dropped, undelivered>>

Mode == {0, 1}

BtInit ==
  /\ mGameQu = <<>> /\ mCurrentMode = -1
  /\ provider = {} /\ btThread = "wait"
  /\ gameProp = [game |-> 0, ultra |-> 0]
  /\ audioMode = 0 /\ asked_bt = -1
  /\ dropped = FALSE /\ undelivered = FALSE

\* Mutant: a request for the current mode leaves the queue as it is.
EnterGameMode_KeepsQueue(mode) ==
  mGameQu' = IF mode = mCurrentMode \/ (mGameQu # <<>> /\ Last(mGameQu) = mode)
             THEN mGameQu ELSE Append(mGameQu, mode)

EnterGameMode(mode) ==
  mGameQu' = IF mode = mCurrentMode THEN <<>>
             ELSE IF mGameQu # <<>> /\ Last(mGameQu) = mode THEN mGameQu
             ELSE Append(mGameQu, mode)

set_performace_prop(enable, is_ultra) ==
  gameProp' = [game |-> enable, ultra |-> IF is_ultra THEN enable ELSE 0]

\* bt_audio_low_latency and bt_audio_ultra_low_latency.
bt_audio_low_latency(enable, is_ultra) ==
  /\ Len(mGameQu) < QUEUE_MAX
  /\ set_performace_prop(enable, is_ultra)
  /\ EnterGameMode(enable)
  /\ asked_bt' = enable /\ dropped' = FALSE
  /\ UNCHANGED <<mCurrentMode, provider, btThread, audioMode, undelivered>>

\* run: take the next mode, then deliver it without the lock.
TakeMode ==
  /\ btThread = "wait" /\ mGameQu # <<>>
  /\ mCurrentMode' = Head(mGameQu)
  /\ mGameQu' = Tail(mGameQu)
  /\ btThread' = "open"
  /\ UNCHANGED <<provider, gameProp, audioMode, asked_bt, dropped, undelivered>>

\* get_aidl_provider and get_bluetooth_audio_provider: AIDL is tried first.
get_provider ==
  /\ btThread = "open"
  /\ \/ "aidl" \in provider /\ btThread' = "aidl" /\ UNCHANGED <<provider, undelivered>>
     \/ /\ "aidl" \notin provider
        /\ provider' = provider \cup {"aidl"} /\ btThread' = "aidl" /\ UNCHANGED undelivered
     \/ /\ "aidl" \notin provider
        /\ provider' = provider \cup {"hidl"} /\ btThread' = "hidl" /\ UNCHANGED undelivered
     \/ /\ provider = {}
        /\ btThread' = "wait" /\ undelivered' = TRUE /\ UNCHANGED provider
  /\ UNCHANGED <<mGameQu, mCurrentMode, gameProp, audioMode, asked_bt, dropped>>

\* The call, with a pointer that a death may have set to null since it was checked:
\* then the process ends, and with it the model.
notify_to_bluetooth_audio_hal ==
  /\ btThread \in {"aidl", "hidl"}
  /\ \/ /\ btThread \in provider
        /\ audioMode' = mCurrentMode /\ undelivered' = FALSE
        /\ btThread' = "wait" /\ UNCHANGED provider
     \/ /\ btThread \in provider
        /\ provider' = provider \ {btThread} /\ undelivered' = TRUE
        /\ btThread' = "wait" /\ UNCHANGED audioMode
     \/ /\ btThread \notin provider
        /\ btThread' = "crashed" /\ UNCHANGED <<provider, audioMode, undelivered>>
  /\ UNCHANGED <<mGameQu, mCurrentMode, gameProp, asked_bt, dropped>>

\* serviceDied and AidlBinderDiedCallback, with Reset: the queue is emptied, but
\* mCurrentMode stays.  The HAL starts again in its normal mode.
ProviderDied ==
  /\ btThread # "crashed"
  /\ \E p \in provider : provider' = provider \ {p}
  /\ mGameQu' = <<>>
  /\ dropped' = (dropped \/ mGameQu # <<>>)
  /\ audioMode' = 0 /\ undelivered' = TRUE
  /\ UNCHANGED <<mCurrentMode, btThread, gameProp, asked_bt>>

BtNext ==
  \/ \E enable \in Mode, is_ultra \in BOOLEAN :
       btThread # "crashed" /\ bt_audio_low_latency(enable, is_ultra)
  \/ TakeMode \/ get_provider \/ notify_to_bluetooth_audio_hal \/ ProviderDied

BtSpec == BtInit /\ [][BtNext]_btVars
-----------------------------------------------------------------------------
BtTypeOK ==
  /\ mGameQu \in Seq(Mode) /\ mCurrentMode \in Mode \cup {-1}
  /\ provider \subseteq {"aidl", "hidl"}
  /\ btThread \in {"wait", "open", "aidl", "hidl", "crashed"}
  /\ gameProp \in [game : Mode, ultra : Mode]
  /\ audioMode \in Mode /\ asked_bt \in Mode \cup {-1}

\* When the task has nothing left to deliver, the mode it took last is the one that was
\* asked for last, whatever was queued, collapsed or cleared on the way, unless a death
\* dropped it; and the audio HAL is in that mode unless the call failed or the HAL
\* restarted.  The property Bluetooth reads follows the last request at once.
BtSettles ==
  /\ asked_bt # -1 => gameProp.game = asked_bt
  /\ btThread = "wait" /\ mGameQu = <<>> /\ ~dropped =>
       /\ mCurrentMode = asked_bt
       /\ asked_bt # -1 /\ ~undelivered => audioMode = asked_bt
=============================================================================
