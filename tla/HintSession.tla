---------------------------- MODULE HintSession ----------------------------
(***************************************************************************)
(* ADPF hint sessions of the AIDL power service (Power.cpp,                *)
(* PowerHintSession.cpp and PowerHintSessionManager.cpp).                  *)
(*                                                                         *)
(* A session object gets the lowest free id of sessionHintIds, and tells   *)
(* the kernel about itself under that id.  The service has one binder      *)
(* thread (ABinderProcess_setThreadPoolMaxThreadCount(0)), so that a call  *)
(* is one step.  A client may close its session, and lets go of the object *)
(* at some later time, whereupon the destructor runs.                      *)
(***************************************************************************)
EXTENDS Integers, FiniteSets

CONSTANTS
  MaxSession,  \* ADPF_MAX_SESSION
  Object,      \* session objects; one that was destroyed can be used again
  NoObject

ASSUME HintSessionAssumption ==
  /\ MaxSession \in Nat \ {0}
  /\ IsFiniteSet(Object)
  /\ NoObject \notin Object

Id == 0 .. MaxSession - 1
NoId == -1

VARIABLES
  sessionHintIds,     \* the ids that are taken
  mPowerHintSessions, \* the manager's set of sessions
  id,                 \* PowerHintSession::id, NoId for no object
  kernel,             \* the kernel's session of each id: owner and paused
  wantsPause,         \* history: did the session's client last say pause?
  foreign             \* history: ids that a call on a closed session reached
                      \* since they were last given out free and clear

vars == <<sessionHintIds, mPowerHintSessions, id, kernel, wantsPause, foreign>>

NoEntry == [owner |-> NoObject, paused |-> FALSE]

TypeOK ==
  /\ sessionHintIds \subseteq Id
  /\ mPowerHintSessions \subseteq {o \in Object : id[o] # NoId}
  /\ id \in [Object -> Id \cup {NoId}]
  /\ kernel \in [Id -> [owner : Object \cup {NoObject}, paused : BOOLEAN]]
  /\ wantsPause \in [Object -> BOOLEAN]
  /\ foreign \subseteq Id

Init ==
  /\ sessionHintIds = {}
  /\ mPowerHintSessions = {}
  /\ id = [o \in Object |-> NoId]
  /\ kernel = [i \in Id |-> NoEntry]
  /\ wantsPause = [o \in Object |-> FALSE]
  /\ foreign = {}
-----------------------------------------------------------------------------
Exists(o) == id[o] # NoId
Open(o) == o \in mPowerHintSessions

\* A call on object o that reaches its id, whether or not o still has it.
Reaches(o) == foreign' = IF Open(o) THEN foreign ELSE foreign \cup {id[o]}

\* checkPowerSesssion finds id i; there is none when all are taken.
checkPowerSession(i) ==
  /\ i \in Id \ sessionHintIds
  /\ \A j \in Id \ sessionHintIds : i <= j

\* createHintSessionWithConfig, for a supported tag and a legal thread list: the
\* id is reserved, the constructor adds the object, and the kernel is told.
createHintSession(o) ==
  /\ ~Exists(o)
  /\ \E i \in Id :
       /\ checkPowerSession(i)
       /\ sessionHintIds' = sessionHintIds \cup {i}
       /\ id' = [id EXCEPT ![o] = i]
       /\ kernel' = [kernel EXCEPT ![i] = [owner |-> o, paused |-> FALSE]]
       /\ foreign' = IF \E q \in mPowerHintSessions : id[q] = i
                     THEN foreign ELSE foreign \ {i}
  /\ mPowerHintSessions' = mPowerHintSessions \cup {o}
  /\ wantsPause' = [wantsPause EXCEPT ![o] = FALSE]

\* Mutant: id 0 is taken for no id.
FreedId_Positive(o) == {id[o]} \ {0}

\* The id that removePowerSession gives back, whether or not the session is
\* still in the manager's set.
FreedId(o) == {id[o]}

\* Mutant: the id of the CLOSE message is not filled in.
removePowerSession_NoSid(o) ==
  /\ sessionHintIds' = sessionHintIds \ FreedId(o)
  /\ mPowerHintSessions' = mPowerHintSessions \ {o}
  /\ kernel' = IF Open(o) THEN [kernel EXCEPT ![0] = NoEntry] ELSE kernel

\* Mutant: the object stays in the manager's set.
removePowerSession_NoErase(o) ==
  /\ sessionHintIds' = sessionHintIds \ FreedId(o)
  /\ UNCHANGED mPowerHintSessions
  /\ kernel' = IF Open(o) THEN [kernel EXCEPT ![id[o]] = NoEntry] ELSE kernel

\* removePowerSession, and ADPF::CLOSE if it returned 1.
removePowerSession(o) ==
  /\ sessionHintIds' = sessionHintIds \ FreedId(o)
  /\ mPowerHintSessions' = mPowerHintSessions \ {o}
  /\ kernel' = IF Open(o) THEN [kernel EXCEPT ![id[o]] = NoEntry] ELSE kernel

\* PowerHintSession::close.
close(o) ==
  /\ Exists(o)
  /\ removePowerSession(o)
  /\ Reaches(o)
  /\ UNCHANGED <<id, wantsPause>>

\* ~PowerHintSession, when the last reference is gone.
Destroy(o) ==
  /\ Exists(o)
  /\ removePowerSession(o)
  /\ Reaches(o)
  /\ id' = [id EXCEPT ![o] = NoId]
  /\ wantsPause' = [wantsPause EXCEPT ![o] = FALSE]

\* PowerHintSession::pause and resume, on a closed session too: the kernel looks
\* up the id.
SetPause(o, p) ==
  /\ Exists(o)
  /\ wantsPause' = [wantsPause EXCEPT ![o] = p]
  /\ kernel' = [kernel EXCEPT ![id[o]].paused =
                  IF kernel[id[o]].owner = NoObject THEN @ ELSE p]
  /\ Reaches(o)
  /\ UNCHANGED <<sessionHintIds, mPowerHintSessions, id>>

pause(o) == SetPause(o, TRUE)
resume(o) == SetPause(o, FALSE)

Next == \E o \in Object :
  \/ createHintSession(o)
  \/ close(o)
  \/ Destroy(o)
  \/ pause(o)
  \/ resume(o)

Spec == Init /\ [][Next]_vars
-----------------------------------------------------------------------------
\* checkPowerSesssion hands out an id only when nobody has it: two open sessions
\* never share one.
UniqueIds == \A o, q \in mPowerHintSessions : id[o] = id[q] => o = q

\* The same for sessions whose id no call on a closed session has reached.  Such
\* a session has its id alone, and the kernel has that very session under the
\* id, in the state its client asked for: calls on other open sessions, their
\* creation, their close and their destruction never get at it.
SessionsApart ==
  \A o \in mPowerHintSessions : id[o] \notin foreign =>
    /\ \A q \in mPowerHintSessions : id[q] = id[o] => q = o
    /\ kernel[id[o]] = [owner |-> o, paused |-> wantsPause[o]]

\* Neither an id nor a kernel session outlives the session it was made for,
\* whichever of close and the destructor comes first: the ADPF_MAX_SESSION ids
\* do not run out by use.
NothingLeaks ==
  /\ \A i \in sessionHintIds : \E o \in mPowerHintSessions : id[o] = i
  /\ \A i \in Id : kernel[i].owner # NoObject =>
       \E o \in mPowerHintSessions : id[o] = i
=============================================================================
