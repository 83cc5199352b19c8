------------------------- MODULE HintSessionProofs -------------------------
(***************************************************************************)
(* Proofs about HintSession, for any number of ids and session objects.    *)
(***************************************************************************)
EXTENDS HintSession, TLAPS

\* The inductive form of NothingLeaks: an id that is taken, and a session that
\* the kernel has, belong to a session in the manager's set.
LeakInv == TypeOK /\ NothingLeaks

\* Every step of close, the destructor, createHintSession, pause and resume
\* keeps the types of the state.
LEMMA TypeStep == TypeOK /\ [Next]_vars => TypeOK'
<1> SUFFICES ASSUME TypeOK, [Next]_vars PROVE TypeOK'
  OBVIOUS
<1> USE DEF TypeOK, Id, NoId
<1>1. ASSUME NEW o \in Object, createHintSession(o) PROVE TypeOK'
  <2>1. PICK i \in Id : /\ sessionHintIds' = sessionHintIds \cup {i}
                        /\ id' = [id EXCEPT ![o] = i]
                        /\ kernel' = [kernel EXCEPT ![i] = [owner |-> o, paused |-> FALSE]]
    BY <1>1 DEF createHintSession
  <2>2. [owner |-> o, paused |-> FALSE] \in [owner : Object \cup {NoObject}, paused : BOOLEAN]
    OBVIOUS
  <2>3. kernel' \in [Id -> [owner : Object \cup {NoObject}, paused : BOOLEAN]]
    BY <2>1, <2>2
  <2>4. mPowerHintSessions' \subseteq {q \in Object : id'[q] # -1}
    BY <1>1, <2>1 DEF createHintSession
  <2>5. foreign' \subseteq Id
    BY <1>1 DEF createHintSession
  <2> QED
    BY <1>1, <2>1, <2>3, <2>4, <2>5 DEF createHintSession
<1>2. ASSUME NEW o \in Object, Exists(o), removePowerSession(o)
      PROVE  /\ sessionHintIds' \subseteq Id
             /\ mPowerHintSessions' \subseteq {q \in Object \ {o} : id[q] # NoId}
             /\ kernel' \in [Id -> [owner : Object \cup {NoObject}, paused : BOOLEAN]]
  <2>1. NoEntry \in [owner : Object \cup {NoObject}, paused : BOOLEAN]
    BY DEF NoEntry
  <2> QED
    BY <1>2, <2>1 DEF removePowerSession, Exists, Open
<1>3. ASSUME NEW o \in Object, close(o) PROVE TypeOK'
  <2>1. foreign' \subseteq Id
    BY <1>3 DEF close, Reaches, Exists
  <2> QED
    BY <1>2, <1>3, <2>1 DEF close
<1>4. ASSUME NEW o \in Object, Destroy(o) PROVE TypeOK'
  <2>1. foreign' \subseteq Id
    BY <1>4 DEF Destroy, Reaches, Exists
  <2> QED
    BY <1>2, <1>4, <2>1 DEF Destroy
<1>5. ASSUME NEW o \in Object, NEW p \in BOOLEAN, SetPause(o, p) PROVE TypeOK'
  <2>1. kernel' \in [Id -> [owner : Object \cup {NoObject}, paused : BOOLEAN]]
    BY <1>5 DEF SetPause, Exists
  <2> QED
    BY <1>5, <2>1 DEF SetPause, Reaches, Exists
<1>6. CASE UNCHANGED vars
  BY <1>6 DEF vars
<1> QED
  BY <1>1, <1>3, <1>4, <1>5, <1>6 DEF Next, pause, resume

\* Initially there is no session, no id is taken and the kernel has nothing.
LEMMA InitLeak == Init => LeakInv
<1> SUFFICES ASSUME Init PROVE LeakInv
  OBVIOUS
<1>1. NoEntry \in [owner : Object \cup {NoObject}, paused : BOOLEAN]
  BY DEF NoEntry
<1>2. TypeOK
  BY <1>1 DEF Init, TypeOK
<1> QED
  BY <1>2 DEF Init, LeakInv, NothingLeaks, NoEntry

\* removePowerSession takes back the id and the kernel's session together with
\* the object, and whatever else it takes back leaves nothing behind either.
LEMMA LeakStep == LeakInv /\ [Next]_vars => LeakInv'
<1> SUFFICES ASSUME LeakInv, [Next]_vars PROVE NothingLeaks'
  BY TypeStep DEF LeakInv
<1> USE DEF LeakInv, TypeOK, NothingLeaks
<1>1. ASSUME NEW o \in Object, createHintSession(o) PROVE NothingLeaks'
  <2>1. PICK i \in Id : /\ sessionHintIds' = sessionHintIds \cup {i}
                        /\ id' = [id EXCEPT ![o] = i]
                        /\ kernel' = [kernel EXCEPT ![i] = [owner |-> o, paused |-> FALSE]]
    BY <1>1 DEF createHintSession
  <2>2. o \in mPowerHintSessions' /\ id'[o] = i
    BY <1>1, <2>1 DEF createHintSession
  <2>3. \A q \in mPowerHintSessions : q \in mPowerHintSessions' /\ id'[q] = id[q]
    BY <1>1, <2>1 DEF createHintSession, Exists
  <2> QED
    BY <2>1, <2>2, <2>3
<1>2. ASSUME NEW o \in Object, Exists(o), removePowerSession(o)
      PROVE  /\ \A i \in sessionHintIds' : \E q \in mPowerHintSessions' \ {o} : id[q] = i
             /\ \A i \in Id : kernel'[i].owner # NoObject =>
                  \E q \in mPowerHintSessions' \ {o} : id[q] = i
  <2>1. \A i \in sessionHintIds' : \E q \in mPowerHintSessions' \ {o} : id[q] = i
    BY <1>2 DEF removePowerSession, FreedId
  <2>2. ASSUME NEW i \in Id, kernel'[i].owner # NoObject
        PROVE  \E q \in mPowerHintSessions' \ {o} : id[q] = i
    <3>1. kernel[i].owner # NoObject /\ ~(Open(o) /\ i = id[o])
      BY <1>2, <2>2 DEF removePowerSession, NoEntry, Open
    <3>2. PICK q \in mPowerHintSessions : id[q] = i
      BY <3>1
    <3>3. q # o
      BY <3>1, <3>2 DEF Open
    <3> QED
      BY <1>2, <3>2, <3>3 DEF removePowerSession
  <2> QED
    BY <2>1, <2>2
<1>3. ASSUME NEW o \in Object, close(o) PROVE NothingLeaks'
  BY <1>2, <1>3 DEF close
<1>4. ASSUME NEW o \in Object, Destroy(o) PROVE NothingLeaks'
  <2>1. \A q \in Object \ {o} : id'[q] = id[q]
    BY <1>4 DEF Destroy
  <2>2. mPowerHintSessions' \subseteq Object
    BY <1>4 DEF Destroy, removePowerSession
  <2> QED
    BY <1>2, <1>4, <2>1, <2>2 DEF Destroy
<1>5. ASSUME NEW o \in Object, NEW p \in BOOLEAN, SetPause(o, p) PROVE NothingLeaks'
  <2>1. \A i \in Id : kernel'[i].owner = kernel[i].owner
    BY <1>5 DEF SetPause, Exists
  <2> QED
    BY <1>5, <2>1 DEF SetPause
<1>6. CASE UNCHANGED vars
  BY <1>6 DEF vars
<1> QED
  BY <1>1, <1>3, <1>4, <1>5, <1>6 DEF Next, pause, resume

\* Sessions, ids and the kernel's table keep their types: an id given out by checkPowerSesssion is
\* always one of the ADPF_MAX_SESSION ids, and a session that is registered has one.
THEOREM TypeCorrect == Spec => []TypeOK
<1>1. Init => TypeOK
  BY InitLeak DEF LeakInv
<1> QED
  BY <1>1, TypeStep, PTL DEF Spec

\* However clients mix close and dropping their sessions, no id and no kernel
\* session stays behind: for every ADPF_MAX_SESSION.
THEOREM NothingLeaksForever == Spec => []NothingLeaks
<1>1. LeakInv => NothingLeaks
  BY DEF LeakInv
<1> QED
  BY <1>1, InitLeak, LeakStep, PTL DEF Spec
-----------------------------------------------------------------------------
\* An id that no call on a closed session has reached is marked as taken while a
\* session has it.  Without this, checkPowerSesssion could give it out again.
ReservedIds == \A o \in mPowerHintSessions :
                 id[o] \notin foreign => id[o] \in sessionHintIds

ApartInv == TypeOK /\ ReservedIds /\ SessionsApart

\* A new session gets an id that no untouched session has, and every call on an
\* open session reaches only its own id; a call on a closed one marks the id.
LEMMA ApartStep == ApartInv /\ [Next]_vars => ApartInv'
<1> SUFFICES ASSUME ApartInv, [Next]_vars PROVE ApartInv'
  OBVIOUS
<1>0. TypeOK'
  BY TypeStep DEF ApartInv
<1> USE DEF ApartInv, TypeOK, ReservedIds, SessionsApart, Exists, Open
<1>1. ASSUME NEW o \in Object, createHintSession(o) PROVE ApartInv'
  <2>1. PICK i \in Id : /\ checkPowerSession(i)
                        /\ sessionHintIds' = sessionHintIds \cup {i}
                        /\ id' = [id EXCEPT ![o] = i]
                        /\ kernel' = [kernel EXCEPT ![i] = [owner |-> o, paused |-> FALSE]]
                        /\ foreign' = IF \E q \in mPowerHintSessions : id[q] = i
                                      THEN foreign ELSE foreign \ {i}
    BY <1>1 DEF createHintSession
  <2>2. i \notin sessionHintIds
    BY <2>1 DEF checkPowerSession
  <2>3. /\ mPowerHintSessions' = mPowerHintSessions \cup {o}
        /\ o \notin mPowerHintSessions
        /\ wantsPause' = [wantsPause EXCEPT ![o] = FALSE]
    BY <1>1 DEF createHintSession
  <2>4. \A q \in mPowerHintSessions : /\ q \in Object /\ q # o
                                      /\ id'[q] = id[q] /\ wantsPause'[q] = wantsPause[q]
    BY <2>1, <2>3
  <2>5. id'[o] = i /\ wantsPause'[o] = FALSE
    BY <2>1, <2>3
  <2>6. \A q \in mPowerHintSessions : id[q] = i => i \in foreign /\ i \in foreign'
    BY <2>1, <2>2
  <2>7. ReservedIds'
    BY <2>1, <2>3, <2>4, <2>5, <2>6
  <2>8. SessionsApart'
    <3>1. ASSUME NEW q \in mPowerHintSessions, id'[q] \notin foreign'
          PROVE  /\ \A u \in mPowerHintSessions' : id'[u] = id'[q] => u = q
                 /\ kernel'[id'[q]] = [owner |-> q, paused |-> wantsPause'[q]]
      <4>1. id[q] # i
        BY <2>4, <2>6, <3>1
      <4>2. id[q] \notin foreign /\ id[q] \in Id
        BY <2>1, <2>4, <3>1, <4>1 DEF NoId
      <4>3. /\ \A u \in mPowerHintSessions : id[u] = id[q] => u = q
            /\ kernel[id[q]] = [owner |-> q, paused |-> wantsPause[q]]
        BY <4>2
      <4>4. kernel'[id[q]] = kernel[id[q]]
        BY <2>1, <4>1, <4>2
      <4> QED
        BY <2>3, <2>4, <2>5, <4>1, <4>3, <4>4
    <3>2. ASSUME i \notin foreign'
          PROVE  /\ \A u \in mPowerHintSessions' : id'[u] = i => u = o
                 /\ kernel'[i] = [owner |-> o, paused |-> FALSE]
      <4>1. \A u \in mPowerHintSessions : id[u] # i
        BY <2>6, <3>2
      <4> QED
        BY <2>1, <2>3, <2>4, <4>1
    <3> QED
      BY <2>3, <2>5, <3>1, <3>2
  <2> QED
    BY <1>0, <2>7, <2>8
<1>2. ASSUME NEW o \in Object, id[o] # NoId, removePowerSession(o), Reaches(o),
             \A q \in Object \ {o} : id'[q] = id[q] /\ wantsPause'[q] = wantsPause[q]
      PROVE  ApartInv'
  <2>1. /\ mPowerHintSessions' = mPowerHintSessions \ {o}
        /\ sessionHintIds' = sessionHintIds \ {id[o]}
        /\ id[o] \in Id
    BY <1>2 DEF removePowerSession, FreedId
  <2>2. ASSUME NEW q \in mPowerHintSessions', id'[q] \notin foreign'
        PROVE  /\ q \in mPowerHintSessions /\ q # o
               /\ id'[q] = id[q] /\ id[q] \in Id /\ id[q] # id[o]
               /\ id[q] \notin foreign
               /\ wantsPause'[q] = wantsPause[q]
               /\ kernel'[id[q]] = kernel[id[q]]
    <3>1. /\ q \in mPowerHintSessions /\ q # o
          /\ id'[q] = id[q] /\ wantsPause'[q] = wantsPause[q] /\ id[q] \in Id
      BY <1>2, <2>1
    <3>2. id[q] \notin foreign /\ id[q] # id[o]
      BY <1>2, <2>2, <3>1 DEF Reaches
    <3>3. kernel'[id[q]] = kernel[id[q]]
      BY <1>2, <2>1, <3>1, <3>2 DEF removePowerSession
    <3> QED
      BY <3>1, <3>2, <3>3
  <2>3. ReservedIds'
    BY <2>1, <2>2
  <2>4. SessionsApart'
    <3>1. ASSUME NEW q \in mPowerHintSessions', id'[q] \notin foreign'
          PROVE  /\ \A u \in mPowerHintSessions' : id'[u] = id'[q] => u = q
                 /\ kernel'[id'[q]] = [owner |-> q, paused |-> wantsPause'[q]]
      <4>1. \A u \in mPowerHintSessions' : u \in mPowerHintSessions /\ id'[u] = id[u]
        BY <1>2, <2>1
      <4> QED
        BY <2>2, <3>1, <4>1
    <3> QED
      BY <3>1
  <2> QED
    BY <1>0, <2>3, <2>4
<1>3. ASSUME NEW o \in Object, close(o) PROVE ApartInv'
  BY <1>2, <1>3 DEF close
<1>4. ASSUME NEW o \in Object, Destroy(o) PROVE ApartInv'
  <2>1. \A q \in Object \ {o} : id'[q] = id[q] /\ wantsPause'[q] = wantsPause[q]
    BY <1>4 DEF Destroy
  <2> QED
    BY <1>2, <1>4, <2>1 DEF Destroy
<1>5. ASSUME NEW o \in Object, NEW p \in BOOLEAN, SetPause(o, p) PROVE ApartInv'
  <2>1. /\ UNCHANGED <<sessionHintIds, mPowerHintSessions, id>>
        /\ wantsPause' = [wantsPause EXCEPT ![o] = p]
        /\ id[o] \in Id
        /\ Reaches(o)
    BY <1>5 DEF SetPause
  <2>2. foreign \subseteq foreign'
    BY <2>1 DEF Reaches
  <2>3. ReservedIds'
    BY <2>1, <2>2
  <2>4. ASSUME NEW q \in mPowerHintSessions, id[q] \notin foreign'
        PROVE  kernel'[id[q]] = [owner |-> q, paused |-> wantsPause'[q]]
    <3>1. id[q] \in Id /\ kernel[id[q]] = [owner |-> q, paused |-> wantsPause[q]]
      BY <2>2, <2>4
    <3>2. CASE q = o
      <4>1. kernel[id[o]].owner # NoObject
        BY <3>1, <3>2, HintSessionAssumption
      <4>2. kernel' = [kernel EXCEPT ![id[o]] = [kernel[id[o]] EXCEPT !.paused = p]]
        BY <1>5, <4>1 DEF SetPause
      <4> QED
        BY <2>1, <3>1, <3>2, <4>2
    <3>3. CASE q # o
      <4>1. id[q] # id[o]
        BY <2>1, <2>2, <2>4, <3>3 DEF Reaches
      <4>2. kernel'[id[q]] = kernel[id[q]]
        BY <1>5, <3>1, <4>1 DEF SetPause
      <4> QED
        BY <2>1, <3>1, <3>3, <4>2
    <3> QED
      BY <3>2, <3>3
  <2>5. SessionsApart'
    BY <2>1, <2>2, <2>4
  <2> QED
    BY <1>0, <2>3, <2>5
<1>6. CASE UNCHANGED vars
  BY <1>0, <1>6 DEF vars
<1> QED
  BY <1>1, <1>3, <1>4, <1>5, <1>6 DEF Next, pause, resume

\* Calls on open sessions alone never make two sessions share an id, or reach
\* another session's entry in the kernel: for every ADPF_MAX_SESSION and any
\* number of sessions.  Only a second close, or the destructor, pause or resume
\* of a session already closed, can do that (foreign).
THEOREM OpenSessionsApart == Spec => []SessionsApart
<1>1. Init => ApartInv
  BY InitLeak DEF Init, ApartInv, LeakInv, ReservedIds, SessionsApart
<1>2. ApartInv => SessionsApart
  BY DEF ApartInv
<1> QED
  BY <1>1, <1>2, ApartStep, PTL DEF Spec
=============================================================================
