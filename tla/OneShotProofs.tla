---------------------------- MODULE OneShotProofs ----------------------------
(***************************************************************************)
(* Proofs about OneShot, for any number of slots and resources.            *)
(*                                                                         *)
(* The loops of perfScnEnable and perfScnUpdate are recursive functions    *)
(* (LoopTheorems).                                                         *)
(***************************************************************************)
EXTENDS OneShot, LoopTheorems, TLAPS

-----------------------------------------------------------------------------
(***************************************************************************)
(* The record that the loops work on.                                      *)
(***************************************************************************)
ScnRec == [state : {"free", "off", "on"}, priority : Nat,
           oneshotReset : BOOLEAN, hasReset : BOOLEAN, rsc : Asked]
Tbl == [scn : [Slot -> ScnRec], curVal : Asked, rscPriority : [Rsc -> 0 .. PRIORITY_LOWEST], node : Asked]

\* The same locks, up to hasReset.
SameLocks(t, u) ==
  \A i \in Slot : /\ u.scn[i].state = t.scn[i].state /\ u.scn[i].priority = t.scn[i].priority
                  /\ u.scn[i].rsc = t.scn[i].rsc

\* The same locks and the same state of resource r.
SameAt(t, u, r) ==
  SameLocks(t, u) /\ u.rscPriority[r] = t.rscPriority[r] /\ u.node[r] = t.node[r]

\* A step from t to u that can change only resource r.
Touches(t, u, r) == SameLocks(t, u) /\ \A q \in Rsc \ {r} : SameAt(t, u, q)

\* Locks that are the same are the holders of the same resources, with the same best priority.
LEMMA SameHolders ==
  ASSUME NEW t, NEW u, SameLocks(t, u), NEW r
  PROVE  HoldersIn(u, r) = HoldersIn(t, r) /\ BestPriority(u, r) = BestPriority(t, r)
<1>1. HoldersIn(u, r) = HoldersIn(t, r)
  BY DEF SameLocks, HoldersIn
<1>2. HoldersIn(t, r) \subseteq Slot
  BY DEF HoldersIn
<1>3. PICK H : H = HoldersIn(t, r)
  OBVIOUS
<1>4. \A s \in H : u.scn[s].priority = t.scn[s].priority
  BY <1>2, <1>3 DEF SameLocks
<1>5. ASSUME NEW p
      PROVE  /\ (\A s \in H : p <= u.scn[s].priority) <=> (\A s \in H : p <= t.scn[s].priority)
             /\ (\E s \in H : p = u.scn[s].priority) <=> (\E s \in H : p = t.scn[s].priority)
  BY <1>4
<1>6. \A p : (/\ \A s \in HoldersIn(u, r) : p <= u.scn[s].priority
              /\ p = PRIORITY_LOWEST \/ \E s \in HoldersIn(u, r) : p = u.scn[s].priority)
         <=> (/\ \A s \in HoldersIn(t, r) : p <= t.scn[s].priority
              /\ p = PRIORITY_LOWEST \/ \E s \in HoldersIn(t, r) : p = t.scn[s].priority)
  BY <1>1, <1>3, <1>5, ZenonT(60)
<1>7. BestPriority(u, r) = BestPriority(t, r)
  BY <1>6 DEF BestPriority
<1> QED BY <1>1, <1>7

\* The search finds the highest priority there is.
LEMMA BestFacts ==
  ASSUME NEW t \in Tbl, NEW r \in Rsc
  PROVE  /\ BestPriority(t, r) \in 0 .. PRIORITY_LOWEST
         /\ \A s \in HoldersIn(t, r) : BestPriority(t, r) <= t.scn[s].priority
         /\ \/ BestPriority(t, r) = PRIORITY_LOWEST
            \/ \E s \in HoldersIn(t, r) : BestPriority(t, r) = t.scn[s].priority
<1> DEFINE Is(p) == /\ \A s \in HoldersIn(t, r) : p <= t.scn[s].priority
                    /\ p = PRIORITY_LOWEST \/ \E s \in HoldersIn(t, r) : p = t.scn[s].priority
           S == {t.scn[s].priority : s \in HoldersIn(t, r)} \cup {PRIORITY_LOWEST}
<1>1. \A s \in HoldersIn(t, r) : t.scn[s].priority \in Nat
  BY DEF HoldersIn, Tbl, ScnRec
<1>2. PRIORITY_LOWEST \in S /\ S \subseteq Nat
  BY <1>1 DEF PRIORITY_LOWEST
<1>5. PICK p \in S : \A n \in S : p <= n
  <2> HIDE DEF S
  <2> QED BY <1>2, LeastNat
<1>6. p \in 0 .. PRIORITY_LOWEST /\ Is(p)
  <2>1. p \in Nat /\ p <= PRIORITY_LOWEST
    BY <1>2, <1>5
  <2>2. p \in 0 .. PRIORITY_LOWEST
    BY <2>1 DEF PRIORITY_LOWEST
  <2> QED BY <1>5, <2>2
<1>7. BestPriority(t, r) = CHOOSE q \in 0 .. PRIORITY_LOWEST : Is(q)
  BY DEF BestPriority
<1>8. BestPriority(t, r) \in 0 .. PRIORITY_LOWEST /\ Is(BestPriority(t, r))
  <2> HIDE DEF Is
  <2> QED BY <1>6, <1>7
<1> QED BY <1>8

\* A priority that bounds those of the holders, and that one of them has, is the one found.
LEMMA BestUnique ==
  ASSUME NEW t \in Tbl, NEW r \in Rsc, NEW p \in 0 .. PRIORITY_LOWEST,
         \A s \in HoldersIn(t, r) : p <= t.scn[s].priority,
         p = PRIORITY_LOWEST \/ \E s \in HoldersIn(t, r) : p = t.scn[s].priority
  PROVE  BestPriority(t, r) = p
<1>1. PICK b \in 0 .. PRIORITY_LOWEST :
        /\ b = BestPriority(t, r)
        /\ \A s \in HoldersIn(t, r) : b <= t.scn[s].priority
        /\ b = PRIORITY_LOWEST \/ \E s \in HoldersIn(t, r) : b = t.scn[s].priority
  BY BestFacts
<1>2. p <= b
  BY <1>1 DEF PRIORITY_LOWEST
<1>3. b <= p
  BY <1>1 DEF PRIORITY_LOWEST
<1> QED BY <1>1, <1>2, <1>3

\* A loop over the resources comes to r with r as it was, and leaves it as its turn left it.
LEMMA LoopReach ==
  ASSUME NEW g, \A k \in 1 .. R : Touches(g[k - 1], g[k], k)
  PROVE  /\ SameLocks(g[0], g[R])
         /\ \A r \in Rsc : SameAt(g[0], g[r - 1], r) /\ SameAt(g[r], g[R], r)
<1>1. R \in Nat /\ Rsc = 1 .. R
  BY OneShotAssumption DEF Rsc
<1>2. \A t : SameLocks(t, t)
  BY DEF SameLocks
<1>3. \A t, u, v : SameLocks(t, u) /\ SameLocks(u, v) => SameLocks(t, v)
  BY DEF SameLocks
<1>4. \A t, r : SameAt(t, t, r)
  BY <1>2 DEF SameAt
<1>5. \A t, u, v, r : SameAt(t, u, r) /\ SameAt(u, v, r) => SameAt(t, v, r)
  BY <1>3 DEF SameAt
<1>6. \A k \in 1 .. R : \A r \in Rsc : r # k => SameAt(g[k - 1], g[k], r)
  BY DEF Touches
<1>7. \A k \in 1 .. R : SameLocks(g[k - 1], g[k])
  BY DEF Touches
<1>8. ASSUME NEW r \in Rsc PROVE SameAt(g[0], g[r - 1], r)
  <2> DEFINE G == {k \in 0 .. R : k < r => SameAt(g[0], g[k], r)}
  <2>1. 0 \in G
    BY <1>1, <1>4
  <2>2. ASSUME NEW k \in 1 .. R, k - 1 \in G PROVE k \in G
    <3> SUFFICES ASSUME k < r PROVE SameAt(g[0], g[k], r)
      OBVIOUS
    <3>1. k - 1 < r /\ r # k
      BY <1>1
    <3>2. SameAt(g[0], g[k - 1], r)
      BY <2>2, <3>1
    <3>3. SameAt(g[k - 1], g[k], r)
      BY <1>6, <3>1
    <3> QED BY <1>5, <3>2, <3>3
  <2>3. \A k \in 0 .. R : k \in G
    <3> HIDE DEF G
    <3> QED BY <1>1, <2>1, <2>2, TurnByTurn
  <2>4. r - 1 \in 0 .. R /\ r - 1 < r
    BY <1>1
  <2> QED BY <2>3, <2>4
<1>9. ASSUME NEW r \in Rsc PROVE SameAt(g[r], g[R], r)
  <2> DEFINE G == {k \in 0 .. R : r <= k => SameAt(g[r], g[k], r)}
  <2>1. 0 \in G
    BY <1>1
  <2>2. ASSUME NEW k \in 1 .. R, k - 1 \in G PROVE k \in G
    <3> SUFFICES ASSUME r <= k PROVE SameAt(g[r], g[k], r)
      OBVIOUS
    <3>1. CASE r = k
      BY <1>4, <3>1
    <3>2. CASE r # k
      <4>1. r <= k - 1
        BY <1>1, <3>2
      <4>2. SameAt(g[r], g[k - 1], r)
        BY <2>2, <4>1
      <4>3. SameAt(g[k - 1], g[k], r)
        BY <1>6, <3>2
      <4> QED BY <1>5, <4>2, <4>3
    <3> QED BY <3>1, <3>2
  <2>3. \A k \in 0 .. R : k \in G
    <3> HIDE DEF G
    <3> QED BY <1>1, <2>1, <2>2, TurnByTurn
  <2>4. R \in 0 .. R /\ r <= R
    BY <1>1
  <2> QED BY <2>3, <2>4
<1>10. SameLocks(g[0], g[R])
  <2> DEFINE G == {k \in 0 .. R : SameLocks(g[0], g[k])}
  <2>1. 0 \in G
    BY <1>1, <1>2
  <2>2. ASSUME NEW k \in 1 .. R, k - 1 \in G PROVE k \in G
    BY <1>3, <1>7, <2>2
  <2>3. \A k \in 0 .. R : k \in G
    <3> HIDE DEF G
    <3> QED BY <1>1, <2>1, <2>2, TurnByTurn
  <2> QED BY <1>1, <2>3
<1> QED BY <1>8, <1>9, <1>10

-----------------------------------------------------------------------------
(***************************************************************************)
(* One turn of each loop.                                                  *)
(***************************************************************************)

\* A turn of perfScnEnable: the lock takes the resource unless it has a lower priority.
Enabled(s, t, u, r) ==
  IF t.scn[s].rsc[r] = Rest \/ t.scn[s].priority > t.rscPriority[r] THEN SameAt(t, u, r)
  ELSE u.rscPriority[r] = t.scn[s].priority /\ u.node[r] = t.scn[s].rsc[r]

\* It touches that resource only.
LEMMA EnableTurn ==
  ASSUME NEW t \in Tbl, NEW s \in Slot, NEW r \in Rsc
  PROVE  /\ EnableRsc(s, t, r) \in Tbl
         /\ Touches(t, EnableRsc(s, t, r), r) /\ Enabled(s, t, EnableRsc(s, t, r), r)
<1>1. PICK u : u = EnableRsc(s, t, r)
  OBVIOUS
<1>2. /\ t.scn \in [Slot -> ScnRec] /\ t.curVal \in Asked /\ t.node \in Asked
      /\ t.rscPriority \in [Rsc -> 0 .. PRIORITY_LOWEST]
  BY DEF Tbl
<1>3. /\ t.scn[s] \in ScnRec /\ t.scn[s].priority \in Nat
      /\ t.scn[s].rsc \in Asked /\ t.scn[s].rsc[r] \in Val
  <2>1. t.scn[s] \in ScnRec
    BY <1>2
  <2> QED BY <2>1 DEF ScnRec, Asked
<1>4. CASE t.scn[s].rsc[r] = Rest \/ t.scn[s].priority > t.rscPriority[r]
  <2>1. u = t
    BY <1>1, <1>4 DEF EnableRsc
  <2> QED BY <1>1, <1>4, <2>1 DEF Touches, SameAt, SameLocks, Enabled
<1>5. CASE ~(t.scn[s].rsc[r] = Rest \/ t.scn[s].priority > t.rscPriority[r])
  <2> DEFINE gives(i) == /\ i # s /\ i \in HoldersIn(t, r) /\ t.scn[i].oneshotReset
                         /\ t.scn[s].priority < t.rscPriority[r]
             sc == [i \in Slot |-> IF gives(i) THEN [t.scn[i] EXCEPT !.hasReset = FALSE] ELSE t.scn[i]]
  <2>1. u = [scn |-> sc, curVal |-> [t.curVal EXCEPT ![r] = t.scn[s].rsc[r]],
             rscPriority |-> [t.rscPriority EXCEPT ![r] = t.scn[s].priority],
             node |-> [t.node EXCEPT ![r] = t.scn[s].rsc[r]]]
    BY <1>1, <1>5 DEF EnableRsc
  <2>2. ASSUME NEW i \in Slot
        PROVE  /\ sc[i] \in ScnRec /\ sc[i].state = t.scn[i].state /\ sc[i].priority = t.scn[i].priority
               /\ sc[i].rsc = t.scn[i].rsc
    <3>1. t.scn[i] \in ScnRec
      BY <1>2
    <3>2. sc[i] = IF gives(i) THEN [t.scn[i] EXCEPT !.hasReset = FALSE] ELSE t.scn[i]
      OBVIOUS
    <3>3. sc[i] = t.scn[i] \/ sc[i] = [t.scn[i] EXCEPT !.hasReset = FALSE]
      <4> HIDE DEF gives, sc
      <4> QED BY <3>2
    <3> HIDE DEF sc
    <3> QED BY <3>1, <3>3 DEF ScnRec
  <2>3. sc \in [Slot -> ScnRec]
    BY <2>2
  <2> HIDE DEF sc
  <2>4. u \in Tbl
    <3>1. t.scn[s].priority \in 0 .. PRIORITY_LOWEST
      BY <1>2, <1>3, <1>5 DEF PRIORITY_LOWEST
    <3> QED BY <1>2, <1>3, <2>1, <2>3, <3>1 DEF Tbl, Asked
  <2>5. SameLocks(t, u)
    BY <2>1, <2>2 DEF SameLocks
  <2>6. /\ u.rscPriority = [t.rscPriority EXCEPT ![r] = t.scn[s].priority]
        /\ u.node = [t.node EXCEPT ![r] = t.scn[s].rsc[r]]
    BY <2>1
  <2>7. Touches(t, u, r) /\ Enabled(s, t, u, r)
    BY <1>2, <1>5, <2>5, <2>6 DEF Touches, SameAt, Enabled, Asked
  <2> QED BY <1>1, <2>4, <2>7
<1> QED BY <1>4, <1>5

\* A turn of perfScnUpdate(s, 1).
Updated(s, prev, t, u, r) ==
  /\ u.rscPriority[r] = t.rscPriority[r]
  /\ u.node[r] = IF t.scn[s].priority > t.rscPriority[r] THEN t.node[r]
                 ELSE IF t.scn[s].rsc[r] # Rest /\ t.scn[s].rsc[r] # prev[r]
                         /\ t.rscPriority[r] = BestPriority(t, r) THEN t.scn[s].rsc[r]
                 ELSE IF prev[r] # Rest /\ prev[r] # t.scn[s].rsc[r] THEN Rest ELSE t.node[r]

\* It touches that resource only.
LEMMA UpdateTurn ==
  ASSUME NEW t \in Tbl, NEW s \in Slot, NEW prev \in Asked, NEW r \in Rsc
  PROVE  /\ UpdateRsc(s, prev, t, r) \in Tbl
         /\ Touches(t, UpdateRsc(s, prev, t, r), r) /\ Updated(s, prev, t, UpdateRsc(s, prev, t, r), r)
<1>1. PICK u : u = UpdateRsc(s, prev, t, r)
  OBVIOUS
<1>2. /\ t.scn \in [Slot -> ScnRec] /\ t.curVal \in Asked /\ t.node \in Asked
      /\ t.rscPriority \in [Rsc -> 0 .. PRIORITY_LOWEST]
  BY DEF Tbl
<1>3. t.scn[s].rsc \in Asked /\ t.scn[s].rsc[r] \in Val /\ Rest \in Val
  <2>1. t.scn[s] \in ScnRec
    BY <1>2
  <2> QED BY <2>1 DEF ScnRec, Asked, Val
<1>4. PICK b : b = BestPriority(t, r)
  OBVIOUS
<1>5. PICK new, old : new = t.scn[s].rsc[r] /\ old = prev[r]
  OBVIOUS
<1>6. PICK unset : unset = IF old # Rest /\ old # new THEN [t EXCEPT !.node[r] = Rest] ELSE t
  OBVIOUS
<1>7. u = IF t.scn[s].priority > t.rscPriority[r] THEN t
          ELSE IF new # Rest /\ new # old /\ t.rscPriority[r] = b
          THEN [unset EXCEPT !.node[r] = new, !.curVal[r] = new] ELSE unset
  BY <1>1, <1>4, <1>5, <1>6 DEF UpdateRsc
<1>8. /\ unset \in Tbl /\ unset.scn = t.scn /\ unset.rscPriority = t.rscPriority
      /\ unset.node = [t.node EXCEPT ![r] = IF old # Rest /\ old # new THEN Rest ELSE @]
  BY <1>2, <1>3, <1>6 DEF Tbl, Asked
<1>9. /\ u \in Tbl /\ u.scn = t.scn /\ u.rscPriority = t.rscPriority
      /\ u.node = [t.node EXCEPT ![r] = IF t.scn[s].priority > t.rscPriority[r] THEN @
                     ELSE IF new # Rest /\ new # old /\ t.rscPriority[r] = b THEN new
                     ELSE IF old # Rest /\ old # new THEN Rest ELSE @]
  <2>1. CASE t.scn[s].priority > t.rscPriority[r]
    BY <1>2, <1>7, <2>1 DEF Asked
  <2>2. CASE ~(t.scn[s].priority > t.rscPriority[r]) /\ new # Rest /\ new # old /\ t.rscPriority[r] = b
    <3>1. u = [unset EXCEPT !.node[r] = new, !.curVal[r] = new]
      BY <1>7, <2>2
    <3> QED BY <1>2, <1>3, <1>5, <1>8, <2>2, <3>1 DEF Tbl, Asked
  <2>3. CASE ~(t.scn[s].priority > t.rscPriority[r]) /\ ~(new # Rest /\ new # old /\ t.rscPriority[r] = b)
    <3>1. u = unset
      BY <1>7, <2>3
    <3> QED BY <1>2, <1>8, <2>3, <3>1 DEF Asked
  <2> QED BY <2>1, <2>2, <2>3
<1>10. SameLocks(t, u)
  BY <1>9 DEF SameLocks
<1>11. Touches(t, u, r) /\ Updated(s, prev, t, u, r)
  BY <1>2, <1>4, <1>5, <1>9, <1>10 DEF Touches, SameAt, Updated, Asked
<1> QED BY <1>1, <1>9, <1>11

\* After a search: the entry has the best priority, and what is written, if anything, is the
\* request of a lock of that priority.
Fits(t, u, r) ==
  /\ u.rscPriority[r] = BestPriority(t, r)
  /\ u.node[r] # Rest => \E i \in HoldersIn(t, r) : /\ t.scn[i].priority = u.rscPriority[r]
                                                    /\ u.node[r] = t.scn[i].rsc[r]

\* The loop that restores mode locks writes the request of a lock of the entry's priority.
LEMMA RestoreTurn ==
  ASSUME NEW t0 \in Tbl, NEW t \in Tbl, NEW r \in Rsc, NEW i \in Slot, Touches(t0, t, r), Fits(t0, t, r)
  PROVE  LET u == RestoreSlot(r, t, i) IN u \in Tbl /\ Touches(t0, u, r) /\ Fits(t0, u, r)
<1> DEFINE on == /\ i \in HoldersIn(t, r) /\ t.scn[i].oneshotReset
                 /\ t.scn[i].priority = t.rscPriority[r]
                 /\ ~t.scn[i].hasReset /\ t.scn[i].rsc[r] # t.curVal[r]
<1>1. PICK u : u = RestoreSlot(r, t, i)
  OBVIOUS
<1>2. CASE ~on
  BY <1>1, <1>2 DEF RestoreSlot
<1>3. CASE on
  <2>1. u = [t EXCEPT !.node[r] = t.scn[i].rsc[r], !.curVal[r] = t.scn[i].rsc[r], !.scn[i].hasReset = TRUE]
    BY <1>1, <1>3 DEF RestoreSlot
  <2>2. /\ t.scn \in [Slot -> ScnRec] /\ t.curVal \in Asked /\ t.node \in Asked
        /\ t.rscPriority \in [Rsc -> 0 .. PRIORITY_LOWEST]
    BY DEF Tbl
  <2>3. t.scn[i] \in ScnRec /\ t.scn[i].rsc \in Asked /\ t.scn[i].rsc[r] \in Val
    <3>1. t.scn[i] \in ScnRec
      BY <2>2
    <3> QED BY <3>1 DEF ScnRec, Asked
  <2>4. PICK rec : rec = [t.scn[i] EXCEPT !.hasReset = TRUE]
    OBVIOUS
  <2>5. rec \in ScnRec /\ rec.state = t.scn[i].state /\ rec.priority = t.scn[i].priority /\ rec.rsc = t.scn[i].rsc
    BY <2>3, <2>4 DEF ScnRec
  <2>6. /\ u.scn = [t.scn EXCEPT ![i] = rec] /\ u.node = [t.node EXCEPT ![r] = t.scn[i].rsc[r]]
        /\ u.rscPriority = t.rscPriority /\ u \in Tbl
    <3>1. u = [t EXCEPT !.node = [t.node EXCEPT ![r] = t.scn[i].rsc[r]],
                        !.curVal = [t.curVal EXCEPT ![r] = t.scn[i].rsc[r]],
                        !.scn = [t.scn EXCEPT ![i] = rec]]
      BY <2>1, <2>4 DEF Tbl
    <3> QED BY <2>2, <2>3, <2>5, <3>1 DEF Tbl, Asked
  <2>7. SameLocks(t, u)
    BY <2>2, <2>5, <2>6 DEF SameLocks
  <2>8. Touches(t0, u, r)
    <3>1. SameLocks(t0, u)
      BY <2>7 DEF Touches, SameLocks
    <3>2. ASSUME NEW q \in Rsc \ {r} PROVE SameAt(t0, u, q)
      <4>1. SameAt(t0, t, q)
        BY DEF Touches
      <4> QED BY <2>2, <2>6, <3>1, <4>1 DEF SameAt, Asked
    <3> QED BY <3>1, <3>2 DEF Touches
  <2>9. Fits(t0, u, r)
    <3>1. SameLocks(t0, t)
      BY DEF Touches
    <3>2. HoldersIn(t, r) = HoldersIn(t0, r)
      BY <3>1, SameHolders
    <3>3. u.rscPriority[r] = BestPriority(t0, r)
      BY <2>6 DEF Fits
    <3>4. u.node[r] = t0.scn[i].rsc[r] /\ t0.scn[i].priority = u.rscPriority[r] /\ i \in HoldersIn(t0, r)
      BY <1>3, <2>2, <2>6, <3>1, <3>2 DEF SameLocks, Asked
    <3> QED BY <3>3, <3>4 DEF Fits
  <2> QED BY <1>1, <2>6, <2>8, <2>9
<1> QED BY <1>2, <1>3

-----------------------------------------------------------------------------
(***************************************************************************)
(* The loops.                                                              *)
(***************************************************************************)

\* The loop over the slots keeps what each of its turns keeps.
LEMMA RestoreLoop ==
  ASSUME NEW t0 \in Tbl, NEW t \in Tbl, NEW r \in Rsc, Touches(t0, t, r), Fits(t0, t, r)
  PROVE  Restore(r, t) \in Tbl /\ Touches(t0, Restore(r, t), r) /\ Fits(t0, Restore(r, t), r)
<1> DEFINE S == {u \in Tbl : Touches(t0, u, r) /\ Fits(t0, u, r)}
           G == CHOOSE g : g = [i \in 0 .. N |-> IF i = 0 THEN t ELSE RestoreSlot(r, g[i - 1], i)]
<1>0. N \in Nat /\ Slot = 1 .. N
  BY OneShotAssumption DEF Slot
<1>1. \A u \in S, i \in 1 .. N : RestoreSlot(r, u, i) \in S
  BY <1>0, RestoreTurn
<1>2. t \in S
  OBVIOUS
<1> HIDE DEF S
<1>3. PICK body : body = [x \in S \X (1 .. N) |-> RestoreSlot(r, x[1], x[2])]
  OBVIOUS
<1>4. body \in [S \X (1 .. N) -> S] /\ \A u \in S, i \in 1 .. N : body[<<u, i>>] = RestoreSlot(r, u, i)
  BY <1>1, <1>3
<1>5. PICK h \in [0 .. N -> S] : h[0] = t /\ \A i \in 1 .. N : h[i] = body[<<h[i - 1], i>>]
  <2>1. Looped(N, S, t, body)
    BY <1>0, <1>2, <1>4, LoopExists
  <2> QED BY <2>1, Zenon DEF Looped
<1>6. h = [i \in 0 .. N |-> IF i = 0 THEN t ELSE RestoreSlot(r, h[i - 1], i)]
  <2>1. ASSUME NEW i \in 1 .. N PROVE h[i] = RestoreSlot(r, h[i - 1], i)
    <3>1. h[i - 1] \in S
      BY <1>0
    <3> QED BY <1>4, <1>5, <3>1
  <2> QED BY <1>0, <1>5, <2>1
<1>7. G = [i \in 0 .. N |-> IF i = 0 THEN t ELSE RestoreSlot(r, G[i - 1], i)]
  BY <1>6
<1>8. Restore(r, t) = G[N]
  BY DEF Restore
<1> HIDE DEF G
<1>9. G[0] = t /\ \A i \in 1 .. N : G[i] = RestoreSlot(r, G[i - 1], i)
  BY <1>0, <1>7
<1>10. \A i \in 0 .. N : i \in {k \in 0 .. N : G[k] \in S}
  <2>1. PICK Good : Good = {k \in 0 .. N : G[k] \in S}
    OBVIOUS
  <2>2. 0 \in Good /\ \A i \in 1 .. N : i - 1 \in Good => i \in Good
    BY <1>0, <1>1, <1>2, <1>9, <2>1
  <2> QED BY <1>0, <2>1, <2>2, TurnByTurn
<1>11. G[N] \in S
  BY <1>0, <1>10
<1> QED BY <1>8, <1>11 DEF S

\* A turn of perfScnUpdate(s, 0).
Disabled(s, t, u, r) ==
  IF t.scn[s].rsc[r] = Rest \/ t.scn[s].priority > t.rscPriority[r] THEN SameAt(t, u, r)
  ELSE SameLocks(t, u) /\ Fits(t, u, r)

\* It touches that resource only.
LEMMA DisableTurn ==
  ASSUME NEW t \in Tbl, NEW s \in Slot, NEW r \in Rsc
  PROVE  /\ DisableRsc(s, t, r) \in Tbl
         /\ Touches(t, DisableRsc(s, t, r), r) /\ Disabled(s, t, DisableRsc(s, t, r), r)
<1>1. CASE t.scn[s].rsc[r] = Rest \/ t.scn[s].priority > t.rscPriority[r]
  <2>1. DisableRsc(s, t, r) = t
    BY <1>1 DEF DisableRsc
  <2> QED BY <1>1, <2>1 DEF Touches, SameAt, SameLocks, Disabled
<1>2. CASE ~(t.scn[s].rsc[r] = Rest \/ t.scn[s].priority > t.rscPriority[r])
  <2>1. PICK b \in 0 .. PRIORITY_LOWEST : b = BestPriority(t, r)
    BY BestFacts
  <2>2. PICK v : v = [t EXCEPT !.node[r] = Rest, !.rscPriority[r] = b]
    OBVIOUS
  <2>3. /\ t.scn \in [Slot -> ScnRec] /\ t.curVal \in Asked /\ t.node \in Asked
        /\ t.rscPriority \in [Rsc -> 0 .. PRIORITY_LOWEST] /\ Rest \in Val
    BY DEF Tbl, Val
  <2>4. /\ v \in Tbl /\ v.scn = t.scn /\ v.node = [t.node EXCEPT ![r] = Rest]
        /\ v.rscPriority = [t.rscPriority EXCEPT ![r] = b]
    BY <2>2, <2>3 DEF Tbl, Asked
  <2>5. Touches(t, v, r)
    BY <2>3, <2>4 DEF Touches, SameAt, SameLocks, Asked
  <2>6. Fits(t, v, r)
    BY <2>1, <2>3, <2>4 DEF Fits, Asked
  <2>7. DisableRsc(s, t, r) = Restore(r, v)
    BY <1>2, <2>1, <2>2 DEF DisableRsc
  <2>8. Restore(r, v) \in Tbl /\ Touches(t, Restore(r, v), r) /\ Fits(t, Restore(r, v), r)
    BY <2>4, <2>5, <2>6, RestoreLoop
  <2> QED BY <1>2, <2>7, <2>8 DEF Disabled, Touches
<1> QED BY <1>1, <1>2

\* The loop of perfScnEnable.
LEMMA EnableLoop ==
  ASSUME NEW t \in Tbl, NEW s \in Slot
  PROVE  /\ perfScnEnable(s, t) \in Tbl /\ SameLocks(t, perfScnEnable(s, t))
         /\ \A r \in Rsc : Enabled(s, t, perfScnEnable(s, t), r)
<1> DEFINE G == CHOOSE g : g = [k \in 0 .. R |-> IF k = 0 THEN t ELSE EnableRsc(s, g[k - 1], k)]
<1>0. R \in Nat /\ Rsc = 1 .. R
  BY OneShotAssumption DEF Rsc
<1>1. \A x \in Tbl, k \in 1 .. R : EnableRsc(s, x, k) \in Tbl
  BY <1>0, EnableTurn
<1>2. t \in Tbl
  OBVIOUS
<1>3. PICK body : body = [x \in Tbl \X (1 .. R) |-> EnableRsc(s, x[1], x[2])]
  OBVIOUS
<1>4. body \in [Tbl \X (1 .. R) -> Tbl] /\ \A x \in Tbl, k \in 1 .. R : body[<<x, k>>] = EnableRsc(s, x, k)
  BY <1>1, <1>3
<1>5. PICK h \in [0 .. R -> Tbl] : h[0] = t /\ \A k \in 1 .. R : h[k] = body[<<h[k - 1], k>>]
  <2>1. Looped(R, Tbl, t, body)
    BY <1>0, <1>2, <1>4, LoopExists
  <2> QED BY <2>1, Zenon DEF Looped
<1>6. h = [k \in 0 .. R |-> IF k = 0 THEN t ELSE EnableRsc(s, h[k - 1], k)]
  <2>1. ASSUME NEW k \in 1 .. R PROVE h[k] = EnableRsc(s, h[k - 1], k)
    <3>1. h[k - 1] \in Tbl
      BY <1>0
    <3> QED BY <1>4, <1>5, <3>1
  <2> QED BY <1>0, <1>5, <2>1
<1>7. G = [k \in 0 .. R |-> IF k = 0 THEN t ELSE EnableRsc(s, G[k - 1], k)]
  BY <1>6
<1>8. perfScnEnable(s, t) = G[R]
  BY <1>2 DEF perfScnEnable
<1> HIDE DEF G
<1>9. G[0] = t /\ \A k \in 1 .. R : G[k] = EnableRsc(s, G[k - 1], k)
  BY <1>0, <1>7
<1>10. \A k \in 0 .. R : k \in {i \in 0 .. R : G[i] \in Tbl}
  <2>1. PICK Good : Good = {i \in 0 .. R : G[i] \in Tbl}
    OBVIOUS
  <2>2. 0 \in Good /\ \A k \in 1 .. R : k - 1 \in Good => k \in Good
    BY <1>0, <1>1, <1>2, <1>9, <2>1
  <2> QED BY <1>0, <2>1, <2>2, TurnByTurn
<1>11. \A k \in 0 .. R : G[k] \in Tbl
  BY <1>10
<1>12. ASSUME NEW k \in 1 .. R
       PROVE  Touches(G[k - 1], G[k], k) /\ Enabled(s, G[k - 1], G[k], k)
  <2>1. G[k - 1] \in Tbl /\ k \in Rsc
    BY <1>0, <1>11
  <2> QED BY <1>9, <2>1, EnableTurn
<1>13. /\ SameLocks(G[0], G[R])
       /\ \A r \in Rsc : SameAt(G[0], G[r - 1], r) /\ SameAt(G[r], G[R], r)
  BY <1>12, LoopReach
<1>14. ASSUME NEW r \in Rsc PROVE Enabled(s, t, G[R], r)
  <2>1. PICK a, b, z : a = G[r - 1] /\ b = G[r] /\ z = G[R]
    OBVIOUS
  <2>2. SameAt(t, a, r) /\ SameAt(b, z, r) /\ Touches(a, b, r) /\ Enabled(s, a, b, r)
    BY <1>0, <1>9, <1>12, <1>13, <2>1
  <2>3. Enabled(s, t, z, r)
    BY <2>2 DEF Enabled, SameAt, SameLocks
  <2> QED BY <2>1, <2>3
<1> QED BY <1>0, <1>8, <1>9, <1>11, <1>13, <1>14

\* The loop of perfScnUpdate(s, 1).
LEMMA UpdateLoop ==
  ASSUME NEW t \in Tbl, NEW s \in Slot, NEW prev \in Asked
  PROVE  /\ perfScnUpdate(s, prev, t) \in Tbl /\ SameLocks(t, perfScnUpdate(s, prev, t))
         /\ \A r \in Rsc : Updated(s, prev, t, perfScnUpdate(s, prev, t), r)
<1> DEFINE G == CHOOSE g : g = [k \in 0 .. R |-> IF k = 0 THEN t ELSE UpdateRsc(s, prev, g[k - 1], k)]
<1>0. R \in Nat /\ Rsc = 1 .. R
  BY OneShotAssumption DEF Rsc
<1>1. \A x \in Tbl, k \in 1 .. R : UpdateRsc(s, prev, x, k) \in Tbl
  BY <1>0, UpdateTurn
<1>2. t \in Tbl
  OBVIOUS
<1>3. PICK body : body = [x \in Tbl \X (1 .. R) |-> UpdateRsc(s, prev, x[1], x[2])]
  OBVIOUS
<1>4. body \in [Tbl \X (1 .. R) -> Tbl] /\ \A x \in Tbl, k \in 1 .. R : body[<<x, k>>] = UpdateRsc(s, prev, x, k)
  BY <1>1, <1>3
<1>5. PICK h \in [0 .. R -> Tbl] : h[0] = t /\ \A k \in 1 .. R : h[k] = body[<<h[k - 1], k>>]
  <2>1. Looped(R, Tbl, t, body)
    BY <1>0, <1>2, <1>4, LoopExists
  <2> QED BY <2>1, Zenon DEF Looped
<1>6. h = [k \in 0 .. R |-> IF k = 0 THEN t ELSE UpdateRsc(s, prev, h[k - 1], k)]
  <2>1. ASSUME NEW k \in 1 .. R PROVE h[k] = UpdateRsc(s, prev, h[k - 1], k)
    <3>1. h[k - 1] \in Tbl
      BY <1>0
    <3> QED BY <1>4, <1>5, <3>1
  <2> QED BY <1>0, <1>5, <2>1
<1>7. G = [k \in 0 .. R |-> IF k = 0 THEN t ELSE UpdateRsc(s, prev, G[k - 1], k)]
  BY <1>6
<1>8. perfScnUpdate(s, prev, t) = G[R]
  BY <1>2 DEF perfScnUpdate
<1> HIDE DEF G
<1>9. G[0] = t /\ \A k \in 1 .. R : G[k] = UpdateRsc(s, prev, G[k - 1], k)
  BY <1>0, <1>7
<1>10. \A k \in 0 .. R : k \in {i \in 0 .. R : G[i] \in Tbl}
  <2>1. PICK Good : Good = {i \in 0 .. R : G[i] \in Tbl}
    OBVIOUS
  <2>2. 0 \in Good /\ \A k \in 1 .. R : k - 1 \in Good => k \in Good
    BY <1>0, <1>1, <1>2, <1>9, <2>1
  <2> QED BY <1>0, <2>1, <2>2, TurnByTurn
<1>11. \A k \in 0 .. R : G[k] \in Tbl
  BY <1>10
<1>12. ASSUME NEW k \in 1 .. R
       PROVE  Touches(G[k - 1], G[k], k) /\ Updated(s, prev, G[k - 1], G[k], k)
  <2>1. G[k - 1] \in Tbl /\ k \in Rsc
    BY <1>0, <1>11
  <2> QED BY <1>9, <2>1, UpdateTurn
<1>13. /\ SameLocks(G[0], G[R])
       /\ \A r \in Rsc : SameAt(G[0], G[r - 1], r) /\ SameAt(G[r], G[R], r)
  BY <1>12, LoopReach
<1>14. ASSUME NEW r \in Rsc PROVE Updated(s, prev, t, G[R], r)
  <2>1. PICK a, b, z : a = G[r - 1] /\ b = G[r] /\ z = G[R]
    OBVIOUS
  <2>2. SameAt(t, a, r) /\ SameAt(b, z, r) /\ Touches(a, b, r) /\ Updated(s, prev, a, b, r)
    BY <1>0, <1>9, <1>12, <1>13, <2>1
  <2>3. BestPriority(a, r) = BestPriority(t, r)
    BY <2>2, SameHolders DEF SameAt
  <2>4. Updated(s, prev, t, z, r)
    BY <2>2, <2>3 DEF Updated, SameAt, SameLocks
  <2> QED BY <2>1, <2>4
<1> QED BY <1>0, <1>8, <1>9, <1>11, <1>13, <1>14

\* The loop of perfScnUpdate(s, 0), for a lock that is on.
LEMMA DisableLoop ==
  ASSUME NEW t \in Tbl, NEW s \in Slot, t.scn[s].state # "off",
         NEW off, off = [t EXCEPT !.scn[s].state = "off"]
  PROVE  /\ perfScnDisable(s, t) \in Tbl /\ SameLocks(off, perfScnDisable(s, t))
         /\ \A r \in Rsc : Disabled(s, off, perfScnDisable(s, t), r)
<1> DEFINE G == CHOOSE g : g = [k \in 0 .. R |-> IF k = 0 THEN off ELSE DisableRsc(s, g[k - 1], k)]
<1>0. R \in Nat /\ Rsc = 1 .. R
  BY OneShotAssumption DEF Rsc
<1>1. \A x \in Tbl, k \in 1 .. R : DisableRsc(s, x, k) \in Tbl
  BY <1>0, DisableTurn
<1>2. off \in Tbl
  <2>1. t.scn \in [Slot -> ScnRec] /\ t.scn[s] \in ScnRec
    BY DEF Tbl
  <2>2. PICK rec : rec = [t.scn[s] EXCEPT !.state = "off"]
    OBVIOUS
  <2>3. rec \in ScnRec
    BY <2>1, <2>2 DEF ScnRec
  <2>4. off = [t EXCEPT !.scn = [t.scn EXCEPT ![s] = rec]]
    BY <2>2 DEF Tbl
  <2> QED BY <2>1, <2>3, <2>4 DEF Tbl
<1>3. PICK body : body = [x \in Tbl \X (1 .. R) |-> DisableRsc(s, x[1], x[2])]
  OBVIOUS
<1>4. body \in [Tbl \X (1 .. R) -> Tbl] /\ \A x \in Tbl, k \in 1 .. R : body[<<x, k>>] = DisableRsc(s, x, k)
  BY <1>1, <1>3
<1>5. PICK h \in [0 .. R -> Tbl] : h[0] = off /\ \A k \in 1 .. R : h[k] = body[<<h[k - 1], k>>]
  <2>1. Looped(R, Tbl, off, body)
    BY <1>0, <1>2, <1>4, LoopExists
  <2> QED BY <2>1, Zenon DEF Looped
<1>6. h = [k \in 0 .. R |-> IF k = 0 THEN off ELSE DisableRsc(s, h[k - 1], k)]
  <2>1. ASSUME NEW k \in 1 .. R PROVE h[k] = DisableRsc(s, h[k - 1], k)
    <3>1. h[k - 1] \in Tbl
      BY <1>0
    <3> QED BY <1>4, <1>5, <3>1
  <2> QED BY <1>0, <1>5, <2>1
<1>7. G = [k \in 0 .. R |-> IF k = 0 THEN off ELSE DisableRsc(s, G[k - 1], k)]
  BY <1>6
<1>8. perfScnDisable(s, t) = G[R]
  BY <1>2 DEF perfScnDisable
<1> HIDE DEF G
<1>9. G[0] = off /\ \A k \in 1 .. R : G[k] = DisableRsc(s, G[k - 1], k)
  <2>1. PICK o : o = off
    OBVIOUS
  <2>2. G = [k \in 0 .. R |-> IF k = 0 THEN o ELSE DisableRsc(s, G[k - 1], k)]
    BY <1>7, <2>1, Zenon
  <2>3. G[0] = o
    BY <1>0, <2>2
  <2>4. \A k \in 1 .. R : G[k] = DisableRsc(s, G[k - 1], k)
    BY <1>0, <2>2
  <2> QED BY <2>1, <2>3, <2>4
<1>10. \A k \in 0 .. R : k \in {i \in 0 .. R : G[i] \in Tbl}
  <2>1. PICK Good : Good = {i \in 0 .. R : G[i] \in Tbl}
    OBVIOUS
  <2>2. 0 \in Good /\ \A k \in 1 .. R : k - 1 \in Good => k \in Good
    BY <1>0, <1>1, <1>2, <1>9, <2>1
  <2> QED BY <1>0, <2>1, <2>2, TurnByTurn
<1>11. \A k \in 0 .. R : G[k] \in Tbl
  BY <1>10
<1>12. ASSUME NEW k \in 1 .. R
       PROVE  Touches(G[k - 1], G[k], k) /\ Disabled(s, G[k - 1], G[k], k)
  <2>1. G[k - 1] \in Tbl /\ k \in Rsc
    BY <1>0, <1>11
  <2> QED BY <1>9, <2>1, DisableTurn
<1>13. /\ SameLocks(G[0], G[R])
       /\ \A r \in Rsc : SameAt(G[0], G[r - 1], r) /\ SameAt(G[r], G[R], r)
  BY <1>12, LoopReach
<1>14. ASSUME NEW r \in Rsc PROVE Disabled(s, off, G[R], r)
  <2>1. PICK a, b, z : a = G[r - 1] /\ b = G[r] /\ z = G[R]
    OBVIOUS
  <2>2. SameAt(off, a, r) /\ SameAt(b, z, r) /\ Touches(a, b, r) /\ Disabled(s, a, b, r)
    BY <1>0, <1>9, <1>12, <1>13, <2>1
  <2>3. HoldersIn(a, r) = HoldersIn(off, r) /\ BestPriority(a, r) = BestPriority(off, r)
    BY <2>2, SameHolders DEF SameAt
  <2>4. SameLocks(off, z) /\ HoldersIn(off, r) \subseteq Slot
    BY <2>2 DEF SameAt, Touches, SameLocks, HoldersIn
  <2>5. Disabled(s, off, z, r)
    BY <2>2, <2>3, <2>4 DEF Disabled, Fits, SameAt, SameLocks
  <2> QED BY <2>1, <2>5
<1> QED BY <1>0, <1>8, <1>9, <1>11, <1>13, <1>14

-----------------------------------------------------------------------------
(***************************************************************************)
(* The invariant.                                                          *)
(***************************************************************************)

\* A resource whose entry has the best priority, and whose value has a lock of that priority.
Good(t, r) == Fits(t, t, r)

OneInv ==
  /\ Table(scn) \in Tbl /\ drifted \subseteq Rsc
  /\ \A r \in Rsc \ drifted : Good(Table(scn), r)

\* The invariant says what the properties say.
LEMMA OneInvShows == OneInv => PriorityIsBest /\ NodeHasHolder
<1>1. \A r : Holders(r) = HoldersIn(Table(scn), r)
  BY DEF Holders
<1>2. Table(scn).scn = scn /\ Table(scn).rscPriority = rscPriority /\ Table(scn).node = node
  BY DEF Table
<1> QED BY <1>1, <1>2 DEF OneInv, Good, Fits, PriorityIsBest, NodeHasHolder

\* How to see that a resource is good.
LEMMA GoodIf ==
  ASSUME NEW t \in Tbl, NEW r \in Rsc,
         \A s \in HoldersIn(t, r) : t.rscPriority[r] <= t.scn[s].priority,
         t.rscPriority[r] = PRIORITY_LOWEST \/ \E s \in HoldersIn(t, r) : t.rscPriority[r] = t.scn[s].priority,
         t.node[r] # Rest => \E s \in HoldersIn(t, r) : /\ t.scn[s].priority = t.rscPriority[r]
                                                        /\ t.node[r] = t.scn[s].rsc[r]
  PROVE  Good(t, r)
<1>1. t.rscPriority[r] \in 0 .. PRIORITY_LOWEST
  BY DEF Tbl
<1>2. BestPriority(t, r) = t.rscPriority[r]
  BY <1>1, BestUnique
<1> QED BY <1>2 DEF Good, Fits

\* What is good about it.
LEMMA GoodThen ==
  ASSUME NEW t \in Tbl, NEW r \in Rsc, Good(t, r)
  PROVE  /\ \A s \in HoldersIn(t, r) : t.rscPriority[r] <= t.scn[s].priority
         /\ t.rscPriority[r] = PRIORITY_LOWEST \/ \E s \in HoldersIn(t, r) : t.rscPriority[r] = t.scn[s].priority
         /\ t.node[r] # Rest => \E s \in HoldersIn(t, r) : /\ t.scn[s].priority = t.rscPriority[r]
                                                           /\ t.node[r] = t.scn[s].rsc[r]
         /\ t.rscPriority[r] \in 0 .. PRIORITY_LOWEST
<1>1. t.rscPriority[r] = BestPriority(t, r)
  BY DEF Good, Fits
<1> QED BY <1>1, BestFacts DEF Good, Fits

\* The holders of r, their priorities and requests are the same.
SameFor(t, u, r) ==
  /\ HoldersIn(u, r) = HoldersIn(t, r)
  /\ \A i \in HoldersIn(t, r) : u.scn[i].priority = t.scn[i].priority /\ u.scn[i].rsc[r] = t.scn[i].rsc[r]
  /\ u.rscPriority[r] = t.rscPriority[r] /\ u.node[r] = t.node[r]

\* Then it stays good.
LEMMA GoodStays ==
  ASSUME NEW t \in Tbl, NEW u \in Tbl, NEW r \in Rsc, Good(t, r), SameFor(t, u, r)
  PROVE  Good(u, r)
<1>1. /\ \A s \in HoldersIn(t, r) : t.rscPriority[r] <= t.scn[s].priority
      /\ t.rscPriority[r] = PRIORITY_LOWEST \/ \E s \in HoldersIn(t, r) : t.rscPriority[r] = t.scn[s].priority
      /\ t.node[r] # Rest => \E s \in HoldersIn(t, r) : /\ t.scn[s].priority = t.rscPriority[r]
                                                        /\ t.node[r] = t.scn[s].rsc[r]
  BY GoodThen
<1>2. PICK H : H = HoldersIn(t, r) /\ H = HoldersIn(u, r)
  BY DEF SameFor
<1>3. /\ u.rscPriority[r] = t.rscPriority[r] /\ u.node[r] = t.node[r]
      /\ \A i \in H : u.scn[i].priority = t.scn[i].priority /\ u.scn[i].rsc[r] = t.scn[i].rsc[r]
  BY <1>2 DEF SameFor
<1>4. /\ \A s \in H : u.rscPriority[r] <= u.scn[s].priority
      /\ u.rscPriority[r] = PRIORITY_LOWEST \/ \E s \in H : u.rscPriority[r] = u.scn[s].priority
      /\ u.node[r] # Rest => \E s \in H : u.scn[s].priority = u.rscPriority[r] /\ u.node[r] = u.scn[s].rsc[r]
  BY <1>1, <1>2, <1>3
<1> QED BY <1>2, <1>4, GoodIf

\* So it does where nothing that matters changed.
LEMMA SameIsSameFor ==
  ASSUME NEW t, NEW u, NEW r, SameAt(t, u, r)
  PROVE  SameFor(t, u, r)
<1>1. HoldersIn(u, r) = HoldersIn(t, r)
  BY SameHolders DEF SameAt
<1>2. HoldersIn(t, r) \subseteq Slot
  BY DEF HoldersIn
<1> QED BY <1>1, <1>2 DEF SameFor, SameAt, SameLocks

\* The variables have the values that a loop left.
LEMMA BecomesFacts ==
  ASSUME NEW u \in Tbl, Becomes(u)
  PROVE  Table(scn)' = u
<1>1. u = [scn |-> u.scn, curVal |-> u.curVal, rscPriority |-> u.rscPriority, node |-> u.node]
  BY DEF Tbl
<1>2. Table(scn)' = [scn |-> scn', curVal |-> curVal', rscPriority |-> rscPriority', node |-> node']
  BY DEF Table
<1> QED BY <1>1, <1>2 DEF Becomes

\* A slot with a new record.
WithSlot(t, s, rec) == [t EXCEPT !.scn = [t.scn EXCEPT ![s] = rec]]

\* Its resources are as they were, and so are the other slots.
LEMMA WithSlotFacts ==
  ASSUME NEW t \in Tbl, NEW s \in Slot, NEW rec \in ScnRec
  PROVE  /\ WithSlot(t, s, rec) \in Tbl
         /\ WithSlot(t, s, rec).rscPriority = t.rscPriority /\ WithSlot(t, s, rec).node = t.node
         /\ WithSlot(t, s, rec).scn[s] = rec
         /\ \A i \in Slot \ {s} : WithSlot(t, s, rec).scn[i] = t.scn[i]
BY DEF Tbl, WithSlot

\* A free slot taken, or a slot that is off cleared: no resource notices.
LEMMA IdleSlot ==
  ASSUME NEW t \in Tbl, NEW s \in Slot, NEW rec \in ScnRec, t.scn[s].state # "on", rec.state # "on", NEW r
  PROVE  SameFor(t, WithSlot(t, s, rec), r)
<1>1. PICK u : u = WithSlot(t, s, rec)
  OBVIOUS
<1>2. u.rscPriority = t.rscPriority /\ u.node = t.node /\ u.scn[s] = rec /\ \A i \in Slot \ {s} : u.scn[i] = t.scn[i]
  BY <1>1, WithSlotFacts
<1>3. HoldersIn(u, r) = HoldersIn(t, r) /\ HoldersIn(t, r) \subseteq Slot \ {s}
  BY <1>2 DEF HoldersIn
<1> QED BY <1>1, <1>2, <1>3 DEF SameFor

\* A lock that goes on: it takes the resources for which its priority is not too low.
LEMMA AcqKeeps ==
  ASSUME NEW t \in Tbl, NEW s \in Slot, NEW rec \in ScnRec, t.scn[s].state # "on", rec.state = "on",
         NEW r \in Rsc, Good(t, r)
  PROVE  Good(perfScnEnable(s, WithSlot(t, s, rec)), r)
<1>1. PICK v \in Tbl : v = WithSlot(t, s, rec)
  BY WithSlotFacts
<1>2. v.rscPriority = t.rscPriority /\ v.node = t.node /\ v.scn[s] = rec /\ \A i \in Slot \ {s} : v.scn[i] = t.scn[i]
  BY <1>1, WithSlotFacts
<1>3. PICK u \in Tbl : u = perfScnEnable(s, v) /\ SameLocks(v, u) /\ Enabled(s, v, u, r)
  BY EnableLoop
<1>4. PICK H : H = HoldersIn(t, r) /\ H \subseteq Slot \ {s}
  BY DEF HoldersIn
<1>5. HoldersIn(u, r) = IF rec.rsc[r] = Rest THEN H ELSE H \cup {s}
  <2>1. HoldersIn(v, r) = IF rec.rsc[r] = Rest THEN H ELSE H \cup {s}
    BY <1>2, <1>4 DEF HoldersIn
  <2> QED BY <1>3, <2>1, SameHolders
<1>6. /\ \A i \in H : u.scn[i].priority = t.scn[i].priority /\ u.scn[i].rsc = t.scn[i].rsc
      /\ u.scn[s].priority = rec.priority /\ u.scn[s].rsc = rec.rsc
  BY <1>2, <1>3, <1>4 DEF SameLocks
<1>7. /\ \A i \in H : t.rscPriority[r] <= t.scn[i].priority
      /\ t.rscPriority[r] = PRIORITY_LOWEST \/ \E i \in H : t.rscPriority[r] = t.scn[i].priority
      /\ t.node[r] # Rest => \E i \in H : /\ t.scn[i].priority = t.rscPriority[r]
                                          /\ t.node[r] = t.scn[i].rsc[r]
      /\ t.rscPriority[r] \in 0 .. PRIORITY_LOWEST
  BY <1>4, GoodThen
<1>8. rec.priority \in Nat /\ \A i \in H : t.scn[i].priority \in Nat
  <2>1. \A i \in H : t.scn[i] \in ScnRec
    BY <1>4 DEF Tbl
  <2> QED BY <2>1 DEF ScnRec
<1>9. CASE rec.rsc[r] = Rest \/ rec.priority > t.rscPriority[r]
  <2>1. u.rscPriority[r] = t.rscPriority[r] /\ u.node[r] = t.node[r]
    BY <1>2, <1>3, <1>9 DEF Enabled, SameAt
  <2>2. H \subseteq HoldersIn(u, r) /\ \A i \in HoldersIn(u, r) : i \in H \/ (i = s /\ rec.rsc[r] # Rest)
    BY <1>5
  <2>3. \A i \in HoldersIn(u, r) : u.rscPriority[r] <= u.scn[i].priority
    BY <1>6, <1>7, <1>8, <1>9, <2>1, <2>2
  <2>4. u.rscPriority[r] = PRIORITY_LOWEST \/ \E i \in HoldersIn(u, r) : u.rscPriority[r] = u.scn[i].priority
    BY <1>6, <1>7, <2>1, <2>2
  <2>5. u.node[r] # Rest => \E i \in HoldersIn(u, r) : /\ u.scn[i].priority = u.rscPriority[r]
                                                       /\ u.node[r] = u.scn[i].rsc[r]
    BY <1>6, <1>7, <2>1, <2>2
  <2> QED BY <1>1, <1>3, <2>3, <2>4, <2>5, GoodIf
<1>10. CASE ~(rec.rsc[r] = Rest \/ rec.priority > t.rscPriority[r])
  <2>1. u.rscPriority[r] = rec.priority /\ u.node[r] = rec.rsc[r]
    BY <1>2, <1>3, <1>10 DEF Enabled
  <2>2. s \in HoldersIn(u, r) /\ \A i \in HoldersIn(u, r) : i \in H \/ i = s
    BY <1>5, <1>10
  <2>3. \A i \in HoldersIn(u, r) : u.rscPriority[r] <= u.scn[i].priority
    BY <1>6, <1>7, <1>8, <1>10, <2>1, <2>2
  <2> QED BY <1>1, <1>3, <1>6, <2>1, <2>2, <2>3, GoodIf
<1> QED BY <1>9, <1>10

\* A lock acquired again for the same resources at the same priority.
LEMMA ReAcqKeeps ==
  ASSUME NEW t \in Tbl, NEW s \in Slot, NEW rec \in ScnRec, t.scn[s].state = "on", rec.state = "on",
         NEW r \in Rsc, Good(t, r), t.scn[s].rsc[r] = Rest <=> rec.rsc[r] = Rest,
         rec.rsc[r] # Rest => rec.priority = t.scn[s].priority
  PROVE  Good(perfScnUpdate(s, t.scn[s].rsc, WithSlot(t, s, rec)), r)
<1>0. t.scn[s] \in ScnRec /\ t.scn[s].rsc \in Asked /\ t.scn[s].priority \in Nat
  <2>1. t.scn[s] \in ScnRec
    BY DEF Tbl
  <2> QED BY <2>1 DEF ScnRec
<1>1. PICK v \in Tbl : v = WithSlot(t, s, rec)
  BY WithSlotFacts
<1>2. v.rscPriority = t.rscPriority /\ v.node = t.node /\ v.scn[s] = rec /\ \A i \in Slot \ {s} : v.scn[i] = t.scn[i]
  BY <1>1, WithSlotFacts
<1>3. PICK u \in Tbl : /\ u = perfScnUpdate(s, t.scn[s].rsc, v) /\ SameLocks(v, u)
                       /\ Updated(s, t.scn[s].rsc, v, u, r)
  BY <1>0, UpdateLoop
<1>4. PICK H : H = HoldersIn(t, r) /\ H \subseteq Slot /\ (s \in H <=> rec.rsc[r] # Rest)
  <2>1. HoldersIn(t, r) \subseteq Slot /\ (s \in HoldersIn(t, r) <=> rec.rsc[r] # Rest)
    BY DEF HoldersIn
  <2> QED BY <2>1
<1>5. HoldersIn(u, r) = H /\ HoldersIn(v, r) = H
  <2>1. HoldersIn(v, r) = H
    BY <1>2, <1>4 DEF HoldersIn
  <2> QED BY <1>3, <2>1, SameHolders
<1>6. /\ \A i \in H : u.scn[i].priority = t.scn[i].priority /\ v.scn[i].priority = t.scn[i].priority
      /\ \A i \in H \ {s} : u.scn[i].rsc = t.scn[i].rsc
      /\ u.scn[s].rsc = rec.rsc
  BY <1>2, <1>3, <1>4 DEF SameLocks
<1>7. /\ \A i \in H : t.rscPriority[r] <= t.scn[i].priority
      /\ t.rscPriority[r] = PRIORITY_LOWEST \/ \E i \in H : t.rscPriority[r] = t.scn[i].priority
      /\ t.node[r] # Rest => \E i \in H : /\ t.scn[i].priority = t.rscPriority[r]
                                          /\ t.node[r] = t.scn[i].rsc[r]
      /\ t.rscPriority[r] \in 0 .. PRIORITY_LOWEST
  BY <1>4, GoodThen
<1>8. u.rscPriority[r] = t.rscPriority[r]
  BY <1>2, <1>3 DEF Updated
<1>9. BestPriority(v, r) = t.rscPriority[r]
  BY <1>2, <1>5, <1>6, <1>7, BestUnique
<1>10. ASSUME u.node[r] # Rest => \E i \in H : u.scn[i].priority = u.rscPriority[r] /\ u.node[r] = u.scn[i].rsc[r]
       PROVE  Good(u, r)
  <2>1. /\ \A i \in H : u.rscPriority[r] <= u.scn[i].priority
        /\ u.rscPriority[r] = PRIORITY_LOWEST \/ \E i \in H : u.rscPriority[r] = u.scn[i].priority
    BY <1>6, <1>7, <1>8
  <2> QED BY <1>5, <1>10, <2>1, GoodIf
<1>11. PICK old, new : old = t.scn[s].rsc[r] /\ new = rec.rsc[r]
  OBVIOUS
<1>12. u.node[r] = IF rec.priority > t.rscPriority[r] THEN t.node[r]
                   ELSE IF new # Rest /\ new # old THEN new
                   ELSE IF old # Rest /\ old # new THEN Rest ELSE t.node[r]
  BY <1>2, <1>3, <1>9, <1>11 DEF Updated
<1>13. ASSUME u.node[r] = t.node[r], old = new \/ rec.priority > t.rscPriority[r] PROVE Good(u, r)
  <2> SUFFICES ASSUME t.node[r] # Rest
               PROVE  \E i \in H : u.scn[i].priority = u.rscPriority[r] /\ u.node[r] = u.scn[i].rsc[r]
    BY <1>10, <1>13
  <2>1. PICK i \in H : t.scn[i].priority = t.rscPriority[r] /\ t.node[r] = t.scn[i].rsc[r]
    BY <1>7
  <2>2. u.scn[i].rsc[r] = t.scn[i].rsc[r]
    <3>1. CASE i # s
      BY <1>6, <3>1
    <3>2. CASE i = s
      <4>1. rec.priority = t.rscPriority[r]
        BY <1>4, <2>1, <3>2
      <4>2. old = new
        BY <1>7, <1>13, <4>1
      <4> QED BY <1>6, <1>11, <3>2, <4>2
    <3> QED BY <3>1, <3>2
  <2> QED BY <1>6, <1>8, <1>13, <2>1, <2>2
<1>14. ASSUME ~(rec.priority > t.rscPriority[r]), new # Rest, new # old PROVE Good(u, r)
  <2>1. u.node[r] = new /\ s \in H
    BY <1>4, <1>11, <1>12, <1>14
  <2>2. t.scn[s].priority = t.rscPriority[r]
    <3>1. rec.priority = t.scn[s].priority /\ t.rscPriority[r] <= t.scn[s].priority
      BY <1>4, <1>7, <2>1
    <3> QED BY <1>0, <1>7, <1>14, <3>1
  <2> QED BY <1>6, <1>8, <1>10, <1>11, <2>1, <2>2
<1> QED BY <1>1, <1>3, <1>11, <1>12, <1>13, <1>14

\* A lock that goes off: where it had the resource the search runs, elsewhere it was not the best.
LEMMA OffKeeps ==
  ASSUME NEW t \in Tbl, NEW s \in Slot, t.scn[s].state = "on", NEW r \in Rsc,
         \/ Good(t, r)
         \/ t.scn[s].rsc[r] # Rest /\ t.scn[s].priority <= t.rscPriority[r]
  PROVE  Good(perfScnDisable(s, t), r)
<1>1. PICK rec : rec = [t.scn[s] EXCEPT !.state = "off"]
  OBVIOUS
<1>2. /\ rec \in ScnRec /\ rec.state = "off" /\ rec.rsc = t.scn[s].rsc /\ rec.priority = t.scn[s].priority
      /\ t.scn[s].priority \in Nat
  <2>1. t.scn[s] \in ScnRec
    BY DEF Tbl
  <2> QED BY <1>1, <2>1 DEF ScnRec
<1>3. PICK off \in Tbl : off = WithSlot(t, s, rec)
  BY <1>2, WithSlotFacts
<1>4. off.rscPriority = t.rscPriority /\ off.node = t.node /\ off.scn[s] = rec /\ \A i \in Slot \ {s} : off.scn[i] = t.scn[i]
  BY <1>2, <1>3, WithSlotFacts
<1>5. PICK u \in Tbl : u = perfScnDisable(s, t) /\ SameLocks(off, u) /\ Disabled(s, off, u, r)
  <2>1. off = [t EXCEPT !.scn[s].state = "off"]
    BY <1>1, <1>3 DEF WithSlot, Tbl
  <2> QED BY <2>1, DisableLoop
<1>6. CASE t.scn[s].rsc[r] # Rest /\ t.scn[s].priority <= t.rscPriority[r]
  <2>1. t.rscPriority[r] \in 0 .. PRIORITY_LOWEST
    BY DEF Tbl
  <2>2. Fits(off, u, r)
    BY <1>2, <1>4, <1>5, <1>6, <2>1 DEF Disabled, PRIORITY_LOWEST
  <2>3. HoldersIn(u, r) = HoldersIn(off, r) /\ BestPriority(u, r) = BestPriority(off, r) /\ HoldersIn(off, r) \subseteq Slot
    BY <1>5, SameHolders DEF HoldersIn
  <2> QED BY <1>5, <2>2, <2>3 DEF Fits, Good, SameLocks
<1>7. CASE Good(t, r) /\ (t.scn[s].rsc[r] = Rest \/ t.scn[s].priority > t.rscPriority[r])
  <2>1. SameAt(off, u, r)
    BY <1>2, <1>4, <1>5, <1>7 DEF Disabled
  <2>2. PICK H : H = HoldersIn(t, r) /\ HoldersIn(off, r) = H \ {s} /\ (s \in H => t.scn[s].rsc[r] # Rest)
    <3>1. HoldersIn(off, r) = HoldersIn(t, r) \ {s}
      BY <1>2, <1>4 DEF HoldersIn
    <3>2. s \in HoldersIn(t, r) => t.scn[s].rsc[r] # Rest
      BY DEF HoldersIn
    <3> QED BY <3>1, <3>2
  <2>3. /\ \A i \in H : t.rscPriority[r] <= t.scn[i].priority
        /\ t.rscPriority[r] = PRIORITY_LOWEST \/ \E i \in H : t.rscPriority[r] = t.scn[i].priority
        /\ t.node[r] # Rest => \E i \in H : /\ t.scn[i].priority = t.rscPriority[r]
                                            /\ t.node[r] = t.scn[i].rsc[r]
        /\ t.rscPriority[r] \in 0 .. PRIORITY_LOWEST
    BY <1>7, <2>2, GoodThen
  <2>4. \A i \in H : t.scn[i].priority = t.rscPriority[r] => i \in H \ {s}
    BY <1>2, <1>7, <2>2, <2>3
  <2>5. \A i \in H \ {s} : off.scn[i] = t.scn[i]
    BY <1>4, <2>2 DEF HoldersIn
  <2>6. Good(off, r)
    <3>1. \A i \in HoldersIn(off, r) : off.rscPriority[r] <= off.scn[i].priority
      BY <1>4, <2>2, <2>3, <2>5
    <3>2. off.rscPriority[r] = PRIORITY_LOWEST \/ \E i \in HoldersIn(off, r) : off.rscPriority[r] = off.scn[i].priority
      BY <1>4, <2>2, <2>3, <2>4, <2>5
    <3>3. off.node[r] # Rest => \E i \in HoldersIn(off, r) : /\ off.scn[i].priority = off.rscPriority[r]
                                                             /\ off.node[r] = off.scn[i].rsc[r]
      BY <1>4, <2>2, <2>3, <2>4, <2>5
    <3> QED BY <3>1, <3>2, <3>3, GoodIf
  <2> QED BY <1>5, <2>1, <2>6, GoodStays, SameIsSameFor
<1>8. t.rscPriority[r] \in 0 .. PRIORITY_LOWEST
  BY DEF Tbl
<1> QED BY <1>2, <1>6, <1>7, <1>8 DEF PRIORITY_LOWEST
-----------------------------------------------------------------------------
(***************************************************************************)
(* The steps of the specification.                                         *)
(***************************************************************************)

\* A step that leaves every resource good but those in d.
LEMMA GoodStep ==
  ASSUME NEW u \in Tbl, Becomes(u), drifted' \subseteq Rsc, \A r \in Rsc \ drifted' : Good(u, r)
  PROVE  OneInv'
<1>1. Table(scn)' = u
  BY BecomesFacts
<1>2. OneInv' <=> /\ Table(scn)' \in Tbl /\ drifted' \subseteq Rsc
                  /\ \A r \in Rsc \ drifted' : Good(Table(scn)', r)
  BY DEF OneInv, Good, Fits, HoldersIn, BestPriority, Table, Tbl, ScnRec, Asked, Val, Rsc, Slot
<1> QED BY <1>1, <1>2

\* A table with one slot replaced, as the actions write it.
LEMMA SlotReplaced ==
  ASSUME Table(scn) \in Tbl, NEW s \in Slot, NEW rec \in ScnRec
  PROVE  Table([scn EXCEPT ![s] = rec]) = WithSlot(Table(scn), s, rec)
BY DEF Table, WithSlot, Tbl

\* The slot of a lock whose list has been read again.
LEMMA ReloadedSlot ==
  ASSUME OneInv, NEW s \in Slot, NEW q \in Request, NEW st \in {"off", "on"}
  PROVE  \E rec \in ScnRec :
           /\ rec.state = st /\ rec.rsc = q.rsc /\ rec.priority = q.priority
           /\ [Reloaded(s, q) EXCEPT ![s].state = st] = [scn EXCEPT ![s] = rec]
<1>1. scn \in [Slot -> ScnRec] /\ scn[s] \in ScnRec
  BY DEF OneInv, Table, Tbl
<1>2. q.reset \in BOOLEAN /\ q.rsc \in Asked /\ q.priority \in Nat
  <2>1. q \in [reset : BOOLEAN, priority : LockPriority \cup {MODE_PRIORITY}, rsc : Asked]
    BY DEF Request
  <2>2. LockPriority \cup {MODE_PRIORITY} \subseteq Nat
    BY OneShotAssumption DEF MODE_PRIORITY
  <2> QED BY <2>1, <2>2
<1>3. PICK m \in BOOLEAN : m = (scn[s].oneshotReset \/ q.reset)
  OBVIOUS
<1>4. PICK rec : rec = [scn[s] EXCEPT !.rsc = q.rsc, !.priority = q.priority, !.oneshotReset = m, !.state = st]
  OBVIOUS
<1>5. rec \in ScnRec /\ rec.state = st /\ rec.rsc = q.rsc /\ rec.priority = q.priority
  BY <1>1, <1>2, <1>3, <1>4 DEF ScnRec
<1>6. Reloaded(s, q) = [scn EXCEPT ![s] = [scn[s] EXCEPT !.rsc = q.rsc, !.priority = q.priority, !.oneshotReset = m]]
  BY <1>1, <1>3 DEF Reloaded, ScnRec
<1>7. [Reloaded(s, q) EXCEPT ![s].state = st] = [scn EXCEPT ![s] = rec]
  BY <1>1, <1>4, <1>6
<1> QED BY <1>5, <1>7

\* A slot is given out.
LEMMA CheckHdlStep == OneInv /\ perfLockCheckHdl => OneInv'
<1> SUFFICES ASSUME OneInv, perfLockCheckHdl PROVE OneInv'
  OBVIOUS
<1>1. PICK t \in Tbl : t = Table(scn) /\ t.scn = scn
  BY DEF OneInv, Table
<1>2. PICK s \in Slot : /\ scn[s].state = "free" /\ scn' = [scn EXCEPT ![s].state = "off"]
                        /\ UNCHANGED <<curVal, rscPriority, node, drifted>>
  BY DEF perfLockCheckHdl
<1>3. PICK rec \in ScnRec : rec = [scn[s] EXCEPT !.state = "off"] /\ rec.state = "off"
  <2>1. scn[s] \in ScnRec
    BY <1>1 DEF Tbl
  <2>2. [scn[s] EXCEPT !.state = "off"] \in ScnRec /\ [scn[s] EXCEPT !.state = "off"].state = "off"
    BY <2>1 DEF ScnRec
  <2> QED BY <2>2, Zenon
<1>4. PICK u \in Tbl : u = WithSlot(t, s, rec)
  BY WithSlotFacts
<1>5. Becomes(u)
  BY <1>1, <1>2, <1>3, <1>4 DEF Becomes, WithSlot, Table
<1>6. \A r \in Rsc : Good(t, r) => Good(u, r)
  <2>1. t.scn[s].state # "on" /\ rec.state # "on"
    BY <1>1, <1>2, <1>3
  <2>2. \A r : SameFor(t, u, r)
    BY <1>4, <2>1, IdleSlot
  <2> QED BY <2>2, GoodStays
<1> QED BY <1>1, <1>2, <1>5, <1>6, GoodStep DEF OneInv

\* A lock goes on.
LEMMA AcqStep == ASSUME OneInv, NEW s \in Slot, NEW q \in Request, perfLockAcq(s, q) PROVE OneInv'
<1>1. PICK t \in Tbl : t = Table(scn) /\ t.scn = scn
  BY DEF OneInv, Table
<1>2. PICK rec \in ScnRec : /\ rec.state = "on" /\ rec.rsc = q.rsc /\ rec.priority = q.priority
                            /\ [Reloaded(s, q) EXCEPT ![s].state = "on"] = [scn EXCEPT ![s] = rec]
  BY ReloadedSlot
<1>3. Table([scn EXCEPT ![s] = rec]) = WithSlot(t, s, rec) /\ WithSlot(t, s, rec) \in Tbl
  BY <1>1, SlotReplaced, WithSlotFacts
<1>4. t.scn[s].state # "on" /\ drifted' = drifted /\ Becomes(perfScnEnable(s, WithSlot(t, s, rec)))
  BY <1>1, <1>2, <1>3 DEF perfLockAcq
<1>5. PICK u \in Tbl : u = perfScnEnable(s, WithSlot(t, s, rec))
  BY <1>3, EnableLoop
<1>6. \A r \in Rsc : Good(t, r) => Good(u, r)
  BY <1>2, <1>4, <1>5, AcqKeeps
<1> QED BY <1>1, <1>4, <1>5, <1>6, GoodStep DEF OneInv

\* A lock is acquired again: the resources it adds, drops or moves to another priority drift.
LEMMA ReAcqStep == ASSUME OneInv, NEW s \in Slot, NEW q \in Request, perfLockReAcq(s, q) PROVE OneInv'
<1>1. PICK t \in Tbl : t = Table(scn) /\ t.scn = scn
  BY DEF OneInv, Table
<1>2. PICK rec \in ScnRec : /\ rec.state = "on" /\ rec.rsc = q.rsc /\ rec.priority = q.priority
                            /\ [Reloaded(s, q) EXCEPT ![s].state = "on"] = [scn EXCEPT ![s] = rec]
  BY ReloadedSlot
<1>3. Table([scn EXCEPT ![s] = rec]) = WithSlot(t, s, rec) /\ WithSlot(t, s, rec) \in Tbl
  BY <1>1, SlotReplaced, WithSlotFacts
<1>4. t.scn[s].state = "on" /\ scn[s] \in ScnRec /\ scn \in [Slot -> ScnRec]
  BY <1>1 DEF perfLockReAcq, Tbl
<1>5. Reloaded(s, q) = [scn EXCEPT ![s] = rec]
  <2>1. Reloaded(s, q) \in [Slot -> ScnRec] /\ Reloaded(s, q)[s].state = "on"
    <3>1. [Reloaded(s, q) EXCEPT ![s].state = "on"][s] = rec
      BY <1>2, <1>4
    <3> QED BY <1>1, <1>2, <1>4 DEF Reloaded, ScnRec
  <2> QED BY <1>2, <2>1 DEF ScnRec
<1>6. Becomes(perfScnUpdate(s, t.scn[s].rsc, WithSlot(t, s, rec)))
  BY <1>1, <1>3, <1>5 DEF perfLockReAcq
<1>7. PICK u \in Tbl : u = perfScnUpdate(s, t.scn[s].rsc, WithSlot(t, s, rec))
  BY <1>1, <1>3, <1>4, UpdateLoop DEF ScnRec
<1>8. ASSUME NEW r \in Rsc \ drifted' PROVE Good(u, r)
  <2>1. r \notin drifted /\ (scn[s].rsc[r] = Rest <=> q.rsc[r] = Rest)
        /\ (q.rsc[r] # Rest => q.priority = scn[s].priority)
    BY <1>8 DEF perfLockReAcq
  <2>2. Good(t, r)
    BY <1>1, <2>1 DEF OneInv
  <2> QED BY <1>1, <1>2, <1>4, <1>7, <2>1, <2>2, ReAcqKeeps
<1>9. drifted' \subseteq Rsc
  BY DEF perfLockReAcq, OneInv
<1> QED BY <1>6, <1>7, <1>8, <1>9, GoodStep

\* A lock that was on goes off, and what drifted is put right where it is searched.
LEMMA OffStep ==
  ASSUME OneInv, NEW s \in Slot, NEW t \in Tbl, t = Table(scn), scn[s].state = "on"
  PROVE  /\ perfScnDisable(s, t) \in Tbl /\ perfScnDisable(s, t).scn[s].state = "off"
         /\ \A r \in Rsc \ (drifted \ Searched(s)) : Good(perfScnDisable(s, t), r)
<1>1. t.scn = scn /\ t.rscPriority = rscPriority
  BY DEF Table
<1>2. PICK off : off = [t EXCEPT !.scn[s].state = "off"]
  OBVIOUS
<1>3. perfScnDisable(s, t) \in Tbl /\ SameLocks(off, perfScnDisable(s, t))
  BY <1>1, <1>2, DisableLoop
<1>4. off.scn[s].state = "off"
  <2>1. t.scn[s] \in ScnRec
    BY DEF Tbl
  <2> QED BY <1>2, <2>1 DEF Tbl, ScnRec
<1>5. ASSUME NEW r \in Rsc \ (drifted \ Searched(s)) PROVE Good(perfScnDisable(s, t), r)
  <2>1. Good(t, r) \/ r \in Searched(s)
    BY DEF OneInv
  <2>2. r \in Searched(s) => t.scn[s].rsc[r] # Rest /\ t.scn[s].priority <= t.rscPriority[r]
    BY <1>1 DEF Searched
  <2> QED BY <1>1, <2>1, <2>2, OffKeeps
<1> QED BY <1>3, <1>4, <1>5 DEF SameLocks

\* The screen goes off.
LEMMA ScreenOffStep == ASSUME OneInv, NEW s \in Slot, ScreenOff(s) PROVE OneInv'
<1>1. PICK t \in Tbl : t = Table(scn)
  BY DEF OneInv
<1>2. scn[s].state = "on" /\ Becomes(perfScnDisable(s, t)) /\ drifted' = drifted \ Searched(s)
  BY <1>1 DEF ScreenOff
<1>3. perfScnDisable(s, t) \in Tbl /\ \A r \in Rsc \ drifted' : Good(perfScnDisable(s, t), r)
  BY <1>1, <1>2, OffStep
<1>4. drifted' \subseteq Rsc
  BY <1>2 DEF OneInv
<1> QED BY <1>2, <1>3, <1>4, GoodStep

\* A lock is released: it goes off, if it was on, and its slot is cleared.
LEMMA RelStep == ASSUME OneInv, NEW s \in Slot, perfLockRel(s) PROVE OneInv'
<1>1. PICK t \in Tbl : t = Table(scn) /\ t.scn = scn
  BY DEF OneInv, Table
<1>2. PICK u : u = perfScnDisable(s, t)
  OBVIOUS
<1>3. /\ scn[s].state # "free" /\ Becomes(Cleared(u, s)) /\ drifted' = drifted \ Searched(s)
      /\ drifted' \subseteq Rsc
  BY <1>1, <1>2 DEF perfLockRel, OneInv
<1>4. u \in Tbl /\ u.scn[s].state = "off" /\ \A r \in Rsc \ drifted' : Good(u, r)
  <2>1. CASE scn[s].state = "on"
    BY <1>1, <1>2, <1>3, <2>1, OffStep
  <2>2. CASE scn[s].state # "on"
    <3>1. scn[s].state = "off"
      <4>1. scn[s] \in ScnRec
        BY <1>1 DEF Tbl
      <4> QED BY <1>3, <2>2, <4>1 DEF ScnRec
    <3>2. u = t /\ Searched(s) = {}
      BY <1>1, <1>2, <3>1 DEF perfScnDisable, Searched
    <3> QED BY <1>1, <1>3, <3>1, <3>2 DEF OneInv
  <2> QED BY <2>1, <2>2
<1>5. PICK rec : rec = [state |-> "free", priority |-> NORMAL_PRIORITY, oneshotReset |-> FALSE,
                        hasReset |-> u.scn[s].hasReset, rsc |-> NoRsc]
  OBVIOUS
<1>6. rec \in ScnRec /\ rec.state = "free"
  <2>1. u.scn[s] \in ScnRec
    BY <1>4 DEF Tbl
  <2>2. NoRsc \in Asked /\ NORMAL_PRIORITY \in Nat
    BY DEF NoRsc, Asked, Val, NORMAL_PRIORITY, MODE_PRIORITY
  <2> QED BY <1>5, <2>1, <2>2 DEF ScnRec
<1>7. Cleared(u, s) = WithSlot(u, s, rec)
  BY <1>4, <1>5 DEF Cleared, WithSlot, Tbl
<1>8. PICK v \in Tbl : v = WithSlot(u, s, rec)
  BY <1>4, <1>6, WithSlotFacts
<1>9. \A r \in Rsc \ drifted' : Good(v, r)
  BY <1>4, <1>6, <1>8, IdleSlot, GoodStays
<1> QED BY <1>3, <1>7, <1>8, <1>9, GoodStep

\* Nothing drifts and nothing is asked for at the start.
LEMMA OneInit == Init => OneInv
<1> SUFFICES ASSUME Init PROVE OneInv
  OBVIOUS
<1>1. NoRsc \in Asked /\ NORMAL_PRIORITY \in Nat /\ PRIORITY_LOWEST \in 0 .. PRIORITY_LOWEST
  BY DEF NoRsc, Asked, Val, NORMAL_PRIORITY, MODE_PRIORITY, PRIORITY_LOWEST
<1>2. PICK t : t = Table(scn) /\ t.scn = scn /\ t.rscPriority = rscPriority /\ t.node = node /\ t.curVal = curVal
  <2>1. /\ Table(scn).scn = scn /\ Table(scn).rscPriority = rscPriority
        /\ Table(scn).node = node /\ Table(scn).curVal = curVal
    BY DEF Table
  <2> QED BY <2>1, Zenon
<1>3. scn \in [Slot -> ScnRec] /\ \A s \in Slot : scn[s].state = "free"
  BY <1>1 DEF Init, ScnRec
<1>4. t \in Tbl
  BY <1>1, <1>2, <1>3 DEF Init, Table, Tbl
<1>5. ASSUME NEW r \in Rsc PROVE Good(t, r)
  <2>1. HoldersIn(t, r) = {}
    BY <1>2, <1>3 DEF HoldersIn
  <2>2. t.rscPriority[r] = PRIORITY_LOWEST /\ t.node[r] = Rest
    BY <1>2 DEF Init, NoRsc
  <2> QED BY <1>4, <2>1, <2>2, GoodIf
<1> QED BY <1>2, <1>4, <1>5 DEF OneInv, Init

\* The invariant holds throughout.
LEMMA OneInvHolds == Spec => []OneInv
<1>1. OneInv /\ [Next]_vars => OneInv'
  <2> SUFFICES ASSUME OneInv, [Next]_vars PROVE OneInv'
    OBVIOUS
  <2>1. ASSUME UNCHANGED vars PROVE OneInv'
    <3>1. PICK t \in Tbl : t = Table(scn)
      BY DEF OneInv
    <3>2. Becomes(t) /\ drifted' = drifted
      BY <2>1, <3>1 DEF vars, Becomes, Table
    <3> QED BY <3>1, <3>2, GoodStep DEF OneInv
  <2>2. ASSUME NEW s \in Slot, NEW q \in Request, perfLockAcq(s, q) \/ perfLockReAcq(s, q) PROVE OneInv'
    BY <2>2, AcqStep, ReAcqStep
  <2>3. ASSUME NEW s \in Slot, perfLockRel(s) \/ ScreenOff(s) PROVE OneInv'
    BY <2>3, RelStep, ScreenOffStep
  <2> QED BY <2>1, <2>2, <2>3, CheckHdlStep DEF Next
<1> QED BY OneInit, <1>1, PTL DEF Spec

\* The priority that gRscCtlTbl keeps for a resource is the highest priority of the locks that ask
\* for it, however locks of any priority are acquired, preempted, released or switched off with the
\* screen, for any number of slots and resources; only a re-acquire can leave it behind, until the
\* next search.
THEOREM PriorityIsTheBest == Spec => []PriorityIsBest
<1>1. OneInv => PriorityIsBest
  BY OneInvShows
<1> QED BY <1>1, OneInvHolds, PTL

\* What is written to a resource is what a lock that still asks for it asks for, and that lock has the
\* best priority: neither the release of a lock nor the loop that restores mode locks leaves a value
\* that nobody holds.
THEOREM NodeHasItsHolder == Spec => []NodeHasHolder
<1>1. OneInv => NodeHasHolder
  BY OneInvShows
<1> QED BY <1>1, OneInvHolds, PTL
==============================================================================
