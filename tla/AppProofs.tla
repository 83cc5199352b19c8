----------------------------- MODULE AppProofs -----------------------------
(***************************************************************************)
(* Proofs about the app list service: the list of resumed activities, the  *)
(* rows of the app table and the thread hints that follow it.  At the end, *)
(* the services together, as MCServices composes them.                     *)
(***************************************************************************)
EXTENDS MCServices, ServiceProofs

\* A bounded set of naturals has a greatest element.
LEMMA GreatestOf ==
  ASSUME NEW S \in SUBSET Nat, S # {}, NEW b \in Nat, \A n \in S : n <= b
  PROVE  \E m \in S : \A n \in S : n <= m
<1>1. PICK T : T = {k \in Nat : b - k \in S}
  OBVIOUS
<1>2. PICK s \in S : TRUE
  OBVIOUS
<1>3. b - s \in Nat /\ b - (b - s) = s
  OBVIOUS
<1>4. T \in SUBSET Nat /\ T # {}
  BY <1>1, <1>3
<1>5. PICK k \in T : \A n \in T : k <= n
  BY <1>4, LeastNat
<1>6. ASSUME NEW n \in S PROVE n <= b - k
  <2>1. b - n \in Nat /\ b - (b - n) = n
    OBVIOUS
  <2>2. b - n \in T
    BY <1>1, <2>1
  <2>3. k \in Nat /\ k <= b - n
    BY <1>1, <1>5, <2>2
  <2> QED BY <2>3
<1> QED BY <1>1, <1>5, <1>6

\* The least of a set, as the model takes it.
LEMMA MinFacts ==
  ASSUME NEW S \in SUBSET Nat, S # {}
  PROVE  Min(S) \in S /\ \A n \in S : Min(S) <= n
BY LeastNat DEF Min

-----------------------------------------------------------------------------
(***************************************************************************)
(* The list of resumed activities.                                         *)
(***************************************************************************)
Listing1 == [app : Activity, fps : Int]

\* No activity is listed twice.
AppsApart(apps) == \A m, n \in DOMAIN apps : Same(apps[m].app, apps[n].app) => m = n

GoodApps(apps) == apps \in Seq(Listing1) /\ AppsApart(apps)

\* An activity that comes on the screen is listed once, or not for want of room.
LEMMA ResumeFacts ==
  ASSUME NEW apps, GoodApps(apps), NEW a \in Activity, currentFPS \in Int
  PROVE  /\ GoodApps(Resume(apps, a))
         /\ Listed(apps) \subseteq Listed(Resume(apps, a))
         /\ Listed(Resume(apps, a)) \subseteq Listed(apps) \cup {a}
         /\ a \in Listed(Resume(apps, a)) =>
              Listed(Resume(apps, a)) = {b \in Listed(apps) : ~Same(a, b)} \cup {a}
<1>1. PICK k \in Nat : k = Len(apps) /\ DOMAIN apps = 1 .. k
  BY DEF GoodApps
<1>2. \A n \in 1 .. k : apps[n] \in Listing1 /\ apps[n].app \in Activity
  <2>1. \A n \in 1 .. k : apps[n] \in Listing1
    BY <1>1 DEF GoodApps
  <2> QED BY <2>1 DEF Listing1
<1>3. \A m, n \in 1 .. k : Same(apps[m].app, apps[n].app) => m = n
  BY <1>1 DEF GoodApps, AppsApart
<1>4. PICK r : r = Resume(apps, a)
  OBVIOUS
<1>5. CASE \E n \in DOMAIN apps : Same(apps[n].app, a)
  <2>1. r = [n \in DOMAIN apps |-> IF Same(apps[n].app, a) THEN [apps[n] EXCEPT !.fps = currentFPS] ELSE apps[n]]
    BY <1>4, <1>5 DEF Resume
  <2>2. /\ DOMAIN r = 1 .. k
        /\ \A n \in 1 .. k : r[n] \in Listing1 /\ r[n].app = apps[n].app
    BY <1>1, <1>2, <2>1 DEF Listing1
  <2>3. r \in Seq(Listing1)
    BY <1>1, <2>1, <2>2
  <2>4. Listed(r) = Listed(apps)
    BY <1>1, <2>2 DEF Listed
  <2>5. AppsApart(r)
    BY <1>3, <2>2 DEF AppsApart
  <2>6. ASSUME a \in Listed(r) PROVE Listed(r) = {b \in Listed(apps) : ~Same(a, b)} \cup {a}
    <3>1. PICK n \in 1 .. k : a = apps[n].app
      BY <2>2, <2>6 DEF Listed
    <3>2. \A b \in Listed(apps) : Same(a, b) => b = a
      BY <1>1, <1>3, <3>1 DEF Listed
    <3>3. a \in Listed(apps)
      BY <2>4, <2>6
    <3> QED BY <2>4, <3>2, <3>3
  <2> QED BY <1>4, <2>3, <2>4, <2>5, <2>6 DEF GoodApps
<1>6. CASE /\ ~\E n \in DOMAIN apps : Same(apps[n].app, a)
           /\ Len(apps) < MULTI_WIN_SIZE_MAX
  <2>1. PICK e \in Listing1 : e = [app |-> a, fps |-> currentFPS] /\ e.app = a
    <3>1. [app |-> a, fps |-> currentFPS] \in Listing1 /\ [app |-> a, fps |-> currentFPS].app = a
      BY DEF Listing1
    <3> QED BY <3>1
  <2>2. r = Append(apps, e)
    BY <1>4, <1>6, <2>1 DEF Resume
  <2>3. /\ r \in Seq(Listing1) /\ DOMAIN r = 1 .. k + 1
        /\ \A n \in 1 .. k : r[n] = apps[n]
        /\ r[k + 1] = e
    BY <1>1, <2>1, <2>2, AppendProperties DEF GoodApps
  <2>4. Listed(r) = Listed(apps) \cup {a}
    <3>1. \A n \in 1 .. k + 1 : n \in 1 .. k \/ n = k + 1
      OBVIOUS
    <3>2. \A n \in 1 .. k : n \in 1 .. k + 1
      OBVIOUS
    <3>3. k + 1 \in 1 .. k + 1
      OBVIOUS
    <3> QED BY <1>1, <2>1, <2>3, <3>1, <3>2, <3>3 DEF Listed
  <2>5. \A n \in 1 .. k : ~Same(apps[n].app, a) /\ ~Same(a, apps[n].app)
    BY <1>1, <1>6 DEF Same
  <2>6. AppsApart(r)
    <3> SUFFICES ASSUME NEW m \in 1 .. k + 1, NEW n \in 1 .. k + 1, Same(r[m].app, r[n].app)
                 PROVE  m = n
      BY <2>3 DEF AppsApart
    <3>1. CASE m \in 1 .. k /\ n \in 1 .. k
      BY <1>3, <2>3, <3>1
    <3>2. CASE m = k + 1 /\ n \in 1 .. k
      BY <2>1, <2>3, <2>5, <3>2
    <3>3. CASE m \in 1 .. k /\ n = k + 1
      BY <2>1, <2>3, <2>5, <3>3
    <3> QED BY <3>1, <3>2, <3>3
  <2>7. \A b \in Listed(apps) : ~Same(a, b)
    BY <1>1, <2>5 DEF Listed
  <2> QED BY <1>4, <2>3, <2>4, <2>6, <2>7 DEF GoodApps
<1>7. CASE /\ ~\E n \in DOMAIN apps : Same(apps[n].app, a)
           /\ ~(Len(apps) < MULTI_WIN_SIZE_MAX)
  <2>1. r = apps
    BY <1>4, <1>7 DEF Resume
  <2>2. a \notin Listed(apps)
    BY <1>7 DEF Listed, Same
  <2> QED BY <1>4, <2>1, <2>2
<1> QED BY <1>5, <1>6, <1>7

\* A part of a list.
LEMMA PartFacts ==
  ASSUME NEW apps, GoodApps(apps), NEW k \in Nat, NEW f \in [1 .. k -> DOMAIN apps],
         \A i, j \in 1 .. k : f[i] = f[j] => i = j, NEW r \in Seq(Listing1), Len(r) = k,
         \A i \in 1 .. k : r[i] = apps[f[i]]
  PROVE  /\ GoodApps(r)
         /\ \A b : b \in Listed(r) <=> \E i \in 1 .. k : b = apps[f[i]].app
<1>1. DOMAIN r = 1 .. k
  OBVIOUS
<1>2. AppsApart(r)
  <2> SUFFICES ASSUME NEW i \in 1 .. k, NEW j \in 1 .. k, Same(r[i].app, r[j].app) PROVE i = j
    BY <1>1 DEF AppsApart
  <2>1. f[i] \in DOMAIN apps /\ f[j] \in DOMAIN apps /\ Same(apps[f[i]].app, apps[f[j]].app)
    OBVIOUS
  <2>2. f[i] = f[j]
    BY <2>1 DEF AppsApart, GoodApps
  <2> QED BY <2>2
<1>3. \A b : b \in Listed(r) <=> \E i \in 1 .. k : b = apps[f[i]].app
  BY <1>1 DEF Listed
<1> QED BY <1>2, <1>3 DEF GoodApps

\* A paused activity is taken out.
LEMMA PauseFacts ==
  ASSUME NEW apps, GoodApps(apps), NEW a
  PROVE  GoodApps(Pause(apps, a)) /\ Listed(Pause(apps, a)) = Listed(apps) \ {a}
<1>1. PICK k \in Nat : k = Len(apps) /\ DOMAIN apps = 1 .. k
  BY DEF GoodApps
<1>2. PICK at : at = {n \in DOMAIN apps : apps[n].app = a}
  OBVIOUS
<1>3. CASE at = {}
  <2>1. Pause(apps, a) = apps
    BY <1>2, <1>3 DEF Pause
  <2>2. a \notin Listed(apps)
    BY <1>2, <1>3 DEF Listed
  <2> QED BY <2>1, <2>2
<1>4. CASE at # {}
  <2>1. PICK p : p = Min(at)
    OBVIOUS
  <2>2. p \in 1 .. k /\ apps[p].app = a
    <3>1. at \in SUBSET Nat
      BY <1>1, <1>2
    <3>2. p \in at
      BY <1>4, <2>1, <3>1, MinFacts
    <3> QED BY <1>1, <1>2, <3>2
  <2>3. \A n \in 1 .. k : apps[n].app = a <=> n = p
    BY <1>1, <2>2 DEF GoodApps, AppsApart, Same
  <2>4. Pause(apps, a) = CutOut(apps, p)
    BY <1>2, <1>4, <2>1 DEF Pause, CutOut
  <2>5. PICK r : r = CutOut(apps, p)
    OBVIOUS
  <2>6. /\ r \in Seq(Listing1) /\ Len(r) = k - 1
        /\ \A i \in 1 .. k - 1 : r[i] = IF i < p THEN apps[i] ELSE apps[i + 1]
    <3>1. apps \in Seq(Listing1) /\ p \in DOMAIN apps
      BY <1>1, <2>2 DEF GoodApps
    <3> QED BY <1>1, <2>5, <3>1, CutOutFacts
  <2>7. PICK f : f = [i \in 1 .. k - 1 |-> IF i < p THEN i ELSE i + 1]
    OBVIOUS
  <2>8. /\ f \in [1 .. k - 1 -> DOMAIN apps] /\ \A i, j \in 1 .. k - 1 : f[i] = f[j] => i = j
        /\ k - 1 \in Nat
        /\ \A i \in 1 .. k - 1 : f[i] # p /\ r[i] = apps[f[i]]
    BY <1>1, <2>2, <2>6, <2>7
  <2>9. ASSUME NEW n \in 1 .. k, n # p PROVE \E i \in 1 .. k - 1 : f[i] = n
    <3>1. CASE n < p
      <4>1. n \in 1 .. k - 1 /\ f[n] = n
        BY <2>2, <2>7, <3>1
      <4> QED BY <4>1
    <3>2. CASE ~(n < p)
      <4>1. n - 1 \in 1 .. k - 1 /\ f[n - 1] = n
        BY <2>2, <2>7, <2>9, <3>2
      <4> QED BY <4>1
    <3> QED BY <3>1, <3>2
  <2>10. GoodApps(r) /\ \A b : b \in Listed(r) <=> \E i \in 1 .. k - 1 : b = apps[f[i]].app
    BY <2>6, <2>8, PartFacts
  <2>11. \A i \in 1 .. k - 1 : f[i] \in 1 .. k
    BY <1>1, <2>8
  <2>12. Listed(r) = Listed(apps) \ {a}
    <3>1. \A b : b \in Listed(apps) <=> \E n \in 1 .. k : b = apps[n].app
      BY <1>1 DEF Listed
    <3>2. ASSUME NEW b \in Listed(r) PROVE b \in Listed(apps) /\ b # a
      <4>1. PICK i \in 1 .. k - 1 : b = apps[f[i]].app
        BY <2>10
      <4> QED BY <2>3, <2>8, <2>11, <3>1, <4>1
    <3>3. ASSUME NEW b \in Listed(apps), b # a PROVE b \in Listed(r)
      <4>1. PICK n \in 1 .. k : b = apps[n].app
        BY <3>1
      <4> QED BY <2>2, <2>9, <2>10, <3>3, <4>1
    <3> QED BY <3>2, <3>3
  <2> QED BY <2>4, <2>5, <2>10, <2>12
<1> QED BY <1>3, <1>4

\* The entries that stay, in order: the k-th of them is the one with k of them up to itself.
LEMMA RankFacts ==
  ASSUME NEW k \in Nat, NEW left \in SUBSET (1 .. k)
  PROVE  /\ IsFiniteSet(left) /\ Cardinality(left) \in Nat
         /\ \A i \in 1 .. Cardinality(left) : \E n \in left : Cardinality({m \in left : m <= n}) = i
         /\ \A n \in left : Cardinality({m \in left : m <= n}) \in 1 .. Cardinality(left)
         /\ \A n, o \in left : Cardinality({m \in left : m <= n}) = Cardinality({m \in left : m <= o}) => n = o
<1> DEFINE To(n) == {m \in left : m <= n}
           Rank(n) == Cardinality(To(n))
<1>1. IsFiniteSet(left) /\ Cardinality(left) \in Nat
  <2>1. IsFiniteSet(1 .. k)
    BY FS_Interval
  <2>2. IsFiniteSet(left)
    BY <2>1, FS_Subset
  <2> QED BY <2>2, FS_CardinalityType
<1>0. \A m \in left : m \in Int /\ 1 <= m /\ m <= k
  OBVIOUS
<1>2. \A n : To(n) \subseteq left
  OBVIOUS
<1>3. \A n : IsFiniteSet(To(n)) /\ Rank(n) \in Nat /\ Rank(n) <= Cardinality(left)
  <2> HIDE DEF To
  <2> QED BY <1>1, <1>2, FS_Subset, FS_CardinalityType
<1>4. ASSUME NEW n \in left PROVE Rank(n) = Rank(n - 1) + 1
  <2>0. n \in Int /\ ~(n <= n - 1) /\ \A m \in left : m <= n <=> (m <= n - 1 \/ m = n)
    BY <1>0
  <2>1. To(n) = To(n - 1) \cup {n} /\ n \notin To(n - 1)
    BY <2>0
  <2> HIDE DEF To
  <2> QED BY <1>3, <2>1, FS_AddElement
<1>5. ASSUME NEW n \in 1 .. k, n \notin left PROVE Rank(n) = Rank(n - 1)
  <2>1. \A m \in left : m <= n <=> m <= n - 1
    BY <1>0, <1>5
  <2>2. To(n) = To(n - 1)
    BY <2>1
  <2> HIDE DEF To
  <2> QED BY <2>2
<1>6. To(0) = {} /\ To(k) = left
  <2>1. \A m \in left : ~(m <= 0) /\ m <= k
    BY <1>0
  <2> QED BY <2>1
<1>7. Rank(0) = 0 /\ Rank(k) = Cardinality(left)
  <2> HIDE DEF To
  <2> QED BY <1>6, FS_EmptySet
<1>8. ASSUME NEW n \in left, NEW o \in left, n < o PROVE Rank(n) < Rank(o)
  <2>0. \A m \in left : m <= n => m <= o - 1
    BY <1>0, <1>8
  <2>1. To(n) \subseteq To(o - 1)
    BY <2>0
  <2>2. Rank(n) <= Rank(o - 1)
    <3> HIDE DEF To
    <3> QED BY <1>3, <2>1, FS_Subset
  <2>3. Rank(o) = Rank(o - 1) + 1
    BY <1>4
  <2>4. Rank(n) \in Nat /\ Rank(o - 1) \in Nat
    BY <1>3
  <2> HIDE DEF Rank
  <2> QED BY <2>2, <2>3, <2>4
<1>9. ASSUME NEW i \in 1 .. Cardinality(left) PROVE \E n \in left : Rank(n) = i
  <2>1. PICK S : S = {n \in 0 .. k : Rank(n) >= i}
    OBVIOUS
  <2>2. S \in SUBSET Nat /\ k \in S
    BY <1>1, <1>7, <2>1
  <2>3. PICK n \in S : \A m \in S : n <= m
    BY <2>2, LeastNat
  <2>4. n \in 1 .. k /\ Rank(n) >= i
    <3>1. n # 0
      BY <1>7, <2>1, <2>3
    <3> QED BY <2>1, <2>3, <3>1
  <2>5. n - 1 \in 0 .. k /\ n - 1 \notin S
    <3>1. n - 1 \in 0 .. k /\ ~(n <= n - 1)
      BY <2>4
    <3> QED BY <2>3, <3>1
  <2>6. ~(Rank(n - 1) >= i)
    BY <2>1, <2>5
  <2>7. n \in left
    BY <1>5, <2>4, <2>6
  <2>8. Rank(n) = Rank(n - 1) + 1 /\ Rank(n - 1) \in Nat
    BY <1>3, <1>4, <2>7
  <2> HIDE DEF Rank
  <2>9. Rank(n) = i
    BY <1>1, <2>4, <2>6, <2>8
  <2> QED BY <2>7, <2>9
<1>10. ASSUME NEW n \in left PROVE Rank(n) \in 1 .. Cardinality(left)
  <2>1. Rank(n) = Rank(n - 1) + 1 /\ Rank(n - 1) \in Nat /\ Rank(n) \in Nat /\ Rank(n) <= Cardinality(left)
    BY <1>3, <1>4
  <2> HIDE DEF Rank
  <2> QED BY <1>1, <2>1
<1>11. ASSUME NEW n \in left, NEW o \in left, Rank(n) = Rank(o) PROVE n = o
  <2>1. n \in Int /\ o \in Int /\ Rank(n) \in Nat /\ Rank(o) \in Nat
    BY <1>3
  <2>2. ~(n < o) /\ ~(o < n)
    <3> HIDE DEF Rank
    <3> QED BY <1>8, <1>11, <2>1
  <2> QED BY <2>1, <2>2
<1> QED BY <1>1, <1>9, <1>10, <1>11

\* The activities of a dead process are taken out.
LEMMA DieFacts ==
  ASSUME NEW apps, GoodApps(apps), NEW pid
  PROVE  GoodApps(Die(apps, pid)) /\ Listed(Die(apps, pid)) = {b \in Listed(apps) : b.pid # pid}
<1>1. PICK k \in Nat : k = Len(apps) /\ DOMAIN apps = 1 .. k /\ \A n \in 1 .. k : apps[n] \in Listing1
  BY DEF GoodApps
<1>2. PICK left : left = {n \in DOMAIN apps : apps[n].app.pid # pid}
  OBVIOUS
<1> DEFINE Rank(n) == Cardinality({m \in left : m <= n})
<1>3. left \in SUBSET (1 .. k)
  BY <1>1, <1>2
<1>4. PICK c \in Nat : c = Cardinality(left)
  BY <1>3, RankFacts
<1>5. /\ \A i \in 1 .. c : \E n \in left : Rank(n) = i
      /\ \A n \in left : Rank(n) \in 1 .. c
      /\ \A n, o \in left : Rank(n) = Rank(o) => n = o
  BY <1>3, <1>4, RankFacts, ZenonT(60)
<1>6. PICK f : f = [i \in 1 .. c |-> CHOOSE n \in left : Rank(n) = i]
  OBVIOUS
<1>7. PICK r : r = Die(apps, pid)
  OBVIOUS
<1>8. r = [i \in 1 .. c |-> apps[CHOOSE n \in left : Rank(n) = i]]
  BY <1>2, <1>4, <1>7 DEF Die
<1> HIDE DEF Rank
<1>9. \A i \in 1 .. c : f[i] \in left /\ Rank(f[i]) = i
  BY <1>5, <1>6
<1>10. /\ f \in [1 .. c -> DOMAIN apps] /\ \A i, j \in 1 .. c : f[i] = f[j] => i = j
       /\ \A i \in 1 .. c : r[i] = apps[f[i]]
  BY <1>1, <1>3, <1>6, <1>8, <1>9
<1>11. r \in Seq(Listing1) /\ Len(r) = c
  <2>0. \A i \in 1 .. c : f[i] \in 1 .. k
    BY <1>1, <1>10
  <2>1. \A i \in 1 .. c : r[i] \in Listing1
    BY <1>1, <1>10, <2>0
  <2>2. r \in [1 .. c -> Listing1]
    <3>1. r = [i \in 1 .. c |-> r[i]]
      BY <1>8
    <3> QED BY <2>1, <3>1
  <2> QED BY <2>2
<1>12. GoodApps(r) /\ \A b : b \in Listed(r) <=> \E i \in 1 .. c : b = apps[f[i]].app
  BY <1>10, <1>11, PartFacts
<1>13. \A n \in left : Rank(n) \in 1 .. c /\ f[Rank(n)] = n
  BY <1>5, <1>9
<1>14. Listed(r) = {b \in Listed(apps) : b.pid # pid}
  <2>1. \A b : b \in Listed(apps) <=> \E n \in DOMAIN apps : b = apps[n].app
    BY DEF Listed
  <2>2. ASSUME NEW b \in Listed(r) PROVE b \in Listed(apps) /\ b.pid # pid
    <3>1. PICK i \in 1 .. c : b = apps[f[i]].app
      BY <1>12
    <3> QED BY <1>2, <1>9, <2>1, <3>1
  <2>3. ASSUME NEW b \in Listed(apps), b.pid # pid PROVE b \in Listed(r)
    <3>1. PICK n \in DOMAIN apps : b = apps[n].app
      BY <2>1
    <3>2. n \in left
      BY <1>2, <2>3, <3>1
    <3> QED BY <1>12, <1>13, <3>1, <3>2
  <2> QED BY <2>2, <2>3
<1> QED BY <1>7, <1>12, <1>14

\* A list without repetitions is as long as the set of its activities.
LEMMA ListedCount ==
  ASSUME NEW apps, GoodApps(apps)
  PROVE  Cardinality(Listed(apps)) = Len(apps)
<1>1. PICK k \in Nat : k = Len(apps) /\ DOMAIN apps = 1 .. k
  BY DEF GoodApps
<1>2. PICK f : f = [n \in 1 .. k |-> apps[n].app]
  OBVIOUS
<1>3. \A b : b \in Listed(apps) <=> \E n \in 1 .. k : b = f[n]
  BY <1>1, <1>2 DEF Listed
<1>4. \A m, n \in 1 .. k : f[m] = f[n] => m = n
  BY <1>1, <1>2 DEF GoodApps, AppsApart, Same
<1>5. f \in [1 .. k -> Listed(apps)]
  BY <1>2, <1>3
<1>6. f \in Bijection(1 .. k, Listed(apps))
  <2>1. f \in Injection(1 .. k, Listed(apps))
    BY <1>4, <1>5 DEF Injection, IsInjective
  <2>2. f \in Surjection(1 .. k, Listed(apps))
    BY <1>3, <1>5 DEF Surjection
  <2> QED BY <2>1, <2>2 DEF Bijection
<1>7. ExistsBijection(1 .. k, Listed(apps))
  BY <1>6 DEF ExistsBijection
<1> QED BY <1>1, <1>7, FS_CountingElements

\* The screen is shared between two packages.
Shared2(apps) == \E a, b \in Listed(apps) : a.pack # b.pack

\* When getForegroundAPPCount finds more than one package, there are two.
LEMMA SharedFacts ==
  ASSUME NEW apps, GoodApps(apps), getForegroundAPPCount(apps) > 1
  PROVE  Shared2(apps)
<1>1. PICK k \in Nat : k = Len(apps) /\ DOMAIN apps = 1 .. k
  BY DEF GoodApps
<1>2. PICK S : S = {i \in 2 .. Len(apps) : \A j \in 1 .. i - 1 : ~SamePackage(apps[i].app.pack, apps[j].app.pack)}
  OBVIOUS
<1>3. S # {}
  <2> SUFFICES ASSUME S = {} PROVE FALSE
    OBVIOUS
  <2>1. getForegroundAPPCount(apps) = 1 + Cardinality(S)
    BY <1>2 DEF getForegroundAPPCount
  <2>2. Cardinality(S) = 0
    BY FS_EmptySet
  <2> QED BY <2>1, <2>2
<1>4. PICK i \in 2 .. k : ~SamePackage(apps[i].app.pack, apps[1].app.pack)
  <2>1. PICK i \in S : TRUE
    BY <1>3
  <2>2. i \in 2 .. k /\ 1 \in 1 .. i - 1
    BY <1>1, <1>2
  <2> QED BY <1>2, <2>1, <2>2
<1>5. i \in 1 .. k /\ 1 \in 1 .. k
  OBVIOUS
<1>6. apps[i].app \in Listed(apps) /\ apps[1].app \in Listed(apps)
  BY <1>1, <1>5 DEF Listed
<1> QED BY <1>4, <1>6 DEF SamePackage, Shared2

ListInv ==
  /\ GoodApps(multi_resumed) /\ currentFPS \in Int /\ fpsSeen \in Activity \cup {Nobody}
  /\ ~astray => Listed(multi_resumed) = shown
  /\ isMultiWindow => Shared2(multi_resumed)

\* Whatever is notified, the list stays a list.
LEMMA NotifyFacts ==
  ASSUME ListInv, NEW a, NEW state \in Listing \cup {"PAUSED", "DEAD", "MODE_UPDATED"},
         state \in Listing => a \in Activity, NotifyList(a, state)
  PROVE  /\ GoodApps(multi_resumed') /\ (isMultiWindow' => Shared2(multi_resumed'))
         /\ state \in Listing => multi_resumed' = Resume(multi_resumed, a)
         /\ state = "PAUSED" => multi_resumed' = Pause(multi_resumed, a)
         /\ state = "DEAD" => multi_resumed' = Die(multi_resumed, a.pid)
         /\ state = "MODE_UPDATED" => multi_resumed' = multi_resumed
<1>1. GoodApps(multi_resumed) /\ currentFPS \in Int
  BY DEF ListInv
<1>2. /\ state \in Listing => multi_resumed' = Resume(multi_resumed, a)
      /\ state = "PAUSED" => multi_resumed' = Pause(multi_resumed, a)
      /\ state = "DEAD" => multi_resumed' = Die(multi_resumed, a.pid)
      /\ state = "MODE_UPDATED" => multi_resumed' = multi_resumed
  BY DEF NotifyList, Listing
<1>3. GoodApps(multi_resumed')
  <2>1. CASE state \in Listing
    BY <1>1, <1>2, <2>1, ResumeFacts
  <2>2. CASE state = "PAUSED"
    BY <1>1, <1>2, <2>2, PauseFacts
  <2>3. CASE state = "DEAD"
    BY <1>1, <1>2, <2>3, DieFacts
  <2>4. CASE state = "MODE_UPDATED"
    BY <1>1, <1>2, <2>4
  <2> QED BY <2>1, <2>2, <2>3, <2>4
<1>4. isMultiWindow' => Shared2(multi_resumed')
  <2>1. isMultiWindow' => getForegroundAPPCount(multi_resumed') > 1
    BY DEF NotifyList
  <2> QED BY <1>3, <2>1, SharedFacts
<1> QED BY <1>2, <1>3, <1>4

\* An activity is listed, as it was reported, unless the list leaves it out.
LEMMA ListedFacts ==
  ASSUME NEW apps, GoodApps(apps), NEW a \in Activity, ~LeavesOut(apps, a)
  PROVE  a \in Listed(Resume(apps, a))
<1>1. PICK k \in Nat : k = Len(apps) /\ DOMAIN apps = 1 .. k
  BY DEF GoodApps
<1>2. CASE \E n \in DOMAIN apps : Same(apps[n].app, a)
  <2>1. PICK n \in DOMAIN apps : Same(apps[n].app, a)
    BY <1>2
  <2>2. apps[n].app = a /\ apps[n] \in Listing1
    BY <2>1 DEF LeavesOut, GoodApps
  <2>3. PICK r : r = Resume(apps, a)
    OBVIOUS
  <2>4. r = [m \in DOMAIN apps |-> IF Same(apps[m].app, a) THEN [apps[m] EXCEPT !.fps = currentFPS] ELSE apps[m]]
    BY <1>2, <2>3 DEF Resume
  <2>5. n \in DOMAIN r /\ r[n].app = a
    BY <2>1, <2>2, <2>4 DEF Listing1
  <2> QED BY <2>3, <2>5 DEF Listed
<1>3. CASE \A n \in DOMAIN apps : ~Same(apps[n].app, a)
  <2>1. Len(apps) < MULTI_WIN_SIZE_MAX
    BY <1>1, <1>3, ResumedAssumption DEF LeavesOut
  <2>2. PICK e : e = [app |-> a, fps |-> currentFPS] /\ e.app = a
    <3>1. [app |-> a, fps |-> currentFPS].app = a
      OBVIOUS
    <3> QED BY <3>1
  <2>3. Resume(apps, a) = Append(apps, e)
    BY <1>3, <2>1, <2>2 DEF Resume
  <2>4. k + 1 \in DOMAIN Append(apps, e) /\ Append(apps, e)[k + 1] = e
    BY <1>1 DEF GoodApps
  <2> QED BY <2>2, <2>3, <2>4 DEF Listed
<1> QED BY <1>2, <1>3

\* The activity manager's reports.
LEMMA ReportsKeep ==
  ASSUME ListInv, NEW a \in Activity, NEW state \in {"RESUMED", "MULTI_WINDOW", "PAUSED", "DEAD"},
         Reports(a, state)
  PROVE  ListInv'
<1>1. state \in Listing \cup {"PAUSED", "DEAD", "MODE_UPDATED"}
  BY DEF Listing
<1>2. NotifyList(a, state) /\ UNCHANGED <<currentFPS, fpsSeen>>
  BY DEF Reports
<1>3. /\ GoodApps(multi_resumed') /\ (isMultiWindow' => Shared2(multi_resumed'))
      /\ state \in Listing => multi_resumed' = Resume(multi_resumed, a)
      /\ state = "PAUSED" => multi_resumed' = Pause(multi_resumed, a)
      /\ state = "DEAD" => multi_resumed' = Die(multi_resumed, a.pid)
  BY <1>1, <1>2, NotifyFacts
<1>4. GoodApps(multi_resumed) /\ currentFPS \in Int /\ (~astray => Listed(multi_resumed) = shown)
  BY DEF ListInv
<1>5. ASSUME ~astray' PROVE Listed(multi_resumed') = shown'
  <2>1. CASE state \in Listing
    <3>1. Shows({b \in shown : ~Same(a, b)} \cup {a}, LeavesOut(multi_resumed, a))
      BY <2>1 DEF Reports, Listing
    <3>2. CASE Listed(multi_resumed') = {b \in shown : ~Same(a, b)} \cup {a}
      BY <3>1, <3>2 DEF Shows
    <3>3. CASE Listed(multi_resumed') # {b \in shown : ~Same(a, b)} \cup {a}
      <4>0. ~astray /\ ~LeavesOut(multi_resumed, a)
        BY <1>5, <3>1, <3>3 DEF Shows
      <4>1. ~astray /\ a \in Listed(multi_resumed')
        BY <1>3, <1>4, <2>1, <4>0, ListedFacts
      <4>2. Listed(multi_resumed') = {b \in Listed(multi_resumed) : ~Same(a, b)} \cup {a}
        BY <1>3, <1>4, <2>1, <4>1, ResumeFacts
      <4> QED BY <1>4, <3>3, <4>1, <4>2
    <3> QED BY <3>2, <3>3
  <2>2. CASE state = "PAUSED"
    <3>1. Shows(shown \ {a}, FALSE)
      BY <2>2 DEF Reports, Listing
    <3>2. CASE Listed(multi_resumed') = shown \ {a}
      BY <3>1, <3>2 DEF Shows
    <3>3. CASE Listed(multi_resumed') # shown \ {a}
      <4>1. ~astray
        BY <1>5, <3>1, <3>3 DEF Shows
      <4>2. Listed(multi_resumed') = Listed(multi_resumed) \ {a}
        BY <1>3, <1>4, <2>2, PauseFacts
      <4> QED BY <1>4, <3>3, <4>1, <4>2
    <3> QED BY <3>2, <3>3
  <2>3. CASE state = "DEAD"
    <3>1. Shows({b \in shown : b.pid # a.pid}, FALSE)
      BY <2>3 DEF Reports, Listing
    <3>2. CASE Listed(multi_resumed') = {b \in shown : b.pid # a.pid}
      BY <3>1, <3>2 DEF Shows
    <3>3. CASE Listed(multi_resumed') # {b \in shown : b.pid # a.pid}
      <4>1. ~astray
        BY <1>5, <3>1, <3>3 DEF Shows
      <4>2. Listed(multi_resumed') = {b \in Listed(multi_resumed) : b.pid # a.pid}
        BY <1>3, <1>4, <2>3, DieFacts
      <4> QED BY <1>4, <3>3, <4>1, <4>2
    <3> QED BY <3>2, <3>3
  <2> QED BY <2>1, <2>2, <2>3 DEF Listing
<1> QED BY <1>2, <1>3, <1>5 DEF ListInv

\* The frame-rate thread reads, and reports what may have changed since.
LEMMA FpsReadKeeps ==
  ASSUME ListInv, FpsRead
  PROVE  ListInv'
<1>1. PICK n \in DOMAIN multi_resumed, fps \in FPS : currentFPS' = fps /\ fpsSeen' = multi_resumed[n].app
  BY DEF FpsRead
<1>2. fps \in Int
  BY ResumedAssumption
<1>3. multi_resumed[n] \in Listing1
  BY DEF ListInv, GoodApps
<1>4. multi_resumed[n].app \in Activity
  BY <1>3 DEF Listing1
<1>5. UNCHANGED <<multi_resumed, isMultiWindow, shown, astray>>
  BY DEF FpsRead
<1> QED BY <1>1, <1>2, <1>4, <1>5 DEF ListInv

\* The frame rate's report, of an activity that may be gone.
LEMMA FpsReportKeeps ==
  ASSUME ListInv, FpsReport
  PROVE  ListInv'
<1>1. fpsSeen \in Activity /\ NotifyList(fpsSeen, "FPS_UPDATED") /\ Shows(shown, fpsSeen \notin shown)
  BY DEF ListInv, FpsReport
<1>2. /\ GoodApps(multi_resumed') /\ (isMultiWindow' => Shared2(multi_resumed'))
      /\ multi_resumed' = Resume(multi_resumed, fpsSeen)
  BY <1>1, NotifyFacts DEF Listing
<1>3. ASSUME ~astray' PROVE Listed(multi_resumed') = shown'
  <2>1. CASE Listed(multi_resumed') = shown
    BY <1>1, <2>1 DEF Shows
  <2>2. CASE Listed(multi_resumed') # shown
    <3>1. ~astray /\ fpsSeen \in shown /\ shown' = shown
      BY <1>1, <1>3, <2>2 DEF Shows
    <3>2. Listed(multi_resumed) = shown /\ GoodApps(multi_resumed) /\ currentFPS \in Int
      BY <3>1 DEF ListInv
    <3>3. /\ Listed(multi_resumed) \subseteq Listed(multi_resumed')
          /\ Listed(multi_resumed') \subseteq Listed(multi_resumed) \cup {fpsSeen}
      BY <1>1, <1>2, <3>2, ResumeFacts
    <3> QED BY <3>1, <3>2, <3>3
  <2> QED BY <2>1, <2>2
<1>4. currentFPS' \in Int /\ fpsSeen' = Nobody
  BY DEF ListInv, FpsReport
<1> QED BY <1>2, <1>3, <1>4 DEF ListInv

\* A change of mode, and a step that leaves the list alone.
LEMMA QuietKeeps ==
  ASSUME ListInv, UNCHANGED <<multi_resumed, currentFPS, fpsSeen, shown, astray>>,
         isMultiWindow' => Shared2(multi_resumed')
  PROVE  ListInv'
BY DEF ListInv

\* The list's invariant, in both specifications that the list is part of.
LEMMA ListKept ==
  /\ ListInit => ListInv
  /\ ListInv /\ [AppListNext]_appVars => ListInv'
  /\ ListInv /\ [HintNext]_hintVars => ListInv'
<1>1. ListInit => ListInv
  <2> SUFFICES ASSUME ListInit PROVE ListInv
    OBVIOUS
  <2>1. multi_resumed = <<>> /\ currentFPS = -1 /\ fpsSeen = Nobody /\ ~isMultiWindow /\ shown = {}
    BY DEF ListInit
  <2>2. Listed(multi_resumed) = {} /\ GoodApps(multi_resumed)
    BY <2>1 DEF Listed, GoodApps, AppsApart
  <2> QED BY <2>1, <2>2 DEF ListInv
<1>2. ASSUME ListInv, UNCHANGED listVars PROVE ListInv'
  BY <1>2 DEF ListInv, listVars
<1>3. ListInv /\ [AppListNext]_appVars => ListInv'
  <2> SUFFICES ASSUME ListInv, [AppListNext]_appVars PROVE ListInv'
    OBVIOUS
  <2>1. ASSUME NEW a \in Activity, NEW state \in {"RESUMED", "MULTI_WINDOW", "PAUSED", "DEAD"},
               Reports(a, state)
        PROVE  ListInv'
    BY <2>1, ReportsKeep
  <2>2. CASE FpsRead
    BY <2>2, FpsReadKeeps
  <2>3. CASE FpsReport
    BY <2>3, FpsReportKeeps
  <2>4. ASSUME NEW mode, setCurrentMode(mode) PROVE ListInv'
    BY <1>2, <2>4 DEF setCurrentMode
  <2>5. ASSUME NEW g, ModeReport(g) PROVE ListInv'
    <3>1. NotifyList(Nobody, "MODE_UPDATED") /\ UNCHANGED <<currentFPS, fpsSeen, shown, astray>>
      BY <2>5 DEF ModeReport
    <3>2. multi_resumed' = multi_resumed /\ (isMultiWindow' => Shared2(multi_resumed'))
      BY <3>1, NotifyFacts DEF Listing
    <3> QED BY <3>1, <3>2, QuietKeeps
  <2>6. ASSUME NEW table, NEW g, reloadAppListXml(table, g) PROVE ListInv'
    BY <1>2, <2>6 DEF reloadAppListXml
  <2>7. CASE UNCHANGED appVars
    BY <1>2, <2>7 DEF appVars
  <2> QED BY <2>1, <2>2, <2>3, <2>4, <2>5, <2>6, <2>7 DEF AppListNext
<1>4. ListInv /\ [HintNext]_hintVars => ListInv'
  <2> SUFFICES ASSUME ListInv, [HintNext]_hintVars PROVE ListInv'
    OBVIOUS
  <2>1. ASSUME NEW a \in Activity, NEW state \in {"RESUMED", "MULTI_WINDOW", "PAUSED", "DEAD"},
               Reports(a, state)
        PROVE  ListInv'
    BY <2>1, ReportsKeep
  <2>2. CASE FpsRead
    BY <2>2, FpsReadKeeps
  <2>3. CASE FpsReport
    BY <2>3, FpsReportKeeps
  <2>4. CASE ReloadHints
    BY <1>2, <2>4 DEF ReloadHints
  <2>5. ASSUME NEW enabled, setThreadHintControllerEnabled(enabled) PROVE ListInv'
    BY <1>2, <2>5 DEF setThreadHintControllerEnabled
  <2>6. CASE ControllerOff
    BY <1>2, <2>6 DEF ControllerOff
  <2>7. CASE UNCHANGED hintVars
    BY <1>2, <2>7 DEF hintVars
  <2> QED BY <2>1, <2>2, <2>3, <2>4, <2>5, <2>6, <2>7 DEF HintNext
<1> QED BY <1>1, <1>3, <1>4

\* The list is what the activity manager shows, whatever it reports and however the frame-rate
\* thread's stale reports interleave, except where the model says they went apart; and the
\* screen counts as shared only between packages (notifyAPPstate, getForegroundAPPCount).
THEOREM ResumedIsFollowed == (AppListSpec => []ResumedFollows) /\ (HintSpec => []ResumedFollows)
<1>1. ListInv => ResumedFollows
  <2> SUFFICES ASSUME ListInv PROVE ResumedFollows
    OBVIOUS
  <2>1. ~astray => Cardinality(shown) = Len(multi_resumed)
    BY ListedCount DEF ListInv
  <2> QED BY <2>1 DEF ListInv, ResumedFollows, Shared2
<1>2. AppListInit => ListInit
  BY DEF AppListInit
<1>3. HintInit => ListInit
  BY DEF HintInit
<1> QED BY <1>1, <1>2, <1>3, ListKept, PTL DEF AppListSpec, HintSpec

-----------------------------------------------------------------------------
(***************************************************************************)
(* The rows of the app table.                                              *)
(***************************************************************************)
Row1 == [pid : Nat, status : BOOLEAN, handle : BOOLEAN]

\* Counting a set after some elements went and others came.
Counted(H, X, Y, K) ==
  /\ Cardinality(H) \in Nat /\ Cardinality(X) \in Nat /\ Cardinality(Y) \in Nat
  /\ Cardinality(K) = Cardinality(H) - Cardinality(X) + Cardinality(Y)

\* So the count goes down by what went and up by what came.
LEMMA CountFacts ==
  ASSUME NEW H, NEW X, NEW Y, NEW K, IsFiniteSet(H), IsFiniteSet(Y),
         X \subseteq H, H \cap Y = {}, K = (H \ X) \cup Y
  PROVE  Counted(H, X, Y, K)
<1>1. PICK G : G = H \ X
  OBVIOUS
<1>2. IsFiniteSet(X) /\ IsFiniteSet(G)
  BY <1>1, FS_Subset
<1>3. Cardinality(H) \in Nat /\ Cardinality(X) \in Nat /\ Cardinality(Y) \in Nat /\ Cardinality(G) \in Nat
  BY <1>2, FS_CardinalityType
<1>4. H \cap X = X /\ G \cap Y = {}
  BY <1>1
<1>5. Cardinality(G) = Cardinality(H) - Cardinality(X)
  BY <1>1, <1>4, FS_Difference
<1>6. IsFiniteSet(G \cup Y) /\ Cardinality(G \cup Y) = Cardinality(G) + Cardinality(Y) - Cardinality({})
  <2>1. IsFiniteSet(G \cup Y) /\ Cardinality(G \cup Y) = Cardinality(G) + Cardinality(Y) - Cardinality(G \cap Y)
    BY <1>2, FS_Union
  <2> QED BY <1>4, <2>1
<1>7. Cardinality({}) = 0
  BY FS_EmptySet
<1>8. Cardinality(G \cup Y) = Cardinality(H) - Cardinality(X) + Cardinality(Y)
  BY <1>3, <1>5, <1>6, <1>7
<1>9. K = G \cup Y
  BY <1>1
<1> QED BY <1>3, <1>8, <1>9 DEF Counted

\* The rows for a list: each fits an activity, and where a row fits there is one of its kind.
RowsFit(apps, table, multi, mode, S) ==
  \A i \in DOMAIN table :
    /\ i \in S => \E n \in DOMAIN apps : RowFits(table[i], apps[n], multi, mode)
    /\ \A n \in DOMAIN apps :
         RowFits(table[i], apps[n], multi, mode) =>
           \E j \in i .. Len(table) : j \in S /\ KindOf(table[j]) = KindOf(table[i])

\* findAppScenarioIndex picks, for each kind of row that fits, the last.
LEMMA RowsForFacts ==
  ASSUME NEW apps, NEW table \in AppTables, NEW multi, NEW mode
  PROVE  /\ RowsFor(apps, table, multi, mode) \subseteq DOMAIN table
         /\ RowsFit(apps, table, multi, mode, RowsFor(apps, table, multi, mode))
<1>1. PICK k \in Nat : k = Len(table) /\ DOMAIN table = 1 .. k
  BY AppListAssumption
<1>2. PICK W : W = RowsFor(apps, table, multi, mode)
  OBVIOUS
<1>3. \A i : i \in W <=> \E n \in DOMAIN apps : i \in findAppScenarioIndex(apps[n], table, multi, mode)
  BY <1>2 DEF RowsFor
<1>4. \A n \in DOMAIN apps : \A i : i \in findAppScenarioIndex(apps[n], table, multi, mode) =>
        i \in DOMAIN table /\ RowFits(table[i], apps[n], multi, mode)
  BY DEF findAppScenarioIndex
<1>5. ASSUME NEW i \in DOMAIN table, NEW n \in DOMAIN apps, RowFits(table[i], apps[n], multi, mode)
      PROVE  \E j \in i .. k : j \in W /\ KindOf(table[j]) = KindOf(table[i])
  <2>1. PICK S : S = {j \in i .. k : RowFits(table[j], apps[n], multi, mode) /\ KindOf(table[j]) = KindOf(table[i])}
    OBVIOUS
  <2>2. S \in SUBSET Nat /\ i \in S /\ \A j \in S : j <= k
    BY <1>1, <1>5, <2>1
  <2>3. PICK j \in S : \A m \in S : m <= j
    BY <2>2, GreatestOf
  <2>4. j \in i .. k /\ RowFits(table[j], apps[n], multi, mode) /\ KindOf(table[j]) = KindOf(table[i])
    BY <2>1, <2>3
  <2>5. ASSUME NEW m \in j + 1 .. k, RowFits(table[m], apps[n], multi, mode), KindOf(table[m]) = KindOf(table[j])
        PROVE  FALSE
    <3>1. i \in Nat /\ j \in Nat /\ m \in i .. k /\ ~(m <= j)
      BY <1>1, <2>4
    <3>2. m \in S
      BY <2>1, <2>4, <2>5, <3>1
    <3> QED BY <2>3, <3>1, <3>2
  <2>6. j \in DOMAIN table
    BY <1>1, <2>4
  <2>7. j \in findAppScenarioIndex(apps[n], table, multi, mode)
    BY <1>1, <2>4, <2>5, <2>6 DEF findAppScenarioIndex
  <2> QED BY <1>3, <2>4, <2>7
<1>6. W \subseteq DOMAIN table
  BY <1>3, <1>4
<1>7. RowsFit(apps, table, multi, mode, W)
  BY <1>1, <1>3, <1>4, <1>5 DEF RowsFit
<1> QED BY <1>2, <1>6, <1>7

\* What the property says of the rows in force.
InForce == {i \in DOMAIN rows : rows[i].status}

RowInv ==
  /\ APPList \in AppTables /\ rows \in [DOMAIN APPList -> Row1]
  /\ fgBoosts \subseteq {"launch", "act"} /\ modeSet \in BOOLEAN
  /\ locks = Cardinality(Held(rows)) + Cardinality(fgBoosts)
  /\ \A i \in DOMAIN rows : rows[i].handle <=> (rows[i].status /\ i \notin bare)
  /\ ~modeSet => RowsFit(multi_resumed, APPList, isMultiWindow, currentMode, InForce)

\* What the invariant says of the property.
LEMMA RowInvFollows ==
  ASSUME RowInv
  PROVE  RowsFollow
<1>1. DOMAIN rows = DOMAIN APPList
  BY DEF RowInv
<1>2. PICK k \in Nat : k = Len(APPList) /\ DOMAIN APPList = 1 .. k
  BY AppListAssumption DEF RowInv
<1>3. ASSUME ~modeSet, NEW i \in DOMAIN rows
      PROVE  /\ rows[i].status => \E n \in DOMAIN multi_resumed :
                                    RowFits(APPList[i], multi_resumed[n], isMultiWindow, currentMode)
             /\ \A n \in DOMAIN multi_resumed :
                  RowFits(APPList[i], multi_resumed[n], isMultiWindow, currentMode) =>
                    \E j \in i .. Len(APPList) : rows[j].status /\ KindOf(APPList[j]) = KindOf(APPList[i])
  BY <1>1, <1>3 DEF RowInv, RowsFit, InForce
<1> QED BY <1>3 DEF RowInv, RowsFollow

\* Sets of rows are finite.
LEMMA RowsFinite ==
  ASSUME NEW table \in AppTables, NEW S \in SUBSET (DOMAIN table)
  PROVE  IsFiniteSet(S)
<1>1. PICK k \in Nat : DOMAIN table = 1 .. k
  BY AppListAssumption
<1>2. IsFiniteSet(1 .. k)
  BY FS_Interval
<1> QED BY <1>1, <1>2, FS_Subset

\* A notification: rows end, rows begin, and every lock is given back once.
LEMMA NotifyRowsKeeps ==
  ASSUME RowInv, NEW a, NEW state, NEW granted \in BOOLEAN, state \in Listing => a.pid \in Nat,
         NotifyRows(a, state, granted), modeSet' \in BOOLEAN
  PROVE  RowInv'
<1>0. PICK W \in {RowsFor(multi_resumed', APPList, isMultiWindow', currentMode)} :
        NotifyRows(a, state, granted)!(W)
  BY Zenon DEF NotifyRows
<1> DEFINE D == DOMAIN rows
           G == [i \in D |-> IF state \in Listing /\ APPList[i].pack = a.pack THEN [rows[i] EXCEPT !.pid = a.pid] ELSE rows[i]]
           F == {i \in D : state = "DEAD" /\ G[i].pid = a.pid}
           E == {i \in D \ W : rows[i].status}
           N == {i \in W : ~rows[i].status}
           A == [i \in D |-> IF i \in F \cup E THEN AppScenarioDisable(G[i]) ELSE G[i]]
<1>1. /\ rows' = [i \in D |-> IF i \in N THEN AppScenarioEnable(A[i], granted) ELSE [A[i] EXCEPT !.status = i \in W]]
      /\ (IF state = "RESUMED" THEN \E create \in BOOLEAN : Boost(a, N, granted, create) ELSE UNCHANGED <<fgBoosts, current>>)
      /\ locks' = locks - Cardinality({i \in F \cup E : G[i].handle})
                        + (IF granted THEN Cardinality(N) ELSE 0)
                        + Cardinality(fgBoosts' \ fgBoosts) - Cardinality(fgBoosts \ fgBoosts')
      /\ bare' = {i \in W : IF i \in N THEN ~granted ELSE i \in F \cup bare}
      /\ UNCHANGED <<currentMode, APPList>>
  BY <1>0, Zenon
<1>2. PICK want, given, freed, off, on, after :
        /\ want = W /\ given = G /\ freed = F /\ off = E /\ on = N /\ after = A
  OBVIOUS
<1>3. /\ rows' = [i \in D |-> IF i \in on THEN AppScenarioEnable(after[i], granted) ELSE [after[i] EXCEPT !.status = i \in want]]
      /\ (IF state = "RESUMED" THEN \E create \in BOOLEAN : Boost(a, on, granted, create) ELSE UNCHANGED <<fgBoosts, current>>)
      /\ locks' = locks - Cardinality({i \in freed \cup off : given[i].handle})
                        + (IF granted THEN Cardinality(on) ELSE 0)
                        + Cardinality(fgBoosts' \ fgBoosts) - Cardinality(fgBoosts \ fgBoosts')
      /\ bare' = {i \in want : IF i \in on THEN ~granted ELSE i \in freed \cup bare}
      /\ UNCHANGED <<currentMode, APPList>>
  BY <1>1, <1>2, Zenon
<1>4. /\ APPList \in AppTables /\ D = DOMAIN APPList /\ rows \in [D -> Row1]
      /\ \A i \in D : rows[i].handle <=> (rows[i].status /\ i \notin bare)
  BY DEF RowInv
<1>5. want \subseteq D
  BY <1>0, <1>2, <1>4, RowsForFacts
<1>6. /\ given \in [D -> Row1]
      /\ \A i \in D : given[i].status = rows[i].status /\ given[i].handle = rows[i].handle
  <2>1. given = [i \in D |-> IF state \in Listing /\ APPList[i].pack = a.pack THEN [rows[i] EXCEPT !.pid = a.pid] ELSE rows[i]]
    BY <1>2
  <2>2. \A i \in D : rows[i] \in Row1
    BY <1>4
  <2> QED BY <2>1, <2>2 DEF Row1
<1>7. /\ freed \subseteq D
      /\ \A i \in D : i \in off <=> i \notin want /\ rows[i].status
      /\ \A i \in D : i \in on <=> i \in want /\ ~rows[i].status
      /\ off \subseteq D /\ on \subseteq want
  BY <1>2, <1>5
<1>8. after = [i \in D |-> IF i \in freed \cup off THEN AppScenarioDisable(given[i]) ELSE given[i]]
  BY <1>2
<1> HIDE DEF D, G, F, E, N, A
<1>9. /\ after \in [D -> Row1]
      /\ \A i \in D : after[i].handle <=> rows[i].handle /\ i \notin freed \cup off
  <2>1. \A i \in D : given[i] \in Row1
    BY <1>6
  <2>2. \A i \in D : AppScenarioDisable(given[i]) \in Row1 /\ ~AppScenarioDisable(given[i]).handle
    BY <2>1 DEF AppScenarioDisable, Row1
  <2> QED BY <1>6, <1>8, <2>1, <2>2
<1>10. /\ rows' \in [D -> Row1]
       /\ \A i \in D : rows'[i].status <=> i \in want
       /\ \A i \in D : rows'[i].handle <=> IF i \in on THEN granted ELSE rows[i].handle /\ i \notin freed \cup off
  <2>1. \A i \in D : after[i] \in Row1
    BY <1>9
  <2>2. \A i \in D : /\ AppScenarioEnable(after[i], granted) \in Row1
                     /\ AppScenarioEnable(after[i], granted).status
                     /\ AppScenarioEnable(after[i], granted).handle = granted
    BY <2>1 DEF AppScenarioEnable, Row1
  <2>3. ASSUME NEW i \in D
        PROVE  /\ [after[i] EXCEPT !.status = i \in want] \in Row1
               /\ [after[i] EXCEPT !.status = i \in want].status <=> i \in want
               /\ [after[i] EXCEPT !.status = i \in want].handle = after[i].handle
    <3>1. \A t \in BOOLEAN : /\ [after[i] EXCEPT !.status = t] \in Row1
                             /\ [after[i] EXCEPT !.status = t].status = t
                             /\ [after[i] EXCEPT !.status = t].handle = after[i].handle
      BY <2>1 DEF Row1
    <3>2. CASE i \in want
      <4>1. (i \in want) = TRUE
        BY <3>2
      <4> QED BY <3>1, <3>2, <4>1
    <3>3. CASE i \notin want
      <4>1. (i \in want) = FALSE
        BY <3>3
      <4> QED BY <3>1, <3>3, <4>1
    <3> QED BY <3>2, <3>3
  <2> QED BY <1>3, <1>7, <1>9, <2>2, <2>3
<1>11. \A i \in D : rows'[i].handle <=> (rows'[i].status /\ i \notin bare')
  <2> SUFFICES ASSUME NEW i \in D PROVE rows'[i].handle <=> (rows'[i].status /\ i \notin bare')
    OBVIOUS
  <2>1. i \in bare' <=> i \in want /\ IF i \in on THEN ~granted ELSE i \in freed \cup bare
    BY <1>3
  <2>2. CASE i \in on
    BY <1>7, <1>10, <2>1, <2>2
  <2>3. CASE i \notin on /\ i \in want
    BY <1>4, <1>7, <1>10, <2>1, <2>3
  <2>4. CASE i \notin want
    BY <1>4, <1>7, <1>10, <2>4
  <2> QED BY <2>2, <2>3, <2>4
<1>12. fgBoosts' \subseteq {"launch", "act"} /\ fgBoosts \subseteq {"launch", "act"}
  <2>1. fgBoosts \subseteq {"launch", "act"}
    BY DEF RowInv
  <2>2. CASE state = "RESUMED"
    BY <1>3, <2>1, <2>2 DEF Boost
  <2>3. CASE state # "RESUMED"
    BY <1>3, <2>1, <2>3
  <2> QED BY <2>1, <2>2, <2>3
<1>13. locks' = Cardinality(Held(rows')) + Cardinality(fgBoosts')
  <2>1. PICK H, X, Y : /\ H = Held(rows) /\ X = {i \in freed \cup off : given[i].handle}
                       /\ Y = IF granted THEN on ELSE {}
    OBVIOUS
  <2>2. H \subseteq D /\ X \subseteq H /\ Y \subseteq D /\ H \cap Y = {}
    <3>1. \A i : i \in H <=> i \in D /\ rows[i].handle
      BY <1>4, <2>1 DEF Held
    <3>2. \A i : i \in X <=> i \in freed \cup off /\ given[i].handle
      BY <2>1
    <3>3. \A i \in Y : i \in on
      BY <2>1
    <3> QED BY <1>4, <1>5, <1>6, <1>7, <3>1, <3>2, <3>3
  <2>3. IsFiniteSet(H) /\ IsFiniteSet(Y) /\ IsFiniteSet(on)
    BY <1>4, <1>5, <1>7, <2>2, RowsFinite
  <2>4. Held(rows') = (H \ X) \cup Y
    <3>1. \A i : i \in Held(rows') <=> i \in D /\ rows'[i].handle
      BY <1>10 DEF Held
    <3>2. \A i : i \in H <=> i \in D /\ rows[i].handle
      BY <1>4, <2>1 DEF Held
    <3>3. \A i \in D : i \in X <=> i \in freed \cup off /\ rows[i].handle
      BY <1>6, <2>1
    <3>4. \A i : i \in Y <=> i \in on /\ granted
      BY <2>1
    <3>5. \A i \in on : i \in D /\ ~rows[i].handle
      BY <1>4, <1>5, <1>7
    <3> QED BY <1>10, <3>1, <3>2, <3>3, <3>4, <3>5
  <2>5. Counted(H, X, Y, Held(rows'))
    BY <2>2, <2>3, <2>4, CountFacts, Zenon
  <2>6. Cardinality(Y) = IF granted THEN Cardinality(on) ELSE 0
    BY <2>1, FS_EmptySet
  <2>7. PICK B, C : B = fgBoosts \ fgBoosts' /\ C = fgBoosts' \ fgBoosts
    OBVIOUS
  <2>8. /\ IsFiniteSet(fgBoosts) /\ IsFiniteSet(C)
        /\ B \subseteq fgBoosts /\ fgBoosts \cap C = {} /\ (fgBoosts \ B) \cup C = fgBoosts'
    <3>1. IsFiniteSet({"launch", "act"})
      <4>1. IsFiniteSet({"launch"} \cup {"act"})
        BY FS_Singleton, FS_AddElement
      <4>2. {"launch"} \cup {"act"} = {"launch", "act"}
        OBVIOUS
      <4> QED BY <4>1, <4>2
    <3>2. IsFiniteSet(fgBoosts) /\ IsFiniteSet(C)
      BY <1>12, <2>7, <3>1, FS_Subset
    <3> QED BY <2>7, <3>2
  <2>9. Counted(fgBoosts, B, C, fgBoosts')
    BY <2>8, CountFacts, Zenon
  <2>12. locks' = locks - Cardinality(X) + Cardinality(Y) + Cardinality(C) - Cardinality(B)
    BY <1>3, <2>1, <2>6, <2>7
  <2>13. locks = Cardinality(H) + Cardinality(fgBoosts)
    BY <2>1 DEF RowInv
  <2> QED BY <2>5, <2>9, <2>12, <2>13 DEF Counted
<1>14. RowsFit(multi_resumed', APPList', isMultiWindow', currentMode', InForce')
  <2>1. InForce' = want
    <3>1. \A i : i \in InForce' <=> i \in D /\ rows'[i].status
      BY <1>10 DEF InForce
    <3> QED BY <1>5, <1>10, <3>1
  <2>2. RowsFit(multi_resumed', APPList, isMultiWindow', currentMode, want)
    BY <1>0, <1>2, <1>4, RowsForFacts
  <2> QED BY <1>3, <2>1, <2>2
<1>15. D = DOMAIN rows' /\ D = DOMAIN APPList' /\ APPList' \in AppTables
  BY <1>3, <1>4, <1>10
<1> QED BY <1>10, <1>11, <1>12, <1>13, <1>14, <1>15 DEF RowInv

\* A new mode is reported later, unless nothing is on the screen.
LEMMA SetModeKeepsRows ==
  ASSUME RowInv, NEW mode, setCurrentMode(mode)
  PROVE  RowInv'
<1>1. /\ UNCHANGED <<multi_resumed, isMultiWindow, APPList, rows, locks, fgBoosts, bare>>
      /\ ~modeSet /\ currentMode' = mode
  BY DEF setCurrentMode, listVars
<1>2. modeSet' = (multi_resumed # <<>>)
  BY DEF setCurrentMode
<1>3. modeSet' \in BOOLEAN
  BY <1>2, Zenon
<1>4. ~modeSet' => multi_resumed = <<>>
  BY <1>2
<1>5. ASSUME ~modeSet' PROVE RowsFit(multi_resumed', APPList', isMultiWindow', currentMode', InForce')
  <2>1. DOMAIN multi_resumed = {}
    BY <1>4, <1>5
  <2>2. InForce' = InForce
    BY <1>1 DEF InForce
  <2>3. RowsFit(multi_resumed, APPList, isMultiWindow, currentMode, InForce)
    BY <1>1 DEF RowInv
  <2> QED BY <1>1, <2>1, <2>2, <2>3 DEF RowsFit
<1> QED BY <1>1, <1>3, <1>5 DEF RowInv

\* A new table: the locks of the old rows are given back.
LEMMA ReloadKeepsRows ==
  ASSUME RowInv, NEW table \in AppTables, NEW granted \in BOOLEAN, reloadAppListXml(table, granted)
  PROVE  RowInv'
<1> DEFINE W == RowsFor(multi_resumed, table, isMultiWindow, currentMode)
           L == {i \in W : granted /\ \E n \in DOMAIN multi_resumed : multi_resumed[n].app.pack = table[i].pack}
<1>1. /\ APPList' = table
      /\ rows' = [i \in DOMAIN table |-> [FreshRow EXCEPT !.status = i \in W, !.handle = i \in L]]
      /\ locks' = locks - Cardinality(reloadReleases \cap Held(rows)) + Cardinality(L)
      /\ bare' = W \ L
      /\ UNCHANGED <<multi_resumed, isMultiWindow, currentMode, modeSet, fgBoosts>>
  BY DEF reloadAppListXml, listVars
<1>2. W \subseteq DOMAIN table /\ RowsFit(multi_resumed, table, isMultiWindow, currentMode, W)
  BY RowsForFacts
<1>3. L \subseteq W
  OBVIOUS
<1> HIDE DEF W, L
<1>4. /\ DOMAIN rows' = DOMAIN table
      /\ \A i \in DOMAIN table : /\ rows'[i] \in Row1
                                 /\ rows'[i].status <=> i \in W
                                 /\ rows'[i].handle <=> i \in L
  <2> SUFFICES ASSUME NEW i \in DOMAIN table
               PROVE  /\ rows'[i] \in Row1
                      /\ rows'[i].status <=> i \in W
                      /\ rows'[i].handle <=> i \in L
    BY <1>1
  <2>1. rows'[i] = [pid |-> 0, status |-> i \in W, handle |-> i \in L]
    BY <1>1 DEF FreshRow
  <2>2. \A t, u \in BOOLEAN : [pid |-> 0, status |-> t, handle |-> u] \in Row1
    BY DEF Row1
  <2>3. PICK t \in BOOLEAN, u \in BOOLEAN : t = (i \in W) /\ u = (i \in L)
    <3>1. (i \in W) \in BOOLEAN /\ (i \in L) \in BOOLEAN
      OBVIOUS
    <3> QED BY <3>1
  <2>4. rows'[i] = [pid |-> 0, status |-> t, handle |-> u]
    BY <2>1, <2>3, Zenon
  <2>5. rows'[i] \in Row1 /\ rows'[i].status = t /\ rows'[i].handle = u
    BY <2>2, <2>4
  <2> QED BY <2>3, <2>5
<1>5. rows' \in [DOMAIN table -> Row1]
  <2>1. rows' = [i \in DOMAIN table |-> rows'[i]]
    BY <1>1
  <2> QED BY <1>4, <2>1
<1>6. /\ Held(rows') = L
      /\ reloadReleases \cap Held(rows) = Held(rows)
  <2>1. Held(rows') = L
    BY <1>2, <1>3, <1>4 DEF Held
  <2>2. \A i \in DOMAIN rows : rows[i].handle => rows[i].status
    BY DEF RowInv
  <2> QED BY <2>1, <2>2 DEF Held, reloadReleases
<1>7. locks' = Cardinality(Held(rows')) + Cardinality(fgBoosts')
  <2>1. PICK H : H = Held(rows)
    OBVIOUS
  <2>2. locks = Cardinality(H) + Cardinality(fgBoosts)
    BY <2>1 DEF RowInv
  <2>3. locks' = locks - Cardinality(H) + Cardinality(L)
    BY <1>1, <1>6, <2>1
  <2>4. IsFiniteSet(H) /\ IsFiniteSet(L)
    <3>1. L \subseteq DOMAIN table /\ H \subseteq DOMAIN APPList /\ APPList \in AppTables
      BY <1>2, <1>3, <2>1 DEF RowInv, Held
    <3> QED BY <3>1, RowsFinite
  <2>5. IsFiniteSet(fgBoosts)
    <3>1. IsFiniteSet({"launch"} \cup {"act"})
      BY FS_Singleton, FS_AddElement
    <3>2. fgBoosts \subseteq {"launch"} \cup {"act"}
      BY DEF RowInv
    <3> QED BY <3>1, <3>2, FS_Subset
  <2>6. Cardinality(H) \in Nat /\ Cardinality(L) \in Nat /\ Cardinality(fgBoosts) \in Nat
    BY <2>4, <2>5, FS_CardinalityType
  <2>7. Cardinality(Held(rows')) = Cardinality(L) /\ Cardinality(fgBoosts') = Cardinality(fgBoosts)
    BY <1>1, <1>6
  <2> QED BY <2>2, <2>3, <2>6, <2>7
<1>8. \A i \in DOMAIN rows' : rows'[i].handle <=> (rows'[i].status /\ i \notin bare')
  BY <1>1, <1>3, <1>4
<1>9. RowsFit(multi_resumed', APPList', isMultiWindow', currentMode', InForce')
  <2>1. InForce' = W
    BY <1>2, <1>4 DEF InForce
  <2> QED BY <1>1, <1>2, <2>1
<1> QED BY <1>1, <1>5, <1>7, <1>8, <1>9 DEF RowInv

\* A step that leaves the rows and the list alone.
LEMMA QuietKeepsRows ==
  ASSUME RowInv, UNCHANGED <<multi_resumed, isMultiWindow, rowVars>>
  PROVE  RowInv'
BY DEF RowInv, rowVars, InForce

\* The rows' invariant holds at first and every step keeps it.
LEMMA RowsKept ==
  /\ AppListInit => ListInv /\ RowInv
  /\ ListInv /\ RowInv /\ [AppListNext]_appVars => ListInv' /\ RowInv'
<1>1. AppListInit => ListInv /\ RowInv
  <2> SUFFICES ASSUME AppListInit PROVE RowInv
    BY ListKept DEF AppListInit
  <2>1. /\ APPList \in AppTables /\ rows = [i \in DOMAIN APPList |-> FreshRow] /\ fgBoosts = {}
        /\ modeSet = FALSE /\ locks = 0 /\ multi_resumed = <<>>
    BY DEF AppListInit, RowInit, ListInit
  <2>2. FreshRow \in Row1 /\ ~FreshRow.handle /\ ~FreshRow.status
    BY DEF FreshRow, Row1
  <2>3. Held(rows) = {} /\ InForce = {}
    BY <2>1, <2>2 DEF Held, InForce
  <2>4. locks = Cardinality(Held(rows)) + Cardinality(fgBoosts)
    <3>1. Cardinality(Held(rows)) = 0 /\ Cardinality(fgBoosts) = 0
      BY <2>1, <2>3, FS_EmptySet, Zenon
    <3> QED BY <2>1, <3>1
  <2>5. RowsFit(multi_resumed, APPList, isMultiWindow, currentMode, InForce)
    BY <2>1, <2>3 DEF RowsFit
  <2> QED BY <2>1, <2>2, <2>4, <2>5 DEF RowInv
<1>2. ListInv /\ RowInv /\ [AppListNext]_appVars => ListInv' /\ RowInv'
  <2> SUFFICES ASSUME ListInv, RowInv, [AppListNext]_appVars PROVE RowInv'
    BY ListKept
  <2>1. ASSUME NEW a \in Activity, NEW state, NEW g \in BOOLEAN, NotifyRows(a, state, g), UNCHANGED modeSet
        PROVE  RowInv'
    <3>1. a.pid \in Nat /\ modeSet' \in BOOLEAN
      BY <2>1, ResumedAssumption DEF RowInv
    <3> QED BY <2>1, <3>1, NotifyRowsKeeps
  <2>2. CASE FpsRead /\ UNCHANGED rowVars
    BY <2>2, QuietKeepsRows DEF FpsRead
  <2>3. ASSUME NEW g \in BOOLEAN, FpsReport, NotifyRows(fpsSeen, "FPS_UPDATED", g), UNCHANGED modeSet
        PROVE  RowInv'
    <3>1. fpsSeen \in Activity
      BY <2>3 DEF FpsReport, ListInv
    <3> QED BY <2>1, <2>3, <3>1
  <2>4. ASSUME NEW mode \in AppMode, setCurrentMode(mode) PROVE RowInv'
    BY <2>4, SetModeKeepsRows
  <2>5. ASSUME NEW g \in BOOLEAN, ModeReport(g) PROVE RowInv'
    <3>1. NotifyRows(Nobody, "MODE_UPDATED", g) /\ modeSet' = FALSE
      BY <2>5 DEF ModeReport
    <3>2. "MODE_UPDATED" \notin Listing
      BY DEF Listing
    <3> QED BY <3>1, <3>2, NotifyRowsKeeps, Zenon
  <2>6. ASSUME NEW table \in AppTables, NEW g \in BOOLEAN, reloadAppListXml(table, g) PROVE RowInv'
    BY <2>6, ReloadKeepsRows
  <2>7. CASE UNCHANGED appVars
    BY <2>7, QuietKeepsRows DEF appVars, listVars
  <2> QED BY <2>1, <2>2, <2>3, <2>4, <2>5, <2>6, <2>7 DEF AppListNext
<1> QED BY <1>1, <1>2

\* Whatever is notified, refused, reloaded or switched: no lock at the power HAL is lost, and the
\* rows in force are those for the activities listed (notifyAPPstate, reloadAppListXml of
\* perfAPPListScenario.cpp).
THEOREM RowsAreFollowed == AppListSpec => []RowsFollow
BY RowsKept, RowInvFollows, PTL DEF AppListSpec

-----------------------------------------------------------------------------
(***************************************************************************)
(* The thread hints.                                                       *)
(***************************************************************************)
Policy == DOMAIN ThreadHintCfg
Hint1 == [pid : Nat, enabled : BOOLEAN]

\* The policies of a listed application have a process, unless they were read again since.
HintsKnown(h, again, apps) ==
  \A k \in Policy \ again, b \in Listed(apps) : HintFor(k, b.pack) => h[k].pid # 0

\* Policies for one package have one process.
PolicyInv ==
  /\ hints \in [Policy -> Hint1] /\ hintController \in BOOLEAN /\ hintsFresh \in BOOLEAN
  /\ resetting \in 0 .. Len(ThreadHintCfg) + 1 /\ reloaded \subseteq Policy
  /\ HintsKnown(hints, reloaded, multi_resumed)
  /\ \A j, k \in Policy : ThreadHintCfg[j].package = ThreadHintCfg[k].package => hints[j].pid = hints[k].pid
  /\ HintsFollow

\* Places are naturals with a bound.
LEMMA PlaceFacts ==
  ASSUME NEW m \in Nat, NEW cands \in SUBSET ((1 .. m) \X Policy)
  PROVE  \E b \in Nat : \A c \in cands : Place(c) \in Nat /\ Place(c) <= b
<1>1. PICK n \in Nat : n = Len(ThreadHintCfg) /\ Policy = 1 .. n
  BY ThreadHintAssumption DEF Policy
<1>2. \A x \in 1 .. m : x * (n + 1) \in Nat /\ x * (n + 1) <= m * (n + 1)
  OBVIOUS
<1>3. PICK b \in Nat : b = m * (n + 1)
  OBVIOUS
<1>4. ASSUME NEW c \in cands PROVE Place(c) \in Nat /\ Place(c) <= b + n
  <2>1. c[1] \in 1 .. m /\ c[2] \in 1 .. n
    BY <1>1
  <2>2. PICK p \in Nat : p = c[1] * (n + 1) /\ p <= b
    BY <1>2, <1>3, <2>1
  <2>3. Place(c) = p + c[2]
    BY <1>1, <2>2 DEF Place
  <2> QED BY <2>1, <2>2, <2>3
<1> QED BY <1>4

Sets(c) == ThreadHintCfg[c[2]].value # NotSet

\* One of the candidates of a group decides: it sets the parameter, and is the most specific
\* that does, if any sets it.
Decides(cands, c) ==
  \A d \in cands : GroupOf(d[2]) = GroupOf(c[2]) /\ Sets(d) => Sets(c) /\ Specificity(d[2]) <= Specificity(c[2])

\* What a group writes is the value of the candidate that decides.
LEMMA GroupFacts ==
  ASSUME NEW m \in Nat, NEW cands \in SUBSET ((1 .. m) \X Policy), NEW e \in cands
  PROVE  \E c \in cands :
           /\ GroupOf(c[2]) = GroupOf(e[2])
           /\ DecideGroup(cands, GroupOf(e[2])) = ThreadHintCfg[c[2]].value
           /\ Decides(cands, c)
<1>1. PICK g : g = GroupOf(e[2])
  OBVIOUS
<1>2. PICK mine : mine = {c \in cands : GroupOf(c[2]) = g /\ ThreadHintCfg[c[2]].value # NotSet}
  OBVIOUS
<1>3. PICK best : best = {c \in mine : \A d \in mine : Specificity(d[2]) <= Specificity(c[2])}
  OBVIOUS
<1>4. DecideGroup(cands, g) =
        IF mine = {} THEN NotSet
        ELSE ThreadHintCfg[(CHOOSE c \in best : \A d \in best : Place(c) <= Place(d))[2]].value
  BY <1>2, <1>3 DEF DecideGroup
<1>5. \A k : Specificity(k) \in Nat /\ Specificity(k) <= 22
  BY DEF Specificity
<1>6. CASE mine = {}
  <2>1. \A d \in cands : GroupOf(d[2]) = g => ~Sets(d)
    BY <1>2, <1>6 DEF Sets
  <2>2. ThreadHintCfg[e[2]].value = NotSet
    BY <1>1, <2>1 DEF Sets
  <2>3. Decides(cands, e)
    BY <1>1, <2>1 DEF Decides
  <2> QED BY <1>1, <1>4, <1>6, <2>2, <2>3
<1>7. CASE mine # {}
  <2>1. best # {}
    <3>1. PICK S : S = {Specificity(c[2]) : c \in mine}
      OBVIOUS
    <3>2. S \in SUBSET Nat /\ S # {} /\ \A n \in S : n <= 22
      BY <1>5, <1>7, <3>1
    <3>3. PICK n \in S : \A o \in S : o <= n
      BY <3>2, GreatestOf
    <3>4. PICK c \in mine : n = Specificity(c[2])
      BY <3>1, <3>3
    <3>5. c \in best
      BY <1>3, <3>1, <3>3, <3>4
    <3> QED BY <3>5
  <2>2. \E c \in best : \A d \in best : Place(c) <= Place(d)
    <3>1. best \subseteq cands
      BY <1>2, <1>3
    <3>2. \A c \in cands : Place(c) \in Nat
      BY PlaceFacts
    <3>3. PICK S : S = {Place(c) : c \in best}
      OBVIOUS
    <3>4. S \in SUBSET Nat /\ S # {}
      BY <2>1, <3>1, <3>2, <3>3
    <3>5. PICK n \in S : \A o \in S : n <= o
      BY <3>4, LeastNat
    <3> QED BY <3>3, <3>5
  <2>3. PICK x : x = CHOOSE c \in best : \A d \in best : Place(c) <= Place(d)
    OBVIOUS
  <2>4. x \in best
    BY <2>2, <2>3
  <2>5. x \in cands /\ GroupOf(x[2]) = g /\ Sets(x) /\ \A d \in mine : Specificity(d[2]) <= Specificity(x[2])
    BY <1>2, <1>3, <2>4 DEF Sets
  <2>6. Decides(cands, x)
    <3>1. \A d \in cands : GroupOf(d[2]) = g /\ Sets(d) => d \in mine
      BY <1>2 DEF Sets
    <3> QED BY <2>5, <3>1 DEF Decides
  <2>7. DecideGroup(cands, g) = ThreadHintCfg[x[2]].value
    BY <1>4, <1>7, <2>3
  <2> QED BY <1>1, <2>5, <2>6, <2>7
<1> QED BY <1>6, <1>7

\* A candidate's thread is written once, with the value of a candidate for it.
Decided(cands, h, e) ==
  \E d \in cands, c \in cands :
    /\ Key(d[2], h) = Key(e[2], h) /\ GroupOf(c[2]) = GroupOf(d[2])
    /\ [key |-> Key(e[2], h), value |-> ThreadHintCfg[c[2]].value] \in decideFinalThreadHintPolicy(cands, h)
    /\ \A w \in decideFinalThreadHintPolicy(cands, h) : w.key = Key(e[2], h) => w.value = ThreadHintCfg[c[2]].value
    /\ Decides(cands, c)

\* What is written for a thread is the value of the candidate that decides for its group.
LEMMA DecideFacts ==
  ASSUME NEW m \in Nat, NEW cands \in SUBSET ((1 .. m) \X Policy), NEW h, NEW e \in cands
  PROVE  Decided(cands, h, e)
<1> DEFINE FirstIn(g) == Min({Place(c) : c \in {d \in cands : GroupOf(d[2]) = g}})
           For(key) == {GroupOf(c[2]) : c \in {d \in cands : Key(d[2], h) = key}}
           keys == {Key(c[2], h) : c \in cands}
           Final(key) == CHOOSE g \in For(key) : \A f \in For(key) : FirstIn(f) <= FirstIn(g)
<1>1. decideFinalThreadHintPolicy(cands, h) = {[key |-> key, value |-> DecideGroup(cands, Final(key))] : key \in keys}
  BY DEF decideFinalThreadHintPolicy
<1>2. PICK b \in Nat : \A c \in cands : Place(c) \in Nat /\ Place(c) <= b
  BY PlaceFacts
<1>3. PICK key : key = Key(e[2], h)
  OBVIOUS
<1>4. GroupOf(e[2]) \in For(key) /\ key \in keys
  BY <1>3
<1>5. ASSUME NEW g \in For(key) PROVE FirstIn(g) \in Nat /\ FirstIn(g) <= b
  <2>1. PICK P : P = {Place(c) : c \in {d \in cands : GroupOf(d[2]) = g}}
    OBVIOUS
  <2>2. PICK d \in cands : GroupOf(d[2]) = g
    BY <1>5
  <2>3. P \in SUBSET Nat /\ P # {} /\ \A n \in P : n <= b
    BY <1>2, <2>1, <2>2
  <2>4. Min(P) \in P
    BY <2>3, MinFacts
  <2> QED BY <2>1, <2>3, <2>4
<1>6. \A g \in For(key) : \E d \in cands : g = GroupOf(d[2]) /\ Key(d[2], h) = key
  OBVIOUS
<1> HIDE DEF FirstIn, For, keys
<1>7. \E g \in For(key) : \A f \in For(key) : FirstIn(f) <= FirstIn(g)
  <2>1. PICK S : S = {FirstIn(g) : g \in For(key)}
    OBVIOUS
  <2>2. S \in SUBSET Nat /\ S # {} /\ \A n \in S : n <= b
    BY <1>4, <1>5, <2>1
  <2>3. PICK n \in S : \A o \in S : o <= n
    BY <2>2, GreatestOf
  <2> QED BY <2>1, <2>3
<1>8. PICK g : g = Final(key) /\ g \in For(key)
  BY <1>7
<1> HIDE DEF Final
<1>9. PICK d \in cands : g = GroupOf(d[2]) /\ Key(d[2], h) = key
  BY <1>6, <1>8
<1>10. PICK c \in cands : /\ GroupOf(c[2]) = g /\ DecideGroup(cands, g) = ThreadHintCfg[c[2]].value
                          /\ Decides(cands, c)
  BY <1>9, GroupFacts
<1>11. [key |-> key, value |-> DecideGroup(cands, g)] \in decideFinalThreadHintPolicy(cands, h)
  BY <1>1, <1>4, <1>8
<1>12. \A w \in decideFinalThreadHintPolicy(cands, h) : w.key = key => w.value = DecideGroup(cands, g)
  BY <1>1, <1>8
<1> QED BY <1>3, <1>9, <1>10, <1>11, <1>12 DEF Decided

\* A policy for a frame rate that counts is more specific than a common one, and then one for
\* a window mode.
LEMMA SpecificFacts ==
  ASSUME NEW j, NEW k, Specificity(k) <= Specificity(j)
  PROVE  ~MoreSpecific(k, j)
<1>1. \A i : Specificity(i) \in Int
  BY DEF Specificity
<1>2. CASE ThreadHintCfg[k].fps \in {60, 90, 120} /\ ThreadHintCfg[j].fps = AnyFps
  <2>1. Specificity(k) >= 21
    BY <1>2 DEF Specificity, AnyFps
  <2>2. Specificity(j) <= 12
    BY <1>2 DEF Specificity
  <2> QED BY <1>1, <2>1, <2>2
<1>3. CASE /\ ThreadHintCfg[k].fps = ThreadHintCfg[j].fps
           /\ ThreadHintCfg[k].window # "Common" /\ ThreadHintCfg[j].window = "Common"
  <2>1. PICK f \in Int : /\ f = 10 * (IF ThreadHintCfg[k].fps = AnyFps THEN 1
                                      ELSE IF ThreadHintCfg[k].fps \in {60, 90, 120} THEN 2 ELSE 0)
                         /\ f = 10 * (IF ThreadHintCfg[j].fps = AnyFps THEN 1
                                      ELSE IF ThreadHintCfg[j].fps \in {60, 90, 120} THEN 2 ELSE 0)
    BY <1>3
  <2>2. Specificity(k) = f + 2 /\ Specificity(j) = f + 1
    BY <1>3, <2>1 DEF Specificity
  <2> QED BY <1>1, <2>1, <2>2
<1> QED BY <1>2, <1>3 DEF MoreSpecific

\* What is written for a key, and what is left of a value that may not be set.
WrittenFor(loom, ws, key) == {x.value : x \in {v \in Write(loom, ws) : v.key = key}}
IfSet(value) == {value} \ {NotSet}

\* w is what the list ws of writes says of the thread key.
SaysOf(ws, key, w) ==
  /\ w \in ws /\ w.key = key /\ key[1] # 0
  /\ \A v \in ws : v.key = key => v.value = w.value

\* What is written for a thread is what the kernel has for it.
LEMMA WrittenFacts ==
  ASSUME NEW loom, NEW ws, NEW key, NEW w, SaysOf(ws, key, w), hintController
  PROVE  WrittenFor(loom, ws, key) = IfSet(w.value)
<1>1. \A x : x \in Write(loom, ws) /\ x.key = key => x \in ws /\ x.value # NotSet
  BY DEF Write, SaysOf
<1>2. w.value # NotSet => w \in Write(loom, ws)
  BY DEF Write, SaysOf
<1> QED BY <1>1, <1>2 DEF WrittenFor, IfSet, SaysOf

\* A report adds to the list at most the activity it is about.
ListGrows(a, state) ==
  \A b \in Listed(multi_resumed') : b \in Listed(multi_resumed) \/ (state \in Listing /\ b = a)

\* Whatever is reported.
LEMMA ListGrowth ==
  ASSUME ListInv, NEW a \in Activity, NEW state \in Listing \cup {"PAUSED", "DEAD"}, NotifyList(a, state)
  PROVE  ListGrows(a, state)
<1>1. /\ state \in Listing => multi_resumed' = Resume(multi_resumed, a)
      /\ state = "PAUSED" => multi_resumed' = Pause(multi_resumed, a)
      /\ state = "DEAD" => multi_resumed' = Die(multi_resumed, a.pid)
  BY NotifyFacts
<1>2. GoodApps(multi_resumed) /\ currentFPS \in Int
  BY DEF ListInv
<1>3. CASE state \in Listing
  <2>1. Listed(multi_resumed') \subseteq Listed(multi_resumed) \cup {a}
    BY <1>1, <1>2, <1>3, ResumeFacts
  <2> QED BY <1>3, <2>1 DEF ListGrows
<1>4. CASE state = "PAUSED"
  <2>1. Listed(multi_resumed') = Listed(multi_resumed) \ {a}
    BY <1>1, <1>2, <1>4, PauseFacts
  <2> QED BY <2>1 DEF ListGrows
<1>5. CASE state = "DEAD"
  <2>1. Listed(multi_resumed') = {b \in Listed(multi_resumed) : b.pid # a.pid}
    BY <1>1, <1>2, <1>5, DieFacts
  <2> QED BY <2>1 DEF ListGrows
<1> QED BY <1>3, <1>4, <1>5

\* A policy has the value of one that is in force.
Follows(loom, h, k) ==
  \E j \in Policy :
    /\ h[j].enabled /\ Key(j, h) = Key(k, h)
    /\ {w.value : w \in {v \in loom : v.key = Key(k, h)}} = Tells(j)
    /\ GroupOf(j) = GroupOf(k) /\ Tells(k) # {} => Tells(j) # {} /\ ~MoreSpecific(k, j)

\* That every policy does is what the property says.
LEMMA FollowsFacts ==
  ASSUME DOMAIN hints' = Policy,
         hintController' => \A k \in Policy \ reloaded' : hints'[k].enabled => Follows(gameLoom', hints', k)
  PROVE  HintsFollow'
<1> SUFFICES ASSUME hintController', NEW k \in {i \in DOMAIN hints' \ reloaded' : hints'[i].enabled}
             PROVE  \E j \in {i \in DOMAIN hints' : hints'[i].enabled /\ Key(i, hints') = Key(k, hints')} :
                      /\ Told(k)' = Tells(j)
                      /\ GroupOf(j) = GroupOf(k) /\ Tells(k) # {} => Tells(j) # {} /\ ~MoreSpecific(k, j)
  BY Zenon DEF HintsFollow
<1>1. Follows(gameLoom', hints', k)
  OBVIOUS
<1>2. PICK j \in Policy :
        /\ hints'[j].enabled /\ Key(j, hints') = Key(k, hints')
        /\ {w.value : w \in {v \in gameLoom' : v.key = Key(k, hints')}} = Tells(j)
        /\ GroupOf(j) = GroupOf(k) /\ Tells(k) # {} => Tells(j) # {} /\ ~MoreSpecific(k, j)
  BY <1>1, Zenon DEF Follows
<1>3. Told(k)' = Tells(j)
  BY <1>2 DEF Told
<1>4. j \in {i \in DOMAIN hints' : hints'[i].enabled /\ Key(i, hints') = Key(k, hints')}
  BY <1>2
<1> QED BY <1>2, <1>3, <1>4

\* A notification: what ended is reset before what is in force is written.
LEMMA NotifyHintsKeeps ==
  ASSUME PolicyInv, NEW m \in Nat, DOMAIN multi_resumed' = 1 .. m,
         NEW a, NEW state, a.pid \in Nat \ {0}, ListGrows(a, state), NotifyHints(a, state)
  PROVE  PolicyInv'
<1>1. PICK cands, given, gone :
        /\ cands = Candidates(multi_resumed', isMultiWindow') /\ given = GivenTo(a, state)
        /\ hints' = [k \in DOMAIN given |-> [given[k] EXCEPT !.enabled = \E c \in cands : c[2] = k]]
        /\ gameLoom' = Applied(gameLoom, gone, cands, given)
  BY Zenon DEF NotifyHints
<1>2. /\ hintsFresh' = TRUE /\ hintController' = hintController /\ resetting' = resetting
      /\ reloaded' = {k \in reloaded : ~(state \in Listing /\ HintFor(k, a.pack))}
  BY Zenon DEF NotifyHints
<1>3. PICK cand : cand = {c[2] : c \in cands}
  OBVIOUS
<1>4. /\ cands \in SUBSET ((1 .. m) \X Policy) /\ cand \subseteq Policy
      /\ \A k : k \in cand <=> \E e \in cands : e[2] = k
  <2>1. \A n : findThreadHintPolicyIdx(multi_resumed'[n], isMultiWindow') \subseteq Policy
    BY DEF findThreadHintPolicyIdx, Policy
  <2>2. ASSUME NEW e \in cands PROVE e \in (1 .. m) \X Policy
    <3>1. PICK n \in 1 .. m : e \in {n} \X findThreadHintPolicyIdx(multi_resumed'[n], isMultiWindow')
      BY <1>1, <2>2 DEF Candidates
    <3> QED BY <2>1, <3>1
  <2> QED BY <1>3, <2>2
<1>5. /\ hints \in [Policy -> Hint1] /\ hintController \in BOOLEAN /\ reloaded \subseteq Policy
      /\ resetting \in 0 .. Len(ThreadHintCfg) + 1
      /\ \A j, k \in Policy : ThreadHintCfg[j].package = ThreadHintCfg[k].package => hints[j].pid = hints[k].pid
  BY DEF PolicyInv
<1>6. given \in [Policy -> Hint1]
  <2>1. ASSUME NEW k \in Policy PROVE GivenTo(a, state)[k] \in Hint1
    <3>1. hints[k] \in Hint1
      BY <1>5
    <3> QED BY <1>5, <3>1 DEF Hint1, GivenTo
  <2> QED BY <1>1, <1>5, <2>1 DEF GivenTo
<1>61. ASSUME NEW k \in Policy
       PROVE  /\ state \in Listing /\ HintFor(k, a.pack) => given[k].pid = a.pid
              /\ ~(state \in Listing /\ HintFor(k, a.pack)) => given[k] = hints[k]
  <2>1. hints[k] \in Hint1
    BY <1>5
  <2> QED BY <1>1, <1>5, <2>1 DEF Hint1, GivenTo
<1>7. ASSUME NEW j \in Policy, NEW k \in Policy, ThreadHintCfg[j].package = ThreadHintCfg[k].package
      PROVE  given[j].pid = given[k].pid
  <2>1. HintFor(j, a.pack) <=> HintFor(k, a.pack)
    BY <1>7 DEF HintFor
  <2>2. hints[j].pid = hints[k].pid
    BY <1>5, <1>7
  <2> QED BY <1>61, <2>1, <2>2
<1>8. ASSUME NEW k \in Policy
      PROVE  /\ hints'[k] \in Hint1 /\ hints'[k].pid = given[k].pid
             /\ hints'[k].enabled <=> k \in cand
             /\ Key(k, hints') = Key(k, given)
  <2>1. PICK t \in BOOLEAN : t = (\E c \in cands : c[2] = k)
    <3>1. (\E c \in cands : c[2] = k) \in BOOLEAN
      OBVIOUS
    <3> QED BY <3>1
  <2>2. hints'[k] = [given[k] EXCEPT !.enabled = t]
    <3>1. hints'[k] = [given[k] EXCEPT !.enabled = \E c \in cands : c[2] = k]
      BY <1>1, <1>6
    <3> QED BY <2>1, <3>1, Zenon
  <2>3. given[k] \in Hint1
    BY <1>6
  <2>4. hints'[k] \in Hint1 /\ hints'[k].pid = given[k].pid /\ hints'[k].enabled = t
    BY <2>2, <2>3 DEF Hint1
  <2>5. t <=> k \in cand
    BY <1>4, <2>1
  <2> QED BY <2>4, <2>5 DEF Key
<1>9. DOMAIN hints' = Policy /\ hints' \in [Policy -> Hint1]
  <2>1. DOMAIN hints' = Policy
    BY <1>1, <1>6
  <2>2. hints' = [k \in Policy |-> hints'[k]]
    BY <1>1, <1>6
  <2> QED BY <1>8, <2>1, <2>2
<1>10. \A j, k \in Policy : ThreadHintCfg[j].package = ThreadHintCfg[k].package => hints'[j].pid = hints'[k].pid
  BY <1>7, <1>8
<1>11. HintsKnown(hints', reloaded', multi_resumed')
  <2> SUFFICES ASSUME NEW k \in Policy \ reloaded', NEW b \in Listed(multi_resumed'), HintFor(k, b.pack)
               PROVE  hints'[k].pid # 0
    BY DEF HintsKnown
  <2>1. k \in Policy
    OBVIOUS
  <2>2. CASE state \in Listing /\ HintFor(k, a.pack)
    BY <1>61, <1>8, <2>1, <2>2
  <2>3. CASE ~(state \in Listing /\ HintFor(k, a.pack))
    <3>1. k \notin reloaded
      BY <1>2, <2>3
    <3>2. b \in Listed(multi_resumed)
      BY <2>3 DEF ListGrows
    <3>3. hints[k].pid # 0
      BY <2>1, <3>1, <3>2 DEF PolicyInv, HintsKnown
    <3>4. given[k] = hints[k]
      BY <1>61, <2>1, <2>3
    <3> QED BY <1>8, <2>1, <3>3, <3>4
  <2> QED BY <2>2, <2>3
<1>12. ASSUME hintController, NEW k \in Policy, k \notin reloaded', hints'[k].enabled
       PROVE  Follows(gameLoom', hints', k)
  <2>1. PICK e \in cands : e[2] = k
    BY <1>4, <1>8, <1>12
  <2>2. hints'[k].pid # 0
    <3>1. e[1] \in DOMAIN multi_resumed' /\ HintFor(k, multi_resumed'[e[1]].app.pack)
      BY <1>1, <2>1 DEF Candidates, findThreadHintPolicyIdx
    <3>2. multi_resumed'[e[1]].app \in Listed(multi_resumed')
      BY <3>1 DEF Listed
    <3> QED BY <1>11, <1>12, <3>1, <3>2 DEF HintsKnown
  <2>3. PICK d \in cands, c \in cands :
           /\ Key(d[2], given) = Key(e[2], given) /\ GroupOf(c[2]) = GroupOf(d[2])
           /\ [key |-> Key(e[2], given), value |-> ThreadHintCfg[c[2]].value] \in decideFinalThreadHintPolicy(cands, given)
           /\ \A w \in decideFinalThreadHintPolicy(cands, given) :
                w.key = Key(e[2], given) => w.value = ThreadHintCfg[c[2]].value
           /\ Decides(cands, c)
    <3>1. Decided(cands, given, e)
      BY <1>4, DecideFacts
    <3> QED BY <3>1, Zenon DEF Decided
  <2>4. PICK j \in Policy : j = c[2] /\ j \in cand
    BY <1>4
  <2>5. PICK ws, w, loom : /\ ws = decideFinalThreadHintPolicy(cands, given)
                           /\ w = [key |-> Key(e[2], given), value |-> ThreadHintCfg[c[2]].value]
                           /\ loom = disableThreadHintPolicy(gameLoom, gone, given)
    OBVIOUS
  <2>6. w \in ws /\ w.key = Key(k, given) /\ w.value = ThreadHintCfg[j].value
    BY <2>1, <2>3, <2>4, <2>5
  <2>7. \A v \in ws : v.key = Key(k, given) => v.value = w.value
    BY <2>1, <2>3, <2>4, <2>5, <2>6
  <2>8. Key(k, given)[1] # 0
    BY <1>8, <2>2 DEF Key
  <2>9. {x.value : x \in {v \in Write(loom, ws) : v.key = Key(k, given)}} = {w.value} \ {NotSet}
    <3>1. PICK key : key = Key(k, given)
      OBVIOUS
    <3>2. w.key = key /\ key[1] # 0 /\ \A v \in ws : v.key = key => v.value = w.value
      BY <2>6, <2>7, <2>8, <3>1, Zenon
    <3>3. WrittenFor(loom, ws, key) = IfSet(w.value)
      <4>1. SaysOf(ws, key, w)
        BY <2>6, <3>2 DEF SaysOf
      <4> QED BY <1>12, <4>1, WrittenFacts
    <3> QED BY <3>1, <3>3 DEF WrittenFor, IfSet
  <2>10. gameLoom' = Write(loom, ws)
    BY <1>1, <2>5 DEF Applied
  <2>11. {x.value : x \in {v \in gameLoom' : v.key = Key(k, hints')}} = Tells(j)
    BY <1>8, <2>6, <2>9, <2>10 DEF Tells
  <2>12. Key(j, given) = Key(k, given)
    <3>1. PICK i \in Policy : i = d[2]
      BY <1>4
    <3>2. ThreadHintCfg[j].package = ThreadHintCfg[i].package /\ ThreadHintCfg[j].thread = ThreadHintCfg[i].thread
      BY <2>3, <2>4, <3>1 DEF GroupOf
    <3>3. given[j].pid = given[i].pid
      BY <1>7, <3>2
    <3>4. Key(j, given) = Key(i, given)
      BY <3>2, <3>3 DEF Key
    <3> QED BY <2>1, <2>3, <3>1, <3>4
  <2>13. ASSUME GroupOf(j) = GroupOf(k), Tells(k) # {} PROVE Tells(j) # {} /\ ~MoreSpecific(k, j)
    <3>1. Sets(e)
      BY <2>1, <2>13 DEF Sets, Tells
    <3>2. Sets(c) /\ Specificity(e[2]) <= Specificity(c[2])
      BY <2>1, <2>3, <2>4, <2>13, <3>1 DEF Decides
    <3>3. Tells(j) # {}
      BY <2>4, <3>2 DEF Sets, Tells
    <3>4. ~MoreSpecific(k, j)
      BY <2>1, <2>4, <3>2, SpecificFacts
    <3> QED BY <3>3, <3>4
  <2>14. hints'[j].enabled /\ Key(j, hints') = Key(k, hints')
    BY <1>8, <2>4, <2>12
  <2> QED BY <2>11, <2>13, <2>14 DEF Follows
<1>13. HintsFollow'
  <2>1. hintController => \A k \in Policy \ reloaded' : hints'[k].enabled => Follows(gameLoom', hints', k)
    BY <1>12
  <2> QED BY <1>2, <1>9, <2>1, FollowsFacts
<1>14. reloaded' \subseteq Policy /\ resetting' \in 0 .. Len(ThreadHintCfg) + 1
  BY <1>2, <1>5
<1> QED BY <1>2, <1>5, <1>9, <1>10, <1>11, <1>13, <1>14 DEF PolicyInv

\* Policies read again have no process.
LEMMA ReloadHintsKeeps ==
  ASSUME PolicyInv, ReloadHints
  PROVE  PolicyInv'
<1>1. /\ hints \in [Policy -> Hint1] /\ hintController' = hintController /\ hintsFresh' = hintsFresh
      /\ resetting' = resetting
  BY DEF PolicyInv, ReloadHints
<1>2. \A k \in Policy : hints'[k] = [hints[k] EXCEPT !.pid = 0] /\ hints[k] \in Hint1
  BY <1>1 DEF ReloadHints
<1>3. ASSUME NEW k \in Policy PROVE hints'[k] \in Hint1 /\ hints'[k].pid = 0
  <2>1. \A r \in Hint1 : [r EXCEPT !.pid = 0] \in Hint1 /\ [r EXCEPT !.pid = 0].pid = 0
    BY DEF Hint1
  <2> QED BY <1>2, <2>1
<1>4. DOMAIN hints' = Policy /\ hints' \in [Policy -> Hint1] /\ reloaded' = Policy
  <2>1. DOMAIN hints' = Policy /\ hints' = [k \in Policy |-> hints'[k]]
    BY <1>1 DEF ReloadHints
  <2>2. reloaded' = Policy
    BY <1>1 DEF ReloadHints
  <2> QED BY <1>3, <2>1, <2>2
<1>5. HintsFollow'
  BY <1>4 DEF HintsFollow
<1>6. HintsKnown(hints', reloaded', multi_resumed')
  BY <1>4 DEF HintsKnown
<1>7. /\ hintController' \in BOOLEAN /\ hintsFresh' \in BOOLEAN /\ resetting' \in 0 .. Len(ThreadHintCfg) + 1
      /\ \A j, k \in Policy : ThreadHintCfg[j].package = ThreadHintCfg[k].package => hints'[j].pid = hints'[k].pid
  BY <1>1, <1>3 DEF PolicyInv
<1> QED BY <1>4, <1>5, <1>6, <1>7 DEF PolicyInv

\* Switched on again, the controller says nothing until the next notification.
LEMMA ControllerKeeps ==
  ASSUME PolicyInv, NEW on \in BOOLEAN, setThreadHintControllerEnabled(on)
  PROVE  PolicyInv'
<1>1. /\ hints' = hints /\ reloaded' = reloaded /\ multi_resumed' = multi_resumed /\ gameLoom' = gameLoom
      /\ resetting = 0 /\ resetting' = IF on THEN 0 ELSE 1
  BY DEF setThreadHintControllerEnabled, listVars
<1>2. hintsFresh' = (hintsFresh /\ (~on \/ hintController)) /\ hintController' = (hintController \/ on)
  BY DEF setThreadHintControllerEnabled
<1>3. hintsFresh' \in BOOLEAN /\ hintController' \in BOOLEAN
  BY <1>2, Zenon
<1>4. ASSUME hintController', hintsFresh', resetting' = 0 PROVE hintController /\ hintsFresh
  BY <1>1, <1>2, <1>4
<1>5. HintsFollow'
  BY <1>1, <1>4 DEF PolicyInv, HintsFollow, Told
<1>6. resetting' \in 0 .. Len(ThreadHintCfg) + 1
  BY <1>1, ThreadHintAssumption
<1>7. HintsKnown(hints', reloaded', multi_resumed')
  BY <1>1 DEF PolicyInv
<1> QED BY <1>1, <1>3, <1>5, <1>6, <1>7 DEF PolicyInv

\* While it is being switched off, and after, it promises nothing.
LEMMA ControllerOffKeeps ==
  ASSUME PolicyInv, ControllerOff
  PROVE  PolicyInv'
<1>1. /\ hints' = hints /\ reloaded' = reloaded /\ multi_resumed' = multi_resumed /\ hintsFresh' = hintsFresh
      /\ resetting \in Nat \ {0} /\ resetting <= Len(ThreadHintCfg) + 1 /\ Len(ThreadHintCfg) \in Nat
  BY ThreadHintAssumption DEF ControllerOff, listVars, PolicyInv
<1>2. CASE resetting <= Len(ThreadHintCfg)
  <2>1. resetting' = resetting + 1 /\ hintController' = hintController
    BY <1>2 DEF ControllerOff
  <2>2. resetting' \in 0 .. Len(ThreadHintCfg) + 1 /\ resetting' # 0
    BY <1>1, <1>2, <2>1
  <2>3. HintsFollow'
    BY <2>2 DEF HintsFollow
  <2> QED BY <1>1, <2>1, <2>2, <2>3 DEF PolicyInv
<1>3. CASE ~(resetting <= Len(ThreadHintCfg))
  <2>1. resetting' = 0 /\ hintController' = FALSE
    BY <1>3 DEF ControllerOff
  <2>2. resetting' \in 0 .. Len(ThreadHintCfg) + 1
    BY <1>1, <2>1
  <2>4. hintController' \in BOOLEAN
    BY <2>1, Zenon
  <2>3. HintsFollow'
    BY <2>1 DEF HintsFollow
  <2> QED BY <1>1, <2>2, <2>3, <2>4 DEF PolicyInv
<1> QED BY <1>2, <1>3

\* The policies' invariant holds at first and every step keeps it.
LEMMA PoliciesKept ==
  /\ HintInit => ListInv /\ PolicyInv
  /\ ListInv /\ PolicyInv /\ [HintNext]_hintVars => ListInv' /\ PolicyInv'
<1>1. HintInit => ListInv /\ PolicyInv
  <2> SUFFICES ASSUME HintInit PROVE PolicyInv
    BY ListKept DEF HintInit
  <2>1. /\ hints = [k \in Policy |-> [pid |-> 0, enabled |-> FALSE]]
        /\ hintController = TRUE /\ hintsFresh = TRUE /\ resetting = 0 /\ reloaded = {} /\ multi_resumed = <<>>
    BY DEF HintInit, ListInit, Policy
  <2>2. \A k \in Policy : hints[k] \in Hint1 /\ hints[k].pid = 0 /\ ~hints[k].enabled
    BY <2>1 DEF Hint1
  <2>3. hints \in [Policy -> Hint1] /\ DOMAIN hints = Policy
    BY <2>1, <2>2
  <2>4. HintsFollow
    BY <2>2, <2>3 DEF HintsFollow
  <2>5. HintsKnown(hints, reloaded, multi_resumed)
    BY <2>1 DEF HintsKnown, Listed
  <2>6. resetting \in 0 .. Len(ThreadHintCfg) + 1 /\ reloaded \subseteq Policy
    BY <2>1, ThreadHintAssumption
  <2> QED BY <2>1, <2>2, <2>3, <2>4, <2>5, <2>6 DEF PolicyInv
<1>2. ListInv /\ PolicyInv /\ [HintNext]_hintVars => ListInv' /\ PolicyInv'
  <2> SUFFICES ASSUME ListInv, PolicyInv, [HintNext]_hintVars PROVE PolicyInv'
    BY ListKept
  <2>1. PICK m \in Nat : DOMAIN multi_resumed' = 1 .. m
    <3>1. multi_resumed' \in Seq(Listing1)
      BY ListKept DEF ListInv, GoodApps
    <3> QED BY <3>1
  <2>2. ASSUME NEW a \in Activity, NEW state \in Listing \cup {"PAUSED", "DEAD"},
               NotifyList(a, state), NotifyHints(a, state)
        PROVE  PolicyInv'
    <3>1. a.pid \in Nat \ {0}
      BY ResumedAssumption
    <3>2. ListGrows(a, state)
      BY <2>2, ListGrowth
    <3> QED BY <2>1, <2>2, <3>1, <3>2, NotifyHintsKeeps
  <2>3. CASE UNCHANGED <<hints, gameLoom, hintController, resetting, hintsFresh, reloaded, multi_resumed>>
    BY <2>3 DEF PolicyInv, HintsFollow, HintsKnown, Told
  <2>4. CASE FpsReport /\ NotifyHints(fpsSeen, "FPS_UPDATED")
    <3>1. fpsSeen \in Activity /\ NotifyList(fpsSeen, "FPS_UPDATED")
      BY <2>4 DEF FpsReport, ListInv
    <3>2. "FPS_UPDATED" \in Listing \cup {"PAUSED", "DEAD"}
      BY DEF Listing
    <3> QED BY <2>2, <2>4, <3>1, <3>2
  <2>5. CASE ReloadHints
    BY <2>5, ReloadHintsKeeps
  <2>6. ASSUME NEW on \in BOOLEAN, setThreadHintControllerEnabled(on) PROVE PolicyInv'
    BY <2>6, ControllerKeeps
  <2>7. CASE ControllerOff
    BY <2>7, ControllerOffKeeps
  <2>8. CASE UNCHANGED hintVars
    BY <2>3, <2>8 DEF hintVars, listVars
  <2>9. ASSUME NEW a \in Activity, NEW state \in {"RESUMED", "MULTI_WINDOW", "PAUSED", "DEAD"},
               Reports(a, state), NotifyHints(a, state)
        PROVE  PolicyInv'
    <3>1. state \in Listing \cup {"PAUSED", "DEAD"} /\ NotifyList(a, state)
      BY <2>9 DEF Listing, Reports
    <3> QED BY <2>2, <2>9, <3>1
  <2>10. CASE FpsRead /\ UNCHANGED <<hints, gameLoom, hintController, resetting, hintsFresh, reloaded>>
    <3>1. UNCHANGED <<hints, gameLoom, hintController, resetting, hintsFresh, reloaded, multi_resumed>>
      BY <2>10 DEF FpsRead
    <3> QED BY <2>3, <3>1
  <2> QED BY <2>4, <2>5, <2>6, <2>7, <2>8, <2>9, <2>10 DEF HintNext
<1> QED BY <1>1, <1>2

\* While the controller is on, the thread of every policy in force has what such a policy tells
\* it, of its group one that sets the parameter and is not less specific, by frame rate and then
\* by window mode, whatever ended or died; a policy read again counts from the next report of
\* its application (notifyAPPstate and decideFinalThreadHintPolicy of perfAPPListScenario.cpp).
THEOREM HintsAreFollowed == HintSpec => []HintsFollow
<1>1. PolicyInv => HintsFollow
  BY DEF PolicyInv
<1> QED BY <1>1, PoliciesKept, PTL DEF HintSpec

-----------------------------------------------------------------------------
(***************************************************************************)
(* Types.                                                                  *)
(***************************************************************************)
\* The list has room for what it holds, and its history is what the activity manager showed.
SizeInv ==
  /\ Len(multi_resumed) <= MULTI_WIN_SIZE_MAX
  /\ isMultiWindow \in BOOLEAN /\ currentFPS \in FPS \cup {-1}
  /\ shown \subseteq Activity /\ astray \in BOOLEAN

\* A list with fewer activities is no longer.
LEMMA ShorterFacts ==
  ASSUME NEW l1, NEW l2, GoodApps(l1), GoodApps(l2), Listed(l2) \subseteq Listed(l1)
  PROVE  Len(l2) <= Len(l1)
<1>1. IsFiniteSet(Listed(l1))
  <2>1. Listed(l1) \subseteq Activity
    <3>1. \A n \in DOMAIN l1 : l1[n] \in Listing1
      BY DEF GoodApps
    <3> QED BY <3>1 DEF Listed, Listing1
  <2> QED BY <2>1, FS_Subset, ResumedAssumption
<1>2. Cardinality(Listed(l2)) <= Cardinality(Listed(l1))
  BY <1>1, FS_Subset
<1> QED BY <1>2, ListedCount

\* An activity is appended only where there is room (multi_resumed_app_info).
LEMMA RoomFacts ==
  ASSUME NEW apps, GoodApps(apps), NEW a, Len(apps) <= MULTI_WIN_SIZE_MAX
  PROVE  Len(Resume(apps, a)) <= MULTI_WIN_SIZE_MAX
<1>0. Len(apps) \in Nat /\ MULTI_WIN_SIZE_MAX \in Nat /\ apps \in Seq(Listing1) /\ DOMAIN apps = 1 .. Len(apps)
  BY ResumedAssumption DEF GoodApps
<1>1. CASE \E n \in DOMAIN apps : Same(apps[n].app, a)
  <2>1. PICK r : r = Resume(apps, a)
    OBVIOUS
  <2>2. r = [n \in 1 .. Len(apps) |-> IF Same(apps[n].app, a) THEN [apps[n] EXCEPT !.fps = currentFPS] ELSE apps[n]]
    BY <1>0, <1>1, <2>1 DEF Resume
  <2>3. Len(r) = Len(apps)
    BY <1>0, <2>2
  <2> QED BY <2>1, <2>3
<1>2. CASE ~(\E n \in DOMAIN apps : Same(apps[n].app, a)) /\ Len(apps) < MULTI_WIN_SIZE_MAX
  <2>1. Resume(apps, a) = Append(apps, [app |-> a, fps |-> currentFPS])
    BY <1>2 DEF Resume
  <2>2. PICK e : e = [app |-> a, fps |-> currentFPS]
    OBVIOUS
  <2>3. Len(Append(apps, e)) = Len(apps) + 1
    BY <1>0
  <2> QED BY <1>0, <1>2, <2>1, <2>2, <2>3
<1>3. CASE ~(\E n \in DOMAIN apps : Same(apps[n].app, a)) /\ ~(Len(apps) < MULTI_WIN_SIZE_MAX)
  BY <1>3 DEF Resume
<1> QED BY <1>1, <1>2, <1>3

\* Whatever is notified, the list has room.
LEMMA NotifyRoom ==
  ASSUME ListInv, SizeInv, NEW a, NEW state \in Listing \cup {"PAUSED", "DEAD", "MODE_UPDATED"},
         state \in Listing => a \in Activity, NotifyList(a, state)
  PROVE  Len(multi_resumed') <= MULTI_WIN_SIZE_MAX /\ isMultiWindow' \in BOOLEAN
<1>1. GoodApps(multi_resumed) /\ Len(multi_resumed) <= MULTI_WIN_SIZE_MAX
  BY DEF ListInv, SizeInv
<1>2. /\ GoodApps(multi_resumed')
      /\ state \in Listing => multi_resumed' = Resume(multi_resumed, a)
      /\ state = "PAUSED" => multi_resumed' = Pause(multi_resumed, a)
      /\ state = "DEAD" => multi_resumed' = Die(multi_resumed, a.pid)
      /\ state = "MODE_UPDATED" => multi_resumed' = multi_resumed
  BY NotifyFacts
<1>3. ASSUME Listed(multi_resumed') \subseteq Listed(multi_resumed)
      PROVE  Len(multi_resumed') <= MULTI_WIN_SIZE_MAX
  <2>1. Len(multi_resumed') <= Len(multi_resumed)
    BY <1>1, <1>2, <1>3, ShorterFacts
  <2>2. Len(multi_resumed) \in Nat /\ Len(multi_resumed') \in Nat /\ MULTI_WIN_SIZE_MAX \in Nat
    BY <1>1, <1>2, ResumedAssumption DEF GoodApps
  <2> QED BY <1>1, <2>1, <2>2
<1>4. Len(multi_resumed') <= MULTI_WIN_SIZE_MAX
  <2>1. CASE state \in Listing
    BY <1>1, <1>2, <2>1, RoomFacts
  <2>2. CASE state = "PAUSED"
    BY <1>1, <1>2, <1>3, <2>2, PauseFacts
  <2>3. CASE state = "DEAD"
    BY <1>1, <1>2, <1>3, <2>3, DieFacts
  <2>4. CASE state = "MODE_UPDATED"
    BY <1>1, <1>2, <2>4
  <2> QED BY <2>1, <2>2, <2>3, <2>4
<1>5. isMultiWindow' \in BOOLEAN
  <2>1. PICK c : c = getForegroundAPPCount(multi_resumed')
    OBVIOUS
  <2>2. c \in Nat
    <3>1. PICK S : S = {i \in 2 .. Len(multi_resumed') :
                         \A j \in 1 .. i - 1 : ~SamePackage(multi_resumed'[i].app.pack, multi_resumed'[j].app.pack)}
      OBVIOUS
    <3>2. c = 1 + Cardinality(S)
      BY <2>1, <3>1 DEF getForegroundAPPCount
    <3>3. Len(multi_resumed') \in Nat
      BY <1>2 DEF GoodApps
    <3>4. IsFiniteSet(2 .. Len(multi_resumed'))
      BY <3>3, FS_Interval
    <3>5. Cardinality(S) \in Nat
      BY <3>1, <3>4, FS_Subset, FS_CardinalityType
    <3> QED BY <3>2, <3>5
  <2>3. isMultiWindow' = (c > 1)
    BY <2>1, Zenon DEF NotifyList
  <2>4. (c > 1) \in BOOLEAN
    BY <2>2
  <2> QED BY <2>3, <2>4, Zenon
<1> QED BY <1>4, <1>5

\* What is shown are activities.
LEMMA ShownFacts ==
  ASSUME NEW S, NEW cause \in BOOLEAN, astray \in BOOLEAN, S \subseteq Activity, Shows(S, cause)
  PROVE  shown' \subseteq Activity /\ astray' \in BOOLEAN
<1>1. shown' = S
  BY DEF Shows
<1>2. astray' = ((astray \/ cause) /\ Listed(multi_resumed') # S)
  BY DEF Shows
<1>3. astray' \in BOOLEAN
  BY <1>2, Zenon
<1> QED BY <1>1, <1>3

\* The activity manager's reports.
LEMMA ReportsRoom ==
  ASSUME ListInv, SizeInv, NEW a \in Activity, NEW state \in {"RESUMED", "MULTI_WINDOW", "PAUSED", "DEAD"},
         Reports(a, state)
  PROVE  SizeInv'
<1>1. state \in Listing \cup {"PAUSED", "DEAD", "MODE_UPDATED"} /\ NotifyList(a, state)
  BY DEF Listing, Reports
<1>2. Len(multi_resumed') <= MULTI_WIN_SIZE_MAX /\ isMultiWindow' \in BOOLEAN
  BY <1>1, NotifyRoom
<1>3. shown \subseteq Activity /\ astray \in BOOLEAN /\ currentFPS' \in FPS \cup {-1}
  BY DEF SizeInv, Reports
<1>4. shown' \subseteq Activity /\ astray' \in BOOLEAN
  <2>1. CASE state \in Listing
    <3>1. Shows({b \in shown : ~Same(a, b)} \cup {a}, LeavesOut(multi_resumed, a))
      BY <2>1 DEF Reports, Listing
    <3>2. {b \in shown : ~Same(a, b)} \cup {a} \subseteq Activity
      BY <1>3
    <3>3. LeavesOut(multi_resumed, a) \in BOOLEAN
      BY Zenon DEF LeavesOut
    <3>4. PICK S, cause : S = {b \in shown : ~Same(a, b)} \cup {a} /\ cause = LeavesOut(multi_resumed, a)
      OBVIOUS
    <3>5. S \subseteq Activity /\ cause \in BOOLEAN /\ Shows(S, cause)
      BY <3>1, <3>2, <3>3, <3>4, Zenon
    <3> QED BY <1>3, <3>5, ShownFacts
  <2>2. CASE state = "PAUSED"
    <3>1. Shows(shown \ {a}, FALSE)
      BY <2>2 DEF Reports, Listing
    <3> QED BY <1>3, <3>1, ShownFacts
  <2>3. CASE state = "DEAD"
    <3>1. Shows({b \in shown : b.pid # a.pid}, FALSE)
      BY <2>3 DEF Reports, Listing
    <3> QED BY <1>3, <3>1, ShownFacts
  <2> QED BY <2>1, <2>2, <2>3 DEF Listing
<1> QED BY <1>2, <1>3, <1>4 DEF SizeInv

\* The frame-rate thread.
LEMMA FpsRoom ==
  ASSUME ListInv, SizeInv, FpsRead \/ FpsReport
  PROVE  SizeInv'
<1>1. CASE FpsRead
  <2>1. currentFPS' \in FPS /\ UNCHANGED <<multi_resumed, isMultiWindow, shown, astray>>
    BY <1>1 DEF FpsRead
  <2> QED BY <2>1 DEF SizeInv
<1>2. CASE FpsReport
  <2>0. (fpsSeen \notin shown) \in BOOLEAN
    BY Zenon
  <2>1. /\ fpsSeen \in Activity /\ NotifyList(fpsSeen, "FPS_UPDATED")
        /\ Shows(shown, fpsSeen \notin shown) /\ currentFPS' = currentFPS
    BY <1>2 DEF ListInv, FpsReport
  <2>2. Len(multi_resumed') <= MULTI_WIN_SIZE_MAX /\ isMultiWindow' \in BOOLEAN
    BY <2>1, NotifyRoom DEF Listing
  <2>3. shown \subseteq Activity /\ astray \in BOOLEAN /\ currentFPS \in FPS \cup {-1}
    BY DEF SizeInv
  <2>4. shown' \subseteq Activity /\ astray' \in BOOLEAN
    <3>1. PICK cause \in BOOLEAN : cause = (fpsSeen \notin shown)
      BY <2>0, Zenon
    <3>2. Shows(shown, cause)
      BY <2>1, <3>1, Zenon
    <3> QED BY <2>3, <3>2, ShownFacts
  <2> QED BY <2>1, <2>2, <2>3, <2>4 DEF SizeInv
<1> QED BY <1>1, <1>2

\* The list's sizes, in both specifications that the list is part of.
LEMMA RoomKept ==
  /\ ListInit => SizeInv
  /\ ListInv /\ SizeInv /\ [AppListNext]_appVars => SizeInv'
  /\ ListInv /\ SizeInv /\ [HintNext]_hintVars => SizeInv'
<1>1. ListInit => SizeInv
  <2> SUFFICES ASSUME ListInit PROVE SizeInv
    OBVIOUS
  <2>1. /\ multi_resumed = <<>> /\ isMultiWindow = FALSE /\ currentFPS = -1 /\ shown = {} /\ astray = FALSE
        /\ MULTI_WIN_SIZE_MAX \in Nat
    BY ResumedAssumption DEF ListInit
  <2>2. Len(multi_resumed) = 0
    BY <2>1
  <2>3. isMultiWindow \in BOOLEAN /\ astray \in BOOLEAN
    BY <2>1, Zenon
  <2>4. Len(multi_resumed) <= MULTI_WIN_SIZE_MAX
    BY <2>1, <2>2
  <2>5. currentFPS \in FPS \cup {-1} /\ shown \subseteq Activity
    BY <2>1
  <2> QED BY <2>3, <2>4, <2>5 DEF SizeInv
<1>2. ASSUME SizeInv, UNCHANGED listVars PROVE SizeInv'
  BY <1>2 DEF SizeInv, listVars
<1>3. ListInv /\ SizeInv /\ [AppListNext]_appVars => SizeInv'
  <2> SUFFICES ASSUME ListInv, SizeInv, [AppListNext]_appVars PROVE SizeInv'
    OBVIOUS
  <2>1. ASSUME NEW a \in Activity, NEW state \in {"RESUMED", "MULTI_WINDOW", "PAUSED", "DEAD"},
               Reports(a, state)
        PROVE  SizeInv'
    BY <2>1, ReportsRoom
  <2>2. CASE FpsRead \/ FpsReport
    BY <2>2, FpsRoom
  <2>3. ASSUME NEW mode, setCurrentMode(mode) PROVE SizeInv'
    BY <1>2, <2>3 DEF setCurrentMode
  <2>4. ASSUME NEW g, ModeReport(g) PROVE SizeInv'
    <3>1. NotifyList(Nobody, "MODE_UPDATED") /\ UNCHANGED <<currentFPS, fpsSeen, shown, astray>>
      BY <2>4 DEF ModeReport
    <3>2. Len(multi_resumed') <= MULTI_WIN_SIZE_MAX /\ isMultiWindow' \in BOOLEAN
      BY <3>1, NotifyRoom DEF Listing
    <3> QED BY <3>1, <3>2 DEF SizeInv
  <2>5. ASSUME NEW table, NEW g, reloadAppListXml(table, g) PROVE SizeInv'
    BY <1>2, <2>5 DEF reloadAppListXml
  <2>6. CASE UNCHANGED appVars
    BY <1>2, <2>6 DEF appVars
  <2> QED BY <2>1, <2>2, <2>3, <2>4, <2>5, <2>6 DEF AppListNext
<1>4. ListInv /\ SizeInv /\ [HintNext]_hintVars => SizeInv'
  <2> SUFFICES ASSUME ListInv, SizeInv, [HintNext]_hintVars PROVE SizeInv'
    OBVIOUS
  <2>1. ASSUME NEW a \in Activity, NEW state \in {"RESUMED", "MULTI_WINDOW", "PAUSED", "DEAD"},
               Reports(a, state)
        PROVE  SizeInv'
    BY <2>1, ReportsRoom
  <2>2. CASE FpsRead \/ FpsReport
    BY <2>2, FpsRoom
  <2>3. CASE ReloadHints
    BY <1>2, <2>3 DEF ReloadHints
  <2>4. ASSUME NEW enabled, setThreadHintControllerEnabled(enabled) PROVE SizeInv'
    BY <1>2, <2>4 DEF setThreadHintControllerEnabled
  <2>5. CASE ControllerOff
    BY <1>2, <2>5 DEF ControllerOff
  <2>6. CASE UNCHANGED hintVars
    BY <1>2, <2>6 DEF hintVars
  <2> QED BY <2>1, <2>2, <2>3, <2>4, <2>5, <2>6 DEF HintNext
<1> QED BY <1>1, <1>3, <1>4

\* What the invariants say of the list's types.
LEMMA ListTypes ==
  ASSUME ListInv, SizeInv
  PROVE  ListTypeOK
<1>1. Listed(multi_resumed) \subseteq Activity
  <2>1. \A n \in DOMAIN multi_resumed : multi_resumed[n] \in Listing1
    BY DEF ListInv, GoodApps
  <2> QED BY <2>1 DEF Listed, Listing1
<1> QED BY <1>1 DEF ListInv, SizeInv, ListTypeOK

\* The mode is one of the modes, and a row is noted as bare only while it is wanted.
BareInv == currentMode \in AppMode /\ bare \subseteq DOMAIN rows

\* Every step keeps that.
LEMMA BareKept ==
  /\ AppListInit => BareInv
  /\ RowInv /\ BareInv /\ [AppListNext]_appVars => BareInv'
<1>1. AppListInit => BareInv
  BY AppListAssumption DEF AppListInit, RowInit, BareInv
<1>2. RowInv /\ BareInv /\ [AppListNext]_appVars => BareInv'
  <2> SUFFICES ASSUME RowInv, BareInv, [AppListNext]_appVars PROVE BareInv'
    OBVIOUS
  <2>1. ASSUME NEW a, NEW state, NEW g, NotifyRows(a, state, g) PROVE BareInv'
    <3>1. DOMAIN rows = DOMAIN APPList /\ APPList \in AppTables
      BY DEF RowInv
    <3>2. currentMode' = currentMode /\ DOMAIN rows' = DOMAIN rows
      BY <2>1, Zenon DEF NotifyRows
    <3>3. bare' \subseteq RowsFor(multi_resumed', APPList, isMultiWindow', currentMode)
      BY <2>1, Zenon DEF NotifyRows
    <3>4. bare' \subseteq DOMAIN APPList
      BY <3>1, <3>3, RowsForFacts
    <3> QED BY <3>1, <3>2, <3>4 DEF BareInv
  <2>2. CASE UNCHANGED rowVars
    BY <2>2 DEF rowVars, BareInv
  <2>3. ASSUME NEW mode \in AppMode, setCurrentMode(mode) PROVE BareInv'
    BY <2>3 DEF setCurrentMode, BareInv
  <2>4. ASSUME NEW g, ModeReport(g) PROVE BareInv'
    BY <2>1, <2>4 DEF ModeReport
  <2>5. ASSUME NEW table \in AppTables, NEW g, reloadAppListXml(table, g) PROVE BareInv'
    <3>1. bare' \subseteq RowsFor(multi_resumed, table, isMultiWindow, currentMode)
      BY <2>5, Zenon DEF reloadAppListXml
    <3>2. DOMAIN rows' = DOMAIN table /\ currentMode' = currentMode
      BY <2>5 DEF reloadAppListXml
    <3> QED BY <3>1, <3>2, RowsForFacts DEF BareInv
  <2>6. CASE UNCHANGED appVars
    BY <2>2, <2>6 DEF appVars
  <2> QED BY <2>1, <2>2, <2>3, <2>4, <2>5, <2>6 DEF AppListNext
<1> QED BY <1>1, <1>2

\* What the invariants say of the app list's types.
LEMMA AppListTypes ==
  ASSUME ListInv, SizeInv, RowInv, BareInv
  PROVE  AppListTypeOK
<1>1. locks \in Nat
  <2>1. PICK H : H = Held(rows)
    OBVIOUS
  <2>2. H \subseteq DOMAIN APPList /\ APPList \in AppTables
    BY <2>1 DEF RowInv, Held
  <2>3. IsFiniteSet(H)
    BY <2>2, RowsFinite
  <2>4. IsFiniteSet(fgBoosts)
    <3>1. IsFiniteSet({"launch"} \cup {"act"})
      BY FS_Singleton, FS_AddElement
    <3>2. fgBoosts \subseteq {"launch"} \cup {"act"}
      BY DEF RowInv
    <3> QED BY <3>1, <3>2, FS_Subset
  <2>5. Cardinality(H) \in Nat /\ Cardinality(fgBoosts) \in Nat
    BY <2>3, <2>4, FS_CardinalityType
  <2>6. locks = Cardinality(H) + Cardinality(fgBoosts)
    BY <2>1 DEF RowInv
  <2> QED BY <2>5, <2>6
<1>2. ListTypeOK
  BY ListTypes
<1>3. \A i \in DOMAIN rows : rows[i] \in [pid : Nat, status : BOOLEAN, handle : BOOLEAN]
  BY DEF RowInv, Row1
<1> QED BY <1>1, <1>2, <1>3 DEF RowInv, BareInv, AppListTypeOK

\* What the invariants say of the thread hints' types.
LEMMA HintTypes ==
  ASSUME ListInv, SizeInv, PolicyInv
  PROVE  HintTypeOK
<1>1. ListTypeOK
  BY ListTypes
<1>2. DOMAIN hints = DOMAIN ThreadHintCfg /\ \A k \in DOMAIN hints : hints[k] \in [pid : Nat, enabled : BOOLEAN]
  BY DEF PolicyInv, Policy, Hint1
<1> QED BY <1>1, <1>2 DEF PolicyInv, HintTypeOK

-----------------------------------------------------------------------------
(***************************************************************************)
(* The services together.                                                  *)
(***************************************************************************)
\* What a behaviour of the app list or of the thread hints keeps true.
ComposedInv ==
  /\ family = "app" => ListInv /\ SizeInv /\ RowInv /\ BareInv
  /\ family = "hint" => ListInv /\ SizeInv /\ PolicyInv

\* Composed, each service behaves as it does alone: the others leave it as it is.
LEMMA ServicesCompose ==
  /\ Spec => TimerSpec /\ PowerTimerSpec /\ BtSpec /\ LaunchSpec /\ HandlesSpec
  /\ Spec => []ComposedInv
<1>1. Init => TimerInit /\ PowerTimerInit /\ BtInit /\ LaunchInit /\ HandlesInit
  BY DEF Init
<1>2. [Next]_vars => [TimerNext]_timerVars
  BY DEF Next, vars
<1>3. [Next]_vars => [PowerTimerNext]_ptVars
  BY DEF Next, vars
<1>4. [Next]_vars => [BtNext]_btVars
  BY DEF Next, vars
<1>5. [Next]_vars => [LaunchNext]_launchVars
  BY DEF Next, vars
<1>6. [Next]_vars => [HandlesNext]_handleVars
  BY DEF Next, vars
<1>7. Init => ComposedInv
  <2> SUFFICES ASSUME Init PROVE ComposedInv
    OBVIOUS
  <2>1. AppListInit /\ HintInit /\ ListInit
    BY DEF Init, HintInit
  <2> QED BY <2>1, RowsKept, PoliciesKept, RoomKept, BareKept DEF ComposedInv
<1>8. ComposedInv /\ [Next]_vars => ComposedInv'
  <2> SUFFICES ASSUME ComposedInv, [Next]_vars PROVE ComposedInv'
    OBVIOUS
  <2>1. family' = family
    BY DEF Next, vars
  <2>2. CASE family = "app"
    <3>1. [AppListNext]_appVars
      <4>1. CASE Next
        BY <2>2, <4>1 DEF Next
      <4>2. CASE UNCHANGED vars
        BY <4>2 DEF vars, appVars, rowVars, rowOnly
      <4> QED BY <4>1, <4>2
    <3>2. ListInv /\ SizeInv /\ RowInv /\ BareInv
      BY <2>2 DEF ComposedInv
    <3>3. (ListInv /\ SizeInv /\ RowInv /\ BareInv)'
      BY <3>1, <3>2, RowsKept, RoomKept, BareKept
    <3> QED BY <2>1, <2>2, <3>3 DEF ComposedInv
  <2>3. CASE family = "hint"
    <3>1. [HintNext]_hintVars
      <4>1. CASE Next
        BY <2>3, <4>1 DEF Next
      <4>2. CASE UNCHANGED vars
        BY <4>2 DEF vars, hintVars, hintOnly
      <4> QED BY <4>1, <4>2
    <3>2. ListInv /\ SizeInv /\ PolicyInv
      BY <2>3 DEF ComposedInv
    <3>3. (ListInv /\ SizeInv /\ PolicyInv)'
      BY <3>1, <3>2, PoliciesKept, RoomKept
    <3> QED BY <2>1, <2>3, <3>3 DEF ComposedInv
  <2>4. CASE family # "app" /\ family # "hint"
    BY <2>1, <2>4 DEF ComposedInv
  <2> QED BY <2>2, <2>3, <2>4
<1> QED BY <1>1, <1>2, <1>3, <1>4, <1>5, <1>6, <1>7, <1>8, PTL
        DEF Spec, TimerSpec, PowerTimerSpec, BtSpec, LaunchSpec, HandlesSpec

\* What every service keeps has the type its declarations give it, for any number of timers, of
\* activities on screen, of rows and policies, of packages learned and of locks asked for: no
\* index leaves its table, no list outgrows its array, and no counter of locks goes below zero.
THEOREM ServicesAreTyped == Spec => []TypeOK
<1>1. ComposedInv => (family = "app" => AppListTypeOK) /\ (family = "hint" => HintTypeOK)
  BY AppListTypes, HintTypes DEF ComposedInv
<1>2. /\ TimerTypeOK /\ PowerTimerTypeOK /\ BtTypeOK /\ LaunchTypeOK /\ HandlesTypeOK
      /\ (family = "app" => AppListTypeOK) /\ (family = "hint" => HintTypeOK)
      => TypeOK
  BY DEF TypeOK
<1> QED BY <1>1, <1>2, ServicesCompose, TimerTypes, PtTypes, BtTypes, LaunchTypes, HandleTypes, PTL
=============================================================================
