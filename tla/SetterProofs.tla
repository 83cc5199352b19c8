---------------------------- MODULE SetterProofs ----------------------------
(***************************************************************************)
(* Proofs about the setters that keep state: the thermal policies          *)
(* (ThermalPolicy), the network boosts (Netd), the limits and overrides of *)
(* shared nodes (Limits) and locks on a node (Setters); about the table of *)
(* resources they are called from (RscTable); and about all of them        *)
(* composed, as they are model-checked (MCResources).                      *)
(***************************************************************************)
EXTENDS MCResources, FiniteSetTheorems, LoopTheorems, TLAPS

(***************************************************************************)
(* Thermal policies.                                                       *)
(***************************************************************************)

\* encode_policy_prop writes an item that decode_policy_prop reads back, for every
\* id and count that its two characters have room for, the bound 999 included.
THEOREM EncodingReadsBack ==
  \A id, refcnt \in 0..999 :
    decode_policy_prop(encode_policy_prop([id |-> id, refcnt |-> refcnt]))
      = [id |-> id, refcnt |-> refcnt]
<1> SUFFICES ASSUME NEW id \in 0..999, NEW refcnt \in 0..999
             PROVE  decode_policy_prop(encode_policy_prop([id |-> id, refcnt |-> refcnt]))
                      = [id |-> id, refcnt |-> refcnt]
  BY Zenon
<1>1. ASSUME NEW n \in 0..999
      PROVE  /\ n \div 32 \in Int /\ n % 32 \in Int
             /\ (n \div 32) * 32 + (n % 32) = n
  BY <1>1
<1>2. PICK c : c = <<id \div 32 + 48, (id % 32) + 48>> \o <<refcnt \div 32 + 48, (refcnt % 32) + 48>>
  BY ZenonT(60)
<1>3. encode_policy_prop([id |-> id, refcnt |-> refcnt]) = c
  BY <1>2 DEF encode_policy_prop, Chars
<1>4. /\ c[1] = id \div 32 + 48 /\ c[2] = (id % 32) + 48
      /\ c[3] = refcnt \div 32 + 48 /\ c[4] = (refcnt % 32) + 48
  BY <1>1, <1>2
<1>5. (c[1] - 48) * 32 + c[2] - 48 = id /\ (c[3] - 48) * 32 + c[4] - 48 = refcnt
  BY <1>1, <1>4
<1> QED BY <1>3, <1>5, SMTT(60) DEF decode_policy_prop

\* The HAL never believes that a policy is applied when the core applies another,
\* unless a command was lost after the connection was made or the core restarted:
\* a failed connection leaves active_policy as it was, so that the next call tries again.
THEOREM ActivePolicyApplied == TSpec => []ActiveIsApplied
<1>1. TInit => ActiveIsApplied
  BY DEF TInit, ActiveIsApplied
<1>2. ActiveIsApplied /\ [TNext]_tVars => ActiveIsApplied'
  <2> SUFFICES ASSUME ActiveIsApplied, [TNext]_tVars PROVE ActiveIsApplied'
    OBVIOUS
  <2>1. ASSUME NEW id \in Policy, load_thm_api_start(id) \/ load_thm_api_stop(id)
        PROVE  ActiveIsApplied'
    BY <2>1 DEF load_thm_api_start, load_thm_api_stop, ActiveIsApplied
  <2>2. CASE save_policy_prop
    BY <2>2 DEF save_policy_prop, ActiveIsApplied
  <2>3. CASE change_policy
    BY <2>3 DEF change_policy, ActiveIsApplied
  <2>4. CASE reset_thermal_policy
    BY <2>4 DEF reset_thermal_policy, ActiveIsApplied
  <2>5. CASE CoreRestart
    BY <2>5 DEF CoreRestart, ActiveIsApplied
  <2>6. CASE UNCHANGED tVars
    BY <2>6 DEF tVars, ActiveIsApplied
  <2> QED BY <2>1, <2>2, <2>3, <2>4, <2>5, <2>6 DEF TNext
<1> QED BY <1>1, <1>2, PTL DEF TSpec
-----------------------------------------------------------------------------
(***************************************************************************)
(* Thermal policies: what is counted and what a restart reads back.        *)
(***************************************************************************)

\* A list as update_policy_list keeps it: every policy once.
Item == [id : Policy, refcnt : 1 .. REF_MAX]
Distinct(l) == \A i, j \in DOMAIN l : l[i].id = l[j].id => i = j
ListOK(l) == l \in Seq(Item) /\ Distinct(l)
Pairs(l) == {l[i] : i \in DOMAIN l}

\* A list has its length and domain, and its items their fields.
LEMMA ListShape ==
  ASSUME NEW l, ListOK(l)
  PROVE  /\ l \in Seq(Item) /\ Len(l) \in Nat /\ DOMAIN l = 1 .. Len(l)
         /\ \A i \in DOMAIN l : l[i] \in Item
<1>1. l \in Seq(Item)
  BY DEF ListOK
<1> QED BY <1>1

\* The fields of an item.
LEMMA ItemShape ==
  ASSUME NEW x \in Item
  PROVE  /\ x.id \in Policy /\ x.id \in 0 .. 999 /\ x.refcnt \in 1 .. REF_MAX /\ x.refcnt \in 0 .. 999
         /\ x = [id |-> x.id, refcnt |-> x.refcnt]
<1>1. x.id \in Policy /\ x.refcnt \in 1 .. REF_MAX /\ x = [id |-> x.id, refcnt |-> x.refcnt]
  BY DEF Item
<1>2. x.id \in 0 .. 999
  BY <1>1, ThermalAssumption
<1>3. x.refcnt \in 0 .. 999
  BY SMTT(60), <1>1, ThermalAssumption
<1> QED BY <1>1, <1>2, <1>3

\* The ids in a list are numbers; an empty list has none.
LEMMA IdsShape ==
  ASSUME NEW l, ListOK(l)
  PROVE  /\ Ids(l) \subseteq Policy /\ Ids(l) \subseteq 0 .. 999
         /\ l = <<>> => Ids(l) = {}
         /\ l # <<>> => Ids(l) # {}
<1>1. \A i \in DOMAIN l : l[i].id \in Policy /\ l[i].id \in 0 .. 999
  BY ListShape, ItemShape
<1>2. Ids(l) \subseteq Policy /\ Ids(l) \subseteq 0 .. 999
  <2>1. \A o \in Ids(l) : o \in Policy /\ o \in 0 .. 999
    BY <1>1 DEF Ids
  <2> QED BY <2>1
<1>3. (l = <<>> => Ids(l) = {}) /\ (l # <<>> => Ids(l) # {})
  <2>1. l = <<>> => DOMAIN l = {}
    OBVIOUS
  <2>2. l # <<>> => 1 \in DOMAIN l
    BY ListShape
  <2> QED BY <2>1, <2>2 DEF Ids
<1> QED BY <1>2, <1>3

\* The highest of a set of ids, or the default.
Highest(S, m) == IF S = {} THEN m = DefaultPolicy ELSE m \in S /\ \A o \in S : o <= m

\* get_next_policy finds it, and there is only one.
LEMMA NextIsHighest ==
  ASSUME NEW l, ListOK(l)
  PROVE  /\ Highest(Ids(l), get_next_policy(l)) /\ get_next_policy(l) \in Int
         /\ \A m : Highest(Ids(l), m) => m = get_next_policy(l)
<1>1. PICK I : I = Ids(l)
  OBVIOUS
<1>2. I \subseteq 0 .. 999 /\ (l = <<>> => I = {}) /\ (l # <<>> => I # {})
  <2>1. Ids(l) \subseteq 0 .. 999
    BY ZenonT(60), IdsShape
  <2>2. l = <<>> => Ids(l) = {}
    BY IdsShape
  <2>3. l # <<>> => Ids(l) # {}
    BY IdsShape
  <2> QED BY ZenonT(60), <1>1, <2>1, <2>2, <2>3
<1>3. PICK g : g = get_next_policy(l)
  OBVIOUS
<1>4. CASE I = {}
  <2>1. g = DefaultPolicy
    BY <1>2, <1>3, <1>4, ZenonT(60) DEF get_next_policy
  <2> QED BY <1>1, <1>3, <1>4, <2>1 DEF Highest, DefaultPolicy
<1>5. CASE I # {}
  <2>1. PICK S : S = {999 - o : o \in I}
    OBVIOUS
  <2>2. S \subseteq Nat /\ S # {}
    <3>1. \A o \in I : 999 - o \in Nat
      BY <1>2
    <3> QED BY <1>5, <2>1, <3>1
  <2>3. PICK n \in S : \A o \in S : n <= o
    BY <2>2, LeastNat
  <2>4. PICK m \in I : n = 999 - m
    BY <2>1, <2>3
  <2>5. ASSUME NEW o \in I PROVE o <= m
    <3>1. n <= 999 - o
      BY <2>1, <2>3, <2>5
    <3> QED BY <1>2, <2>4, <2>5, <3>1
  <2>6. g = CHOOSE id \in I : \A other \in I : other <= id
    BY <1>1, <1>2, <1>3, <1>5, ZenonT(60) DEF get_next_policy
  <2>7. g \in I /\ \A o \in I : o <= g
    BY <2>5, <2>6
  <2>8. ASSUME NEW k, Highest(I, k) PROVE k = g
    <3>1. k \in I /\ k <= g /\ g <= k
      BY <1>5, <2>7, <2>8 DEF Highest
    <3> QED BY <1>2, <2>7, <3>1
  <2>9. g \in Int /\ Highest(I, g)
    BY <1>2, <1>5, <2>7 DEF Highest
  <2> QED BY <1>1, <1>3, <2>8, <2>9, Zenon
<1> QED BY <1>4, <1>5

\* What a list counts: the pairs say it all.
LEMMA CountFacts ==
  ASSUME NEW l, ListOK(l)
  PROVE  /\ \A p \in Pairs(l) : get_policy_refcnt(l, p.id) = p.refcnt
         /\ \A id : id \notin Ids(l) => get_policy_refcnt(l, id) = 0
         /\ \A id \in Ids(l) : /\ get_policy_refcnt(l, id) \in 1 .. REF_MAX
                               /\ [id |-> id, refcnt |-> get_policy_refcnt(l, id)] \in Pairs(l)
         /\ Ids(l) = {p.id : p \in Pairs(l)}
<1>1. ASSUME NEW i \in DOMAIN l PROVE get_policy_refcnt(l, l[i].id) = l[i].refcnt
  <2>1. PICK j : j = CHOOSE k \in DOMAIN l : l[k].id = l[i].id
    OBVIOUS
  <2>2. j \in DOMAIN l /\ l[j].id = l[i].id
    BY <2>1
  <2>3. j = i
    BY <2>2 DEF ListOK, Distinct
  <2>4. l[i].id \in Ids(l)
    BY DEF Ids
  <2> QED BY <2>1, <2>3, <2>4 DEF get_policy_refcnt
<1>2. \A id : id \notin Ids(l) => get_policy_refcnt(l, id) = 0
  BY DEF get_policy_refcnt
<1>3. ASSUME NEW id \in Ids(l)
      PROVE  /\ get_policy_refcnt(l, id) \in 1 .. REF_MAX
             /\ [id |-> id, refcnt |-> get_policy_refcnt(l, id)] \in Pairs(l)
  <2>1. PICK i \in DOMAIN l : l[i].id = id
    BY <1>3 DEF Ids
  <2>2. l[i] \in Item
    BY ListShape
  <2>3. l[i].refcnt \in 1 .. REF_MAX /\ l[i] = [id |-> l[i].id, refcnt |-> l[i].refcnt]
    BY <2>2, ItemShape
  <2>4. get_policy_refcnt(l, id) = l[i].refcnt
    BY <1>1, <2>1
  <2> QED BY <2>1, <2>2, <2>3, <2>4 DEF Pairs
<1>4. Ids(l) = {p.id : p \in Pairs(l)}
  BY DEF Ids, Pairs
<1>5. \A p \in Pairs(l) : get_policy_refcnt(l, p.id) = p.refcnt
  BY <1>1 DEF Pairs
<1> QED BY <1>2, <1>3, <1>4, <1>5, Zenon

\* add_policy_list: a new item in front.
LEMMA Added ==
  ASSUME NEW l, ListOK(l), NEW x \in Item, x.id \notin Ids(l)
  PROVE  /\ ListOK(<<x>> \o l) /\ Pairs(<<x>> \o l) = Pairs(l) \cup {x}
         /\ Len(<<x>> \o l) = Len(l) + 1
<1>1. Len(l) \in Nat /\ DOMAIN l = 1 .. Len(l) /\ l \in Seq(Item)
  BY ListShape
<1>2. PICK y : y = <<x>> \o l
  OBVIOUS
<1>3. y \in Seq(Item) /\ Len(y) = Len(l) + 1 /\ y[1] = x /\ \A i \in 2 .. Len(l) + 1 : y[i] = l[i - 1]
  BY <1>1, <1>2
<1>4. DOMAIN y = 1 .. Len(l) + 1 /\ \A i \in DOMAIN l : i + 1 \in DOMAIN y /\ y[i + 1] = l[i]
  BY <1>1, <1>3
<1>5. \A i \in DOMAIN y : i = 1 \/ (i - 1 \in DOMAIN l /\ y[i] = l[i - 1])
  BY <1>1, <1>3, <1>4
<1>6. Pairs(y) = Pairs(l) \cup {x}
  <2>1. 1 \in DOMAIN y
    BY <1>1, <1>4
  <2> QED BY <1>3, <1>4, <1>5, <2>1 DEF Pairs
<1>7. Distinct(y)
  <2> SUFFICES ASSUME NEW i \in DOMAIN y, NEW j \in DOMAIN y, y[i].id = y[j].id PROVE i = j
    BY DEF Distinct
  <2>1. i \in Nat /\ j \in Nat
    BY <1>1, <1>4
  <2>2. \A k \in DOMAIN l : l[k].id # x.id
    BY DEF Ids
  <2>3. CASE i = 1
    BY <1>3, <1>5, <2>2, <2>3
  <2>4. CASE j = 1
    BY <1>3, <1>5, <2>2, <2>4
  <2>5. CASE i # 1 /\ j # 1
    <3>1. i - 1 \in DOMAIN l /\ j - 1 \in DOMAIN l /\ y[i] = l[i - 1] /\ y[j] = l[j - 1]
      BY <1>5, <2>5
    <3>2. i - 1 = j - 1
      BY <3>1 DEF ListOK, Distinct
    <3> QED BY <2>1, <3>2
  <2> QED BY <2>3, <2>4, <2>5
<1> QED BY <1>2, <1>3, <1>6, <1>7 DEF ListOK

\* remove_policy_list: the item is taken out.
LEMMA Removed ==
  ASSUME NEW l, ListOK(l), NEW n \in DOMAIN l
  PROVE  /\ ListOK(RemoveAt(l, n)) /\ Pairs(RemoveAt(l, n)) = Pairs(l) \ {l[n]}
         /\ Len(RemoveAt(l, n)) = Len(l) - 1
<1>1. Len(l) \in Nat /\ DOMAIN l = 1 .. Len(l) /\ l \in Seq(Item) /\ n \in 1 .. Len(l)
  BY ListShape
<1>2. PICK y : y = CutOut(l, n)
  OBVIOUS
<1>3. RemoveAt(l, n) = y
  BY <1>2 DEF RemoveAt, CutOut
<1>4. y \in Seq(Item) /\ Len(y) = Len(l) - 1
      /\ \A k \in 1 .. Len(l) - 1 : y[k] = IF k < n THEN l[k] ELSE l[k + 1]
  BY <1>1, <1>2, CutOutFacts
<1>5. DOMAIN y = 1 .. Len(l) - 1
  BY <1>1, <1>4
<1>6. PICK f : f = [i \in DOMAIN y |-> IF i < n THEN i ELSE i + 1]
  OBVIOUS
<1>7. \A i \in DOMAIN y : f[i] \in DOMAIN l /\ f[i] # n /\ y[i] = l[f[i]]
  BY <1>1, <1>4, <1>5, <1>6
<1>8. ASSUME NEW j \in DOMAIN l, j # n PROVE \E i \in DOMAIN y : f[i] = j
  <2>1. CASE j < n
    BY <1>1, <1>5, <1>6, <2>1
  <2>2. CASE ~(j < n)
    <3>1. j - 1 \in DOMAIN y /\ f[j - 1] = j
      BY <1>1, <1>5, <1>6, <1>8, <2>2
    <3> QED BY <3>1
  <2> QED BY <2>1, <2>2
<1>9. \A i, j \in DOMAIN y : f[i] = f[j] => i = j
  BY <1>1, <1>5, <1>6
<1>10. Distinct(y)
  <2> SUFFICES ASSUME NEW i \in DOMAIN y, NEW j \in DOMAIN y, y[i].id = y[j].id PROVE i = j
    BY DEF Distinct
  <2>1. f[i] = f[j]
    BY <1>7 DEF ListOK, Distinct
  <2> QED BY <1>9, <2>1
<1>11. \A j \in DOMAIN l : j # n => l[j].id # l[n].id
  BY DEF ListOK, Distinct
<1>12. Pairs(y) = Pairs(l) \ {l[n]}
  BY <1>7, <1>8, <1>11 DEF Pairs
<1> QED BY <1>3, <1>4, <1>10, <1>12 DEF ListOK

\* A count is replaced.
LEMMA Recounted ==
  ASSUME NEW l, ListOK(l), NEW n \in DOMAIN l, NEW c \in 1 .. REF_MAX
  PROVE  /\ ListOK([l EXCEPT ![n].refcnt = c])
         /\ Pairs([l EXCEPT ![n].refcnt = c]) = (Pairs(l) \ {l[n]}) \cup {[id |-> l[n].id, refcnt |-> c]}
         /\ Len([l EXCEPT ![n].refcnt = c]) = Len(l)
<1>1. Len(l) \in Nat /\ DOMAIN l = 1 .. Len(l) /\ l \in Seq(Item) /\ \A i \in DOMAIN l : l[i] \in Item
  BY ListShape
<1>2. PICK x : x = [id |-> l[n].id, refcnt |-> c]
  OBVIOUS
<1>3. x \in Item /\ x.id = l[n].id /\ [l[n] EXCEPT !.refcnt = c] = x
  BY <1>1, <1>2 DEF Item
<1>4. PICK y : y = [l EXCEPT ![n] = x]
  OBVIOUS
<1>5. [l EXCEPT ![n].refcnt = c] = y
  BY <1>1, <1>3, <1>4
<1>6. y \in Seq(Item) /\ Len(y) = Len(l) /\ DOMAIN y = DOMAIN l /\ y[n] = x /\ \A i \in DOMAIN l \ {n} : y[i] = l[i]
  BY <1>1, <1>3, <1>4
<1>7. \A i \in DOMAIN l : y[i].id = l[i].id
  BY <1>3, <1>6
<1>8. Distinct(y)
  BY <1>6, <1>7 DEF ListOK, Distinct
<1>9. \A j \in DOMAIN l : j # n => l[j].id # l[n].id
  BY DEF ListOK, Distinct
<1>10. Pairs(y) = (Pairs(l) \ {l[n]}) \cup {x}
  BY <1>6, <1>9 DEF Pairs
<1> QED BY <1>2, <1>5, <1>6, <1>8, <1>10 DEF ListOK

\* The status as every update leaves it.
GoodState(s) ==
  /\ s \in [list : Seq(Item), max_id : Int]
  /\ ListOK(s.list)
  /\ s.max_id = get_next_policy(s.list)

\* What an update makes of the pairs.
Updated(P, id, c) == {p \in P : p.id # id} \cup (IF c = 0 THEN {} ELSE {[id |-> id, refcnt |-> c]})

\* update_policy_list sets one count, and max_id follows.
LEMMA UpdateFacts ==
  ASSUME NEW s, GoodState(s), NEW id \in Policy, NEW c \in 0 .. REF_MAX, c = 0 => id \in Ids(s.list)
  PROVE  /\ GoodState(update_policy_list(s, id, c))
         /\ Pairs(update_policy_list(s, id, c).list) = Updated(Pairs(s.list), id, c)
         /\ Len(update_policy_list(s, id, c).list) <= Len(s.list) + 1
         /\ id \in Ids(s.list) => Len(update_policy_list(s, id, c).list) <= Len(s.list)
<1>1. PICK l : l = s.list
  OBVIOUS
<1>2. PICK m : m = s.max_id
  OBVIOUS
<1>3. s = [list |-> l, max_id |-> m] /\ ListOK(l) /\ m \in Int /\ m = get_next_policy(l)
  BY <1>1, <1>2 DEF GoodState
<1>4. Len(l) \in Nat /\ Ids(l) \subseteq 0 .. 999 /\ Ids(l) = {p.id : p \in Pairs(l)} /\ Highest(Ids(l), m)
  <2>1. Len(l) \in Nat
    BY <1>3, ListShape
  <2>2. Ids(l) \subseteq 0 .. 999
    BY ZenonT(60), <1>3, IdsShape
  <2>3. Ids(l) = {p.id : p \in Pairs(l)}
    BY <1>3, CountFacts
  <2>4. Highest(Ids(l), m)
    BY <1>3, NextIsHighest
  <2> QED BY <2>1, <2>2, <2>3, <2>4
<1>5. PICK r : r = update_policy_list(s, id, c)
  OBVIOUS
<1>6. id \in Int
  BY ThermalAssumption
<1>7. ASSUME NEW l2, NEW m2, ListOK(l2), m2 \in Int, r = [list |-> l2, max_id |-> m2], Highest(Ids(l2), m2)
      PROVE  GoodState(r)
  <2>1. m2 = get_next_policy(l2)
    BY <1>7, NextIsHighest
  <2>2. l2 \in Seq(Item)
    BY <1>7, ListShape
  <2> QED BY <1>7, <2>1, <2>2 DEF GoodState
<1>8. CASE id \notin Ids(l)
  <2>1. PICK x : x = [id |-> id, refcnt |-> c]
    OBVIOUS
  <2>2. x \in Item /\ x.id = id /\ c # 0
    BY <1>1, <1>8, <2>1 DEF Item
  <2>3. PICK l2 : l2 = <<x>> \o l
    OBVIOUS
  <2>4. ListOK(l2) /\ Pairs(l2) = Pairs(l) \cup {x} /\ Len(l2) = Len(l) + 1
    BY <1>3, <1>8, <2>2, <2>3, Added
  <2>5. PICK m2 : m2 = IF m < id THEN id ELSE m
    OBVIOUS
  <2>6. r = [list |-> l2, max_id |-> m2]
    BY <1>1, <1>2, <1>5, <1>8, <2>1, <2>3, <2>5 DEF update_policy_list
  <2>7. Ids(l2) = Ids(l) \cup {id}
    <3>1. Ids(l2) = {p.id : p \in Pairs(l2)}
      BY <2>4, CountFacts
    <3> QED BY <1>4, <2>2, <2>4, <3>1
  <2>8. m2 \in Int /\ Highest(Ids(l2), m2)
    <3>1. id \in 0 .. 999
      BY ThermalAssumption
    <3>2. CASE Ids(l) = {}
      <4>1. m = -1 /\ Ids(l2) = {id}
        BY ZenonT(60), <1>4, <2>7, <3>2 DEF Highest, DefaultPolicy
      <4>2. m2 = id
        BY <2>5, <3>1, <4>1
      <4> QED BY <1>6, <4>1, <4>2 DEF Highest
    <3>3. CASE Ids(l) # {}
      <4>1. m \in Ids(l) /\ \A o \in Ids(l) : o <= m
        BY ZenonT(60), <1>4, <3>3 DEF Highest
      <4>2. m2 \in Ids(l2) /\ m2 \in Int
        BY <1>3, <1>6, <2>5, <2>7, <4>1
      <4>3. m <= m2 /\ id <= m2
        BY <1>3, <1>6, <2>5
      <4>4. \A o \in Ids(l2) : o <= m2
        BY <1>3, <1>4, <1>6, <2>7, <4>1, <4>2, <4>3
      <4> QED BY <4>2, <4>4 DEF Highest
    <3> QED BY <3>2, <3>3
  <2>9. \A p \in Pairs(l) : p.id # id
    BY <1>4, <1>8
  <2>10. Updated(Pairs(l), id, c) = Pairs(l) \cup {x}
    BY <2>1, <2>2, <2>9 DEF Updated
  <2>11. GoodState(r)
    BY <1>7, <2>4, <2>6, <2>8
  <2> QED BY <1>1, <1>4, <1>5, <1>8, <2>4, <2>6, <2>10, <2>11
<1>9. CASE id \in Ids(l)
  <2>1. PICK n : n = CHOOSE k \in DOMAIN l : l[k].id = id
    OBVIOUS
  <2>2. n \in DOMAIN l /\ l[n].id = id
    BY <1>9, <2>1 DEF Ids
  <2>3. \A p \in Pairs(l) : p.id = id <=> p = l[n]
    BY <1>3, <2>2 DEF Pairs, ListOK, Distinct
  <2>4. CASE c = 0
    <3>1. PICK l2 : l2 = RemoveAt(l, n)
      OBVIOUS
    <3>2. ListOK(l2) /\ Pairs(l2) = Pairs(l) \ {l[n]} /\ Len(l2) = Len(l) - 1
      BY <1>3, <2>2, <3>1, Removed
    <3>3. PICK m2 : m2 = IF m = id THEN get_next_policy(l2) ELSE m
      OBVIOUS
    <3>4. r = [list |-> l2, max_id |-> m2]
      BY <1>1, <1>2, <1>5, <1>9, <2>1, <2>4, <3>1, <3>3 DEF update_policy_list
    <3>5. Ids(l2) = Ids(l) \ {id}
      <4>1. Ids(l2) = {p.id : p \in Pairs(l2)}
        BY <3>2, CountFacts
      <4> QED BY <1>4, <2>3, <3>2, <4>1
    <3>6. m2 \in Int /\ Highest(Ids(l2), m2)
      <4>1. CASE m = id
        BY <3>2, <3>3, <4>1, NextIsHighest
      <4>2. CASE m # id
        BY ZenonT(60), <1>3, <1>4, <1>9, <3>3, <3>5, <4>2 DEF Highest
      <4> QED BY <4>1, <4>2
    <3>7. Updated(Pairs(l), id, c) = Pairs(l) \ {l[n]}
      BY <2>3, <2>4 DEF Updated
    <3>8. GoodState(r)
      BY <1>7, <3>2, <3>4, <3>6
    <3> QED BY <1>1, <1>4, <1>5, <3>2, <3>4, <3>7, <3>8
  <2>5. CASE c # 0
    <3>1. PICK l2 : l2 = [l EXCEPT ![n].refcnt = c]
      OBVIOUS
    <3>2. ListOK(l2) /\ Pairs(l2) = (Pairs(l) \ {l[n]}) \cup {[id |-> id, refcnt |-> c]} /\ Len(l2) = Len(l)
      <4>1. c \in 1 .. REF_MAX
        BY <2>5, ThermalAssumption
      <4>2. /\ ListOK([l EXCEPT ![n].refcnt = c])
            /\ Pairs([l EXCEPT ![n].refcnt = c]) = (Pairs(l) \ {l[n]}) \cup {[id |-> l[n].id, refcnt |-> c]}
            /\ Len([l EXCEPT ![n].refcnt = c]) = Len(l)
        BY <1>3, <2>2, <4>1, Recounted, Zenon
      <4> QED BY <2>2, <3>1, <4>2, Zenon
    <3>3. r = [list |-> l2, max_id |-> m]
      <4>1. r = [s EXCEPT !.list[n].refcnt = c]
        BY <1>1, <1>5, <1>9, <2>1, <2>5, Zenon DEF update_policy_list
      <4>2. r = [s EXCEPT !.list = [s.list EXCEPT ![n] = [s.list[n] EXCEPT !.refcnt = c]]]
        BY <1>3, <4>1
      <4>3. l2 = [s.list EXCEPT ![n] = [s.list[n] EXCEPT !.refcnt = c]]
        BY <1>1, <3>1
      <4>4. r = [s EXCEPT !.list = l2]
        BY <4>2, <4>3, Zenon
      <4> QED BY <1>3, <4>4
    <3>4. Ids(l2) = Ids(l)
      <4>1. Ids(l2) = {p.id : p \in Pairs(l2)}
        BY <3>2, CountFacts
      <4>2. \A o : o \in Ids(l) <=> o = id \/ \E p \in Pairs(l) \ {l[n]} : p.id = o
        BY <1>4, <1>9, <2>3
      <4>3. \A o : o \in Ids(l2) <=> o = id \/ \E p \in Pairs(l) \ {l[n]} : p.id = o
        <5>1. PICK x : x = [id |-> id, refcnt |-> c]
          OBVIOUS
        <5>2. x.id = id /\ Pairs(l2) = (Pairs(l) \ {l[n]}) \cup {x}
          BY <3>2, <5>1
        <5> QED BY <4>1, <5>2
      <4> QED BY <4>2, <4>3
    <3>5. Updated(Pairs(l), id, c) = (Pairs(l) \ {l[n]}) \cup {[id |-> id, refcnt |-> c]}
      BY <2>3, <2>5 DEF Updated
    <3>6. GoodState(r)
      BY ZenonT(60), <1>3, <1>4, <1>7, <3>2, <3>3, <3>4
    <3> QED BY <1>1, <1>4, <1>5, <3>2, <3>3, <3>5, <3>6
  <2> QED BY <2>4, <2>5
<1> QED BY <1>8, <1>9

\* The counts after an update.
LEMMA CountAfter ==
  ASSUME NEW l, ListOK(l), NEW l2, ListOK(l2), NEW id, NEW c \in Nat, Pairs(l2) = Updated(Pairs(l), id, c)
  PROVE  /\ get_policy_refcnt(l2, id) = c
         /\ \A o : o # id => get_policy_refcnt(l2, o) = get_policy_refcnt(l, o)
<1>1. Ids(l) = {p.id : p \in Pairs(l)} /\ Ids(l2) = {p.id : p \in Pairs(l2)}
  BY CountFacts
<1>2. get_policy_refcnt(l2, id) = c
  <2>1. CASE c = 0
    <3>1. id \notin Ids(l2)
      BY <1>1, <2>1 DEF Updated
    <3> QED BY <2>1, <3>1, CountFacts
  <2>2. CASE c # 0
    <3>1. PICK p : p = [id |-> id, refcnt |-> c]
      OBVIOUS
    <3>2. p \in Pairs(l2) /\ p.id = id /\ p.refcnt = c
      BY <2>2, <3>1 DEF Updated
    <3> QED BY <3>2, CountFacts
  <2> QED BY <2>1, <2>2
<1>3. ASSUME NEW o, o # id PROVE get_policy_refcnt(l2, o) = get_policy_refcnt(l, o)
  <2>1. \A p : p.id = o => (p \in Pairs(l2) <=> p \in Pairs(l))
    BY <1>3 DEF Updated
  <2>2. CASE o \in Ids(l)
    <3>1. PICK p \in Pairs(l) : p.id = o
      BY <1>1, <2>2
    <3>2. p \in Pairs(l2)
      BY <2>1, <3>1
    <3> QED BY <3>1, <3>2, CountFacts
  <2>3. CASE o \notin Ids(l)
    <3>1. o \notin Ids(l2)
      BY <1>1, <2>1, <2>3
    <3> QED BY <2>3, <3>1, CountFacts
  <2> QED BY <2>2, <2>3
<1> QED BY <1>2, <1>3

\* The properties: as many items in each as fit, every one of them readable.
Codes == {encode_policy_prop(x) : x \in Item}
PropsOK(p) == p \in [1 .. PROP_NUM -> Seq(Codes)] /\ \A k \in 1 .. PROP_NUM : Len(p[k]) <= ITEM_MAX
SavedIds(p) == UNION {{decode_policy_prop(c).id : c \in Range(p[k])} : k \in DOMAIN p}

\* An item is read back as it was written.
LEMMA CodeFacts ==
  ASSUME NEW x \in Item
  PROVE  encode_policy_prop(x) \in Codes /\ decode_policy_prop(encode_policy_prop(x)) = x
<1>1. PICK i \in 0 .. 999 : i = x.id
  BY ItemShape
<1>2. PICK n \in 0 .. 999 : n = x.refcnt
  BY ItemShape
<1>3. x = [id |-> i, refcnt |-> n]
  BY <1>1, <1>2, ItemShape
<1>4. decode_policy_prop(encode_policy_prop([id |-> i, refcnt |-> n])) = [id |-> i, refcnt |-> n]
  BY EncodingReadsBack, ZenonT(60)
<1>5. encode_policy_prop(x) \in Codes
  BY DEF Codes
<1> QED BY <1>3, <1>4, <1>5, ZenonT(60)

\* Whatever is written can be read.
LEMMA DecodeFacts ==
  ASSUME NEW c \in Codes
  PROVE  decode_policy_prop(c) \in Item
<1>1. PICK x \in Item : c = encode_policy_prop(x)
  BY Zenon DEF Codes
<1> QED BY <1>1, CodeFacts, Zenon

\* One property of those that are read.
ReadTurn(p, k, rest) ==
  IF p[k] = NoItems THEN <<>>
  ELSE p[k] \o (IF Len(p[k]) < ITEM_MAX THEN <<>> ELSE rest)

\* What is read from each property on.
LEMMA ReadTurns ==
  ASSUME NEW p, NEW S, p \in [1 .. PROP_NUM -> Seq(S)]
  PROVE  \E f \in [1 .. PROP_NUM + 1 -> Seq(S)] :
            /\ ItemsIn(p) = f[1] /\ f[PROP_NUM + 1] = <<>>
            /\ \A k \in 1 .. PROP_NUM : f[k] = ReadTurn(p, k, f[k + 1])
<1>1. PICK n \in Nat : n = PROP_NUM /\ n # 0
  BY ThermalAssumption
<1>2. \A k \in 1 .. n, rest \in Seq(S) : ReadTurn(p, k, rest) \in Seq(S)
  <2> TAKE k \in 1 .. n, rest \in Seq(S)
  <2>1. p[k] \in Seq(S)
    BY <1>1
  <2>2. p[k] \o rest \in Seq(S) /\ p[k] \o <<>> \in Seq(S) /\ <<>> \in Seq(S)
    BY <2>1
  <2> QED BY <2>2 DEF ReadTurn
<1>3. PICK body : body = [x \in Seq(S) \X (1 .. n) |-> ReadTurn(p, n + 1 - x[2], x[1])]
  OBVIOUS
<1>4. \A s \in Seq(S), j \in 1 .. n : body[<<s, j>>] = ReadTurn(p, n + 1 - j, s) /\ n + 1 - j \in 1 .. n
  BY <1>3
<1>5. body \in [Seq(S) \X (1 .. n) -> Seq(S)]
  <2>1. \A x \in Seq(S) \X (1 .. n) : ReadTurn(p, n + 1 - x[2], x[1]) \in Seq(S)
    <3> TAKE x \in Seq(S) \X (1 .. n)
    <3>1. x[1] \in Seq(S) /\ n + 1 - x[2] \in 1 .. n
      OBVIOUS
    <3> QED BY <1>2, <3>1
  <2> QED BY <1>3, <2>1
<1>6. <<>> \in Seq(S)
  OBVIOUS
<1>7. PICK h \in [0 .. n -> Seq(S)] : h[0] = <<>> /\ \A j \in 1 .. n : h[j] = body[<<h[j - 1], j>>]
  <2>1. Looped(n, Seq(S), <<>>, body)
    BY <1>5, <1>6, LoopExists
  <2> QED BY <2>1, Zenon DEF Looped
<1>8. PICK f : f = [k \in 1 .. n + 1 |-> h[n + 1 - k]]
  OBVIOUS
<1>9. f \in [1 .. n + 1 -> Seq(S)] /\ f[n + 1] = <<>>
  BY <1>7, <1>8
<1>10. ASSUME NEW k \in 1 .. n PROVE f[k] = ReadTurn(p, k, f[k + 1])
  <2>1. PICK j \in 1 .. n : j = n + 1 - k
    OBVIOUS
  <2>2. f[k] = h[j] /\ f[k + 1] = h[j - 1] /\ h[j - 1] \in Seq(S) /\ k = n + 1 - j
    BY <1>7, <1>8, <2>1
  <2> QED BY ZenonT(60), <1>4, <1>7, <2>1, <2>2
<1>11. f = [k \in 1 .. PROP_NUM + 1 |->
              IF k > PROP_NUM THEN <<>>
              ELSE IF p[k] = NoItems THEN <<>>
              ELSE p[k] \o (IF Len(p[k]) < ITEM_MAX THEN <<>> ELSE f[k + 1])]
  <2>1. ASSUME NEW k \in 1 .. n + 1
        PROVE  f[k] = IF k > n THEN <<>> ELSE ReadTurn(p, k, f[k + 1])
    <3>1. CASE k = n + 1
      BY <1>9, <3>1
    <3>2. CASE k # n + 1
      <4>1. k \in 1 .. n /\ ~(k > n)
        BY <3>2
      <4> QED BY <1>10, <4>1
    <3> QED BY <3>1, <3>2
  <2>2. f = [k \in 1 .. n + 1 |-> IF k > n THEN <<>> ELSE ReadTurn(p, k, f[k + 1])]
    BY SMTT(60), <1>8, <2>1
  <2> QED BY <1>1, <2>2, Zenon DEF ReadTurn
<1> DEFINE F == CHOOSE g : g = [k \in 1 .. PROP_NUM + 1 |->
              IF k > PROP_NUM THEN <<>>
              ELSE IF p[k] = NoItems THEN <<>>
              ELSE p[k] \o (IF Len(p[k]) < ITEM_MAX THEN <<>> ELSE g[k + 1])]
<1>12. F = [k \in 1 .. PROP_NUM + 1 |->
              IF k > PROP_NUM THEN <<>>
              ELSE IF p[k] = NoItems THEN <<>>
              ELSE p[k] \o (IF Len(p[k]) < ITEM_MAX THEN <<>> ELSE F[k + 1])]
  BY <1>11
<1>13. ItemsIn(p) = F[1]
  BY DEF ItemsIn
<1> HIDE DEF F
<1>14. /\ F = [k \in 1 .. n + 1 |-> IF k > n THEN <<>> ELSE ReadTurn(p, k, F[k + 1])]
  BY <1>1, <1>12, Zenon DEF ReadTurn
<1>15. F[n + 1] = <<>> /\ \A k \in 1 .. n : F[k] = ReadTurn(p, k, F[k + 1])
  BY <1>14
<1>16. F \in [1 .. n + 1 -> Seq(S)]
  <2>1. PICK Q : Q = {j \in 0 .. n : F[n + 1 - j] \in Seq(S)}
    OBVIOUS
  <2>2. 0 \in Q
    <3>1. n + 1 - 0 = n + 1 /\ 0 \in 0 .. n
      OBVIOUS
    <3>2. F[n + 1] \in Seq(S)
      BY <1>6, <1>15
    <3> QED BY <2>1, <3>1, <3>2
  <2>3. ASSUME NEW j \in 1 .. n, j - 1 \in Q PROVE j \in Q
    <3>1. PICK k \in 1 .. n : k = n + 1 - j
      OBVIOUS
    <3>2. k + 1 = n + 1 - (j - 1) /\ F[k + 1] \in Seq(S)
      BY <2>1, <2>3, <3>1
    <3> QED BY <1>2, <1>15, <2>1, <3>1, <3>2
  <2>4. \A j \in 0 .. n : j \in Q
    BY <2>2, <2>3, TurnByTurn
  <2>5. \A k \in 1 .. n + 1 : F[k] \in Seq(S)
    <3> TAKE k \in 1 .. n + 1
    <3>1. n + 1 - k \in 0 .. n /\ n + 1 - (n + 1 - k) = k
      OBVIOUS
    <3> QED BY <2>1, <2>4, <3>1
  <2> QED BY <1>14, <2>5
<1> QED BY <1>1, <1>13, <1>15, <1>16

\* The same for the properties as they are.
LEMMA ReadCodes ==
  ASSUME NEW p, PropsOK(p)
  PROVE  \E f \in [1 .. PROP_NUM + 1 -> Seq(Codes)] :
            /\ ItemsIn(p) = f[1] /\ f[PROP_NUM + 1] = <<>>
            /\ \A k \in 1 .. PROP_NUM : f[k] = ReadTurn(p, k, f[k + 1])
<1>1. PICK C : C = Codes
  OBVIOUS
<1>2. p \in [1 .. PROP_NUM -> Seq(C)]
  BY <1>1 DEF PropsOK
<1>3. \E f \in [1 .. PROP_NUM + 1 -> Seq(C)] :
         /\ ItemsIn(p) = f[1] /\ f[PROP_NUM + 1] = <<>>
         /\ \A k \in 1 .. PROP_NUM : f[k] = ReadTurn(p, k, f[k + 1])
  BY <1>2, ReadTurns, ZenonT(60)
<1> QED BY <1>1, <1>3, Zenon

\* The room that k properties have.
Room(k) == k * ITEM_MAX

\* It grows by one property's items at a time.
LEMMA RoomFacts ==
  /\ Room(0) = 0 /\ ITEM_MAX \in Nat \ {0} /\ PROP_NUM \in Nat \ {0}
  /\ \A k \in Nat : Room(k) \in Nat /\ Room(k + 1) = Room(k) + ITEM_MAX
  /\ \A j, k \in Nat : j <= k => Room(j) <= Room(k)
<1>1. ITEM_MAX \in Nat \ {0} /\ PROP_NUM \in Nat \ {0}
  BY ThermalAssumption
<1>2. PICK m \in Nat : m = ITEM_MAX /\ m # 0
  BY <1>1
<1>3. 0 * m = 0 /\ \A k \in Nat : k * m \in Nat /\ (k + 1) * m = k * m + m
  BY <1>2
<1>4. \A j, k \in Nat : j <= k => j * m <= k * m
  BY <1>2
<1> QED BY <1>1, <1>2, <1>3, <1>4 DEF Room

\* What is read: no more than there is room for, and nothing that was not saved.
LEMMA ReadShape ==
  ASSUME NEW p, PropsOK(p)
  PROVE  /\ ItemsIn(p) \in Seq(Codes) /\ Len(ItemsIn(p)) <= Room(PROP_NUM)
         /\ \A i \in 1 .. Len(ItemsIn(p)) : decode_policy_prop(ItemsIn(p)[i]).id \in SavedIds(p)
         /\ p[1] = NoItems => ItemsIn(p) = <<>>
<1>1. PICK n \in Nat : n = PROP_NUM /\ n # 0
  BY ThermalAssumption
<1>2. p \in [1 .. n -> Seq(Codes)] /\ \A k \in 1 .. n : Len(p[k]) <= ITEM_MAX
  BY <1>1 DEF PropsOK
<1>3. PICK S : S = {c \in Codes : decode_policy_prop(c).id \in SavedIds(p)}
  OBVIOUS
<1>4. p \in [1 .. PROP_NUM -> Seq(S)]
  <2>1. ASSUME NEW k \in 1 .. n PROVE p[k] \in Seq(S)
    <3>1. p[k] \in Seq(Codes)
      BY <1>2
    <3>2. ASSUME NEW i \in 1 .. Len(p[k]) PROVE p[k][i] \in S
      <4>1. p[k][i] \in Codes /\ p[k][i] \in Range(p[k])
        BY <3>1 DEF Range
      <4>2. decode_policy_prop(p[k][i]).id \in {decode_policy_prop(c).id : c \in Range(p[k])}
        BY <4>1
      <4>3. k \in DOMAIN p
        BY <1>2
      <4>4. decode_policy_prop(p[k][i]).id \in SavedIds(p)
        BY <4>2, <4>3 DEF SavedIds
      <4> QED BY <1>3, <4>1, <4>4
    <3> QED BY <3>1, <3>2
  <2> QED BY <1>1, <1>2, <2>1
<1>5. PICK f \in [1 .. n + 1 -> Seq(S)] :
        /\ ItemsIn(p) = f[1] /\ f[n + 1] = <<>>
        /\ \A k \in 1 .. n : f[k] = ReadTurn(p, k, f[k + 1])
  <2>1. p \in [1 .. PROP_NUM -> Seq(S)]
    BY <1>4
  <2>2. \E f \in [1 .. PROP_NUM + 1 -> Seq(S)] :
           /\ ItemsIn(p) = f[1] /\ f[PROP_NUM + 1] = <<>>
           /\ \A k \in 1 .. PROP_NUM : f[k] = ReadTurn(p, k, f[k + 1])
    BY <2>1, ReadTurns, ZenonT(60)
  <2> QED BY <1>1, <2>2, Zenon
<1>6. PICK Q : Q = {j \in 0 .. n : Len(f[n + 1 - j]) <= Room(j)}
  OBVIOUS
<1>7. 0 \in Q
  <2>1. n + 1 - 0 = n + 1 /\ 0 \in 0 .. n /\ Room(0) = 0
    BY RoomFacts
  <2>2. Len(f[n + 1]) <= 0
    BY <1>5
  <2> QED BY <1>6, <2>1, <2>2
<1>8. ASSUME NEW j \in 1 .. n, j - 1 \in Q PROVE j \in Q
  <2>1. PICK k \in 1 .. n : k = n + 1 - j
    OBVIOUS
  <2>2. PICK rest \in Seq(S) : rest = f[k + 1]
    BY <1>5
  <2>3. n + 1 - (j - 1) = k + 1
    BY <2>1
  <2>4. Len(rest) <= Room(j - 1) /\ Len(rest) \in Nat
    BY <1>6, <1>8, <2>2, <2>3
  <2>5. Room(j) = Room(j - 1) + ITEM_MAX /\ Room(j - 1) \in Nat /\ ITEM_MAX \in Nat
    <3>1. j - 1 \in Nat /\ (j - 1) + 1 = j
      OBVIOUS
    <3> QED BY <3>1, RoomFacts
  <2>6. PICK q \in Seq(S) : q = p[k]
    BY <1>1, <1>4
  <2>7. Len(q) <= ITEM_MAX /\ Len(q) \in Nat
    BY <1>2, <2>6
  <2>8. Len(q \o rest) = Len(q) + Len(rest) /\ Len(q \o <<>>) = Len(q) /\ Len(<<>>) = 0
    BY <2>2, <2>6
  <2>9. PICK w : w = ReadTurn(p, k, rest)
    OBVIOUS
  <2>10. w \in {<<>>, q \o rest, q \o <<>>}
    BY <2>6, <2>9 DEF ReadTurn
  <2>11. Len(w) <= Room(j)
    BY <2>4, <2>5, <2>7, <2>8, <2>10
  <2>12. f[k] = w
    BY <1>5, <2>2, <2>9
  <2> QED BY <1>6, <2>1, <2>11, <2>12
<1>9. \A j \in 0 .. n : j \in Q
  BY <1>7, <1>8, TurnByTurn
<1>10. Len(f[1]) <= Room(n)
  <2>1. n \in Q /\ n + 1 - n = 1
    BY <1>9
  <2> QED BY <1>6, <2>1
<1>11. f[1] \in Seq(S)
  BY <1>5
<1>12. f[1] \in Seq(Codes)
  BY <1>3, <1>11
<1>13. \A i \in 1 .. Len(f[1]) : decode_policy_prop(f[1][i]).id \in SavedIds(p)
  BY <1>3, <1>11
<1>14. p[1] = NoItems => f[1] = <<>>
  <2>1. f[1] = ReadTurn(p, 1, f[1 + 1])
    BY <1>1, <1>5
  <2> QED BY <2>1 DEF ReadTurn
<1> QED BY <1>1, <1>5, <1>10, <1>12, <1>13, <1>14

\* A list as the k-th property holds it, and a list whose first m properties are written.
Chunk(l, k) ==
  [i \in 1 .. Smaller(k * ITEM_MAX, Len(l)) - (k - 1) * ITEM_MAX |->
     encode_policy_prop(l[(k - 1) * ITEM_MAX + i])]
Saved(l, p, m) == \A k \in 1 .. m : (k - 1) * ITEM_MAX < Len(l) => p[k] = Chunk(l, k)

\* Items that stand for those of a list behind the first a.
Reads(s, l, a) ==
  /\ s \in Seq(Codes) /\ Len(s) = Len(l) - a
  /\ \A i \in 1 .. Len(l) - a : s[i] = encode_policy_prop(l[a + i])

\* A list that is saved is read back, unless a property that it fills is followed
\* by one that holds older items.
LEMMA SavedIsRead ==
  ASSUME NEW p, PropsOK(p), NEW l, ListOK(l), l # <<>>, Len(l) <= Room(PROP_NUM), Saved(l, p, PROP_NUM),
         \A k \in 1 .. PROP_NUM - 1 : Len(l) = k * ITEM_MAX => p[k + 1] = NoItems
  PROVE  Reads(ItemsIn(p), l, 0)
<1>1. PICK n \in Nat : n = PROP_NUM /\ n # 0
  BY ThermalAssumption
<1>2. PICK c \in Nat : c = Len(l) /\ c # 0 /\ DOMAIN l = 1 .. c
  BY ListShape
<1>3. PICK f \in [1 .. n + 1 -> Seq(Codes)] :
        /\ ItemsIn(p) = f[1] /\ f[n + 1] = <<>>
        /\ \A k \in 1 .. n : f[k] = ReadTurn(p, k, f[k + 1])
  <2> QED BY <1>1, ReadCodes, Zenon
<1>4. PICK M \in Nat : M = ITEM_MAX /\ M # 0
  BY ThermalAssumption
<1>5. PICK Q : Q = {j \in 0 .. n : Room(n - j) <= c => Reads(f[n + 1 - j], l, Room(n - j))}
  OBVIOUS
<1>6. 0 \in Q
  <2>1. n + 1 - 0 = n + 1 /\ n - 0 = n /\ 0 \in 0 .. n
    OBVIOUS
  <2>2. ASSUME Room(n) <= c PROVE Reads(f[n + 1], l, Room(n))
    <3>1. Room(n) = c
      BY SMTT(60), <1>1, <1>2, <2>2, RoomFacts
    <3>2. c - c = 0
      OBVIOUS
    <3>3. f[n + 1] = <<>> /\ <<>> \in Seq(Codes) /\ Len(<<>>) = 0
      BY <1>3
    <3> QED BY <1>2, <3>1, <3>2, <3>3 DEF Reads
  <2> QED BY <1>5, <2>1, <2>2
<1>7. ASSUME NEW j \in 1 .. n, j - 1 \in Q PROVE j \in Q
  <2>1. PICK k \in 1 .. n : k = n + 1 - j
    OBVIOUS
  <2>2. n - j = k - 1 /\ n + 1 - (j - 1) = k + 1 /\ n - (j - 1) = k
    BY <2>1
  <2>3. PICK a \in Nat : a = Room(k - 1)
    <3>1. k - 1 \in Nat
      OBVIOUS
    <3> QED BY <3>1, RoomFacts
  <2>4. Room(k) = a + M /\ a = (k - 1) * ITEM_MAX /\ a + M = k * ITEM_MAX
    <3>1. k - 1 \in Nat /\ (k - 1) + 1 = k
      OBVIOUS
    <3>2. Room(k) = a + M
      BY <1>4, <2>3, <3>1, RoomFacts
    <3> QED BY <2>3, <3>2 DEF Room
  <2>5. SUFFICES ASSUME a <= c PROVE Reads(f[k], l, a)
    BY <1>5, <2>1, <2>2, <2>3
  <2>6. PICK q \in Seq(Codes) : q = p[k] /\ Len(q) <= M /\ Len(q) \in Nat
    BY <1>1, <1>4 DEF PropsOK
  <2>7. PICK rest \in Seq(Codes) : rest = f[k + 1] /\ Len(rest) \in Nat
    BY <1>3
  <2>8. f[k] = ReadTurn(p, k, rest)
    BY <1>3, <2>7
  <2>9. CASE a = c
    <3>1. k # 1
      BY <1>2, <2>3, <2>9, RoomFacts
    <3>2. PICK i \in 1 .. n - 1 : i = k - 1
      BY <3>1
    <3>3. p[k] = NoItems
      <4>1. Len(l) = i * ITEM_MAX /\ i + 1 = k
        BY <1>2, <2>4, <2>9, <3>2
      <4> QED BY <1>1, <3>2, <4>1
    <3>4. f[k] = <<>>
      BY <2>8, <3>3 DEF ReadTurn
    <3>5. c - a = 0 /\ <<>> \in Seq(Codes) /\ Len(<<>>) = 0
      BY <2>9
    <3> QED BY <1>2, <3>4, <3>5 DEF Reads
  <2>10. CASE a < c
    <3>1. PICK d \in Nat : d = Smaller(a + M, c) - a
      BY <2>10 DEF Smaller
    <3>2. d = (IF a + M < c THEN M ELSE c - a) /\ d # 0
      BY <1>4, <2>10, <3>1 DEF Smaller
    <3>3. q = [i \in 1 .. d |-> encode_policy_prop(l[a + i])]
      <4>1. q = Chunk(l, k)
        BY <1>1, <1>2, <2>4, <2>6, <2>10 DEF Saved
      <4> QED BY <1>2, <2>4, <3>1, <4>1, Zenon DEF Chunk
    <3>4. Len(q) = d /\ \A i \in 1 .. d : q[i] = encode_policy_prop(l[a + i])
      BY <3>1, <3>3
    <3>5. q # <<>>
      BY <3>2, <3>4
    <3>6. CASE a + M <= c
      <4>1. d = M
        BY <3>2, <3>6
      <4>2. Reads(rest, l, a + M)
        BY <1>5, <1>7, <2>2, <2>4, <2>7, <3>6
      <4>3. f[k] = q \o rest
        <5>1. p[k] # NoItems /\ p[k] = q
          BY <2>6, <3>5 DEF NoItems
        <5>2. ~(Len(q) < ITEM_MAX)
          BY <1>4, <3>4, <4>1
        <5> QED BY <2>8, <5>1, <5>2, Zenon DEF ReadTurn
      <4>4. Len(rest) = c - (a + M) /\ \A i \in 1 .. c - (a + M) : rest[i] = encode_policy_prop(l[(a + M) + i])
        BY <1>2, <4>2 DEF Reads
      <4>5. PICK w : w = q \o rest
        OBVIOUS
      <4>6. /\ w \in Seq(Codes) /\ Len(w) = Len(q) + Len(rest)
            /\ \A i \in 1 .. Len(q) + Len(rest) : w[i] = IF i <= Len(q) THEN q[i] ELSE rest[i - Len(q)]
        BY ZenonT(60), <2>6, <2>7, <4>5, ConcatProperties
      <4>7. Len(w) = c - a
        BY <3>4, <4>1, <4>4, <4>6
      <4>8. ASSUME NEW i \in 1 .. c - a PROVE w[i] = encode_policy_prop(l[a + i])
        <5>1. CASE i <= M
          BY <3>4, <4>1, <4>6, <4>7, <5>1
        <5>2. CASE ~(i <= M)
          <6>1. PICK b \in 1 .. c - (a + M) : b = i - M
            BY <5>2
          <6>2. w[i] = rest[b] /\ (a + M) + b = a + i
            BY <3>4, <4>1, <4>6, <4>7, <5>2, <6>1
          <6> QED BY <4>4, <6>1, <6>2
        <5> QED BY <5>1, <5>2
      <4> QED BY <1>2, <4>3, <4>5, <4>6, <4>7, <4>8 DEF Reads
    <3>7. CASE ~(a + M <= c)
      <4>1. d = c - a /\ d < M
        BY <3>2, <3>7
      <4>2. f[k] = q \o <<>>
        BY <1>4, <2>6, <2>8, <3>4, <3>5, <4>1 DEF ReadTurn, NoItems
      <4>3. q \o <<>> = q
        BY <2>6, ConcatEmptySeq
      <4> QED BY <1>2, <2>6, <3>4, <4>1, <4>2, <4>3 DEF Reads
    <3> QED BY <3>6, <3>7
  <2> QED BY <1>2, <2>3, <2>5, <2>9, <2>10
<1>8. \A j \in 0 .. n : j \in Q
  BY <1>6, <1>7, TurnByTurn
<1>9. Reads(f[1], l, 0)
  <2>1. n \in Q /\ n + 1 - n = 1 /\ n - n = 0 /\ Room(0) = 0
    BY <1>8, RoomFacts
  <2> QED BY <1>2, <1>5, <2>1
<1> QED BY <1>3, <1>9

\* The status before the first item.
NoList == [list |-> <<>>, max_id |-> DefaultPolicy]

\* It is in order.
LEMMA NoListIsGood == GoodState(NoList) /\ Pairs(NoList.list) = {} /\ Len(NoList.list) = 0
<1>1. NoList.list = <<>> /\ NoList.max_id = DefaultPolicy /\ Len(<<>>) = 0 /\ DOMAIN <<>> = {} /\ <<>> \in Seq(Item)
  BY DEF NoList
<1>2. ListOK(<<>>) /\ Pairs(<<>>) = {}
  BY <1>1 DEF ListOK, Distinct, Pairs
<1>3. get_next_policy(<<>>) = DefaultPolicy
  BY DEF get_next_policy
<1>4. NoList \in [list : Seq(Item), max_id : Int]
  BY <1>1 DEF NoList, DefaultPolicy
<1> QED BY <1>1, <1>2, <1>3, <1>4 DEF GoodState

\* One item.
LEMMA LoadItemFacts ==
  ASSUME NEW s, GoodState(s), NEW c \in Codes
  PROVE  /\ GoodState(LoadItem(s, c))
         /\ Pairs(LoadItem(s, c).list) =
              Updated(Pairs(s.list), decode_policy_prop(c).id, decode_policy_prop(c).refcnt)
         /\ Len(LoadItem(s, c).list) <= Len(s.list) + 1
<1>1. PICK x \in Item : x = decode_policy_prop(c)
  BY DecodeFacts
<1>2. PICK id \in Policy : id = x.id
  BY ItemShape
<1>3. PICK n \in 0 .. REF_MAX : n = x.refcnt /\ n # 0
  BY ItemShape, ThermalAssumption
<1>4. LoadItem(s, c) = update_policy_list(s, id, n)
  BY <1>1, <1>2, <1>3, Zenon DEF LoadItem
<1>5. n = 0 => id \in Ids(s.list)
  BY <1>3
<1>6. /\ GoodState(update_policy_list(s, id, n))
      /\ Pairs(update_policy_list(s, id, n).list) = Updated(Pairs(s.list), id, n)
      /\ Len(update_policy_list(s, id, n).list) <= Len(s.list) + 1
  BY <1>5, UpdateFacts, Zenon
<1> QED BY <1>1, <1>2, <1>3, <1>4, <1>6, Zenon

\* The status after each item.
LEMMA LoadTurns ==
  ASSUME NEW items \in Seq(Codes)
  PROVE  \E u :
           /\ \A i \in 0 .. Len(items) : GoodState(u[i])
           /\ u[0] = NoList /\ LoadItems(items) = u[Len(items)]
           /\ \A i \in 1 .. Len(items) : u[i] = LoadItem(u[i - 1], items[i])
<1>1. PICK n \in Nat : n = Len(items)
  OBVIOUS
<1>2. \A i \in 1 .. n : items[i] \in Codes
  BY <1>1
<1>3. PICK S : S = {s \in [list : Seq(Item), max_id : Int] : GoodState(s)}
  OBVIOUS
<1>4. \A s : s \in S <=> GoodState(s)
  BY <1>3 DEF GoodState
<1>5. NoList \in S
  BY <1>4, NoListIsGood
<1>6. \A s \in S, i \in 1 .. n : LoadItem(s, items[i]) \in S
  BY <1>2, <1>4, LoadItemFacts
<1>7. PICK body : body = [x \in S \X (1 .. n) |-> LoadItem(x[1], items[x[2]])]
  OBVIOUS
<1>8. \A s \in S, i \in 1 .. n : body[<<s, i>>] = LoadItem(s, items[i])
  BY <1>7
<1>9. body \in [S \X (1 .. n) -> S]
  <2>1. \A x \in S \X (1 .. n) : LoadItem(x[1], items[x[2]]) \in S
    <3> TAKE x \in S \X (1 .. n)
    <3>1. x[1] \in S /\ x[2] \in 1 .. n
      OBVIOUS
    <3> QED BY <1>6, <3>1
  <2> QED BY <1>7, <2>1
<1>10. PICK h \in [0 .. n -> S] : h[0] = NoList /\ \A i \in 1 .. n : h[i] = body[<<h[i - 1], i>>]
  <2>1. Looped(n, S, NoList, body)
    BY <1>5, <1>9, LoopExists
  <2> QED BY <2>1, Zenon DEF Looped
<1>11. h = [i \in 0 .. n |-> IF i = 0 THEN NoList ELSE LoadItem(h[i - 1], items[i])]
  <2>1. ASSUME NEW i \in 1 .. n PROVE h[i] = LoadItem(h[i - 1], items[i])
    <3>1. h[i - 1] \in S
      BY <1>10
    <3> QED BY <1>8, <1>10, <3>1
  <2>2. ASSUME NEW i \in 0 .. n PROVE h[i] = IF i = 0 THEN NoList ELSE LoadItem(h[i - 1], items[i])
    <3>1. i = 0 \/ i \in 1 .. n
      OBVIOUS
    <3> QED BY <1>10, <2>1, <3>1
  <2> QED BY <1>10, <2>2
<1> DEFINE G == CHOOSE g : g = [i \in 0 .. Len(items) |->
              IF i = 0 THEN [list |-> <<>>, max_id |-> DefaultPolicy] ELSE LoadItem(g[i - 1], items[i])]
<1>12. G = [i \in 0 .. Len(items) |->
              IF i = 0 THEN [list |-> <<>>, max_id |-> DefaultPolicy] ELSE LoadItem(G[i - 1], items[i])]
  <2>1. h = [i \in 0 .. Len(items) |->
              IF i = 0 THEN [list |-> <<>>, max_id |-> DefaultPolicy] ELSE LoadItem(h[i - 1], items[i])]
    BY <1>1, <1>11, Zenon DEF NoList
  <2> QED BY <2>1
<1>13. LoadItems(items) = G[Len(items)]
  BY DEF LoadItems
<1> HIDE DEF G
<1>14. G = [i \in 0 .. n |-> IF i = 0 THEN NoList ELSE LoadItem(G[i - 1], items[i])]
  BY <1>1, <1>12, Zenon DEF NoList
<1>15. G[0] = NoList /\ \A i \in 1 .. n : G[i] = LoadItem(G[i - 1], items[i])
  BY <1>14
<1>16. \A i \in 0 .. n : G[i] \in S
  <2>1. PICK Q : Q = {i \in 0 .. n : G[i] \in S}
    OBVIOUS
  <2>2. 0 \in Q
    BY <1>5, <1>15, <2>1
  <2>3. \A i \in 1 .. n : i - 1 \in Q => i \in Q
    BY <1>6, <1>15, <2>1
  <2>4. \A i \in 0 .. n : i \in Q
    BY <2>2, <2>3, TurnByTurn
  <2> QED BY <2>1, <2>4
<1>17. \A i \in 0 .. n : GoodState(G[i])
  BY <1>4, <1>16
<1> QED BY <1>1, <1>13, <1>15, <1>17, Zenon

\* What is loaded is a list in order, of items that were read.
LEMMA LoadFacts ==
  ASSUME NEW items \in Seq(Codes)
  PROVE  /\ GoodState(LoadItems(items)) /\ Len(LoadItems(items).list) <= Len(items)
         /\ \A o \in Ids(LoadItems(items).list) : \E i \in 1 .. Len(items) : decode_policy_prop(items[i]).id = o
<1>1. PICK n \in Nat : n = Len(items)
  OBVIOUS
<1>2. PICK u : /\ \A i \in 0 .. n : GoodState(u[i])
               /\ u[0] = NoList /\ LoadItems(items) = u[n]
               /\ \A i \in 1 .. n : u[i] = LoadItem(u[i - 1], items[i])
  BY <1>1, LoadTurns
<1>3. PICK D : D = {decode_policy_prop(items[i]).id : i \in 1 .. n}
  OBVIOUS
<1>4. PICK Q : Q = {i \in 0 .. n : Len(u[i].list) <= i /\ Ids(u[i].list) \subseteq D}
  OBVIOUS
<1>5. 0 \in Q
  <2>1. Ids(NoList.list) = {}
    <3>1. NoList.list = <<>> /\ DOMAIN <<>> = {}
      BY DEF NoList
    <3> QED BY <3>1 DEF Ids
  <2> QED BY <1>2, <1>4, <2>1, NoListIsGood
<1>6. ASSUME NEW i \in 1 .. n, i - 1 \in Q PROVE i \in Q
  <2>1. PICK s : s = u[i - 1]
    OBVIOUS
  <2>2. PICK r : r = LoadItem(s, items[i])
    OBVIOUS
  <2>3. u[i] = r /\ GoodState(s) /\ GoodState(r)
    BY <1>2, <2>1, <2>2
  <2>4. items[i] \in Codes
    BY <1>1
  <2>5. PICK id, c : id = decode_policy_prop(items[i]).id /\ c = decode_policy_prop(items[i]).refcnt
    OBVIOUS
  <2>6. Pairs(r.list) = Updated(Pairs(s.list), id, c) /\ Len(r.list) <= Len(s.list) + 1
    BY <2>2, <2>3, <2>4, <2>5, LoadItemFacts
  <2>7. ListOK(s.list) /\ ListOK(r.list)
    BY <2>3 DEF GoodState
  <2>8. Ids(s.list) = {p.id : p \in Pairs(s.list)} /\ Ids(r.list) = {p.id : p \in Pairs(r.list)}
    BY <2>7, CountFacts
  <2>9. Ids(r.list) \subseteq Ids(s.list) \cup {id}
    <3> SUFFICES ASSUME NEW p \in Pairs(r.list) PROVE p.id \in Ids(s.list) \cup {id}
      BY <2>8
    <3>1. p \in Pairs(s.list) \/ p = [id |-> id, refcnt |-> c]
      BY <2>6 DEF Updated
    <3> QED BY <2>8, <3>1
  <2>10. id \in D
    BY <1>3, <2>5
  <2>11. Len(s.list) \in Nat /\ Len(r.list) \in Nat
    BY <2>7, ListShape
  <2>12. Len(s.list) <= i - 1 /\ Ids(s.list) \subseteq D
    BY <1>4, <1>6, <2>1
  <2>13. Len(r.list) <= i
    BY <2>6, <2>11, <2>12
  <2> QED BY <1>4, <2>3, <2>9, <2>10, <2>12, <2>13
<1>7. \A i \in 0 .. n : i \in Q
  BY <1>5, <1>6, TurnByTurn
<1>8. Len(u[n].list) <= n /\ Ids(u[n].list) \subseteq D /\ GoodState(u[n])
  BY <1>2, <1>4, <1>7
<1> QED BY <1>1, <1>2, <1>3, <1>8

\* The first items of a list.
Leading(l, n) == {l[k] : k \in 1 .. n}

\* A list that was written is loaded with all its pairs.
LEMMA LoadedAgain ==
  ASSUME NEW l, ListOK(l), NEW items, Reads(items, l, 0)
  PROVE  Pairs(LoadItems(items).list) = Pairs(l)
<1>1. PICK n \in Nat : n = Len(l) /\ DOMAIN l = 1 .. n
  BY ListShape
<1>2. /\ items \in Seq(Codes) /\ Len(items) = n
      /\ \A i \in 1 .. n : items[i] = encode_policy_prop(l[i])
  <2>1. n - 0 = n /\ \A i \in 1 .. n : 0 + i = i
    OBVIOUS
  <2> QED BY <1>1, <2>1 DEF Reads
<1>3. PICK u : /\ \A i \in 0 .. n : GoodState(u[i])
               /\ u[0] = NoList /\ LoadItems(items) = u[n]
               /\ \A i \in 1 .. n : u[i] = LoadItem(u[i - 1], items[i])
  BY <1>2, LoadTurns
<1>4. PICK Q : Q = {i \in 0 .. n : Pairs(u[i].list) = Leading(l, i)}
  OBVIOUS
<1>5. 0 \in Q
  <2>1. 1 .. 0 = {}
    OBVIOUS
  <2>2. Leading(l, 0) = {}
    BY <2>1 DEF Leading
  <2>3. Pairs(u[0].list) = Leading(l, 0) /\ 0 \in 0 .. n
    BY <1>3, <2>2, NoListIsGood
  <2> QED BY <1>4, <2>3
<1>6. ASSUME NEW i \in 1 .. n, i - 1 \in Q PROVE i \in Q
  <2>1. PICK x \in Item : x = l[i]
    BY <1>1, ListShape
  <2>2. decode_policy_prop(items[i]) = x
    BY <1>2, <2>1, CodeFacts
  <2>3. items[i] \in Codes /\ GoodState(u[i - 1])
    BY <1>2, <1>3
  <2>4. Pairs(u[i].list) = Updated(Pairs(u[i - 1].list), x.id, x.refcnt)
    BY <1>3, <2>2, <2>3, LoadItemFacts
  <2>5. Pairs(u[i - 1].list) = Leading(l, i - 1)
    BY <1>4, <1>6
  <2>6. \A k \in 1 .. i - 1 : l[k].id # x.id
    BY <1>1, <2>1 DEF ListOK, Distinct
  <2>7. x.refcnt # 0 /\ x = [id |-> x.id, refcnt |-> x.refcnt]
    BY ItemShape
  <2>8. Updated(Leading(l, i - 1), x.id, x.refcnt) = Leading(l, i - 1) \cup {x}
    BY <2>6, <2>7 DEF Updated, Leading
  <2>9. Leading(l, i) = Leading(l, i - 1) \cup {x}
    <3>1. \A k : k \in 1 .. i <=> k \in 1 .. i - 1 \/ k = i
      OBVIOUS
    <3> QED BY <2>1, <3>1, Zenon DEF Leading
  <2>10. Pairs(u[i].list) = Leading(l, i) /\ i \in 0 .. n
    BY <2>4, <2>5, <2>8, <2>9
  <2> QED BY <1>4, <2>10
<1>7. \A i \in 0 .. n : i \in Q
  BY <1>5, <1>6, TurnByTurn
<1>8. Pairs(u[n].list) = Leading(l, n)
  BY <1>4, <1>7
<1>9. Pairs(l) = Leading(l, n)
  BY <1>1 DEF Pairs, Leading
<1> QED BY <1>3, <1>8, <1>9

\* The status in order, and no more policies than there is room for.
StatusInv == GoodState([list |-> policy_list, max_id |-> max_id]) /\ Len(policy_list) <= Room(PROP_NUM)

\* A policy is counted once for each of its locks.
Tallied(l, h, o) == \A id \in Policy \ o : get_policy_refcnt(l, id) = h[id]

\* What is left in the properties while nothing is counted is not of this HAL.
LeftInv == policy_list = <<>> /\ step # "save" => prop[1] = NoItems \/ SavedIds(prop) \subseteq odd

\* The properties before the one to be set hold their part of the list.
SaveInv ==
  step = "save" => (at = 1 \/ (at - 1) * ITEM_MAX < Len(policy_list)) /\ Saved(policy_list, prop, at - 1)

\* Otherwise all of them do, or the list is what they were read as.
SavedInv ==
  step # "save" /\ policy_list # <<>> => Saved(policy_list, prop, PROP_NUM) \/ policy_list = Loaded.list

ThermInv ==
  /\ StatusInv /\ PropsOK(prop) /\ Tallied(policy_list, held, odd)
  /\ step \in {"idle", "save", "apply"} /\ at \in 1 .. PROP_NUM /\ held \in [Policy -> Int]
  /\ LeftInv /\ SaveInv /\ SavedInv

\* The status that load_policy_prop leaves.
LEMMA LoadStep ==
  ASSUME ThermInv, step = "idle"
  PROVE  /\ GoodState(load_policy_prop) /\ Len(load_policy_prop.list) <= Room(PROP_NUM)
         /\ Tallied(load_policy_prop.list, held, odd)
         /\ load_policy_prop.list = policy_list \/ (policy_list = <<>> /\ load_policy_prop.list = Loaded.list)
<1>1. CASE policy_list # <<>>
  <2>1. load_policy_prop = [list |-> policy_list, max_id |-> max_id]
    BY <1>1, Zenon DEF load_policy_prop
  <2>2. load_policy_prop.list = policy_list
    BY <2>1
  <2> QED BY <2>1, <2>2 DEF ThermInv, StatusInv
<1>2. CASE policy_list = <<>>
  <2>1. PICK s : s = Loaded
    OBVIOUS
  <2>2. load_policy_prop = s
    BY <1>2, <2>1, Zenon DEF load_policy_prop
  <2>3. PICK items : items = ItemsIn(prop)
    OBVIOUS
  <2>4. PropsOK(prop)
    BY DEF ThermInv
  <2>5. items \in Seq(Codes) /\ Len(items) <= Room(PROP_NUM) /\ Len(items) \in Nat
    BY <2>3, <2>4, ReadShape
  <2>6. s = LoadItems(items)
    BY <2>1, <2>3, Zenon DEF Loaded
  <2>7. GoodState(s) /\ Len(s.list) <= Len(items)
    BY <2>5, <2>6, LoadFacts
  <2>8. ListOK(s.list) /\ Len(s.list) \in Nat
    <3>1. ListOK(s.list)
      BY <2>7 DEF GoodState
    <3> QED BY <3>1, ListShape
  <2>9. Room(PROP_NUM) \in Nat
    BY RoomFacts
  <2>10. Ids(s.list) \subseteq odd
    <3> SUFFICES ASSUME NEW o \in Ids(s.list) PROVE o \in odd
      OBVIOUS
    <3>1. PICK i \in 1 .. Len(items) : decode_policy_prop(items[i]).id = o
      BY <2>5, <2>6, LoadFacts
    <3>2. decode_policy_prop(items[i]).id \in SavedIds(prop)
      BY <2>3, <2>4, ReadShape
    <3>3. prop[1] # NoItems
      <4>1. items # <<>>
        BY <2>5, <3>1
      <4> QED BY <2>3, <2>4, <4>1, ReadShape
    <3> QED BY <1>2, <3>1, <3>2, <3>3 DEF ThermInv, LeftInv
  <2>11. Tallied(s.list, held, odd)
    <3> SUFFICES ASSUME NEW id \in Policy \ odd PROVE get_policy_refcnt(s.list, id) = held[id]
      BY DEF Tallied
    <3>1. get_policy_refcnt(s.list, id) = 0
      BY <2>8, <2>10, CountFacts
    <3>2. get_policy_refcnt(policy_list, id) = held[id]
      BY DEF ThermInv, Tallied
    <3>3. get_policy_refcnt(policy_list, id) = 0
      <4>1. Ids(<<>>) = {}
        BY DEF Ids
      <4> QED BY <1>2, <4>1 DEF get_policy_refcnt
    <3> QED BY <3>1, <3>2, <3>3
  <2> QED BY <1>2, <2>1, <2>2, <2>5, <2>7, <2>8, <2>9, <2>11
<1> QED BY <1>1, <1>2

\* A call that changes no count.
LEMMA KeepsStatus ==
  ASSUME ThermInv, step = "idle", UNCHANGED <<step, at, prop>>,
         policy_list' = load_policy_prop.list, max_id' = load_policy_prop.max_id,
         odd \subseteq odd', held' \in [Policy -> Int], Tallied(policy_list', held', odd')
  PROVE  ThermInv'
<1>1. PICK s : s = load_policy_prop
  OBVIOUS
<1>2. GoodState(s) /\ Len(s.list) <= Room(PROP_NUM) /\ policy_list' = s.list /\ max_id' = s.max_id
  BY <1>1, LoadStep
<1>3. s = [list |-> policy_list', max_id |-> max_id']
  BY <1>2 DEF GoodState
<1>4. StatusInv'
  BY <1>2, <1>3 DEF StatusInv
<1>5. Loaded' = Loaded
  BY Zenon DEF Loaded
<1>6. policy_list' = policy_list \/ (policy_list = <<>> /\ policy_list' = Loaded.list)
  BY LoadStep
<1>7. LeftInv'
  BY <1>5, <1>6 DEF ThermInv, LeftInv
<1>8. SaveInv'
  BY DEF SaveInv
<1>9. SavedInv'
  BY <1>5, <1>6 DEF ThermInv, SavedInv
<1> QED BY <1>4, <1>7, <1>8, <1>9 DEF ThermInv

\* A call that sets the count of a policy.
LEMMA SetsCount ==
  ASSUME ThermInv, step = "idle", NEW id \in Policy, NEW c \in 0 .. REF_MAX, UNCHANGED <<prop, odd>>,
         c = 0 => id \in Ids(load_policy_prop.list),
         id \in Ids(load_policy_prop.list) \/ Len(load_policy_prop.list) < Room(PROP_NUM),
         Save(update_policy_list(load_policy_prop, id, c)),
         id \in odd \/ held'[id] = c,
         held' \in [Policy -> Int], \A o \in Policy : o # id => held'[o] = held[o]
  PROVE  ThermInv'
<1>1. PICK s : s = load_policy_prop
  OBVIOUS
<1>2. GoodState(s) /\ Len(s.list) <= Room(PROP_NUM) /\ Tallied(s.list, held, odd)
  BY <1>1, LoadStep
<1>3. PICK r : r = update_policy_list(s, id, c)
  OBVIOUS
<1>4. GoodState(r) /\ Pairs(r.list) = Updated(Pairs(s.list), id, c) /\ Len(r.list) <= Len(s.list) + 1
      /\ (id \in Ids(s.list) => Len(r.list) <= Len(s.list))
  BY <1>1, <1>2, <1>3, UpdateFacts
<1>5. ListOK(s.list) /\ ListOK(r.list) /\ r = [list |-> r.list, max_id |-> r.max_id]
  BY <1>2, <1>4 DEF GoodState
<1>6. Len(s.list) \in Nat /\ Len(r.list) \in Nat
  BY <1>5, ListShape
<1>7. policy_list' = r.list /\ max_id' = r.max_id /\ step' = "save" /\ at' = 1
  BY <1>1, <1>3 DEF Save
<1>8. Room(PROP_NUM) \in Nat /\ PROP_NUM \in Nat \ {0}
  BY RoomFacts
<1>9. Len(r.list) <= Room(PROP_NUM)
  BY <1>1, <1>2, <1>4, <1>6, <1>8
<1>10. StatusInv'
  BY <1>4, <1>5, <1>7, <1>9 DEF StatusInv
<1>11. Tallied(policy_list', held', odd')
  <2> SUFFICES ASSUME NEW o \in Policy \ odd PROVE get_policy_refcnt(r.list, o) = held'[o]
    BY <1>7 DEF Tallied
  <2>1. c \in Nat
    BY ThermalAssumption
  <2>2. get_policy_refcnt(r.list, id) = c /\ \A q : q # id => get_policy_refcnt(r.list, q) = get_policy_refcnt(s.list, q)
    BY <1>4, <1>5, <2>1, CountAfter
  <2>3. get_policy_refcnt(s.list, o) = held[o]
    BY <1>2 DEF Tallied
  <2> QED BY <2>2, <2>3
<1>12. LeftInv' /\ SavedInv'
  BY <1>7 DEF LeftInv, SavedInv
<1>13. SaveInv'
  <2>1. Saved(policy_list', prop', at' - 1)
    BY <1>7 DEF Saved
  <2> QED BY <1>7, <2>1 DEF SaveInv
<1> QED BY <1>7, <1>8, <1>10, <1>11, <1>12, <1>13 DEF ThermInv

\* One property is set.
LEMMA SavesChunk ==
  ASSUME ThermInv, save_policy_prop
  PROVE  /\ prop' = [prop EXCEPT ![at] = Chunk(policy_list, at)]
         /\ PropsOK(prop')
         /\ (at - 1) * ITEM_MAX <= Len(policy_list)
         /\ policy_list = <<>> => at = 1 /\ Chunk(policy_list, at) = NoItems
<1>1. PICK l : l = policy_list
  OBVIOUS
<1>2. ListOK(l) /\ Len(l) <= Room(PROP_NUM)
  BY <1>1 DEF ThermInv, StatusInv, GoodState
<1>3. PICK c \in Nat : c = Len(l) /\ DOMAIN l = 1 .. c
  BY <1>2, ListShape
<1>4. l \in Seq(Item) /\ \A i \in 1 .. c : l[i] \in Item
  BY <1>2, <1>3, ListShape
<1>5. PICK M \in Nat : M = ITEM_MAX /\ M # 0
  BY ThermalAssumption
<1>6. PICK k \in Nat : k = at /\ k \in 1 .. PROP_NUM /\ k - 1 \in Nat
  BY ThermalAssumption DEF ThermInv
<1>7. PICK a \in Nat : a = (k - 1) * ITEM_MAX /\ k * ITEM_MAX = a + M
  <2>1. Room(k - 1) \in Nat /\ Room(k) = Room(k - 1) + ITEM_MAX
    <3>1. PICK j \in Nat : j = k - 1
      BY <1>6
    <3>2. Room(j) \in Nat /\ Room(j + 1) = Room(j) + ITEM_MAX
      BY RoomFacts
    <3>3. k = j + 1
      BY <1>6, <3>1
    <3> QED BY <3>1, <3>2, <3>3
  <2> QED BY <1>5, <2>1 DEF Room
<1>8. k = 1 => a = 0
  BY <1>5, <1>7
<1>9. step = "save" /\ (k = 1 \/ a < c)
  BY <1>1, <1>3, <1>6, <1>7 DEF ThermInv, SaveInv, save_policy_prop
<1>10. a <= c
  BY <1>8, <1>9
<1>11. PICK e \in Nat : e = Smaller(a + M, c) /\ a <= e /\ e <= c /\ e <= a + M
  BY <1>10 DEF Smaller
<1>12. PICK items : items = SubSeq(l, a + 1, e)
  OBVIOUS
<1>13. Len(items) = e - a /\ DOMAIN items = 1 .. e - a /\ \A i \in 1 .. e - a : items[i] = l[a + i]
  BY <1>3, <1>4, <1>11, <1>12
<1>14. PICK q : q = [i \in DOMAIN items |-> encode_policy_prop(items[i])]
  OBVIOUS
<1>15. prop' = [prop EXCEPT ![k] = q]
  BY <1>1, <1>3, <1>6, <1>7, <1>11, <1>12, <1>14, Zenon DEF save_policy_prop
<1>16. Chunk(l, k) = [i \in 1 .. e - a |-> encode_policy_prop(l[a + i])]
  BY <1>3, <1>7, <1>11, Zenon DEF Chunk
<1>17. q = Chunk(l, k)
  BY <1>13, <1>14, <1>16
<1>18. q \in Seq(Codes) /\ Len(q) <= ITEM_MAX
  <2>1. \A i \in 1 .. e - a : encode_policy_prop(l[a + i]) \in Codes
    <3> TAKE i \in 1 .. e - a
    <3>1. a + i \in 1 .. c
      BY <1>11
    <3> QED BY <1>4, <3>1, CodeFacts
  <2>2. PICK n \in Nat : n = e - a
    BY <1>11
  <2>3. q \in [1 .. n -> Codes]
    BY <1>16, <1>17, <2>1, <2>2
  <2>4. q \in Seq(Codes) /\ Len(q) = n
    BY <2>3
  <2> QED BY <1>5, <1>11, <2>2, <2>4
<1>19. PropsOK(prop')
  BY <1>15, <1>18 DEF ThermInv, PropsOK
<1>20. ASSUME l = <<>> PROVE k = 1 /\ q = <<>>
  <2>1. c = 0
    BY <1>3, <1>20
  <2>2. k = 1 /\ e - a = 0
    BY <1>8, <1>9, <1>11, <2>1
  <2>3. DOMAIN items = {}
    BY <1>13, <2>2
  <2> QED BY <1>14, <2>2, <2>3
<1> QED BY <1>1, <1>3, <1>6, <1>7, <1>10, <1>15, <1>17, <1>19, <1>20 DEF NoItems

\* save_policy_prop keeps what the properties promise.
LEMMA SaveKeeps ==
  ASSUME ThermInv, save_policy_prop
  PROVE  ThermInv'
<1>1. /\ prop' = [prop EXCEPT ![at] = Chunk(policy_list, at)] /\ PropsOK(prop')
      /\ (at - 1) * ITEM_MAX <= Len(policy_list)
      /\ policy_list = <<>> => at = 1 /\ Chunk(policy_list, at) = NoItems
  BY SavesChunk
<1>2. UNCHANGED <<policy_list, max_id, held, odd>> /\ step = "save"
  BY DEF save_policy_prop
<1>3. PICK n \in Nat : n = PROP_NUM /\ n # 0
  BY ThermalAssumption
<1>4. at \in 1 .. n /\ DOMAIN prop = 1 .. n /\ PropsOK(prop)
  BY <1>3 DEF ThermInv, PropsOK
<1>5. \A k \in 1 .. at - 1 : prop'[k] = prop[k] /\ k \in 1 .. n
  BY <1>1, <1>4
<1>6. prop'[at] = Chunk(policy_list, at)
  BY <1>1, <1>4
<1>7. Saved(policy_list, prop', at)
  <2> SUFFICES ASSUME NEW k \in 1 .. at, (k - 1) * ITEM_MAX < Len(policy_list)
               PROVE  prop'[k] = Chunk(policy_list, k)
    BY DEF Saved
  <2>1. CASE k = at
    BY <1>6, <2>1
  <2>2. CASE k # at
    <3>1. k \in 1 .. at - 1
      BY <1>4, <2>2
    <3>2. Saved(policy_list, prop, at - 1)
      BY <1>2 DEF ThermInv, SaveInv
    <3>3. prop[k] = Chunk(policy_list, k)
      BY <3>1, <3>2 DEF Saved
    <3> QED BY <1>5, <3>1, <3>3
  <2> QED BY <2>1, <2>2
<1>8. StatusInv' /\ Tallied(policy_list', held', odd') /\ held' \in [Policy -> Int]
  BY <1>2 DEF ThermInv, StatusInv
<1>9. Len(policy_list) \in Nat
  <2>1. ListOK(policy_list)
    BY DEF ThermInv, StatusInv, GoodState
  <2> QED BY <2>1, ListShape
<1>10. CASE at * ITEM_MAX >= Len(policy_list) \/ at = PROP_NUM
  <2>1. step' = "apply" /\ at' = 1
    BY <1>10 DEF save_policy_prop
  <2>2. Saved(policy_list, prop', PROP_NUM)
    <3> SUFFICES ASSUME NEW k \in 1 .. n, (k - 1) * ITEM_MAX < Len(policy_list)
                 PROVE  prop'[k] = Chunk(policy_list, k)
      BY <1>3 DEF Saved
    <3>1. k <= at
      <4> SUFFICES ASSUME ~(k <= at) PROVE FALSE
        OBVIOUS
      <4>1. at \in Nat /\ k - 1 \in Nat /\ at <= k - 1 /\ at # n
        BY <1>4
      <4>2. Room(at) <= Room(k - 1) /\ Room(at) \in Nat /\ Room(k - 1) \in Nat
        BY <4>1, RoomFacts
      <4>3. Room(at) >= Len(policy_list) /\ Room(k - 1) < Len(policy_list)
        BY <1>3, <1>10, <4>1 DEF Room
      <4> QED BY <1>9, <4>2, <4>3
    <3>2. k \in 1 .. at
      BY <1>4, <3>1
    <3> QED BY <1>7, <3>2 DEF Saved
  <2>3. LeftInv'
    <3>1. policy_list = <<>> => prop'[1] = NoItems
      BY <1>1, <1>6
    <3> QED BY <1>2, <3>1 DEF LeftInv
  <2>4. SaveInv' /\ SavedInv'
    BY <1>2, <2>1, <2>2 DEF SaveInv, SavedInv
  <2> QED BY <1>1, <1>3, <1>8, <2>1, <2>3, <2>4 DEF ThermInv
<1>11. CASE ~(at * ITEM_MAX >= Len(policy_list) \/ at = PROP_NUM)
  <2>1. step' = "save" /\ at' = at + 1
    BY <1>11 DEF save_policy_prop
  <2>2. at' \in 1 .. PROP_NUM /\ at' - 1 = at
    BY <1>3, <1>4, <1>11, <2>1
  <2>3. at * ITEM_MAX < Len(policy_list)
    <3>1. at * ITEM_MAX \in Int
      BY <1>4, ThermalAssumption
    <3> QED BY <1>9, <1>11, <3>1
  <2>4. SaveInv'
    BY <1>2, <1>7, <2>2, <2>3 DEF SaveInv
  <2>5. LeftInv' /\ SavedInv'
    BY <2>1 DEF LeftInv, SavedInv
  <2> QED BY <1>1, <1>8, <2>1, <2>2, <2>4, <2>5 DEF ThermInv
<1> QED BY <1>10, <1>11

\* Every step keeps the invariant.
LEMMA ThermStep == ThermInv /\ [TNext]_tVars => ThermInv'
<1> SUFFICES ASSUME ThermInv, [TNext]_tVars PROVE ThermInv'
  OBVIOUS
<1>1. PICK s : s = load_policy_prop
  OBVIOUS
<1>2. ASSUME step = "idle"
      PROVE  /\ GoodState(s) /\ Tallied(s.list, held, odd) /\ ListOK(s.list)
             /\ \A id \in Policy : get_policy_refcnt(s.list, id) \in 0 .. REF_MAX
             /\ \A id \in Policy : get_policy_refcnt(s.list, id) # 0 <=> id \in Ids(s.list)
  <2>1. GoodState(s) /\ Tallied(s.list, held, odd)
    BY <1>1, <1>2, LoadStep
  <2>2. ListOK(s.list)
    BY <2>1 DEF GoodState
  <2>3. ASSUME NEW id \in Policy
        PROVE  /\ get_policy_refcnt(s.list, id) \in 0 .. REF_MAX
               /\ get_policy_refcnt(s.list, id) # 0 <=> id \in Ids(s.list)
    <3>1. CASE id \in Ids(s.list)
      <4>1. get_policy_refcnt(s.list, id) \in 1 .. REF_MAX
        BY <2>2, <3>1, CountFacts
      <4> QED BY <3>1, <4>1, ThermalAssumption
    <3>2. CASE id \notin Ids(s.list)
      <4>1. get_policy_refcnt(s.list, id) = 0
        BY <2>2, <3>2, CountFacts
      <4> QED BY <3>2, <4>1, ThermalAssumption
    <3> QED BY <3>1, <3>2
  <2> QED BY <2>1, <2>2, <2>3
<1>3. held \in [Policy -> Int]
  BY DEF ThermInv
<1>4. ASSUME NEW id \in Policy, load_thm_api_start(id) PROVE ThermInv'
  <2>1. PICK n : n = get_policy_refcnt(s.list, id)
    OBVIOUS
  <2>2. step = "idle" /\ held' = [held EXCEPT ![id] = @ + 1] /\ UNCHANGED prop
    BY <1>4, Zenon DEF load_thm_api_start
  <2>3. held' \in [Policy -> Int] /\ held'[id] = held[id] + 1 /\ \A o \in Policy : o # id => held'[o] = held[o]
    BY <1>3, <2>2
  <2>4. n \in 0 .. REF_MAX /\ (n # 0 <=> id \in Ids(s.list))
    BY <1>2, <2>1, <2>2
  <2>5. \/ /\ policy_list' = s.list /\ max_id' = s.max_id /\ odd' = odd \cup {id} /\ UNCHANGED <<step, at>>
        \/ /\ n < REF_MAX /\ (Len(s.list) < PROP_NUM * ITEM_MAX \/ n > 0)
           /\ Save(update_policy_list(s, id, n + 1))
           /\ UNCHANGED odd
    BY <1>1, <1>4, <2>1, Zenon DEF load_thm_api_start
  <2>6. CASE policy_list' = s.list /\ max_id' = s.max_id /\ odd' = odd \cup {id} /\ UNCHANGED <<step, at>>
    <3>1. Tallied(policy_list', held', odd')
      BY <1>2, <2>2, <2>3, <2>6 DEF Tallied
    <3>2. odd \subseteq odd'
      BY <2>6
    <3> QED BY <1>1, <2>2, <2>3, <2>6, <3>1, <3>2, KeepsStatus
  <2>7. CASE /\ n < REF_MAX /\ (Len(s.list) < PROP_NUM * ITEM_MAX \/ n > 0)
             /\ Save(update_policy_list(s, id, n + 1))
             /\ UNCHANGED odd
    <3>1. PICK c \in 0 .. REF_MAX : c = n + 1 /\ c # 0
      BY <2>4, <2>7, ThermalAssumption
    <3>2. id \in Ids(s.list) \/ Len(s.list) < Room(PROP_NUM)
      BY <2>4, <2>7 DEF Room
    <3>3. id \in odd \/ held'[id] = c
      BY <1>2, <2>1, <2>2, <2>3, <3>1 DEF Tallied
    <3> QED BY <1>1, <2>2, <2>3, <2>7, <3>1, <3>2, <3>3, SetsCount
  <2> QED BY <2>5, <2>6, <2>7
<1>5. ASSUME NEW id \in Policy, load_thm_api_stop(id) PROVE ThermInv'
  <2>1. PICK n : n = get_policy_refcnt(s.list, id)
    OBVIOUS
  <2>2. /\ step = "idle" /\ held[id] > 0 /\ held' = [held EXCEPT ![id] = @ - 1] /\ UNCHANGED <<prop, odd>>
    BY <1>5, Zenon DEF load_thm_api_stop
  <2>3. held' \in [Policy -> Int] /\ held'[id] = held[id] - 1 /\ \A o \in Policy : o # id => held'[o] = held[o]
    BY <1>3, <2>2
  <2>4. n \in 0 .. REF_MAX /\ (n # 0 <=> id \in Ids(s.list))
    BY <1>2, <2>1, <2>2
  <2>5. \/ n = 0 /\ policy_list' = s.list /\ max_id' = s.max_id /\ UNCHANGED <<step, at>>
        \/ n > 0 /\ Save(update_policy_list(s, id, n - 1))
    BY <1>1, <1>5, <2>1, Zenon DEF load_thm_api_stop
  <2>6. CASE n = 0 /\ policy_list' = s.list /\ max_id' = s.max_id /\ UNCHANGED <<step, at>>
    <3>1. id \in odd
      <4> SUFFICES ASSUME id \notin odd PROVE FALSE
        OBVIOUS
      <4>1. n = held[id]
        BY <1>2, <2>1, <2>2 DEF Tallied
      <4> QED BY <2>2, <2>6, <4>1
    <3>2. Tallied(policy_list', held', odd')
      BY <1>2, <2>2, <2>3, <2>6, <3>1 DEF Tallied
    <3>3. odd \subseteq odd'
      BY <2>2
    <3> QED BY <1>1, <2>2, <2>3, <2>6, <3>2, <3>3, KeepsStatus
  <2>7. CASE n > 0 /\ Save(update_policy_list(s, id, n - 1))
    <3>1. PICK c \in 0 .. REF_MAX : c = n - 1
      BY <2>4, <2>7, ThermalAssumption
    <3>2. id \in Ids(s.list)
      BY <2>4, <2>7
    <3>3. id \in odd \/ held'[id] = c
      BY <1>2, <2>1, <2>2, <2>3, <3>1 DEF Tallied
    <3> QED BY <1>1, <2>2, <2>3, <2>7, <3>1, <3>2, <3>3, SetsCount
  <2> QED BY <2>5, <2>6, <2>7
<1>6. CASE save_policy_prop
  BY <1>6, SaveKeeps
<1>7. CASE change_policy
  <2>1. step = "apply" /\ step' = "idle" /\ UNCHANGED <<policy_list, max_id, prop, at, held, odd>>
    BY <1>7 DEF change_policy
  <2>2. Loaded' = Loaded
    BY <2>1, Zenon DEF Loaded
  <2>3. LeftInv' /\ SaveInv' /\ SavedInv'
    BY <2>1, <2>2 DEF ThermInv, LeftInv, SaveInv, SavedInv
  <2> QED BY <2>1, <2>3 DEF ThermInv, StatusInv
<1>8. CASE reset_thermal_policy
  <2>1. /\ policy_list' = <<>> /\ max_id' = DefaultPolicy /\ held' = [id \in Policy |-> 0] /\ UNCHANGED prop
        /\ step' = "idle" /\ at' = 1 /\ odd' = odd \cup SavedIds(prop)
    BY <1>8, Zenon DEF reset_thermal_policy, SavedIds
  <2>2. [list |-> policy_list', max_id |-> max_id'] = NoList /\ policy_list' = NoList.list
    BY <2>1 DEF NoList
  <2>3. StatusInv'
    <3>1. Room(PROP_NUM) \in Nat
      BY RoomFacts
    <3>2. GoodState([list |-> policy_list', max_id |-> max_id']) /\ Len(policy_list') = 0
      BY <2>2, NoListIsGood
    <3> QED BY <3>1, <3>2 DEF StatusInv
  <2>4. Tallied(policy_list', held', odd')
    <3>1. Ids(policy_list') = {}
      BY <2>1 DEF Ids
    <3> QED BY <2>1, <3>1 DEF Tallied, get_policy_refcnt
  <2>5. LeftInv' /\ SaveInv' /\ SavedInv'
    BY <2>1 DEF LeftInv, SaveInv, SavedInv
  <2>6. at' \in 1 .. PROP_NUM /\ held' \in [Policy -> Int]
    BY <2>1, ThermalAssumption
  <2> QED BY <2>1, <2>3, <2>4, <2>5, <2>6 DEF ThermInv
<1>9. CASE CoreRestart \/ UNCHANGED tVars
  <2>1. UNCHANGED <<policy_list, max_id, prop, step, at, held, odd>>
    BY <1>9 DEF CoreRestart, tVars
  <2>2. Loaded' = Loaded
    BY <2>1, Zenon DEF Loaded
  <2>3. LeftInv' /\ SaveInv' /\ SavedInv'
    BY <2>1, <2>2 DEF ThermInv, LeftInv, SaveInv, SavedInv
  <2> QED BY <2>1, <2>3 DEF ThermInv, StatusInv
<1> QED BY <1>4, <1>5, <1>6, <1>7, <1>8, <1>9 DEF TNext

\* It holds from the start on.
LEMMA ThermAlways == TSpec => []ThermInv
<1>1. TInit => ThermInv
  <2> SUFFICES ASSUME TInit PROVE ThermInv
    OBVIOUS
  <2>1. /\ policy_list = <<>> /\ max_id = DefaultPolicy /\ held = [id \in Policy |-> 0]
        /\ step = "idle" /\ at = 1 /\ prop = [k \in 1 .. PROP_NUM |-> <<>>]
    BY DEF TInit, NoItems
  <2>2. [list |-> policy_list, max_id |-> max_id] = NoList /\ policy_list = NoList.list
    BY <2>1 DEF NoList
  <2>3. StatusInv
    <3>1. Room(PROP_NUM) \in Nat
      BY RoomFacts
    <3>2. GoodState([list |-> policy_list, max_id |-> max_id]) /\ Len(policy_list) = 0
      BY <2>2, NoListIsGood
    <3> QED BY <3>1, <3>2 DEF StatusInv
  <2>4. Tallied(policy_list, held, odd)
    <3>1. Ids(policy_list) = {}
      BY <2>1 DEF Ids
    <3> QED BY <2>1, <3>1 DEF Tallied, get_policy_refcnt
  <2>5. LeftInv /\ SaveInv /\ SavedInv
    <3>1. prop[1] = NoItems
      BY <2>1, ThermalAssumption DEF NoItems
    <3> QED BY <2>1, <3>1 DEF LeftInv, SaveInv, SavedInv
  <2>6. at \in 1 .. PROP_NUM /\ held \in [Policy -> Int]
    BY <2>1, ThermalAssumption
  <2>7. PropsOK(prop)
    <3>1. <<>> \in Seq(Codes) /\ Len(<<>>) = 0 /\ 0 <= ITEM_MAX
      BY ThermalAssumption
    <3> QED BY <2>1, <3>1 DEF PropsOK
  <2> QED BY <2>1, <2>3, <2>4, <2>5, <2>6, <2>7 DEF ThermInv
<1> QED BY <1>1, ThermStep, PTL DEF TSpec

\* A policy is counted once for each lock that started it, and the highest policy
\* counted is max_id, for every number of policies, properties and items: also
\* after a crash that left the properties half written.
THEOREM PoliciesAreCounted == TSpec => []PolicyCounted
<1>1. ThermInv => PolicyCounted
  BY DEF ThermInv, StatusInv, GoodState, Tallied, PolicyCounted
<1> QED BY <1>1, ThermAlways, PTL

\* A HAL that restarts between calls reads back the counts that this one has, although
\* only the leading properties are rewritten, but for items that fill them exactly
\* and are followed by older ones.
THEOREM RestartIsRight == TSpec => []RestartReadsBack
<1>1. ThermInv => RestartReadsBack
  <2> SUFFICES ASSUME ThermInv, step # "save", policy_list # <<>>,
                      ~ \E k \in 1 .. PROP_NUM - 1 : Len(policy_list) = k * ITEM_MAX /\ prop[k + 1] # NoItems
               PROVE  Pairs(Loaded.list) = Pairs(policy_list)
    BY DEF RestartReadsBack, Pairs
  <2>1. CASE policy_list = Loaded.list
    BY <2>1
  <2>2. CASE Saved(policy_list, prop, PROP_NUM)
    <3>1. PropsOK(prop) /\ ListOK(policy_list) /\ Len(policy_list) <= Room(PROP_NUM)
      BY DEF ThermInv, StatusInv, GoodState
    <3>2. Reads(ItemsIn(prop), policy_list, 0)
      BY <2>2, <3>1, SavedIsRead
    <3> QED BY <3>1, <3>2, LoadedAgain DEF Loaded
  <2> QED BY <2>1, <2>2 DEF ThermInv, SavedInv
<1> QED BY <1>1, ThermAlways, PTL
-----------------------------------------------------------------------------
(***************************************************************************)
(* Network boosts: rules by link.                                          *)
(***************************************************************************)
LinkTypes ==
  /\ pIpFilterTbl \in [FilterEntry -> Link \cup {NoLink}]
  /\ nIpFilterCurIdx \in FilterEntry
  /\ linkRules \subseteq Link

LinkInv == LinkTypes /\ LinksListed

\* One link takes the place of the oldest, which is cleared or known to be left behind.
LEMMA SetOneKeeps ==
  ASSUME LinkInv, NEW l \in Link, NEW clear, NEW set, SetOnePacketLink(l, clear, set)
  PROVE  LinkInv'
<1> DEFINE old == pIpFilterTbl[nIpFilterCurIdx]
           left == IF clear = "done" THEN linkRules \ {old} ELSE linkRules
<1>1. nIpFilterCurIdx \in FilterEntry /\ FILTER_COUNT \in Nat \ {0}
  BY NetdAssumption DEF LinkInv, LinkTypes
<1>2. (nIpFilterCurIdx + 1) % FILTER_COUNT \in FilterEntry
  BY <1>1 DEF FilterEntry
<1>3. LinkTypes'
  BY <1>1, <1>2 DEF SetOnePacketLink, LinkInv, LinkTypes
<1>4. \A m \in left : /\ m \in strayLinks' \/ \E e \in FilterEntry : pIpFilterTbl[e] = m
                      /\ m = old => m \in strayLinks'
  BY NetdAssumption DEF SetOnePacketLink, LinkInv, LinkTypes, LinksListed
<1>5. ASSUME NEW m \in linkRules'
      PROVE  m \in strayLinks' \/ \E e \in FilterEntry : pIpFilterTbl'[e] = m
  <2>1. CASE m = l /\ set = "done"
    <3>1. pIpFilterTbl'[nIpFilterCurIdx] = l
      BY <1>1, <2>1 DEF SetOnePacketLink, LinkInv, LinkTypes
    <3> QED BY <1>1, <2>1, <3>1
  <2>2. CASE m \in left /\ m # old /\ m \notin strayLinks'
    <3>1. PICK e \in FilterEntry : pIpFilterTbl[e] = m
      BY <1>4, <2>2
    <3>2. e # nIpFilterCurIdx
      BY <2>2, <3>1
    <3>3. pIpFilterTbl'[e] = m
      BY <3>1, <3>2 DEF SetOnePacketLink, LinkInv, LinkTypes
    <3> QED BY <3>3
  <2>3. m \in left \/ (m = l /\ set = "done")
    BY <1>5 DEF SetOnePacketLink
  <2> QED BY <1>4, <2>1, <2>2, <2>3
<1> QED BY <1>3, <1>5 DEF LinkInv, LinksListed

\* The rules that are left when the entries up to a failure have been cleared are those of
\* the entries not reached, those whose clear was lost, and those that were stray.
LEMMA DeletedKeeps ==
  ASSUME LinkInv, NEW stop \in 0..FILTER_COUNT, NEW lostAt \in SUBSET FilterEntry,
         Deletable(stop, lostAt), NEW l \in RulesLeft(stop, lostAt)
  PROVE  \/ l \in strayLinks \cup {pIpFilterTbl[e] : e \in lostAt}
         \/ \E e \in FilterEntry : ~(e < stop) /\ Deleted(stop)[e] = l
<1>1. l \in linkRules
  BY DEF RulesLeft
<1>2. CASE l \in strayLinks
  BY <1>2
<1>3. ASSUME NEW e \in FilterEntry, pIpFilterTbl[e] = l
      PROVE  \/ l \in {pIpFilterTbl[d] : d \in lostAt}
             \/ \E d \in FilterEntry : ~(d < stop) /\ Deleted(stop)[d] = l
  <2>1. CASE e \in lostAt
    BY <1>3, <2>1
  <2>2. CASE ~(e < stop)
    BY <1>3, <2>2 DEF Deleted
  <2> QED BY <1>3, <2>1, <2>2 DEF RulesLeft
<1> QED BY <1>1, <1>2, <1>3 DEF LinkInv, LinksListed

\* Every step of the rules by link keeps the table in step with the agent.
LEMMA LinkNextKeeps == LinkInv /\ LinkNext => LinkInv'
<1> SUFFICES ASSUME LinkInv, LinkNext PROVE LinkInv'
  OBVIOUS
<1>0. FILTER_COUNT \in Nat \ {0}
  BY NetdAssumption
<1>1. ASSUME NEW l \in Link, NEW clear \in Outcome, NEW set \in Outcome,
             SetOnePacketLink(l, clear, set)
      PROVE  LinkInv'
  BY <1>1, SetOneKeeps
<1>2. ASSUME NEW stop \in 0..FILTER_COUNT, NEW lostAt \in SUBSET FilterEntry,
             deleteAllDupPackerLink(stop, lostAt)
      PROVE  LinkInv'
  <2>1. LinkTypes'
    <3>1. nIpFilterCurIdx' \in FilterEntry
      BY <1>0, <1>2 DEF deleteAllDupPackerLink, LinkInv, LinkTypes, FilterEntry
    <3>2. pIpFilterTbl' \in [FilterEntry -> Link \cup {NoLink}]
      BY <1>2 DEF deleteAllDupPackerLink, LinkInv, LinkTypes, Deleted
    <3>3. linkRules' \subseteq Link
      BY <1>2 DEF deleteAllDupPackerLink, LinkInv, LinkTypes, RulesLeft
    <3> QED BY <3>1, <3>2, <3>3 DEF LinkTypes
  <2>2. LinksListed'
    BY <1>2, DeletedKeeps DEF deleteAllDupPackerLink, LinksListed
  <2> QED BY <2>1, <2>2 DEF LinkInv
<1>3. ASSUME NEW links \in [FilterEntry -> Link], NEW n \in 0..FILTER_COUNT,
             NEW lostAt \in SUBSET FilterEntry, SetDupPacketMultiLink(links, n, lostAt)
      PROVE  LinkInv'
  <2>1. 0 .. n - 1 \subseteq FilterEntry /\ n % FILTER_COUNT \in FilterEntry
    BY <1>0 DEF FilterEntry
  <2>2. LinkTypes'
    <3>1. linkRules' \subseteq Link
      BY <1>3, <2>1 DEF SetDupPacketMultiLink, LinkInv, LinkTypes, RulesLeft
    <3> QED BY <1>3, <2>1, <3>1 DEF SetDupPacketMultiLink, LinkTypes
  <2>3. ASSUME NEW l \in linkRules'
        PROVE  l \in strayLinks' \/ \E e \in FilterEntry : pIpFilterTbl'[e] = l
    <3>1. CASE l \in RulesLeft(FILTER_COUNT, lostAt)
      <4>1. FILTER_COUNT \in 0..FILTER_COUNT /\ \A e \in FilterEntry : e < FILTER_COUNT
        BY <1>0 DEF FilterEntry
      <4>2. l \in strayLinks \cup {pIpFilterTbl[e] : e \in lostAt}
        BY <1>3, <3>1, <4>1, DeletedKeeps DEF SetDupPacketMultiLink
      <4> QED BY <1>3, <4>2 DEF SetDupPacketMultiLink
    <3>2. ASSUME NEW e \in 0 .. n - 1, l = links[e]
          PROVE  \E d \in FilterEntry : pIpFilterTbl'[d] = l
      <4>1. e \in FilterEntry /\ e < n
        BY <2>1
      <4> QED BY <1>3, <3>2, <4>1 DEF SetDupPacketMultiLink
    <3> QED BY <1>3, <2>3, <3>1, <3>2 DEF SetDupPacketMultiLink
  <2> QED BY <2>2, <2>3 DEF LinkInv, LinksListed
<1>4. ASSUME NEW act \in {"set", "clear", "clear_all"}, NEW l \in Link,
             booster_netd_config_by_linkinfo(act, l)
      PROVE  LinkInv'
  BY <1>4 DEF booster_netd_config_by_linkinfo, LinkInv, LinkTypes, LinksListed
<1>5. ASSUME NEW o \in Outcome, netd_reset_links(o)
      PROVE  LinkInv'
  BY <1>0, <1>5, NetdAssumption DEF netd_reset_links, LinkInv, LinkTypes, LinksListed, FilterEntry
<1> QED BY <1>1, <1>2, <1>3, <1>4, <1>5 DEF LinkNext

\* Every link that has priority at the agent is in the HAL's table, unless a clear was
\* not carried out or it was set past the table; for tables of every size, with the
\* ring of the single links and the list of the others in any order.
THEOREM LinksAreListed == NSpec => []LinksListed
<1>1. NInit => LinkInv
  BY NetdAssumption DEF NInit, LinkInit, LinkInv, LinkTypes, LinksListed, FilterEntry
<1>2. LinkInv /\ [NNext]_<<uidVars, linkVars>> => LinkInv'
  <2>1. LinkInv /\ UNCHANGED linkVars => LinkInv'
    BY DEF linkVars, LinkInv, LinkTypes, LinksListed
  <2> QED BY <2>1, LinkNextKeeps DEF NNext
<1>3. LinkInv => LinksListed
  BY DEF LinkInv
<1> QED BY <1>1, <1>2, <1>3, PTL DEF NSpec
-----------------------------------------------------------------------------
(***************************************************************************)
(* Network boosts: rules by uid.                                           *)
(***************************************************************************)

\* A rule is accounted for: for good, as stray, by a lock that asks for the uid, or as the
\* boost of the foreground application that is on record.
Accounted(uid) ==
  \/ InTable(uid) \/ uid \in strayUids
  \/ uid \in Uid /\ boosts[uid] > 0
  \/ uid = lastFgBoost /\ boosts[FOREGROUND] > 0

UidInv ==
  /\ boosts \in [Value -> Nat]
  /\ boostUidTbl \in [Entry -> AnyUid]
  /\ fgUid \in Uid \cup {NoUid}
  /\ NoUid \in uidRules => NoUid \in strayUids
  /\ \A uid \in uidRules : uid # FOREGROUND /\ Accounted(uid)

\* The values of locks are apart, and none of them is the mark of an empty entry.
LEMMA UidFacts ==
  /\ Uid \subseteq Value /\ FOREGROUND \in Value /\ ALWAYS \in Value
  /\ FOREGROUND # ALWAYS /\ FOREGROUND \notin Uid /\ ALWAYS \notin Uid
  /\ NoUid \notin Value
BY NetdAssumption DEF Value, FOREGROUND, ALWAYS, NoUid

\* A table that is not full has a first empty entry.
LEMMA FirstEmptyFact ==
  ASSUME ~Full, boostUidTbl \in [Entry -> AnyUid]
  PROVE  FirstEmpty \in Entry /\ boostUidTbl[FirstEmpty] = NoUid
<1> DEFINE S == {e \in Entry : boostUidTbl[e] = NoUid}
<1>1. S # {} /\ S \subseteq Nat
  BY DEF Full, Entry
<1>3. PICK e \in S : \A d \in S : e <= d
  <2> HIDE DEF S
  <2> QED BY <1>1, LeastNat
<1>4. \A d \in 1 .. e - 1 : boostUidTbl[d] # NoUid
  <2> SUFFICES ASSUME NEW d \in 1 .. e - 1, boostUidTbl[d] = NoUid PROVE FALSE
    OBVIOUS
  <2>1. e \in Entry /\ UID_COUNT \in Nat
    BY NetdAssumption
  <2>2. d \in S /\ d \in Nat /\ e \in Nat /\ d < e
    BY <2>1 DEF Entry
  <2> QED BY <1>3, <2>2
<1>5. \E x \in Entry : boostUidTbl[x] = NoUid /\ \A d \in 1 .. x - 1 : boostUidTbl[d] # NoUid
  BY <1>3, <1>4
<1> QED BY <1>5 DEF FirstEmpty

\* A new lock adds a rule that it accounts for, and an entry of the table is only taken
\* where there was none.
LEMMA SetUidKeeps ==
  ASSUME UidInv, NEW v \in Value, NEW o, netd_set_priority_uid(v, o)
  PROVE  UidInv'
<1>0. PICK uid : uid = IF v \in {FOREGROUND, ALWAYS} THEN fgUid ELSE v
  OBVIOUS
<1> DEFINE send == ~NoCommand(v) /\ boostEnabled
<1>1. /\ boosts \in [Value -> Nat] /\ boostUidTbl \in [Entry -> AnyUid]
      /\ fgUid \in Uid \cup {NoUid} /\ fgUid' = fgUid
      /\ UNCHANGED channel
  BY DEF UidInv, netd_set_priority_uid
<1>2. uid \in Uid \cup {NoUid} /\ uid # FOREGROUND
  BY <1>0, <1>1, UidFacts DEF Value
<1>3. /\ boosts' \in [Value -> Nat] /\ boosts'[v] > 0
      /\ \A w \in Value : boosts[w] > 0 => boosts'[w] > 0
  BY <1>1 DEF netd_set_priority_uid
<1>4. /\ boostUidTbl' \in [Entry -> AnyUid]
      /\ \A x : InTable(x) /\ x # NoUid => InTable(x)'
      /\ v = ALWAYS /\ send /\ o = "done" => InTable(uid)'
  <2>1. CASE v = ALWAYS /\ send /\ o # "failed"
    <3>1. FirstEmpty \in Entry /\ boostUidTbl[FirstEmpty] = NoUid
      BY <1>1, <2>1, FirstEmptyFact DEF NoCommand
    <3>2. boostUidTbl' = [boostUidTbl EXCEPT ![FirstEmpty] = uid] /\ uid \in AnyUid
      BY <1>0, <1>2, <2>1 DEF netd_set_priority_uid, AnyUid
    <3>3. boostUidTbl' \in [Entry -> AnyUid] /\ boostUidTbl'[FirstEmpty] = uid
      BY <1>1, <3>1, <3>2
    <3>4. \A e \in Entry : e # FirstEmpty => boostUidTbl'[e] = boostUidTbl[e]
      BY <1>1, <3>1, <3>2
    <3>5. \A x : InTable(x) /\ x # NoUid => \E e \in Entry : boostUidTbl'[e] = x
      BY <3>1, <3>4 DEF InTable
    <3> QED BY <3>1, <3>3, <3>5 DEF InTable
  <2>2. CASE ~(v = ALWAYS /\ send /\ o # "failed")
    <3>1. boostUidTbl' = boostUidTbl
      BY <2>2 DEF netd_set_priority_uid
    <3> QED BY <1>1, <2>2, <3>1 DEF InTable
  <2> QED BY <2>1, <2>2
<1>5. /\ strayUids \subseteq strayUids'
      /\ uid = NoUid => NoUid \in strayUids'
      /\ \/ lastFgBoost' = lastFgBoost
         \/ lastFgBoost' = fgUid /\ (lastFgBoost = NoUid \/ lastFgBoost \in strayUids')
  BY <1>0 DEF netd_set_priority_uid
<1>6. uidRules' \subseteq uidRules \cup (IF send /\ o = "done" THEN {uid} ELSE {})
  BY <1>0 DEF netd_set_priority_uid, booster_netd_config_by_uid
<1>7. NoUid \in uidRules' => NoUid \in strayUids'
  BY <1>5, <1>6 DEF UidInv
<1>8. ASSUME NEW x \in uidRules, x # NoUid PROVE Accounted(x)'
  <2>1. Accounted(x)
    BY <1>8 DEF UidInv
  <2>2. CASE InTable(x) \/ x \in strayUids
    BY <1>4, <1>5, <1>8, <2>2 DEF Accounted
  <2>3. CASE x \in Uid /\ boosts[x] > 0
    BY <1>3, <2>3, UidFacts DEF Accounted
  <2>4. CASE x = lastFgBoost /\ boosts[FOREGROUND] > 0
    BY <1>3, <1>5, <1>8, <2>4, UidFacts DEF Accounted
  <2> QED BY <2>1, <2>2, <2>3, <2>4 DEF Accounted
<1>9. ASSUME send, o = "done", uid # NoUid PROVE Accounted(uid)'
  <2>1. CASE v = ALWAYS
    BY <1>4, <1>9, <2>1 DEF Accounted
  <2>2. CASE v = FOREGROUND
    <3>1. lastFgBoost' = fgUid
      BY <1>9, <2>2 DEF netd_set_priority_uid
    <3> QED BY <1>0, <1>3, <2>2, <3>1 DEF Accounted
  <2>3. CASE v \in Uid
    BY <1>0, <1>3, <2>3, UidFacts DEF Accounted
  <2> QED BY <2>1, <2>2, <2>3 DEF Value
<1>10. ASSUME NEW x \in uidRules' PROVE x # FOREGROUND /\ Accounted(x)'
  <2>1. CASE x = NoUid
    BY <1>7, <1>10, <2>1 DEF Accounted, NoUid, FOREGROUND
  <2>2. CASE x # NoUid /\ x \in uidRules
    BY <1>8, <2>2 DEF UidInv
  <2>3. CASE x # NoUid /\ send /\ o = "done" /\ x = uid
    <3> HIDE DEF send
    <3> QED BY <1>2, <1>9, <2>3
  <2> QED BY <1>6, <1>10, <2>1, <2>2, <2>3
<1> QED BY <1>1, <1>3, <1>4, <1>7, <1>10 DEF UidInv

\* The end of a lock takes its rule away, or the agent would not.
LEMMA ClearUidKeeps ==
  ASSUME UidInv, NEW v \in Value, NEW o, netd_clear_priority_uid(v, o)
  PROVE  UidInv'
<1> DEFINE uid == IF v = FOREGROUND /\ lastFgBoost # NoUid THEN lastFgBoost ELSE v
<1>1. /\ boosts \in [Value -> Nat] /\ boostUidTbl' = boostUidTbl
      /\ fgUid' = fgUid /\ strayUids \subseteq strayUids'
  BY DEF UidInv, netd_clear_priority_uid
<1>2. /\ boosts' \in [Value -> Nat]
      /\ \A w \in Value : w # v => boosts'[w] = boosts[w]
  BY <1>1 DEF netd_clear_priority_uid
<1>3. /\ uidRules' \subseteq uidRules
      /\ v # ALWAYS => uid \notin uidRules' \/ uid \in strayUids'
  BY DEF netd_clear_priority_uid, booster_netd_config_by_uid
<1>4. ASSUME NEW x \in uidRules', x # NoUid PROVE Accounted(x)'
  <2>1. Accounted(x) /\ x # FOREGROUND
    BY <1>3, <1>4 DEF UidInv
  <2>2. CASE InTable(x) \/ x \in strayUids
    BY <1>1, <2>2 DEF Accounted, InTable
  <2>3. CASE x \in Uid /\ boosts[x] > 0
    <3>1. CASE x = v
      BY <1>3, <1>4, <2>1, <3>1, <2>3, UidFacts DEF Accounted
    <3>2. CASE x # v
      BY <1>2, <2>3, <3>2, UidFacts DEF Accounted
    <3> QED BY <3>1, <3>2
  <2>4. CASE x = lastFgBoost /\ boosts[FOREGROUND] > 0
    <3>1. CASE v = FOREGROUND
      BY <1>3, <1>4, <2>4, <3>1, UidFacts DEF Accounted
    <3>2. CASE v # FOREGROUND
      <4>1. lastFgBoost' = lastFgBoost
        BY <3>2 DEF netd_clear_priority_uid
      <4> QED BY <1>2, <2>4, <3>2, <4>1, UidFacts DEF Accounted
    <3> QED BY <3>1, <3>2
  <2> QED BY <2>1, <2>2, <2>3, <2>4 DEF Accounted
<1>5. NoUid \in uidRules' => NoUid \in strayUids'
  BY <1>1, <1>3 DEF UidInv
<1>6. \A x \in uidRules' : x # FOREGROUND /\ Accounted(x)'
  BY <1>3, <1>4, <1>5 DEF UidInv, Accounted
<1> QED BY <1>1, <1>2, <1>5, <1>6 DEF UidInv

\* Every step of the rules by uid keeps every rule accounted for.
LEMMA UidNextKeeps == UidInv /\ UidNext => UidInv'
<1> SUFFICES ASSUME UidInv, UidNext PROVE UidInv'
  OBVIOUS
<1>1. ASSUME NEW v \in Value, NEW o \in Outcome,
             netd_set_priority_uid(v, o) \/ netd_clear_priority_uid(v, o)
      PROVE  UidInv'
  BY <1>1, SetUidKeeps, ClearUidKeeps
<1>2. ASSUME NEW uid \in Uid \cup {NoUid}, SetForeground(uid) PROVE UidInv'
  BY <1>2 DEF SetForeground, UidInv, Accounted, InTable
<1>3. CASE SetNetdStatus
  BY <1>3 DEF SetNetdStatus, UidInv, Accounted, InTable
<1>4. ASSUME NEW act \in {"UIDSET", "UIDCLEAR", "UIDCLEARALL"}, NEW uid \in Uid,
             booster_netd_process_uid_request(act, uid)
      PROVE  UidInv'
  <2>1. /\ UNCHANGED <<fgUid, boostUidTbl, lastFgBoost, boosts>>
        /\ strayUids \subseteq strayUids'
        /\ \A x \in uidRules' : x \in uidRules \/ (x = uid /\ x \in strayUids')
    BY <1>4 DEF booster_netd_process_uid_request, booster_netd_config_by_uid
  <2>2. uid # NoUid /\ uid # FOREGROUND
    BY UidFacts
  <2> QED BY <2>1, <2>2 DEF UidInv, Accounted, InTable
<1>5. ASSUME NEW o \in Outcome, netd_reset(o) PROVE UidInv'
  <2>1. uidRules' \subseteq strayUids' /\ uidRules' \subseteq uidRules
    BY <1>5 DEF netd_reset
  <2>2. /\ boosts' \in [Value -> Nat] /\ boostUidTbl' \in [Entry -> AnyUid] /\ fgUid' = NoUid
    BY <1>5 DEF netd_reset, AnyUid
  <2> QED BY <2>1, <2>2 DEF UidInv, Accounted
<1> QED BY <1>1, <1>2, <1>3, <1>4, <1>5 DEF UidNext

\* When the last lock has ended, the agent boosts no application but those boosted for
\* good and those the HAL is known to have lost track of, whatever came to the foreground
\* between the beginning and the end of the locks, for any number of applications, locks
\* and table entries.
THEOREM BoostsEnd == NSpec => []BoostEnds
<1>1. NInit => UidInv
  BY DEF NInit, UidInit, UidInv, AnyUid
<1>2. UidInv /\ [NNext]_<<uidVars, linkVars>> => UidInv'
  <2>1. UidInv /\ UNCHANGED uidVars => UidInv'
    BY DEF uidVars, UidInv, Accounted, InTable
  <2> QED BY <2>1, UidNextKeeps DEF NNext
<1>3. UidInv => BoostEnds
  BY UidFacts DEF UidInv, BoostEnds, Accounted
<1> QED BY <1>1, <1>2, <1>3, PTL DEF NSpec
-----------------------------------------------------------------------------
(***************************************************************************)
(* Two resources, one node.                                                *)
(***************************************************************************)
IntPair == [min : Int, max : Int]

PeltInv ==
  /\ asked \in [{"low", "high"} -> IntPair] /\ written \in [{"pelt"} -> IntPair]
  /\ written["pelt"].max = -1
  /\ written["pelt"].min = sched_set_pelt_multiplier(
       IF asked["high"].min # -1 THEN asked["high"].min
       ELSE IF asked["low"].min # -1 THEN asked["low"].min ELSE PELT_DEFAULT)

\* is_dex2oat_disable is set for every thermal request; it outlives the request only where
\* the default was never read, and then nothing was ever written.
Dex2oatInv ==
  /\ asked \in [{"low", "high"} -> IntPair] /\ written \in [{"dex2oat"} -> IntPair]
  /\ written["dex2oat"].max = -1
  /\ seen \in [disable : BOOLEAN, default : BOOLEAN, boot : BOOLEAN, took : BOOLEAN]
  /\ asked["high"].min # -1 => seen.disable
  /\ seen.disable /\ asked["high"].min = -1 => ~seen.default
  /\ ~seen.default => written["dex2oat"].min = -1
  /\ asked["high"].min = -1 /\ asked["low"].min = -1 => written["dex2oat"].min = -1
  /\ asked["high"].min # -1 /\ seen.took => written["dex2oat"].min = asked["high"].min

OverrideInv == (unit.kind = "pelt" => PeltInv) /\ (unit.kind = "dex2oat" => Dex2oatInv)

\* A request for the half-life, or its end, leaves the value of the one that rules.
LEMMA PeltKeeps ==
  ASSUME PeltInv, NEW scope \in {"low", "high"}, NEW v \in {-1, 8, 16, 32},
         sched_pelt_halflife(scope, v)
  PROVE  PeltInv'
<1>1. /\ asked \in [{"low", "high"} -> IntPair] /\ written \in [{"pelt"} -> IntPair]
  BY DEF PeltInv
<1>2. \A x : sched_set_pelt_multiplier(x) \in Int
  BY DEF sched_set_pelt_multiplier
<1>3. asked' = [asked EXCEPT ![scope].min = v]
  BY DEF sched_pelt_halflife
<1>4. /\ asked' \in [{"low", "high"} -> IntPair] /\ asked'[scope].min = v
      /\ \A s \in {"low", "high"} : s # scope => asked'[s] = asked[s]
  BY <1>1, <1>3 DEF IntPair
<1>5. CASE scope = "low" /\ asked["high"].min # -1
  <2>1. written' = written
    BY <1>5 DEF sched_pelt_halflife
  <2> QED BY <1>1, <1>4, <1>5, <2>1 DEF PeltInv
<1>6. CASE ~(scope = "low" /\ asked["high"].min # -1)
  <2>1. written' = [written EXCEPT !["pelt"].min = sched_set_pelt_multiplier(
                      PeltValue(asked', scope, IF v = -1 THEN PELT_DEFAULT ELSE v))]
    BY <1>6 DEF sched_pelt_halflife
  <2>2. /\ written' \in [{"pelt"} -> IntPair] /\ written'["pelt"].max = written["pelt"].max
        /\ written'["pelt"].min = sched_set_pelt_multiplier(
             PeltValue(asked', scope, IF v = -1 THEN PELT_DEFAULT ELSE v))
    BY <1>1, <1>2, <2>1 DEF IntPair
  <2>3. PeltValue(asked', scope, IF v = -1 THEN PELT_DEFAULT ELSE v)
          = IF asked'["high"].min # -1 THEN asked'["high"].min
            ELSE IF asked'["low"].min # -1 THEN asked'["low"].min ELSE PELT_DEFAULT
    BY <1>4, <1>6 DEF PeltValue
  <2> QED BY <1>4, <2>2, <2>3 DEF PeltInv
<1> QED BY <1>5, <1>6

\* The same for dex2oat: a request made before the boot has finished writes nothing.
LEMMA Dex2oatSetKeeps ==
  ASSUME Dex2oatInv, NEW scope \in {"low", "high"}, NEW v \in {0, 1, cpu_max, cpu_max + 1},
         set_dex2oat_cpus(scope, v)
  PROVE  Dex2oatInv'
<1>1. /\ asked \in [{"low", "high"} -> IntPair] /\ written \in [{"dex2oat"} -> IntPair]
      /\ seen \in [disable : BOOLEAN, default : BOOLEAN, boot : BOOLEAN, took : BOOLEAN]
  BY DEF Dex2oatInv
<1>2. asked' = [asked EXCEPT ![scope].min = v]
  BY DEF set_dex2oat_cpus
<1>3. /\ asked' \in [{"low", "high"} -> IntPair] /\ asked'[scope].min = v /\ v # -1
      /\ \A s \in {"low", "high"} : s # scope => asked'[s] = asked[s]
  BY <1>1, <1>2 DEF IntPair, cpu_max
<1>4. CASE scope = "low" /\ seen.disable
  <2>1. seen' = seen /\ written' = written
    BY <1>4 DEF set_dex2oat_cpus
  <2> QED BY <1>3, <1>4, <2>1 DEF Dex2oatInv
<1>5. CASE ~(scope = "low" /\ seen.disable)
  <2> DEFINE s == IF scope = "high"
                  THEN [seen EXCEPT !.disable = TRUE,
                                    !.took = v \in 1 .. cpu_max /\ (seen.default \/ seen.boot)]
                  ELSE seen
  <2>1. seen' = do_set_dex2oat_cpus(v, s)[1] /\ written' = do_set_dex2oat_cpus(v, s)[2]
    BY <1>5 DEF set_dex2oat_cpus
  <2>2. /\ s \in [disable : BOOLEAN, default : BOOLEAN, boot : BOOLEAN, took : BOOLEAN]
        /\ s.default = seen.default /\ s.boot = seen.boot
        /\ s.disable = (scope = "high" \/ seen.disable)
        /\ scope = "high" => s.took = (v \in 1 .. cpu_max /\ (seen.default \/ seen.boot))
    BY <1>1
  <2> HIDE DEF s
  <2>3. CASE ~s.default /\ ~s.boot
    <3>1. seen' = s /\ written' = written
      BY <2>1, <2>3 DEF do_set_dex2oat_cpus
    <3>2. asked["high"].min = -1 \/ scope = "high"
      BY <1>5 DEF Dex2oatInv
    <3> QED BY <1>1, <1>3, <1>5, <2>2, <2>3, <3>1, <3>2 DEF Dex2oatInv
  <2>4. CASE s.default \/ s.boot
    <3>1. /\ seen' = [s EXCEPT !.default = TRUE]
          /\ written' = IF v \in 1 .. cpu_max THEN [written EXCEPT !["dex2oat"].min = v] ELSE written
      BY <2>1, <2>4 DEF do_set_dex2oat_cpus
    <3>2. /\ seen' \in [disable : BOOLEAN, default : BOOLEAN, boot : BOOLEAN, took : BOOLEAN]
          /\ seen'.default /\ seen'.disable = s.disable /\ seen'.took = s.took
      BY <2>2, <3>1
    <3>3. /\ written' \in [{"dex2oat"} -> IntPair]
          /\ written'["dex2oat"].max = written["dex2oat"].max
          /\ v \in 1 .. cpu_max => written'["dex2oat"].min = v
      BY <1>1, <3>1 DEF IntPair
    <3>4. asked["high"].min = -1 \/ scope = "high"
      BY <1>5 DEF Dex2oatInv
    <3> QED BY <1>1, <1>3, <1>5, <2>2, <3>2, <3>3, <3>4 DEF Dex2oatInv
  <2> QED BY <2>3, <2>4
<1> QED BY <1>4, <1>5

\* The end of a request for dex2oat.
LEMMA Dex2oatUnsetKeeps ==
  ASSUME Dex2oatInv, NEW scope \in {"low", "high"}, unset_dex2oat_cpus(scope)
  PROVE  Dex2oatInv'
<1>1. /\ asked \in [{"low", "high"} -> IntPair] /\ written \in [{"dex2oat"} -> IntPair]
      /\ seen \in [disable : BOOLEAN, default : BOOLEAN, boot : BOOLEAN, took : BOOLEAN]
  BY DEF Dex2oatInv
<1>2. asked' = [asked EXCEPT ![scope].min = -1]
  BY DEF unset_dex2oat_cpus
<1>3. /\ asked' \in [{"low", "high"} -> IntPair] /\ asked'[scope].min = -1
      /\ \A s \in {"low", "high"} : s # scope => asked'[s] = asked[s]
  BY <1>1, <1>2 DEF IntPair
<1>4. CASE ~seen.default \/ (scope = "low" /\ seen.disable)
  <2>1. seen' = seen /\ written' = written
    BY <1>4 DEF unset_dex2oat_cpus
  <2> QED BY <1>1, <1>3, <1>4, <2>1 DEF Dex2oatInv
<1>5. CASE ~(~seen.default \/ (scope = "low" /\ seen.disable))
  <2>1. /\ written' = [written EXCEPT !["dex2oat"].min = -1]
        /\ seen' = IF scope = "high" THEN [seen EXCEPT !.disable = FALSE] ELSE seen
    BY <1>5 DEF unset_dex2oat_cpus
  <2>2. /\ written' \in [{"dex2oat"} -> IntPair] /\ written'["dex2oat"].min = -1
        /\ written'["dex2oat"].max = written["dex2oat"].max
    BY <1>1, <2>1 DEF IntPair
  <2>3. /\ seen' \in [disable : BOOLEAN, default : BOOLEAN, boot : BOOLEAN, took : BOOLEAN]
        /\ seen'.default = seen.default /\ ~seen'.disable
    BY <1>1, <1>5, <2>1
  <2>4. asked'["high"].min = -1
    BY <1>3, <1>5 DEF Dex2oatInv
  <2> QED BY <1>3, <2>2, <2>3, <2>4 DEF Dex2oatInv
<1> QED BY <1>4, <1>5

-----------------------------------------------------------------------------
(***************************************************************************)
(* Limits: the largest and the smallest of a few numbers.                  *)
(***************************************************************************)

\* An element that is as large as every other is what Max returns, up to equality.
LEMMA MaxFact ==
  ASSUME NEW S, NEW x \in S, \A y \in S : x >= y
  PROVE  Max(S) \in S /\ \A y \in S : Max(S) >= y
BY DEF Max

\* The same for Min.
LEMMA MinFact ==
  ASSUME NEW S, NEW x \in S, \A y \in S : x <= y
  PROVE  Min(S) \in S /\ \A y \in S : Min(S) <= y
BY DEF Min

\* The larger of two numbers.
LEMMA Max2 ==
  ASSUME NEW a \in Int, NEW b \in Int
  PROVE  Max({a, b}) = IF a >= b THEN a ELSE b
<1>1. CASE a >= b
  BY <1>1, MaxFact
<1>2. CASE ~(a >= b)
  BY <1>2, MaxFact
<1> QED BY <1>1, <1>2

\* The smaller of two numbers.
LEMMA Min2 ==
  ASSUME NEW a \in Int, NEW b \in Int
  PROVE  Min({a, b}) = IF a <= b THEN a ELSE b
<1>1. CASE a <= b
  BY <1>1, MinFact
<1>2. CASE ~(a <= b)
  BY <1>2, MinFact
<1> QED BY <1>1, <1>2

\* Three numbers have a largest one.
LEMMA Max3 ==
  ASSUME NEW a \in Int, NEW b \in Int, NEW c \in Int
  PROVE  /\ Max({a, b, c}) \in {a, b, c}
         /\ Max({a, b, c}) >= a /\ Max({a, b, c}) >= b /\ Max({a, b, c}) >= c
<1>1. PICK x \in {a, b, c} : \A y \in {a, b, c} : x >= y
  <2>1. CASE a >= b /\ a >= c
    BY <2>1
  <2>2. CASE b >= a /\ b >= c
    BY <2>2
  <2>3. CASE c >= a /\ c >= b
    BY <2>3
  <2> QED BY <2>1, <2>2, <2>3
<1> QED BY <1>1, MaxFact

\* Four numbers have a smallest one.
LEMMA Min4 ==
  ASSUME NEW a \in Int, NEW b \in Int, NEW c \in Int, NEW d \in Int
  PROVE  /\ Min({a, b, c, d}) \in {a, b, c, d}
         /\ Min({a, b, c, d}) <= a /\ Min({a, b, c, d}) <= b
         /\ Min({a, b, c, d}) <= c /\ Min({a, b, c, d}) <= d
<1>1. PICK x \in {a, b, c, d} : \A y \in {a, b, c, d} : x <= y
  <2>1. CASE a <= b /\ a <= c /\ a <= d
    BY <2>1
  <2>2. CASE b <= a /\ b <= c /\ b <= d
    BY <2>2
  <2>3. CASE c <= a /\ c <= b /\ c <= d
    BY <2>3
  <2>4. CASE d <= a /\ d <= b /\ d <= c
    BY <2>4
  <2> QED BY <2>1, <2>2, <2>3, <2>4
<1> QED BY <1>1, MinFact
-----------------------------------------------------------------------------
(***************************************************************************)
(* Limits: CPU frequency.                                                  *)
(***************************************************************************)
CpuScope == {"soft", "hard", "cpu0", "cpu1"}
Targets == IF unit.byCore THEN Cpu ELSE {"cpu0"}

\* What setCPUFreq works out from what it has seen: a floor at least as high as every
\* floor that counts, a ceiling, and both in order.
LEMMA FloorAndCeiling ==
  ASSUME NEW k \in [CpuScope -> IntPair], NEW c \in Cpu
  PROVE  \E floor, ceil \in Int :
           /\ FreqToSet(k, c) = Pair(IntoHard(k["hard"], Align(Pair(floor, ceil)).min),
                                     IntoHard(k["hard"], Align(Pair(floor, ceil)).max))
           /\ floor >= Clamp(k[c].min) /\ floor >= Clamp(k["soft"].min)
           /\ \/ floor \in {Clamp(k[c].min), Clamp(k["soft"].min)}
              \/ ~unit.byCore /\ floor \in {Clamp(k["cpu0"].min), Clamp(k["cpu1"].min)}
           /\ \/ ceil \in {Ceiling(k[c]), Ceiling(k["soft"])}
              \/ ~unit.byCore /\ ceil \in {Clamp(k["cpu0"].max), Clamp(k["cpu1"].max)}
           /\ ceil <= Ceiling(k[c]) /\ ceil <= Ceiling(k["soft"])
<1> DEFINE cores == IF unit.byCore THEN {c} ELSE Cpu
           floor == Max({Clamp(k[d].min) : d \in cores \cup {"soft"}})
           C == {Ceiling(k[c]), Ceiling(k["soft"])}
                  \cup (IF unit.byCore THEN {} ELSE {Clamp(k[d].max) : d \in Cpu})
           ceil == Min(C)
<1>1. freqMin \in Int /\ freqMax \in Int
  BY LimitsAssumption
<1>2. \A v \in Int : Clamp(v) \in Int
  BY <1>1 DEF Clamp
<1>3. \A d \in CpuScope : k[d].min \in Int /\ k[d].max \in Int /\ Ceiling(k[d]) \in Int
  BY <1>1, <1>2 DEF Ceiling, IntPair
<1>4. Cpu = {"cpu0", "cpu1"} /\ c \in CpuScope
  BY DEF Cpu, CpuScope
<1>5. FreqToSet(k, c) = Pair(IntoHard(k["hard"], Align(Pair(floor, ceil)).min),
                             IntoHard(k["hard"], Align(Pair(floor, ceil)).max))
  BY DEF FreqToSet
<1>6. CASE unit.byCore
  <2>1. {Clamp(k[d].min) : d \in cores \cup {"soft"}} = {Clamp(k[c].min), Clamp(k["soft"].min)}
    BY <1>6
  <2>2. C = {Ceiling(k[c]), Ceiling(k["soft"])}
    BY <1>6
  <2>3. /\ floor = IF Clamp(k[c].min) >= Clamp(k["soft"].min) THEN Clamp(k[c].min)
                   ELSE Clamp(k["soft"].min)
        /\ ceil = IF Ceiling(k[c]) <= Ceiling(k["soft"]) THEN Ceiling(k[c]) ELSE Ceiling(k["soft"])
    BY SMTT(60), <1>2, <1>3, <1>4, <2>1, <2>2, Max2, Min2 DEF CpuScope
  <2>4. /\ floor \in Int /\ ceil \in Int
        /\ floor >= Clamp(k[c].min) /\ floor >= Clamp(k["soft"].min)
        /\ floor \in {Clamp(k[c].min), Clamp(k["soft"].min)}
        /\ ceil \in {Ceiling(k[c]), Ceiling(k["soft"])}
        /\ ceil <= Ceiling(k[c]) /\ ceil <= Ceiling(k["soft"])
    <3> HIDE DEF floor, ceil
    <3> QED BY <1>2, <1>3, <1>4, <2>3 DEF CpuScope
  <2> HIDE DEF floor, ceil
  <2> QED BY <1>5, <2>4
<1>7. CASE ~unit.byCore
  <2>1. {Clamp(k[d].min) : d \in cores \cup {"soft"}}
          = {Clamp(k["cpu0"].min), Clamp(k["cpu1"].min), Clamp(k["soft"].min)}
    BY <1>4, <1>7
  <2>2. C = {Ceiling(k[c]), Ceiling(k["soft"]), Clamp(k["cpu0"].max), Clamp(k["cpu1"].max)}
    BY <1>4, <1>7
  <2>3. /\ floor \in {Clamp(k["cpu0"].min), Clamp(k["cpu1"].min), Clamp(k["soft"].min)}
        /\ floor >= Clamp(k["cpu0"].min) /\ floor >= Clamp(k["cpu1"].min)
        /\ floor >= Clamp(k["soft"].min)
    <3>1. /\ Clamp(k["cpu0"].min) \in Int /\ Clamp(k["cpu1"].min) \in Int
          /\ Clamp(k["soft"].min) \in Int
      BY <1>2, <1>3 DEF CpuScope
    <3>2. floor = Max({Clamp(k["cpu0"].min), Clamp(k["cpu1"].min), Clamp(k["soft"].min)})
      BY <2>1
    <3> HIDE DEF floor
    <3> QED BY <3>1, <3>2, Max3
  <2>4. /\ ceil \in {Ceiling(k[c]), Ceiling(k["soft"]), Clamp(k["cpu0"].max), Clamp(k["cpu1"].max)}
        /\ ceil <= Ceiling(k[c]) /\ ceil <= Ceiling(k["soft"])
    <3>1. /\ Clamp(k["cpu0"].max) \in Int /\ Clamp(k["cpu1"].max) \in Int
          /\ Ceiling(k[c]) \in Int /\ Ceiling(k["soft"]) \in Int
      BY <1>2, <1>3, <1>4 DEF CpuScope
    <3>2. ceil = Min({Ceiling(k[c]), Ceiling(k["soft"]), Clamp(k["cpu0"].max), Clamp(k["cpu1"].max)})
      BY <2>2
    <3> HIDE DEF ceil
    <3> QED BY <3>1, <3>2, Min4
  <2> HIDE DEF floor, ceil
  <2>5. floor \in Int /\ ceil \in Int
    BY <1>2, <1>3, <1>4, <2>3, <2>4 DEF CpuScope
  <2>6. floor >= Clamp(k[c].min)
    BY <1>4, <2>3
  <2> QED BY <1>5, <1>7, <2>3, <2>4, <2>5, <2>6
<1> QED BY <1>6, <1>7

\* What setCPUFreq writes: in order, within the hard limits, and no lower than any floor
\* that counts, as far as the hard ceiling allows.
LEMMA FreqInOrder ==
  ASSUME NEW k \in [CpuScope -> IntPair], NEW c \in Cpu, k["hard"].min <= k["hard"].max
  PROVE  LET w == FreqToSet(k, c)
         IN  /\ w \in IntPair /\ w.min <= w.max
             /\ k["hard"].min <= w.min /\ w.max <= k["hard"].max
             /\ \A d \in {c, "soft"} : w.min >= CapAt(k[d].min) \/ w.min >= k["hard"].max
<1>1. PICK floor \in Int, ceil \in Int :
        /\ FreqToSet(k, c) = Pair(IntoHard(k["hard"], Align(Pair(floor, ceil)).min),
                                  IntoHard(k["hard"], Align(Pair(floor, ceil)).max))
        /\ floor >= Clamp(k[c].min) /\ floor >= Clamp(k["soft"].min)
  BY FloorAndCeiling
<1>2. PICK top \in Int : top >= floor /\ Align(Pair(floor, ceil)) = Pair(floor, top)
  BY DEF Align, Pair
<1>3. FreqToSet(k, c) = Pair(IntoHard(k["hard"], floor), IntoHard(k["hard"], top))
  BY <1>1, <1>2 DEF Pair
<1>4. /\ k["hard"].min \in Int /\ k["hard"].max \in Int
      /\ \A d \in {c, "soft"} : k[d].min \in Int
  BY DEF IntPair, CpuScope, Cpu
<1>5. /\ IntoHard(k["hard"], floor) \in Int /\ IntoHard(k["hard"], top) \in Int
      /\ IntoHard(k["hard"], floor) <= IntoHard(k["hard"], top)
      /\ k["hard"].min <= IntoHard(k["hard"], floor)
      /\ IntoHard(k["hard"], top) <= k["hard"].max
      /\ IntoHard(k["hard"], floor) >= floor \/ IntoHard(k["hard"], floor) >= k["hard"].max
  BY <1>2, <1>4 DEF IntoHard
<1>6. \A v \in Int : Clamp(v) \in Int /\ CapAt(v) \in Int /\ Clamp(v) >= CapAt(v)
  BY LimitsAssumption DEF Clamp, CapAt
<1>7. \A d \in {c, "soft"} : floor >= CapAt(k[d].min) /\ CapAt(k[d].min) \in Int
  BY <1>1, <1>4, <1>6
<1> QED BY <1>3, <1>4, <1>5, <1>7 DEF Pair, IntPair

\* With nothing asked, the whole range of the cluster.
LEMMA FreqAtRest ==
  ASSUME NEW k \in [CpuScope -> IntPair], NEW c \in Cpu,
         \A d \in {c, "soft", "hard"} : k[d] = Pair(0, freqMax),
         ~unit.byCore => \A d \in Cpu : k[d] = Pair(0, freqMax)
  PROVE  FreqToSet(k, c) = Pair(freqMin, freqMax)
<1>1. PICK floor \in Int, ceil \in Int :
        /\ FreqToSet(k, c) = Pair(IntoHard(k["hard"], Align(Pair(floor, ceil)).min),
                                  IntoHard(k["hard"], Align(Pair(floor, ceil)).max))
        /\ \/ floor \in {Clamp(k[c].min), Clamp(k["soft"].min)}
           \/ ~unit.byCore /\ floor \in {Clamp(k["cpu0"].min), Clamp(k["cpu1"].min)}
        /\ \/ ceil \in {Ceiling(k[c]), Ceiling(k["soft"])}
           \/ ~unit.byCore /\ ceil \in {Clamp(k["cpu0"].max), Clamp(k["cpu1"].max)}
  BY FloorAndCeiling
<1>2. /\ \A d \in {c, "soft", "hard"} : k[d].min = 0 /\ k[d].max = freqMax
      /\ ~unit.byCore => \A d \in {"cpu0", "cpu1"} : k[d].min = 0 /\ k[d].max = freqMax
  BY DEF Pair, Cpu
<1>3. freqMin \in Nat /\ freqMin > 0 /\ freqMax \in Nat /\ freqMin < freqMax
  BY LimitsAssumption
<1>4. Clamp(0) = freqMin /\ Clamp(freqMax) = freqMax
  BY <1>3 DEF Clamp
<1>5. floor = freqMin
  BY <1>1, <1>2, <1>4
<1>6. ceil = freqMax
  BY <1>1, <1>2, <1>3, <1>4 DEF Ceiling
<1>7. Align(Pair(floor, ceil)) = Pair(freqMin, freqMax)
  BY <1>3, <1>5, <1>6 DEF Align, Pair
<1>8. IntoHard(k["hard"], freqMin) = freqMin /\ IntoHard(k["hard"], freqMax) = freqMax
  BY <1>2, <1>3 DEF IntoHard
<1> QED BY <1>1, <1>7, <1>8 DEF Pair

\* Only what counts for the core matters.
LEMMA FreqSame ==
  ASSUME NEW k, NEW m, NEW c \in Cpu,
         \A d \in {c, "soft", "hard"} : k[d] = m[d],
         ~unit.byCore => \A d \in Cpu : k[d] = m[d]
  PROVE  FreqToSet(k, c) = FreqToSet(m, c)
<1> DEFINE cores == IF unit.byCore THEN {c} ELSE Cpu
<1>1. \A d \in cores \cup {"soft"} : k[d] = m[d]
  OBVIOUS
<1>2. {Clamp(k[d].min) : d \in cores \cup {"soft"}} = {Clamp(m[d].min) : d \in cores \cup {"soft"}}
  BY <1>1
<1>3. (IF unit.byCore THEN {} ELSE {Clamp(k[d].max) : d \in Cpu})
        = (IF unit.byCore THEN {} ELSE {Clamp(m[d].max) : d \in Cpu})
  BY <1>1
<1> QED BY <1>2, <1>3 DEF FreqToSet

\* The limits of a cluster as setClusterFreq sees them, and those of a core.
LEMMA SeenFacts ==
  ASSUME NEW now \in [CpuScope -> IntPair]
  PROVE  /\ \A s \in {"soft", "hard"} :
              /\ updateClusterFreqInfo(now)[s] \in IntPair
              /\ updateClusterFreqInfo(now)[s].min = CapAt(now[s].min)
              /\ updateClusterFreqInfo(now)[s].min <= updateClusterFreqInfo(now)[s].max
              /\ now[s] = Pair(0, freqMax) => updateClusterFreqInfo(now)[s] = Pair(0, freqMax)
         /\ \A c \in Cpu :
              /\ updateCPUFreqInfo(now, c) \in IntPair
              /\ updateCPUFreqInfo(now, c).min = now[c].min
              /\ now[c] = Pair(0, freqMax) => updateCPUFreqInfo(now, c) = Pair(0, freqMax)
<1>1. freqMax \in Nat /\ \A v \in Int : CapAt(v) \in Int
  BY LimitsAssumption DEF CapAt
<1>2. \A a, b \in Int : /\ Align(Pair(a, b)) \in IntPair
                        /\ Align(Pair(a, b)).min = a
                        /\ Align(Pair(a, b)).min <= Align(Pair(a, b)).max
                        /\ b >= a => Align(Pair(a, b)) = Pair(a, b)
  BY DEF Align, Pair, IntPair
<1>3. \A s \in CpuScope : /\ now[s].min \in Int /\ now[s].max \in Int
                          /\ now[s] = Pair(0, freqMax) => now[s].min = 0 /\ now[s].max = freqMax
  BY DEF IntPair, Pair
<1>4. CapAt(0) = 0 /\ CapAt(freqMax) = freqMax
  BY LimitsAssumption DEF CapAt
<1>5. ASSUME NEW s \in {"soft", "hard"}
      PROVE  /\ updateClusterFreqInfo(now)[s] \in IntPair
             /\ updateClusterFreqInfo(now)[s].min = CapAt(now[s].min)
             /\ updateClusterFreqInfo(now)[s].min <= updateClusterFreqInfo(now)[s].max
             /\ now[s] = Pair(0, freqMax) => updateClusterFreqInfo(now)[s] = Pair(0, freqMax)
  <2>1. updateClusterFreqInfo(now)[s] = Align(Pair(CapAt(now[s].min), CapAt(now[s].max)))
    BY DEF updateClusterFreqInfo
  <2>2. s \in CpuScope
    BY DEF CpuScope
  <2>3. CapAt(now[s].min) \in Int /\ CapAt(now[s].max) \in Int
    BY <1>1, <1>3, <2>2
  <2> QED BY <1>1, <1>2, <1>3, <1>4, <2>1, <2>2, <2>3
<1>6. ASSUME NEW c \in Cpu
      PROVE  /\ updateCPUFreqInfo(now, c) \in IntPair
             /\ updateCPUFreqInfo(now, c).min = now[c].min
             /\ now[c] = Pair(0, freqMax) => updateCPUFreqInfo(now, c) = Pair(0, freqMax)
  <2>1. updateCPUFreqInfo(now, c) = Align(Pair(now[c].min, CapAt(now[c].max)))
    BY DEF updateCPUFreqInfo
  <2>2. c \in CpuScope
    BY DEF CpuScope, Cpu
  <2>3. now[c].min \in Int /\ CapAt(now[c].max) \in Int
    BY <1>1, <1>3, <2>2
  <2> QED BY <1>1, <1>2, <1>3, <1>4, <2>1, <2>2, <2>3
<1> QED BY <1>5, <1>6

\* What was seen is what was asked, except for hard limits with a node of their own, and
\* what was written follows from what was seen.
CpuInv ==
  /\ asked \in [CpuScope -> IntPair] /\ seen \in [CpuScope -> IntPair]
  /\ written \in [Cpu \cup {"hard"} -> IntPair]
  /\ seen["hard"].min <= seen["hard"].max
  /\ seen["soft"] = updateClusterFreqInfo(asked)["soft"]
  /\ ~unit.hard_user_limit => seen["hard"] = updateClusterFreqInfo(asked)["hard"]
  /\ \A c \in Cpu : seen[c] = IF unit.byCore THEN updateCPUFreqInfo(asked, c) ELSE Pair(0, freqMax)
  /\ \A c \in Targets : written[c] = FreqToSet(seen, c)
  /\ ~unit.byCore => written["cpu1"] = Pair(freqMin, freqMax)

\* The invariant gives the properties of the written limits.
LEMMA CpuConsistent ==
  ASSUME CpuInv, unit.kind = "cpu", unit \in Units
  PROVE  LimitsConsistent
<1> DEFINE hard == IF unit.kind = "cpu" /\ ~unit.hard_user_limit
                   THEN updateClusterFreqInfo(asked)["hard"] ELSE seen["hard"]
<1>1. hard = seen["hard"]
  BY DEF CpuInv
<1>2. /\ asked \in [CpuScope -> IntPair] /\ seen \in [CpuScope -> IntPair]
      /\ DOMAIN asked = CpuScope /\ DOMAIN written = Cpu \cup {"hard"}
      /\ seen["hard"].min <= seen["hard"].max
  BY DEF CpuInv
<1>3. Targets \subseteq Cpu /\ Cpu \subseteq CpuScope
  BY DEF Targets, Cpu, CpuScope
<1>4. ASSUME NEW c \in Targets
      PROVE  LET floor == Max({asked[s].min : s \in IF unit.byCore THEN {c, "soft"} ELSE {"soft"}})
             IN  /\ written[c].min <= written[c].max
                 /\ {written[c].min, written[c].max} \subseteq hard.min .. hard.max
                 /\ written[c].min >= Min({CapAt(floor), hard.max})
  <2> DEFINE F == {asked[s].min : s \in IF unit.byCore THEN {c, "soft"} ELSE {"soft"}}
  <2>1. written[c] = FreqToSet(seen, c) /\ c \in Cpu
    BY <1>3 DEF CpuInv
  <2>2. /\ written[c] \in IntPair /\ written[c].min <= written[c].max
        /\ hard.min <= written[c].min /\ written[c].max <= hard.max
        /\ \A d \in {c, "soft"} : written[c].min >= CapAt(seen[d].min) \/ written[c].min >= hard.max
    BY <1>1, <1>2, <2>1, FreqInOrder
  <2>3. /\ hard.min \in Int /\ hard.max \in Int
        /\ written[c].min \in Int /\ written[c].max \in Int
    BY <1>1, <1>2, <2>2 DEF IntPair, CpuScope
  <2>4. \A v \in Int : CapAt(v) \in Int /\ CapAt(CapAt(v)) = CapAt(v)
    BY LimitsAssumption DEF CapAt
  <2>5. /\ asked["soft"].min \in Int /\ asked[c].min \in Int
        /\ seen["soft"].min = CapAt(asked["soft"].min)
        /\ unit.byCore => seen[c].min = asked[c].min
    BY <1>2, <1>3, SeenFacts DEF CpuInv, IntPair, CpuScope
  <2>6. /\ Max(F) \in Int
        /\ written[c].min >= CapAt(Max(F)) \/ written[c].min >= hard.max
    <3>1. CASE unit.byCore
      <4>1. F = {asked[c].min, asked["soft"].min}
        BY <3>1
      <4> HIDE DEF F
      <4>2. Max(F) \in {asked[c].min, asked["soft"].min}
        BY <2>5, <4>1, Max2
      <4> QED BY <2>2, <2>4, <2>5, <3>1, <4>2
    <3>2. CASE ~unit.byCore
      <4>1. F = {asked["soft"].min, asked["soft"].min}
        BY <3>2
      <4>2. Max(F) = asked["soft"].min
        BY <2>5, <4>1, Max2
      <4> HIDE DEF F
      <4> QED BY <2>2, <2>4, <2>5, <4>2
    <3> QED BY <3>1, <3>2
  <2> HIDE DEF F, hard
  <2>7. CapAt(Max(F)) \in Int
    BY <2>4, <2>6
  <2>8. written[c].min >= Min({CapAt(Max(F)), hard.max})
    BY <2>3, <2>6, <2>7, Min2
  <2> QED BY <2>2, <2>3, <2>8 DEF F
<1>5. ASSUME \A s \in CpuScope : asked[s] = Pair(0, freqMax), ~unit.hard_user_limit
      PROVE  \A n \in Cpu : written[n] = Pair(freqMin, freqMax)
  <2>1. \A d \in CpuScope : seen[d] = Pair(0, freqMax)
    BY <1>2, <1>5, SeenFacts DEF CpuInv, CpuScope, Cpu
  <2>2. ASSUME NEW c \in Targets PROVE written[c] = Pair(freqMin, freqMax)
    <3>1. c \in Cpu /\ {c, "soft", "hard"} \subseteq CpuScope
      BY <1>3 DEF CpuScope
    <3>2. FreqToSet(seen, c) = Pair(freqMin, freqMax)
      BY <1>2, <1>3, <2>1, <3>1, FreqAtRest
    <3> QED BY <3>2 DEF CpuInv
  <2> QED BY <2>2 DEF Targets, Cpu, CpuInv
<1>6. /\ NotAsked(unit) = Pair(0, freqMax) /\ AtRest(unit) = Pair(freqMin, freqMax)
      /\ unit \notin {u \in Units : u.kind = "cpu" /\ u.hard_user_limit} => ~unit.hard_user_limit
  BY DEF NotAsked, AtRest
<1>7. (Cpu \cup {"hard"}) \ {"hard"} = Cpu
  BY DEF Cpu
<1> QED BY <1>2, <1>4, <1>5, <1>6, <1>7 DEF LimitsConsistent, Targets

\* What will be written is a function of what will have been seen.
LEMMA FreqNext ==
  ASSUME NEW k, seen' = k, unit' = unit
  PROVE  \A c \in Cpu : (FreqToSet(seen, c))' = FreqToSet(k, c)
BY DEF FreqToSet

\* A request for the cluster.
LEMMA ClusterKeeps ==
  ASSUME CpuInv, NEW now \in [CpuScope -> IntPair],
         \A c \in Cpu : now[c] = asked[c],
         asked' = now, seen' = setClusterFreq(now)[1], written' = setClusterFreq(now)[2],
         unit' = unit
  PROVE  CpuInv'
<1> DEFINE u == updateClusterFreqInfo(now)
<1>1. PICK k : k = [s \in CpuScope |-> IF s \in Cpu THEN seen[s] ELSE u[s]]
  OBVIOUS
<1>2. /\ seen \in [CpuScope -> IntPair] /\ written \in [Cpu \cup {"hard"} -> IntPair]
      /\ DOMAIN seen = CpuScope /\ Cpu = {"cpu0", "cpu1"}
      /\ CpuScope \ Cpu = {"soft", "hard"} /\ Cpu \subseteq CpuScope
  BY DEF CpuInv, CpuScope, Cpu
<1>3. /\ u["soft"] \in IntPair /\ u["hard"] \in IntPair
      /\ u["hard"].min <= u["hard"].max
  BY SeenFacts
<1>4. /\ k \in [CpuScope -> IntPair]
      /\ k["soft"] = u["soft"] /\ k["hard"] = u["hard"]
      /\ \A c \in Cpu : k[c] = seen[c]
  <2> HIDE DEF u
  <2> QED BY <1>1, <1>2, <1>3
<1>5. \A c \in Cpu : updateCPUFreqInfo(now, c) = updateCPUFreqInfo(asked, c)
  BY DEF updateCPUFreqInfo
<1>6. unit.byCore => \A c \in Cpu : [k EXCEPT ![c] = updateCPUFreqInfo(now, c)] = k
  <2> SUFFICES ASSUME unit.byCore, NEW c \in Cpu
               PROVE  [k EXCEPT ![c] = updateCPUFreqInfo(now, c)] = k
    OBVIOUS
  <2>1. k[c] = updateCPUFreqInfo(now, c)
    BY <1>4, <1>5 DEF CpuInv
  <2> QED BY <1>1, <2>1
<1>7. \A c \in Cpu : FreqToSet(k, c) \in IntPair
  BY <1>3, <1>4, FreqInOrder
<1>8. setClusterFreq(now) = IF unit.byCore THEN setCPUFreq(now, setCPUFreq(now, <<k, written>>, "cpu0"), "cpu1")
                            ELSE setCPUFreq(now, <<k, written>>, "cpu0")
  BY <1>1, <1>2 DEF setClusterFreq
<1>9. CASE unit.byCore
  <2>1. PICK kw : kw = setCPUFreq(now, <<k, written>>, "cpu0")
    OBVIOUS
  <2>2. PICK w : w = [written EXCEPT !["cpu0"] = FreqToSet(k, "cpu0")]
    OBVIOUS
  <2>3. kw[1] = k /\ kw[2] = w
    BY <1>2, <1>6, <1>9, <2>1, <2>2 DEF setCPUFreq
  <2>4. seen' = k /\ written' = [w EXCEPT !["cpu1"] = FreqToSet(k, "cpu1")]
    <3>1. setClusterFreq(now) = setCPUFreq(now, kw, "cpu1")
      BY <1>8, <1>9, <2>1
    <3>2. [kw[1] EXCEPT !["cpu1"] = updateCPUFreqInfo(now, "cpu1")] = k
      BY <1>2, <1>6, <1>9, <2>3
    <3>3. PICK x : x = [w EXCEPT !["cpu1"] = FreqToSet(k, "cpu1")]
      OBVIOUS
    <3>4. setCPUFreq(now, kw, "cpu1") = <<k, x>>
      BY <1>9, <2>3, <3>2, <3>3, Zenon DEF setCPUFreq
    <3>5. <<k, x>>[1] = k /\ <<k, x>>[2] = x
      OBVIOUS
    <3>6. setClusterFreq(now)[1] = k /\ setClusterFreq(now)[2] = x
      BY <3>1, <3>4, <3>5, Zenon
    <3> QED BY <3>3, <3>6, Zenon
  <2>5. /\ written' \in [Cpu \cup {"hard"} -> IntPair]
        /\ \A c \in Cpu : written'[c] = FreqToSet(k, c)
    BY <1>2, <1>7, <2>2, <2>4
  <2>6. \A c \in Cpu : (FreqToSet(seen, c))' = FreqToSet(k, c)
    BY <2>4, FreqNext
  <2>7. \A c \in Targets' : written'[c] = (FreqToSet(seen, c))'
    BY <1>2, <1>9, <2>5, <2>6 DEF Targets
  <2>8. \A c \in Cpu : k[c] = updateCPUFreqInfo(now, c)
    BY <1>4, <1>5, <1>9 DEF CpuInv
  <2> QED BY <1>3, <1>4, <1>9, <2>4, <2>5, <2>7, <2>8 DEF CpuInv
<1>10. CASE ~unit.byCore
  <2>1. seen' = k /\ written' = [written EXCEPT !["cpu0"] = FreqToSet(k, "cpu0")]
    BY <1>8, <1>10 DEF setCPUFreq
  <2>2. /\ written' \in [Cpu \cup {"hard"} -> IntPair]
        /\ written'["cpu0"] = FreqToSet(k, "cpu0") /\ written'["cpu1"] = written["cpu1"]
    BY <1>2, <1>7, <2>1
  <2>3. (FreqToSet(seen, "cpu0"))' = FreqToSet(k, "cpu0")
    BY <2>1 DEF FreqToSet
  <2>4. \A c \in Targets' : written'[c] = (FreqToSet(seen, c))'
    BY <1>10, <2>2, <2>3 DEF Targets
  <2>5. \A c \in Cpu : k[c] = Pair(0, freqMax)
    BY <1>4, <1>10 DEF CpuInv
  <2> QED BY <1>3, <1>4, <1>10, <2>1, <2>2, <2>4, <2>5 DEF CpuInv
<1> QED BY <1>9, <1>10

\* A request for one core.
LEMMA CoreKeeps ==
  ASSUME CpuInv, NEW now \in [CpuScope -> IntPair], NEW c \in Cpu,
         \A s \in CpuScope : s # c => now[s] = asked[s],
         asked' = now, seen' = setCPUFreq(now, <<seen, written>>, c)[1],
         written' = setCPUFreq(now, <<seen, written>>, c)[2],
         unit' = unit
  PROVE  CpuInv'
<1>1. /\ seen \in [CpuScope -> IntPair] /\ written \in [Cpu \cup {"hard"} -> IntPair]
      /\ Cpu = {"cpu0", "cpu1"} /\ Cpu \subseteq CpuScope
      /\ "soft" \in CpuScope /\ "hard" \in CpuScope /\ "soft" \notin Cpu /\ "hard" \notin Cpu
      /\ seen["hard"].min <= seen["hard"].max
  BY DEF CpuInv, CpuScope, Cpu
<1>2. /\ updateClusterFreqInfo(now)["soft"] = updateClusterFreqInfo(asked)["soft"]
      /\ updateClusterFreqInfo(now)["hard"] = updateClusterFreqInfo(asked)["hard"]
      /\ \A d \in Cpu : d # c => updateCPUFreqInfo(now, d) = updateCPUFreqInfo(asked, d)
  BY <1>1 DEF updateClusterFreqInfo, updateCPUFreqInfo
<1>3. CASE unit.byCore
  <2>1. PICK k : k = [seen EXCEPT ![c] = updateCPUFreqInfo(now, c)]
    OBVIOUS
  <2>2. /\ k \in [CpuScope -> IntPair] /\ k[c] = updateCPUFreqInfo(now, c)
        /\ \A s \in CpuScope : s # c => k[s] = seen[s]
    BY <1>1, <2>1, SeenFacts
  <2>3. seen' = k /\ written' = [written EXCEPT ![c] = FreqToSet(k, c)]
    BY <1>3, <2>1 DEF setCPUFreq
  <2>4. FreqToSet(k, c) \in IntPair
    BY <1>1, <2>2, FreqInOrder
  <2>5. /\ written' \in [Cpu \cup {"hard"} -> IntPair] /\ written'[c] = FreqToSet(k, c)
        /\ \A d \in Cpu : d # c => written'[d] = written[d]
    BY <1>1, <2>3, <2>4
  <2>6. \A d \in Cpu : (FreqToSet(seen, d))' = FreqToSet(k, d)
    BY <2>3, FreqNext
  <2>7. \A d \in Cpu : d # c => FreqToSet(k, d) = FreqToSet(seen, d)
    <3> SUFFICES ASSUME NEW d \in Cpu, d # c PROVE FreqToSet(k, d) = FreqToSet(seen, d)
      OBVIOUS
    <3>1. \A s \in {d, "soft", "hard"} : k[s] = seen[s]
      BY <1>1, <2>2
    <3> QED BY <1>3, <3>1, FreqSame
  <2>8. \A d \in Targets' : written'[d] = (FreqToSet(seen, d))'
    BY <1>3, <2>5, <2>6, <2>7 DEF Targets, CpuInv
  <2>9. \A d \in Cpu : k[d] = updateCPUFreqInfo(now, d)
    BY <1>1, <1>2, <1>3, <2>2 DEF CpuInv
  <2>10. k["soft"] = seen["soft"] /\ k["hard"] = seen["hard"]
    BY <1>1, <2>2
  <2> QED BY <1>1, <1>2, <1>3, <2>2, <2>3, <2>5, <2>8, <2>9, <2>10 DEF CpuInv
<1>4. CASE ~unit.byCore
  <2>1. seen' = seen /\ written' = [written EXCEPT !["cpu0"] = FreqToSet(seen, c)]
    BY <1>4 DEF setCPUFreq
  <2>2. FreqToSet(seen, c) = FreqToSet(seen, "cpu0")
    <3>1. \A d \in Cpu : seen[d] = Pair(0, freqMax)
      BY <1>4 DEF CpuInv
    <3>2. {Ceiling(seen[c]), Ceiling(seen["soft"])} = {Ceiling(seen["cpu0"]), Ceiling(seen["soft"])}
      BY <1>1, <3>1
    <3> QED BY <1>4, <3>2 DEF FreqToSet
  <2>3. written["cpu0"] = FreqToSet(seen, "cpu0")
    BY <1>4 DEF CpuInv, Targets
  <2>4. written' = written
    BY <1>1, <2>1, <2>2, <2>3
  <2> QED BY <1>1, <1>2, <1>4, <2>1, <2>4 DEF CpuInv, Targets, FreqToSet
<1> QED BY <1>3, <1>4

\* A hard limit with a node of its own: the node is written, and nothing else changes yet.
LEMMA HardNodeKeeps ==
  ASSUME CpuInv, unit.hard_user_limit, NEW now \in [CpuScope -> IntPair],
         \A s \in CpuScope : s # "hard" => now[s] = asked[s],
         asked' = now, seen' = setClusterHardFreq(now)[1],
         written' = setClusterHardFreq(now)[2], unit' = unit
  PROVE  CpuInv'
<1> DEFINE p == Pair(IF now["hard"].min <= 0 THEN Ignore ELSE now["hard"].min,
                     IF now["hard"].max <= 0 \/ now["hard"].max >= freqMax
                     THEN Ignore ELSE now["hard"].max)
<1>1. p \in IntPair
  BY DEF IntPair, Pair, Ignore, CpuScope
<1>2. seen' = seen /\ written' = [written EXCEPT !["hard"] = p]
  BY DEF setClusterHardFreq
<1> HIDE DEF p
<1>3. /\ written' \in [Cpu \cup {"hard"} -> IntPair]
      /\ \A c \in Cpu : written'[c] = written[c]
  BY <1>1, <1>2 DEF CpuInv, Cpu
<1>4. /\ updateClusterFreqInfo(now)["soft"] = updateClusterFreqInfo(asked)["soft"]
      /\ \A d \in Cpu : updateCPUFreqInfo(now, d) = updateCPUFreqInfo(asked, d)
  BY DEF updateClusterFreqInfo, updateCPUFreqInfo, CpuScope, Cpu
<1>5. \A d \in Cpu : (FreqToSet(seen, d))' = FreqToSet(seen, d)
  BY <1>2 DEF FreqToSet
<1>6. Targets' = Targets /\ Targets \subseteq Cpu
  BY DEF Targets, Cpu
<1> QED BY <1>2, <1>3, <1>4, <1>5, <1>6 DEF CpuInv, Cpu
-----------------------------------------------------------------------------
(***************************************************************************)
(* Limits: GPU, APU, core counts and frame rate.                           *)
(***************************************************************************)
GpuInv ==
  /\ asked \in [{"soft", "hard"} -> IntPair]
  /\ \A s \in {"soft", "hard"} : asked[s].min >= 0
  /\ written \in [{"gpu"} -> IntPair] /\ written["gpu"] = setGpuFreq(asked)

\* What setGpuFreq works out: lower numbers are higher frequencies, so that the ceiling is
\* the smaller number.
LEMMA GpuInOrder ==
  ASSUME NEW now \in [{"soft", "hard"} -> IntPair],
         \A s \in {"soft", "hard"} : now[s].min >= 0
  PROVE  LET w == setGpuFreq(now)
             top == IF now["hard"].max <= now["hard"].min THEN now["hard"].max ELSE now["hard"].min
             n == nGpuFreqCount - 1
         IN  /\ w \in IntPair /\ w.max <= w.min
             /\ now["hard"].min < nGpuFreqCount =>
                  /\ 0 <= w.max /\ top <= w.max /\ w.min <= now["hard"].min
             /\ (\A s \in {"soft", "hard"} : now[s] = Pair(n, -1) \/ now[s] = Pair(n, 0)) =>
                  w = Pair(n, 0)
<1>1. PICK h1 \in Nat, h2 \in Int, s1 \in Nat, s2 \in Int :
        /\ now["hard"].min = h1 /\ now["hard"].max = h2
        /\ now["soft"].min = s1 /\ now["soft"].max = s2
  BY DEF IntPair
<1>2. PICK c \in Nat : c = nGpuFreqCount /\ c > 0
  BY LimitsAssumption
<1>3. PICK top \in Int : top = IF h2 <= h1 THEN h2 ELSE h1
  OBVIOUS
<1>4. PICK want \in Int : want = IF s2 <= s1 THEN s2 ELSE s1
  OBVIOUS
<1>5. Min({now["hard"].max, now["hard"].min}) = top /\ Min({now["soft"].max, now["soft"].min}) = want
  BY <1>1, <1>3, <1>4, Min2
<1>6. PICK f \in Int : f = IF s1 > h1 THEN h1 ELSE IF s1 < top THEN top ELSE s1
  OBVIOUS
<1>7. PICK m \in Int : m = IF want > h1 THEN h1 ELSE IF want < top THEN top ELSE want
  OBVIOUS
<1>8. setGpuFreq(now) = Pair(IF f \notin 0 .. c - 1 THEN c - 1 ELSE f,
                             IF m \notin 0 .. c - 1 THEN 0 ELSE m)
  BY <1>1, <1>2, <1>5, <1>6, <1>7 DEF setGpuFreq
<1>9. /\ top <= h1 /\ want <= s1 /\ 0 <= f /\ f <= h1 /\ m <= f /\ top <= m
  BY <1>3, <1>4, <1>6, <1>7
<1>10. PICK a \in Int, b \in Int :
         /\ a = (IF f \notin 0 .. c - 1 THEN c - 1 ELSE f)
         /\ b = (IF m \notin 0 .. c - 1 THEN 0 ELSE m)
  BY <1>2
<1>11. /\ b <= a
       /\ h1 < c => 0 <= b /\ top <= b /\ a <= h1
  BY <1>2, <1>9, <1>10
<1>12. ASSUME h1 = c - 1, s1 = c - 1, h2 = 0 \/ h2 = -1, s2 = 0 \/ s2 = -1
       PROVE  a = c - 1 /\ b = 0
  <2>1. top = h2 /\ want = s2
    BY <1>2, <1>3, <1>4, <1>12
  <2>2. f = c - 1 /\ (m = 0 \/ m = -1)
    BY <1>2, <1>6, <1>7, <1>12, <2>1
  <2> QED BY <1>2, <1>10, <2>2
<1>13. ASSUME \A s \in {"soft", "hard"} : now[s] = Pair(c - 1, -1) \/ now[s] = Pair(c - 1, 0)
       PROVE  a = c - 1 /\ b = 0
  <2>1. h1 = c - 1 /\ s1 = c - 1 /\ (h2 = 0 \/ h2 = -1) /\ (s2 = 0 \/ s2 = -1)
    BY <1>1, <1>13 DEF Pair
  <2> QED BY <1>12, <2>1
<1>14. setGpuFreq(now) = Pair(a, b)
  BY <1>8, <1>10
<1> QED BY <1>1, <1>2, <1>3, <1>11, <1>13, <1>14 DEF Pair, IntPair

\* The properties of the GPU's limits.
LEMMA GpuConsistent ==
  ASSUME GpuInv, unit.kind = "gpu"
  PROVE  LimitsConsistent
<1> DEFINE w == written["gpu"]
           h1 == asked["hard"].min
           top == IF asked["hard"].max <= h1 THEN asked["hard"].max ELSE h1
           n == nGpuFreqCount - 1
<1>1. /\ w \in IntPair /\ w.max <= w.min
      /\ h1 < nGpuFreqCount => 0 <= w.max /\ top <= w.max /\ w.min <= h1
      /\ (\A s \in {"soft", "hard"} : asked[s] = Pair(n, -1) \/ asked[s] = Pair(n, 0)) =>
           w = Pair(n, 0)
  BY GpuInOrder DEF GpuInv
<1>2. /\ asked["hard"].max \in Int /\ h1 \in Int /\ w.min \in Int /\ w.max \in Int /\ top \in Int
  BY <1>1 DEF GpuInv, IntPair
<1>3. Min({asked["hard"].max, asked["hard"].min}) = top
  BY <1>2, Min2
<1>4. PICK m \in Int : /\ m = Max({0, Min({asked["hard"].max, asked["hard"].min})})
                       /\ m = IF 0 >= top THEN 0 ELSE top
  <2> HIDE DEF top
  <2>1. \A t \in Int : Max({0, t}) = IF 0 >= t THEN 0 ELSE t
    BY Max2
  <2>2. Max({0, top}) = (IF 0 >= top THEN 0 ELSE top) /\ (IF 0 >= top THEN 0 ELSE top) \in Int
    BY <1>2, <2>1
  <2> QED BY <1>3, <2>2
<1>5. h1 < nGpuFreqCount => {w.min, w.max} \subseteq m .. h1
  <2> HIDE DEF top, h1, w
  <2> QED BY <1>1, <1>2, <1>4
<1>6. NotAsked(unit) = Pair(n, -1) /\ AtRest(unit) = Pair(n, 0)
  BY DEF NotAsked, AtRest
<1>7. DOMAIN asked = {"soft", "hard"} /\ DOMAIN written \ {"hard"} = {"gpu"}
  BY DEF GpuInv
<1> QED BY <1>1, <1>4, <1>5, <1>6, <1>7 DEF LimitsConsistent

\* What setVPUboost and setMDLAboost write for a pair that was asked, and where.
BoostPair(p) == Align(Pair(IF p.min = -1 THEN 0 ELSE p.min,
                           IF p.max = -1 THEN VPU_BOOST_MAX ELSE p.max))
BoostTarget(scope) == IF unit.chip6885 /\ scope = "vpu1" THEN "vpu0" ELSE scope
ApuScope == {"vpu0", "vpu1", "mdla"}

\* Every node has what it had at rest, or what the scope that wrote it last asks now.
ApuInv ==
  /\ asked \in [ApuScope -> IntPair] /\ written \in [ApuScope -> IntPair]
  /\ \A n \in ApuScope : \/ written[n] = Pair(0, VPU_BOOST_MAX)
                         \/ \E s \in ApuScope : BoostTarget(s) = n /\ written[n] = BoostPair(asked[s])

\* The pair that is written is in order.
LEMMA BoostPairFact ==
  ASSUME NEW p \in IntPair
  PROVE  /\ BoostPair(p) \in IntPair /\ BoostPair(p).min <= BoostPair(p).max
         /\ p = Pair(-1, -1) => BoostPair(p) = Pair(0, VPU_BOOST_MAX)
BY DEF BoostPair, Align, Pair, IntPair, VPU_BOOST_MAX

\* A boost is asked for, or not any more.
LEMMA ApuKeeps ==
  ASSUME ApuInv, NEW scope \in ApuScope, NEW end \in {"min", "max"}, NEW v \in Int,
         setBoost(scope, end, v)
  PROVE  ApuInv'
<1>1. PICK now : now = [asked EXCEPT ![scope][end] = v]
  OBVIOUS
<1>2. /\ now \in [ApuScope -> IntPair]
      /\ \A s \in ApuScope : s # scope => now[s] = asked[s]
  BY <1>1 DEF ApuInv, IntPair
<1>3. asked' = now /\ unit' = unit /\ written' = [written EXCEPT ![BoostTarget(scope)] = BoostPair(now[scope])]
  BY <1>1 DEF setBoost, BoostPair, BoostTarget
<1>4. BoostTarget(scope) \in ApuScope /\ BoostPair(now[scope]) \in IntPair
  BY <1>2, BoostPairFact DEF BoostTarget, ApuScope
<1>5. /\ written' \in [ApuScope -> IntPair]
      /\ written'[BoostTarget(scope)] = BoostPair(now[scope])
      /\ \A n \in ApuScope : n # BoostTarget(scope) => written'[n] = written[n]
  BY <1>3, <1>4 DEF ApuInv
<1>6. \A s \in ApuScope : BoostTarget(s)' = BoostTarget(s)
  BY <1>3 DEF BoostTarget
<1>7. ASSUME NEW n \in ApuScope
      PROVE  \/ written'[n] = Pair(0, VPU_BOOST_MAX)
             \/ \E s \in ApuScope : BoostTarget(s)' = n /\ written'[n] = BoostPair(asked'[s])
  <2>1. CASE n = BoostTarget(scope)
    BY <1>3, <1>5, <1>6, <2>1
  <2>2. CASE n # BoostTarget(scope)
    <3>1. written'[n] = written[n]
      BY <1>5, <2>2
    <3>2. ASSUME NEW s \in ApuScope, BoostTarget(s) = n, written[n] = BoostPair(asked[s])
          PROVE  BoostTarget(s)' = n /\ written'[n] = BoostPair(asked'[s])
      <4>1. asked'[s] = asked[s]
        BY <1>2, <1>3, <2>2, <3>2
      <4> QED BY <1>6, <3>1, <3>2, <4>1
    <3> QED BY <3>1, <3>2 DEF ApuInv
  <2> QED BY <2>1, <2>2
<1> QED BY <1>2, <1>3, <1>5, <1>7 DEF ApuInv

\* The properties of the APU's boosts.
LEMMA ApuConsistent ==
  ASSUME ApuInv, unit.kind = "apu"
  PROVE  LimitsConsistent
<1>1. /\ asked \in [ApuScope -> IntPair]
      /\ DOMAIN asked = ApuScope /\ DOMAIN written = ApuScope /\ "hard" \notin ApuScope
  BY DEF ApuInv, ApuScope
<1>2. ASSUME NEW n \in ApuScope PROVE written[n].min <= written[n].max
  <2>1. Pair(0, VPU_BOOST_MAX).min <= Pair(0, VPU_BOOST_MAX).max
    BY DEF Pair, VPU_BOOST_MAX
  <2> QED BY <1>1, <2>1, BoostPairFact DEF ApuInv
<1>3. ASSUME \A s \in ApuScope : asked[s] = Pair(-1, -1), NEW n \in ApuScope
      PROVE  written[n] = Pair(0, VPU_BOOST_MAX)
  BY <1>1, <1>3, BoostPairFact DEF ApuInv
<1>4. NotAsked(unit) = Pair(-1, -1) /\ AtRest(unit) = Pair(0, VPU_BOOST_MAX)
  BY DEF NotAsked, AtRest
<1> QED BY <1>1, <1>2, <1>3, <1>4 DEF LimitsConsistent

\* A request for an operating point of the GPU.
LEMMA GpuKeeps ==
  ASSUME GpuInv, NEW scope \in {"soft", "hard"}, NEW end \in {"min", "max"},
         NEW level \in -1 .. nGpuFreqCount, setGPUFreqOPP(scope, end, level)
  PROVE  GpuInv'
<1> DEFINE v == IF level = -1 THEN IF end = "min" THEN nGpuFreqCount - 1 ELSE 0 ELSE level
<1>1. v \in Nat
  BY LimitsAssumption
<1>2. PICK now : now = [asked EXCEPT ![scope][end] = v]
  OBVIOUS
<1>3. asked' = now /\ written' = [written EXCEPT !["gpu"] = setGpuFreq(now)]
  BY <1>2 DEF setGPUFreqOPP
<1> HIDE DEF v
<1>4. now \in [{"soft", "hard"} -> IntPair] /\ \A s \in {"soft", "hard"} : now[s].min >= 0
  BY <1>1, <1>2 DEF GpuInv, IntPair
<1>5. setGpuFreq(now) \in IntPair
  BY <1>4, GpuInOrder
<1>6. written' \in [{"gpu"} -> IntPair] /\ written'["gpu"] = setGpuFreq(now)
  BY <1>3, <1>5 DEF GpuInv
<1> QED BY <1>3, <1>4, <1>6 DEF GpuInv

\* All clusters are written with every request for a number of cores.
Cluster == {"cluster0", "cluster1"}
CoresInv == asked \in [Cluster -> IntPair] /\ written = setCPUCores(asked)

\* What a cluster is given is in order, unless there is no ceiling at all.
LEMMA ClusterInOrder ==
  ASSUME NEW a \in Int, NEW b \in Int, a <= b \/ b = Ignore
  PROVE  LET w == setClusterCores(Pair(a, b))
         IN  w.min <= w.max \/ w.max = Ignore
<1>1. PICK least \in Int : least = IF a < 0 \/ a > cpuNum \/ (a = 0 /\ ~unit.core_ctl) THEN Ignore ELSE a
  BY DEF Ignore
<1>2. PICK most \in Int : most = IF b < 0 \/ b >= cpuNum THEN Ignore ELSE b
  BY DEF Ignore
<1>3. setClusterCores(Pair(a, b)) =
        IF ~unit.core_ctl THEN Pair(least, most)
        ELSE Pair(IF least # Ignore THEN least
                  ELSE IF most = Ignore THEN default_core_min ELSE 0,
                  IF most = Ignore THEN cpuNum ELSE most)
  BY <1>1, <1>2 DEF setClusterCores, Pair
<1>4. CASE ~unit.core_ctl
  BY <1>1, <1>2, <1>3, <1>4 DEF Pair, Ignore, cpuNum
<1>5. CASE unit.core_ctl
  BY <1>1, <1>2, <1>3, <1>5 DEF Pair, Ignore, cpuNum, default_core_min
<1> QED BY <1>4, <1>5

\* The properties of the numbers of cores.
LEMMA CoresConsistent ==
  ASSUME CoresInv, unit.kind = "cores"
  PROVE  LimitsConsistent
<1> DEFINE least(c) == IF asked[c].min > cpuNum THEN Ignore ELSE asked[c].min
           most(c) == Max({asked[c].max, least(c)})
<1>1. DOMAIN asked = Cluster /\ DOMAIN written = Cluster /\ "hard" \notin Cluster
  BY DEF CoresInv, setCPUCores, Cluster
<1>2. \A c \in Cluster : asked[c].min \in Int /\ asked[c].max \in Int
  BY DEF CoresInv, IntPair
<1>3. \A c \in Cluster : least(c) \in Int
  BY <1>2 DEF Ignore
<1>4. \A c \in Cluster : most(c) \in Int /\ least(c) <= most(c)
  <2> SUFFICES ASSUME NEW c \in Cluster PROVE most(c) \in Int /\ least(c) <= most(c)
    OBVIOUS
  <2>1. PICK a, b \in Int : a = asked[c].max /\ b = least(c)
    BY <1>2, <1>3
  <2>2. Max({a, b}) = IF a >= b THEN a ELSE b
    BY Max2
  <2> QED BY <2>1, <2>2
<1>5. \A c \in Cluster : written[c] =
        setClusterCores(Pair(least(c), IF c = "cluster0" /\ \A d \in Cluster : most(d) = 0
                                       THEN Ignore ELSE most(c)))
  BY <1>1 DEF CoresInv, setCPUCores
<1> HIDE DEF least, most
<1>6. ASSUME NEW c \in Cluster PROVE written[c].min <= written[c].max \/ written[c].max = Ignore
  <2>1. PICK b \in Int : b = IF c = "cluster0" /\ \A d \in Cluster : most(d) = 0
                             THEN Ignore ELSE most(c)
    BY <1>4 DEF Ignore
  <2>2. written[c] = setClusterCores(Pair(least(c), b)) /\ (least(c) <= b \/ b = Ignore)
    BY <1>4, <1>5, <2>1
  <2> QED BY <1>3, <2>1, <2>2, ClusterInOrder
<1>7. ASSUME \A s \in Cluster : asked[s] = Pair(-1, cpuNum), NEW c \in Cluster
      PROVE  written[c] = AtRest(unit)
  <2>1. \A d \in Cluster : asked[d].min = -1 /\ asked[d].max = 2
    BY <1>7 DEF Pair, cpuNum
  <2>2. \A d \in Cluster : least(d) = -1
    BY <2>1 DEF least, cpuNum
  <2>3. Max({2, -1}) = 2
    BY Max2
  <2>4. \A d \in Cluster : most(d) = 2
    BY <2>1, <2>2, <2>3 DEF most
  <2>5. written[c] = setClusterCores(Pair(-1, 2))
    BY <1>5, <2>2, <2>4
  <2> QED BY <2>5 DEF setClusterCores, AtRest, Pair, Ignore, cpuNum, default_core_min
<1>8. NotAsked(unit) = Pair(-1, cpuNum)
  BY DEF NotAsked
<1> QED BY <1>1, <1>6, <1>7, <1>8 DEF LimitsConsistent

\* A request for a number of cores.
LEMMA CoresKeep ==
  ASSUME CoresInv, NEW scope \in Cluster, NEW end \in {"min", "max"}, NEW v \in Int,
         setCPUCoreCluster(scope, end, v)
  PROVE  CoresInv'
<1>1. PICK now : now = [asked EXCEPT ![scope][end] = IF end = "max" /\ v = -1 THEN cpuNum ELSE v]
  OBVIOUS
<1>2. now \in [Cluster -> IntPair]
  BY <1>1 DEF CoresInv, IntPair, cpuNum
<1>3. asked' = now /\ written' = setCPUCores(now) /\ unit' = unit
  BY <1>1 DEF setCPUCoreCluster
<1>4. (setCPUCores(asked))' = setCPUCores(now)
  BY <1>3, SMTT(60) DEF setCPUCores, setClusterCores, Pair, Ignore, cpuNum
<1> QED BY <1>2, <1>3, <1>4 DEF CoresInv

\* The frame rate that was asked is the one that was written.
FpsInv ==
  /\ asked \in [{"soft"} -> IntPair] /\ written \in [{"soft"} -> IntPair]
  /\ written["soft"] = asked["soft"]

\* The invariant of all units.
LimInv ==
  /\ unit \in Units /\ OverrideInv
  /\ unit.kind = "cpu" => CpuInv
  /\ unit.kind = "gpu" => GpuInv
  /\ unit.kind = "apu" => ApuInv
  /\ unit.kind = "cores" => CoresInv
  /\ unit.kind = "fps" => FpsInv

\* The kinds there are.
LEMMA KindOfUnit ==
  \A u \in Units : u.kind \in {"cpu", "gpu", "apu", "cores", "fps", "pelt", "dex2oat"}
BY DEF Units

\* It holds at the start.
LEMMA LimitsStart == LimitsInit => LimInv
<1> SUFFICES ASSUME LimitsInit PROVE LimInv
  OBVIOUS
<1>1. unit \in Units
  BY DEF LimitsInit
<1>2. OverrideInv
  <2>1. CASE unit.kind = "pelt"
    <3>1. /\ asked = [s \in {"low", "high"} |-> Pair(-1, -1)]
          /\ written = [n \in {"pelt"} |-> Pair(4, -1)]
      BY <2>1 DEF LimitsInit, ScopesOf, NotAsked, NodesOf, AtRest
    <3> QED BY <2>1, <3>1 DEF OverrideInv, PeltInv, IntPair, Pair, sched_set_pelt_multiplier, PELT_DEFAULT
  <2>2. CASE unit.kind = "dex2oat"
    <3>1. /\ asked = [s \in {"low", "high"} |-> Pair(-1, -1)]
          /\ written = [n \in {"dex2oat"} |-> Pair(-1, -1)]
          /\ seen = [disable |-> FALSE, default |-> FALSE, boot |-> FALSE, took |-> FALSE]
      BY <2>2 DEF LimitsInit, ScopesOf, NotAsked, NodesOf, AtRest
    <3> QED BY <2>2, <3>1 DEF OverrideInv, Dex2oatInv, IntPair, Pair
  <2> QED BY <2>1, <2>2 DEF OverrideInv
<1>3. CASE unit.kind = "cpu"
  <2>1. /\ asked = [s \in CpuScope |-> Pair(0, freqMax)]
        /\ seen = [s \in CpuScope |-> Pair(0, freqMax)]
        /\ written = [n \in Cpu \cup {"hard"} |->
                        IF n = "hard" THEN Pair(Ignore, Ignore) ELSE Pair(freqMin, freqMax)]
    <3>1. /\ ScopesOf("cpu") = CpuScope /\ NotAsked(unit) = Pair(0, freqMax)
          /\ NodesOf(unit) = Cpu \cup {"hard"} /\ AtRest(unit) = Pair(freqMin, freqMax)
      BY <1>3 DEF ScopesOf, CpuScope, Cpu, NotAsked, NodesOf, AtRest
    <3> QED BY <1>3, <3>1 DEF LimitsInit, initCPUFreqInfo
  <2>2. /\ Pair(0, freqMax) \in IntPair /\ Pair(freqMin, freqMax) \in IntPair
        /\ Pair(Ignore, Ignore) \in IntPair
        /\ Pair(0, freqMax).min <= Pair(0, freqMax).max
    BY LimitsAssumption DEF IntPair, Pair, Ignore
  <2>3. /\ asked \in [CpuScope -> IntPair] /\ seen \in [CpuScope -> IntPair]
        /\ written \in [Cpu \cup {"hard"} -> IntPair]
        /\ \A s \in CpuScope : asked[s] = Pair(0, freqMax) /\ seen[s] = Pair(0, freqMax)
        /\ \A c \in Cpu : written[c] = Pair(freqMin, freqMax)
    BY <2>1, <2>2 DEF Cpu
  <2>4. /\ Cpu = {"cpu0", "cpu1"} /\ Cpu \subseteq CpuScope /\ Targets \subseteq Cpu
        /\ "soft" \in CpuScope /\ "hard" \in CpuScope
    BY DEF Cpu, CpuScope, Targets
  <2>5. /\ updateClusterFreqInfo(asked)["soft"] = Pair(0, freqMax)
        /\ updateClusterFreqInfo(asked)["hard"] = Pair(0, freqMax)
        /\ \A c \in Cpu : updateCPUFreqInfo(asked, c) = Pair(0, freqMax)
    BY <2>3, <2>4, SeenFacts
  <2>6. \A c \in Cpu : FreqToSet(seen, c) = Pair(freqMin, freqMax)
    BY <2>3, <2>4, FreqAtRest
  <2>7. CpuInv
    BY <2>2, <2>3, <2>4, <2>5, <2>6 DEF CpuInv
  <2> QED BY <1>1, <1>2, <1>3, <2>7 DEF LimInv
<1>4. CASE unit.kind = "gpu"
  <2>1. /\ asked = [s \in {"soft", "hard"} |-> Pair(nGpuFreqCount - 1, -1)]
        /\ written = [n \in {"gpu"} |-> Pair(nGpuFreqCount - 1, 0)]
    BY <1>4 DEF LimitsInit, ScopesOf, NotAsked, NodesOf, AtRest
  <2>2. /\ asked \in [{"soft", "hard"} -> IntPair] /\ written \in [{"gpu"} -> IntPair]
        /\ \A s \in {"soft", "hard"} : asked[s].min >= 0 /\ asked[s] = Pair(nGpuFreqCount - 1, -1)
    BY <2>1, LimitsAssumption DEF Pair, IntPair
  <2>3. setGpuFreq(asked) = Pair(nGpuFreqCount - 1, 0)
    BY <2>2, GpuInOrder
  <2> QED BY <1>1, <1>2, <1>4, <2>1, <2>2, <2>3 DEF LimInv, GpuInv
<1>5. CASE unit.kind = "apu"
  <2>1. /\ asked = [s \in ApuScope |-> Pair(-1, -1)]
        /\ written = [n \in ApuScope |-> Pair(0, VPU_BOOST_MAX)]
    BY <1>5 DEF LimitsInit, ScopesOf, NotAsked, NodesOf, AtRest, ApuScope
  <2>2. Pair(-1, -1) \in IntPair /\ Pair(0, VPU_BOOST_MAX) \in IntPair
    BY DEF Pair, IntPair, VPU_BOOST_MAX
  <2> QED BY <1>1, <1>2, <1>5, <2>1, <2>2 DEF LimInv, ApuInv
<1>6. CASE unit.kind = "cores"
  <2>1. asked = [s \in Cluster |-> Pair(-1, cpuNum)] /\ written = [n \in Cluster |-> AtRest(unit)]
    BY <1>6 DEF LimitsInit, ScopesOf, NotAsked, NodesOf, Cluster
  <2>2. asked \in [Cluster -> IntPair]
    BY <2>1 DEF Pair, IntPair, cpuNum
  <2>3. DOMAIN asked = Cluster /\ \A d \in Cluster : asked[d].min = -1 /\ asked[d].max = 2
    BY <2>1 DEF Pair, cpuNum
  <2>4. Max({2, -1}) = 2
    BY Max2
  <2> DEFINE least(c) == IF asked[c].min > cpuNum THEN Ignore ELSE asked[c].min
             most(c) == Max({asked[c].max, least(c)})
             given(c) == IF c = "cluster0" /\ \A d \in Cluster : most(d) = 0 THEN Ignore ELSE most(c)
  <2>5. \A d \in Cluster : least(d) = -1
    BY <2>3 DEF cpuNum
  <2>6. setClusterCores(Pair(-1, 2)) = AtRest(unit)
    BY <1>6 DEF setClusterCores, AtRest, Pair, Ignore, cpuNum, default_core_min
  <2>7. setCPUCores(asked) = [c \in Cluster |-> setClusterCores(Pair(-1, 2))]
    <3>1. \A d \in Cluster : most(d) = 2
      BY <2>3, <2>4, <2>5
    <3>2. setCPUCores(asked) = [c \in Cluster |-> setClusterCores(Pair(least(c), given(c)))]
      BY <2>3 DEF setCPUCores
    <3>3. \A c \in Cluster : given(c) = 2
      <4> HIDE DEF most
      <4> QED BY <3>1
    <3> HIDE DEF least, given
    <3> QED BY <2>5, <3>2, <3>3
  <2> QED BY <1>1, <1>2, <1>6, <2>1, <2>2, <2>6, <2>7 DEF LimInv, CoresInv
<1>7. CASE unit.kind = "fps"
  <2>1. asked = [s \in {"soft"} |-> Pair(-1, -1)] /\ written = [s \in {"soft"} |-> Pair(-1, -1)]
    BY <1>7 DEF LimitsInit, ScopesOf, NotAsked, NodesOf, AtRest
  <2> QED BY <1>1, <1>2, <1>7, <2>1 DEF LimInv, FpsInv, Pair, IntPair
<1> QED BY <1>1, <1>2, <1>3, <1>4, <1>5, <1>6, <1>7 DEF LimInv

\* Every request for the CPU's frequency keeps it.
LEMMA CpuRequestKeeps ==
  ASSUME CpuInv, NEW scope \in CpuScope, NEW end \in {"min", "max"}, NEW v \in Int,
         setCPUFreqLimit(scope, end, v)
  PROVE  CpuInv'
<1> DEFINE x == IF v = -1 THEN IF end = "min" THEN 0 ELSE freqMax ELSE v
<1>1. x \in Int
  BY LimitsAssumption
<1>2. PICK now : now = [asked EXCEPT ![scope][end] = x]
  OBVIOUS
<1>3. PICK new : new = CASE scope = "soft" -> setClusterFreq(now)
                         [] scope = "hard" -> setClusterHardFreq(now)
                         [] OTHER -> setCPUFreq(now, <<seen, written>>, scope)
  OBVIOUS
<1>4. asked' = now /\ seen' = new[1] /\ written' = new[2] /\ unit' = unit
  BY <1>2, <1>3 DEF setCPUFreqLimit
<1> HIDE DEF x
<1>5. now \in [CpuScope -> IntPair] /\ \A s \in CpuScope : s # scope => now[s] = asked[s]
  BY <1>1, <1>2 DEF CpuInv, IntPair
<1>6. Cpu \subseteq CpuScope /\ "soft" \notin Cpu /\ "hard" \notin Cpu /\ CpuScope = Cpu \cup {"soft", "hard"}
  BY DEF Cpu, CpuScope
<1>7. CASE scope = "soft"
  <2>1. new = setClusterFreq(now)
    BY <1>3, <1>7
  <2> QED BY <1>4, <1>5, <1>6, <1>7, <2>1, ClusterKeeps
<1>8. CASE scope = "hard"
  <2>1. new = setClusterHardFreq(now)
    BY <1>3, <1>8
  <2>2. CASE unit.hard_user_limit
    BY <1>4, <1>5, <1>8, <2>1, <2>2, HardNodeKeeps
  <2>3. CASE ~unit.hard_user_limit
    <3>1. new = setClusterFreq(now)
      BY <2>1, <2>3 DEF setClusterHardFreq
    <3> QED BY <1>4, <1>5, <1>6, <1>8, <3>1, ClusterKeeps
  <2> QED BY <2>2, <2>3
<1>9. CASE scope \in Cpu
  <2>1. new = setCPUFreq(now, <<seen, written>>, scope)
    BY <1>3, <1>6, <1>9
  <2> QED BY <1>4, <1>5, <1>6, <1>9, <2>1, CoreKeeps
<1> QED BY <1>6, <1>7, <1>8, <1>9

\* So does every step.
LEMMA LimitsStep == LimInv /\ [LimitsNext]_limitVars => LimInv'
<1> SUFFICES ASSUME LimInv, [LimitsNext]_limitVars PROVE LimInv'
  OBVIOUS
<1>1. LimitsAssumption /\ unit \in Units
  BY LimitsAssumption DEF LimInv
<1>2. ASSUME NEW scope \in DOMAIN asked, NEW end \in {"min", "max"},
             NEW v \in LimitValues(scope, end)
      PROVE  v \in Int /\ (unit.kind = "gpu" => v \in -1 .. nGpuFreqCount)
  BY <1>1 DEF LimitValues, LimitsAssumption, VPU_BOOST_MAX, cpuNum
<1>3. ASSUME NEW scope \in DOMAIN asked, NEW end \in {"min", "max"},
             NEW v \in LimitValues(scope, end), setCPUFreqLimit(scope, end, v)
      PROVE  LimInv'
  <2>1. unit' = unit /\ unit.kind = "cpu" /\ CpuInv
    BY <1>3 DEF setCPUFreqLimit, LimInv
  <2>2. scope \in CpuScope
    BY <2>1 DEF CpuInv
  <2>3. CpuInv'
    BY <1>2, <1>3, <2>1, <2>2, CpuRequestKeeps
  <2> QED BY <1>1, <2>1, <2>3 DEF LimInv, OverrideInv
<1>4. ASSUME NEW scope \in DOMAIN asked, NEW end \in {"min", "max"},
             NEW v \in LimitValues(scope, end), setGPUFreqOPP(scope, end, v)
      PROVE  LimInv'
  <2>1. unit' = unit /\ unit.kind = "gpu" /\ GpuInv
    BY <1>4 DEF setGPUFreqOPP, LimInv
  <2>2. scope \in {"soft", "hard"}
    BY <2>1 DEF GpuInv
  <2>3. GpuInv'
    BY <1>2, <1>4, <2>1, <2>2, GpuKeeps
  <2> QED BY <1>1, <2>1, <2>3 DEF LimInv, OverrideInv
<1>5. ASSUME NEW scope \in DOMAIN asked, NEW end \in {"min", "max"},
             NEW v \in LimitValues(scope, end), setBoost(scope, end, v)
      PROVE  LimInv'
  <2>1. unit' = unit /\ unit.kind = "apu" /\ ApuInv
    BY <1>5 DEF setBoost, LimInv
  <2>2. scope \in ApuScope
    BY <2>1 DEF ApuInv
  <2>3. ApuInv'
    BY <1>2, <1>5, <2>1, <2>2, ApuKeeps
  <2> QED BY <1>1, <2>1, <2>3 DEF LimInv, OverrideInv
<1>6. ASSUME NEW scope \in DOMAIN asked, NEW end \in {"min", "max"},
             NEW v \in LimitValues(scope, end), setCPUCoreCluster(scope, end, v)
      PROVE  LimInv'
  <2>1. unit' = unit /\ unit.kind = "cores" /\ CoresInv
    BY <1>6 DEF setCPUCoreCluster, LimInv
  <2>2. scope \in Cluster
    BY <2>1 DEF CoresInv
  <2>3. CoresInv'
    BY <1>2, <1>6, <2>1, <2>2, CoresKeep
  <2> QED BY <1>1, <2>1, <2>3 DEF LimInv, OverrideInv
<1>7. ASSUME NEW end \in {"min", "max"}, NEW v \in {-1, 30, 60}, setFstbSoftFps(end, v)
      PROVE  LimInv'
  <2>1. unit' = unit /\ unit.kind = "fps" /\ FpsInv
    BY <1>7 DEF setFstbSoftFps, LimInv
  <2>2. asked' \in [{"soft"} -> IntPair]
    BY <1>7, <2>1 DEF setFstbSoftFps, FpsInv, IntPair
  <2>3. FpsInv'
    BY <1>7, <2>1, <2>2 DEF setFstbSoftFps, FpsInv
  <2> QED BY <1>1, <2>1, <2>3 DEF LimInv, OverrideInv
<1>8. ASSUME NEW scope \in {"low", "high"}, NEW v \in {-1, 8, 16, 32},
             sched_pelt_halflife(scope, v)
      PROVE  LimInv'
  <2>1. unit' = unit /\ unit.kind = "pelt" /\ PeltInv
    BY <1>8 DEF sched_pelt_halflife, LimInv, OverrideInv
  <2>2. PeltInv'
    BY <1>8, <2>1, PeltKeeps
  <2> QED BY <1>1, <2>1, <2>2 DEF LimInv, OverrideInv
<1>9. ASSUME NEW scope \in {"low", "high"},
             \/ \E v \in {0, 1, cpu_max, cpu_max + 1} : set_dex2oat_cpus(scope, v)
             \/ unset_dex2oat_cpus(scope)
      PROVE  LimInv'
  <2>1. unit' = unit /\ unit.kind = "dex2oat" /\ Dex2oatInv
    BY <1>9 DEF set_dex2oat_cpus, unset_dex2oat_cpus, LimInv, OverrideInv
  <2>2. Dex2oatInv'
    BY <1>9, <2>1, Dex2oatSetKeeps, Dex2oatUnsetKeeps
  <2> QED BY <1>1, <2>1, <2>2 DEF LimInv, OverrideInv
<1>10. CASE BootCompletes
  <2>1. unit' = unit /\ unit.kind = "dex2oat" /\ Dex2oatInv'
    BY <1>10 DEF BootCompletes, LimInv, OverrideInv, Dex2oatInv
  <2> QED BY <1>1, <2>1 DEF LimInv, OverrideInv
<1>11. CASE UNCHANGED limitVars
  <2>1. unit' = unit /\ asked' = asked /\ seen' = seen /\ written' = written
    BY <1>11 DEF limitVars
  <2>2. /\ (CpuInv' <=> CpuInv) /\ (GpuInv' <=> GpuInv) /\ (ApuInv' <=> ApuInv)
        /\ (FpsInv' <=> FpsInv)
    BY <2>1 DEF CpuInv, GpuInv, ApuInv, FpsInv, BoostTarget, Targets, FreqToSet
  <2>3. CoresInv' <=> CoresInv
    BY <2>1 DEF CoresInv, setCPUCores, setClusterCores
  <2>4. OverrideInv'
    BY <2>1 DEF LimInv, OverrideInv, PeltInv, Dex2oatInv
  <2> QED BY <2>1, <2>2, <2>3, <2>4 DEF LimInv
<1> QED BY <1>3, <1>4, <1>5, <1>6, <1>7, <1>8, <1>9, <1>10, <1>11 DEF LimitsNext

\* Floors and ceilings that reach the hardware agree, whatever was asked in whatever order
\* (setCPUFreq, setGpuFreq, setVPUboost, setCPUCores): for every range of frequencies and
\* every number of operating points.
THEOREM LimitsAgree == LimitsSpec => []LimitsConsistent
<1>1. LimInv => LimitsConsistent
  <2> SUFFICES ASSUME LimInv PROVE LimitsConsistent
    OBVIOUS
  <2>1. unit.kind \in {"cpu", "gpu", "apu", "cores", "fps", "pelt", "dex2oat"}
    BY KindOfUnit DEF LimInv
  <2>2. CASE unit.kind \in {"cpu", "gpu", "apu", "cores"}
    BY <2>2, CpuConsistent, GpuConsistent, ApuConsistent, CoresConsistent DEF LimInv
  <2>3. CASE unit.kind = "fps"
    BY <2>3 DEF LimInv, FpsInv, LimitsConsistent, NotAsked, AtRest
  <2>4. CASE unit.kind = "pelt"
    <3>1. ASSUME \A s \in DOMAIN asked : asked[s] = Pair(-1, -1)
          PROVE  \A n \in DOMAIN written : written[n] = Pair(4, -1)
      BY <2>4, <3>1 DEF LimInv, OverrideInv, PeltInv, IntPair, Pair, sched_set_pelt_multiplier, PELT_DEFAULT
    <3> QED BY <2>4, <3>1 DEF LimitsConsistent, NotAsked, AtRest
  <2>5. CASE unit.kind = "dex2oat"
    <3>1. ASSUME \A s \in DOMAIN asked : asked[s] = Pair(-1, -1)
          PROVE  \A n \in DOMAIN written : written[n] = Pair(-1, -1)
      BY <2>5, <3>1 DEF LimInv, OverrideInv, Dex2oatInv, IntPair, Pair
    <3> QED BY <2>5, <3>1 DEF LimitsConsistent, NotAsked, AtRest
  <2> QED BY <2>1, <2>2, <2>3, <2>4, <2>5
<1> QED BY <1>1, LimitsStart, LimitsStep, PTL DEF LimitsSpec

\* A node with an overriding resource holds that resource's value while it is set,
\* whatever happens to the other, and goes back when it is not (sched_pelt_halflife,
\* set_dex2oat_cpus and what ends them, in any order, with the boot finishing in between).
THEOREM OverridesRule == LimitsSpec => []OverrideRules
<1>1. LimInv => OverrideRules
  BY DEF LimInv, OverrideInv, PeltInv, Dex2oatInv, OverrideRules
<1> QED BY <1>1, LimitsStart, LimitsStep, PTL DEF LimitsSpec

-----------------------------------------------------------------------------
(***************************************************************************)
(* The table of resources.                                                 *)
(***************************************************************************)

\* A row whose resting value no clamped request can have: the end of the range of a ranked row has
\* a neighbour, and a ONESHOT row does not allow RSC_TBL_INVALID_VALUE, unless it is as wide as can be.
SoundRow(r) ==
  /\ r.comp \in {"BIGGEST", "SMALLEST", "ONESHOT"}
  /\ r.max \in Int /\ r.min \in Int /\ r.def \in Int /\ r.min <= r.max
  /\ -2147483646 <= r.min /\ r.max <= 2147483646 /\ IsInt32(r.def)
  /\ r.comp = "ONESHOT" => \/ RSC_TBL_INVALID_VALUE < r.min
                           \/ RSC_TBL_INVALID_VALUE > r.max
                           \/ r = Sticky(1000000, -1000000, 0)

\* Every row of the table is sound.
LEMMA RowsAreSound == \A r \in RscCfgTbl : SoundRow(r)
<1>1. \A r \in CpuFreqClusterRowsA \cup CpuFreqClusterRowsB \cup GpuAndCoreRows
               \cup CpuFreqCoreRowsA \cup CpuFreqCoreRowsB \cup FrsRowsA : SoundRow(r)
  BY DEF CpuFreqClusterRowsA, CpuFreqClusterRowsB, GpuAndCoreRows, CpuFreqCoreRowsA, CpuFreqCoreRowsB, FrsRowsA, SoundRow, IsInt32, RSC_TBL_INVALID_VALUE,
         Row, Biggest, Smallest, BiggestReset, SmallestReset, Oneshot, Sticky
<1>2. \A r \in FrsRowsB \cup FrsRowsC \cup FrsRowsD
               \cup FrsRowsE \cup FrsRowsF \cup NetRows : SoundRow(r)
  BY DEF FrsRowsB, FrsRowsC, FrsRowsD, FrsRowsE, FrsRowsF, NetRows, SoundRow, IsInt32, RSC_TBL_INVALID_VALUE,
         Row, Biggest, Smallest, BiggestReset, SmallestReset, Oneshot, Sticky
<1>3. \A r \in FpsgoRowsA \cup FpsgoRowsB \cup FpsgoRowsC
               \cup FpsgoRowsD \cup FpsgoRowsE \cup FpsgoRowsF : SoundRow(r)
  BY DEF FpsgoRowsA, FpsgoRowsB, FpsgoRowsC, FpsgoRowsD, FpsgoRowsE, FpsgoRowsF, SoundRow, IsInt32, RSC_TBL_INVALID_VALUE,
         Row, Biggest, Smallest, BiggestReset, SmallestReset, Oneshot, Sticky
<1>4. \A r \in IoAndTaskRowsA \cup IoAndTaskRowsB \cup PolicyAndAdpfRows
               \cup MemoryRowsA \cup MemoryRowsB \cup DisplayRowsA : SoundRow(r)
  BY DEF IoAndTaskRowsA, IoAndTaskRowsB, PolicyAndAdpfRows, MemoryRowsA, MemoryRowsB, DisplayRowsA, SoundRow, IsInt32, RSC_TBL_INVALID_VALUE,
         Row, Biggest, Smallest, BiggestReset, SmallestReset, Oneshot, Sticky
<1>5. \A r \in DisplayRowsB \cup IsolationAndPowerRowsA \cup IsolationAndPowerRowsB
               \cup CoreCtlRowsA \cup CoreCtlRowsB \cup CoreCtlRowsC : SoundRow(r)
  BY DEF DisplayRowsB, IsolationAndPowerRowsA, IsolationAndPowerRowsB, CoreCtlRowsA, CoreCtlRowsB, CoreCtlRowsC, SoundRow, IsInt32, RSC_TBL_INVALID_VALUE,
         Row, Biggest, Smallest, BiggestReset, SmallestReset, Oneshot, Sticky
<1>6. \A r \in CoreCtlRowsD \cup CacheQosRowsA \cup CacheQosRowsB
               \cup SchedRowsA \cup SchedRowsB \cup SchedRowsC : SoundRow(r)
  BY DEF CoreCtlRowsD, CacheQosRowsA, CacheQosRowsB, SchedRowsA, SchedRowsB, SchedRowsC, SoundRow, IsInt32, RSC_TBL_INVALID_VALUE,
         Row, Biggest, Smallest, BiggestReset, SmallestReset, Oneshot, Sticky
<1>7. \A r \in SchedRowsD \cup UserGroupRows \cup FpsByPidRowsA
               \cup FpsByPidRowsB \cup FpsByPidRowsC \cup SbeAndPeakPowerRowsA : SoundRow(r)
  BY DEF SchedRowsD, UserGroupRows, FpsByPidRowsA, FpsByPidRowsB, FpsByPidRowsC, SbeAndPeakPowerRowsA, SoundRow, IsInt32, RSC_TBL_INVALID_VALUE,
         Row, Biggest, Smallest, BiggestReset, SmallestReset, Oneshot, Sticky
<1>8. \A r \in SbeAndPeakPowerRowsB \cup SbeAndPeakPowerRowsC \cup LastRowsA
               \cup LastRowsB : SoundRow(r)
  BY DEF SbeAndPeakPowerRowsB, SbeAndPeakPowerRowsC, LastRowsA, LastRowsB, SoundRow, IsInt32, RSC_TBL_INVALID_VALUE,
         Row, Biggest, Smallest, BiggestReset, SmallestReset, Oneshot, Sticky
<1> QED BY <1>1, <1>2, <1>3, <1>4, <1>5, <1>6, <1>7, <1>8 DEF RscCfgTbl

\* A row with locks on it.  A lock that is on asks for a value of the range; any other is at rest.
RscBase ==
  /\ SoundRow(row) /\ rOn \subseteq Client /\ DOMAIN scn_rsc = Client
  /\ \A c \in rOn : scn_rsc[c] \in Int /\ row.min <= scn_rsc[c] /\ scn_rsc[c] <= row.max
  /\ \A c \in Client \ rOn : scn_rsc[c] = resetValRow

\* One step of a client.
ClientStep(c) ==
  \/ perfLockRelRow(c)
  \/ \E v \in RowValues : perfLockAcqRow(c, v) \/ perfLockAcqSameRow(c, v)

\* A ranked row in use: the device has the best request, or one that is no worse while a search is due.
Ruling(v) == (\E c \in rOn : v = scn_rsc[c]) /\ \A c \in rOn : ~BetterRow(scn_rsc[c], v)

InRange(v) == v \in Int /\ row.min <= v /\ v <= row.max

RankedInv ==
  RankedRow => IF unsearched THEN /\ InRange(curVal) /\ lastCall = set_func(curVal)
                                  /\ \A c \in rOn : ~BetterRow(scn_rsc[c], curVal)
               ELSE IF rOn = {} THEN curVal = resetValRow /\ lastCall = unset_func(row.def)
                                ELSE Ruling(curVal) /\ lastCall = set_func(curVal)

OneshotInv ==
  /\ DOMAIN kept = DOMAIN applied
  /\ \A v \in DOMAIN applied : applied[v] \in Int /\ kept[v] \in Nat
  /\ SetsBalanced

TableInv == RscBase /\ RankedInv /\ OneshotInv /\ unsearched \in BOOLEAN

\* The resting value of a ranked row is no request, and any request is better.
LEMMA RestFacts ==
  ASSUME SoundRow(row)
  PROVE  /\ resetValRow \in Int /\ IsInt32(resetValRow)
         /\ RankedRow => \A v \in Int : row.min <= v /\ v <= row.max => v # resetValRow /\ BetterRow(v, resetValRow)
         /\ ~RankedRow => \/ \A v \in Int : row.min <= v /\ v <= row.max => v # resetValRow
                          \/ row = Sticky(1000000, -1000000, 0)
BY DEF SoundRow, resetValRow, RSC_TBL_INVALID_VALUE, RankedRow, BetterRow, IsInt32

\* A request is clamped to the range.
LEMMA ClampFacts ==
  ASSUME SoundRow(row), NEW v \in RowValues
  PROVE  cmdSettingRow(v) \in Int /\ row.min <= cmdSettingRow(v) /\ cmdSettingRow(v) <= row.max
<1>1. v \in Int
  BY DEF SoundRow, RowValues, RSC_TBL_INVALID_VALUE
<1> QED BY <1>1 DEF SoundRow, cmdSettingRow

\* Requests that are on have a best one, and one only.
LEMMA RulingFacts ==
  ASSUME RscBase
  PROVE  /\ rOn # {} => \E c \in rOn : Ruling(scn_rsc[c])
         /\ \A v, w : Ruling(v) /\ Ruling(w) => v = w
         /\ \A v : Ruling(v) => v \in Int /\ row.min <= v /\ v <= row.max
<1>1. row.min \in Int /\ row.max \in Int
  BY DEF RscBase, SoundRow
<1>2. \A c \in rOn : scn_rsc[c] \in Int /\ row.min <= scn_rsc[c] /\ scn_rsc[c] <= row.max
  BY DEF RscBase
<1>3. \A v : Ruling(v) => v \in Int /\ row.min <= v /\ v <= row.max
  BY <1>2 DEF Ruling
<1>4. ASSUME NEW v, NEW w, Ruling(v), Ruling(w) PROVE v = w
  BY <1>2, <1>4 DEF Ruling, BetterRow
<1>5. ASSUME rOn # {} PROVE \E c \in rOn : Ruling(scn_rsc[c])
  <2> DEFINE Rank(c) == IF row.comp = "SMALLEST" THEN scn_rsc[c] - row.min ELSE row.max - scn_rsc[c]
             S == {Rank(c) : c \in rOn}
  <2>2. \A c \in rOn : Rank(c) \in Nat
    BY <1>1, <1>2
  <2>3. S \subseteq Nat /\ S # {}
    BY <1>5, <2>2
  <2>4. PICK m \in S : \A n \in S : m <= n
    <3> HIDE DEF S
    <3> QED BY <2>3, LeastNat
  <2>5. PICK c \in rOn : m = Rank(c)
    BY <2>4
  <2>6. ASSUME NEW d \in rOn PROVE ~(Rank(d) < Rank(c))
    <3>1. Rank(c) <= Rank(d)
      BY <2>4, <2>5
    <3>2. Rank(c) \in Nat /\ Rank(d) \in Nat
      BY <2>2
    <3> HIDE DEF Rank
    <3> QED BY <3>1, <3>2
  <2>7. \A d \in rOn : ~BetterRow(scn_rsc[d], scn_rsc[c])
    BY <1>1, <1>2, <2>6 DEF BetterRow
  <2> QED BY <2>7 DEF Ruling
<1> QED BY <1>3, <1>4, <1>5

\* The search of perfScnUpdate finds it.
SearchRight == IF rOn = {} THEN BestRow = resetValRow ELSE Ruling(BestRow)

\* It does so whatever requests are on.
LEMMA SearchFacts == RscBase /\ RankedRow => SearchRight
<1> SUFFICES ASSUME RscBase, RankedRow PROVE SearchRight
  OBVIOUS
<1>1. HoldingRow = rOn
  <2>1. \A c \in rOn : scn_rsc[c] # resetValRow
    BY RestFacts DEF RscBase
  <2> QED BY <2>1 DEF HoldingRow
<1>2. CASE rOn = {}
  BY <1>1, <1>2 DEF BestRow, SearchRight
<1>3. CASE rOn # {}
  <2>1. PICK c \in rOn : Ruling(scn_rsc[c])
    BY <1>3, RulingFacts
  <2>2. BestRow = CHOOSE v \in {scn_rsc[d] : d \in rOn} : \A d \in rOn : ~BetterRow(scn_rsc[d], v)
    BY <1>1, <1>3 DEF BestRow
  <2>3. \E v \in {scn_rsc[d] : d \in rOn} : \A d \in rOn : ~BetterRow(scn_rsc[d], v)
    BY <2>1 DEF Ruling
  <2>4. BestRow \in {scn_rsc[d] : d \in rOn} /\ \A d \in rOn : ~BetterRow(scn_rsc[d], BestRow)
    BY <2>2, <2>3, Zenon
  <2> QED BY <1>3, <2>4 DEF Ruling, SearchRight
<1> QED BY <1>2, <1>3

\* What the invariant says of the properties.
LEMMA TableInvShows == TableInv => RequestsReachDevice /\ EveryRequestHeard
<1> SUFFICES ASSUME TableInv PROVE RequestsReachDevice /\ EveryRequestHeard
  OBVIOUS
<1>1. BestRequestRules
  <2>0. CASE unsearched
    BY <2>0 DEF TableInv, RankedInv, BestRequestRules, set_func
  <2> SUFFICES ASSUME RankedRow, rOn # {}, ~unsearched
               PROVE  curVal = CHOOSE v \in {scn_rsc[c] : c \in rOn} : \A c \in rOn : ~BetterRow(scn_rsc[c], v)
    BY <2>0 DEF TableInv, RankedInv, BestRequestRules
  <2>1. PICK w : w = CHOOSE v \in {scn_rsc[c] : c \in rOn} : \A c \in rOn : ~BetterRow(scn_rsc[c], v)
    OBVIOUS
  <2>2. Ruling(curVal)
    BY DEF TableInv, RankedInv
  <2>3. \E v \in {scn_rsc[d] : d \in rOn} : \A d \in rOn : ~BetterRow(scn_rsc[d], v)
    BY <2>2 DEF Ruling
  <2>4. w \in {scn_rsc[d] : d \in rOn} /\ \A d \in rOn : ~BetterRow(scn_rsc[d], w)
    BY <2>1, <2>3, Zenon
  <2>5. Ruling(w)
    BY <2>4 DEF Ruling
  <2>6. curVal = w
    BY <2>2, <2>5, RulingFacts DEF TableInv
  <2> QED BY <2>1, <2>6
<1>2. EveryRequestHeard
  <2> SUFFICES ASSUME NEW c \in rOn, row # Sticky(1000000, -1000000, 0) PROVE scn_rsc[c] # resetValRow
    BY DEF EveryRequestHeard
  <2> QED BY RestFacts DEF TableInv, RscBase
<1> QED BY <1>1, <1>2 DEF TableInv, OneshotInv, RequestsReachDevice

\* A lock taken or given back leaves each lock that is on with a value of the range.
LEMMA BaseKept ==
  ASSUME RscBase, NEW c \in Client,
         ClientStep(c)
  PROVE  /\ RscBase' /\ row' = row /\ resetValRow' = resetValRow
         /\ \A d \in Client \ {c} : scn_rsc'[d] = scn_rsc[d] /\ (d \in rOn' <=> d \in rOn)
         /\ c \in rOn' \/ scn_rsc'[c] = resetValRow
<1>1. row' = row /\ resetValRow' = resetValRow
  BY DEF ClientStep, perfLockRelRow, perfLockAcqRow, perfLockAcqSameRow, resetValRow
<1>2. SoundRow(row') /\ DOMAIN scn_rsc = Client
  BY <1>1 DEF RscBase
<1>3. CASE perfLockRelRow(c)
  <2>1. rOn' = rOn \ {c} /\ scn_rsc' = [scn_rsc EXCEPT ![c] = resetValRow]
    BY <1>3 DEF perfLockRelRow
  <2> QED BY <1>1, <1>2, <2>1 DEF RscBase
<1>4. ASSUME NEW v \in RowValues, perfLockAcqRow(c, v) \/ perfLockAcqSameRow(c, v)
      PROVE  /\ RscBase'
             /\ \A d \in Client \ {c} : scn_rsc'[d] = scn_rsc[d] /\ (d \in rOn' <=> d \in rOn)
             /\ c \in rOn' \/ scn_rsc'[c] = resetValRow
  <2>1. rOn' = rOn \cup {c} /\ scn_rsc' = [scn_rsc EXCEPT ![c] = cmdSettingRow(v)]
    BY <1>4 DEF perfLockAcqRow, perfLockAcqSameRow
  <2>2. cmdSettingRow(v) \in Int /\ row.min <= cmdSettingRow(v) /\ cmdSettingRow(v) <= row.max
    BY ClampFacts DEF RscBase
  <2> QED BY <1>1, <1>2, <2>1, <2>2 DEF RscBase
<1> QED BY <1>1, <1>3, <1>4 DEF ClientStep

\* After a search the device has the best request again.
LEMMA SearchKeeps ==
  ASSUME RscBase, RscBase', RankedInv, RankedRow, row' = row, resetValRow' = resetValRow, SearchRow
  PROVE  RankedInv'
<1>1. RankedRow' /\ unset_func(row.def)' = unset_func(row.def) /\ \A v, w : BetterRow(v, w)' <=> BetterRow(v, w)
  BY DEF RankedRow, unset_func, BetterRow
<1>2. PICK b : b = BestRow'
  OBVIOUS
<1>3. /\ curVal' = b /\ unsearched' = FALSE
      /\ lastCall' = IF b = curVal THEN lastCall ELSE IF b = resetValRow THEN unset_func(row.def) ELSE set_func(b)
  BY <1>2 DEF SearchRow
<1>4. IF rOn' = {} THEN b = resetValRow ELSE Ruling(b)'
  <2>1. SearchRight'
    BY <1>1, SearchFacts, PTL
  <2> QED BY <1>2, <2>1 DEF Ruling, SearchRight
<1>5. CASE rOn' = {}
  <2>1. b = resetValRow
    BY <1>4, <1>5
  <2>2. b = curVal => rOn = {} /\ ~unsearched
    <3>1. rOn # {} \/ unsearched => curVal \in Int /\ row.min <= curVal /\ curVal <= row.max
      BY RulingFacts DEF RankedInv, InRange
    <3> QED BY <2>1, <3>1, RestFacts DEF RscBase
  <2>3. lastCall' = unset_func(row.def)
    BY <1>3, <2>1, <2>2 DEF RankedInv
  <2> QED BY <1>1, <1>3, <1>5, <2>1, <2>3 DEF RankedInv
<1>6. CASE rOn' # {}
  <2>1. Ruling(b)'
    BY <1>4, <1>6
  <2>2. b # resetValRow
    <3>1. \E c \in rOn' : b = scn_rsc'[c]
      BY <1>2, <1>3, <2>1 DEF Ruling
    <3>2. \A c \in rOn' : scn_rsc'[c] \in Int /\ row.min <= scn_rsc'[c] /\ scn_rsc'[c] <= row.max
      BY DEF RscBase
    <3> QED BY <3>1, <3>2, RestFacts DEF RscBase
  <2>3. b = curVal => lastCall = set_func(b)
    BY <2>2 DEF RankedInv
  <2>4. lastCall' = set_func(b)
    BY <1>3, <2>2, <2>3
  <2> QED BY <1>1, <1>3, <1>6, <2>1, <2>4 DEF RankedInv, Ruling, set_func
<1> QED BY <1>5, <1>6

\* A ranked row.
LEMMA RankedKept ==
  ASSUME RscBase, RankedInv, RankedRow, unsearched \in BOOLEAN, NEW c \in Client, ClientStep(c)
  PROVE  RankedInv' /\ unsearched' \in BOOLEAN
<1>1. /\ RscBase' /\ row' = row /\ resetValRow' = resetValRow
      /\ \A d \in Client \ {c} : scn_rsc'[d] = scn_rsc[d] /\ (d \in rOn' <=> d \in rOn)
  BY BaseKept
<1>2. CASE SearchRow
  BY <1>1, <1>2, SearchKeeps DEF SearchRow
<1>3. RankedRow' /\ \A v, w : BetterRow(v, w)' <=> BetterRow(v, w)
  BY <1>1 DEF RankedRow, BetterRow
<1>4. /\ \A d \in rOn : scn_rsc[d] \in Int /\ row.min <= scn_rsc[d] /\ scn_rsc[d] <= row.max
      /\ rOn \subseteq Client
  BY DEF RscBase
<1>5. /\ \A d \in rOn' : scn_rsc'[d] \in Int /\ row.min <= scn_rsc'[d] /\ scn_rsc'[d] <= row.max
      /\ rOn' \subseteq Client
  BY <1>1 DEF RscBase
<1>6. rOn # {} \/ unsearched => /\ lastCall = set_func(curVal) /\ InRange(curVal)
                                /\ \A d \in rOn : ~BetterRow(scn_rsc[d], curVal)
                                /\ unsearched \/ \E d \in rOn : curVal = scn_rsc[d]
  BY RulingFacts DEF RankedInv, InRange, Ruling
<1>7. ASSUME lastCall' = set_func(curVal'), InRange(curVal'), unsearched' \in BOOLEAN,
             \A d \in rOn' : ~BetterRow(scn_rsc'[d], curVal'),
             unsearched' \/ \E d \in rOn' : curVal' = scn_rsc'[d]
      PROVE  RankedInv' /\ unsearched' \in BOOLEAN
  BY <1>1, <1>3, <1>7 DEF RankedInv, Ruling, InRange, set_func, BetterRow
<1>8. ASSUME rOn' = rOn \cup {c}, perfScnEnableRow(c) PROVE RankedInv' /\ unsearched' \in BOOLEAN
  <2>1. c \in rOn'
    BY <1>8
  <2>2. PICK x \in Int : x = scn_rsc'[c] /\ row.min <= x /\ x <= row.max
    BY <1>5, <2>1
  <2>3. \A d \in rOn' : d = c \/ (d \in rOn /\ scn_rsc'[d] = scn_rsc[d])
    BY <1>1, <1>4, <1>8
  <2>4. CASE BetterRow(x, curVal)
    <3>1. curVal' = x /\ lastCall' = set_func(x) /\ unsearched' = FALSE
      BY <1>8, <2>2, <2>4 DEF perfScnEnableRow
    <3>2. ASSUME NEW d \in rOn' PROVE ~BetterRow(scn_rsc'[d], x)
      <4>1. CASE d = c
        BY <2>2, <4>1 DEF BetterRow
      <4>2. CASE d # c
        <5>1. d \in rOn /\ ~BetterRow(scn_rsc[d], curVal) /\ scn_rsc'[d] = scn_rsc[d] /\ curVal \in Int
          BY <1>6, <2>3, <4>2 DEF InRange
        <5> QED BY <1>4, <2>2, <2>4, <5>1 DEF BetterRow
      <4> QED BY <4>1, <4>2
    <3> QED BY <1>7, <2>1, <2>2, <3>1, <3>2 DEF InRange
  <2>5. CASE ~BetterRow(x, curVal)
    <3>1. /\ curVal' = curVal /\ lastCall' = lastCall
          /\ unsearched' = (unsearched \/ (c \in rOn /\ scn_rsc[c] = curVal /\ x # curVal))
      BY <1>8, <2>2, <2>5 DEF perfScnEnableRow
    <3>2. rOn # {} \/ unsearched
      <4>1. BetterRow(x, resetValRow)
        BY <2>2, RestFacts DEF RscBase
      <4> QED BY <2>5, <4>1 DEF RankedInv
    <3>3. \A d \in rOn' : ~BetterRow(scn_rsc'[d], curVal)
      BY <1>6, <2>2, <2>3, <2>5, <3>2
    <3>4. unsearched' \/ \E d \in rOn' : curVal = scn_rsc'[d]
      <4> SUFFICES ASSUME ~unsearched' PROVE \E d \in rOn' : curVal = scn_rsc'[d]
        OBVIOUS
      <4>1. PICK b \in rOn : curVal = scn_rsc[b]
        BY <1>6, <3>1, <3>2
      <4>2. CASE b = c
        BY <2>1, <2>2, <3>1, <4>1, <4>2
      <4>3. CASE b # c
        BY <1>1, <1>4, <4>1, <4>3
      <4> QED BY <4>2, <4>3
    <3> QED BY <1>6, <1>7, <3>1, <3>2, <3>3, <3>4
  <2> QED BY <2>4, <2>5
<1>9. ASSUME NEW v \in RowValues, perfLockAcqRow(c, v) \/ perfLockAcqSameRow(c, v)
      PROVE  RankedInv' /\ unsearched' \in BOOLEAN
  <2>1. SearchRow \/ (rOn' = rOn \cup {c} /\ perfScnEnableRow(c))
    BY <1>9 DEF perfLockAcqRow, perfLockAcqSameRow, ForceUpdateRow
  <2> QED BY <1>2, <1>8, <2>1
<1>10. ASSUME perfLockRelRow(c), ~SearchRow PROVE RankedInv' /\ unsearched' \in BOOLEAN
  <2>1. c \in rOn /\ rOn' = rOn \ {c} /\ perfScnDisableRow(c)
    BY <1>10 DEF perfLockRelRow
  <2>2. scn_rsc[c] # resetValRow
    BY <1>4, <2>1, RestFacts DEF RscBase
  <2>3. BetterRow(curVal, scn_rsc[c]) /\ curVal' = curVal /\ lastCall' = lastCall /\ unsearched' = unsearched
    BY <1>10, <2>1, <2>2 DEF perfScnDisableRow, ctlVars
  <2>4. ASSUME ~unsearched PROVE \E d \in rOn' : curVal = scn_rsc'[d]
    <3>1. PICK b \in rOn : curVal = scn_rsc[b]
      BY <1>6, <2>1, <2>4
    <3>2. b # c
      BY <1>4, <2>3, <3>1 DEF BetterRow
    <3> QED BY <1>1, <1>4, <2>1, <3>1, <3>2
  <2>5. \A d \in rOn' : d \in rOn /\ scn_rsc'[d] = scn_rsc[d]
    BY <1>1, <1>4, <2>1
  <2>6. \A d \in rOn' : ~BetterRow(scn_rsc'[d], curVal)
    BY <1>6, <2>5
  <2> QED BY <1>6, <1>7, <2>1, <2>3, <2>4, <2>6
<1> QED BY <1>2, <1>9, <1>10 DEF ClientStep

\* The locks that ask for a value.
Askers(v) == {c \in rOn : scn_rsc[c] = v}

\* They can be counted.
LEMMA AskersFinite ==
  ASSUME RscBase, NEW v
  PROVE  IsFiniteSet(Askers(v)) /\ Cardinality(Askers(v)) \in Nat
<1>1. Askers(v) \subseteq Client /\ IsFiniteSet(Client)
  BY RscTableAssumption DEF Askers, RscBase
<1>2. IsFiniteSet(Askers(v))
  BY <1>1, FS_Subset
<1> QED BY <1>2, FS_CardinalityType

\* How many they are when one comes and one goes.
LEMMA AskersCount ==
  ASSUME RscBase, RscBase', NEW c \in Client, NEW v, v # resetValRow,
         \A d \in Client \ {c} : scn_rsc'[d] = scn_rsc[d] /\ (d \in rOn' <=> d \in rOn)
  PROVE  Cardinality({d \in rOn' : scn_rsc'[d] = v})
           = Cardinality(Askers(v)) + (IF c \in rOn' /\ scn_rsc'[c] = v THEN 1 ELSE 0)
                                    - (IF c \in rOn /\ scn_rsc[c] = v THEN 1 ELSE 0)
<1>1. PICK others : others = {d \in rOn \ {c} : scn_rsc[d] = v}
  OBVIOUS
<1>2. rOn \subseteq Client /\ rOn' \subseteq Client
  BY DEF RscBase
<1>3. IsFiniteSet(others) /\ Cardinality(others) \in Nat /\ c \notin others
  <2>1. IsFiniteSet(others)
    BY <1>1, <1>2, RscTableAssumption, FS_Subset
  <2> QED BY <1>1, <2>1, FS_CardinalityType
<1>4. PICK one : one = others \cup {c}
  OBVIOUS
<1>5. Cardinality(one) = Cardinality(others) + 1
  BY <1>3, <1>4, FS_AddElement
<1>6. Askers(v) = IF c \in rOn /\ scn_rsc[c] = v THEN one ELSE others
  BY <1>1, <1>4 DEF Askers
<1>7. {d \in rOn' : scn_rsc'[d] = v} = IF c \in rOn' /\ scn_rsc'[c] = v THEN one ELSE others
  <2>1. \A d \in Client \ {c} : (d \in rOn' /\ scn_rsc'[d] = v) <=> d \in others
    BY <1>1
  <2> QED BY <1>1, <1>2, <1>4, <2>1
<1>8. PICK A, B : A = Askers(v) /\ B = {d \in rOn' : scn_rsc'[d] = v}
  OBVIOUS
<1>9. /\ Cardinality(A) = IF c \in rOn /\ scn_rsc[c] = v THEN Cardinality(others) + 1 ELSE Cardinality(others)
      /\ Cardinality(B) = IF c \in rOn' /\ scn_rsc'[c] = v THEN Cardinality(others) + 1 ELSE Cardinality(others)
  BY <1>5, <1>6, <1>7, <1>8
<1> QED BY <1>3, <1>8, <1>9

\* A ONESHOT row is told of what comes and of what goes, but for what an unmodified re-acquire keeps.
LEMMA OneshotKept ==
  ASSUME RscBase, OneshotInv, NEW c \in Client, ClientStep(c)
  PROVE  OneshotInv'
<1>1. /\ RscBase' /\ row' = row /\ resetValRow' = resetValRow
      /\ \A d \in Client \ {c} : scn_rsc'[d] = scn_rsc[d] /\ (d \in rOn' <=> d \in rOn)
      /\ c \in rOn' \/ scn_rsc'[c] = resetValRow
  BY BaseKept
<1>2. /\ RankedRow' <=> RankedRow
      /\ c \in rOn \/ scn_rsc[c] = resetValRow
  BY <1>1 DEF RankedRow, RscBase
<1>3. CASE RankedRow
  <2>1. applied' = applied /\ kept' = kept
    BY <1>3 DEF ClientStep, perfLockRelRow, perfLockAcqRow, perfLockAcqSameRow,
                ForceUpdateRow, perfScnEnableRow, perfScnDisableRow, SearchRow, ctlVars
  <2> QED BY <1>2, <1>3, <2>1 DEF OneshotInv, SetsBalanced
<1>4. CASE ~RankedRow
  <2>1. PICK old, new : old = scn_rsc[c] /\ new = scn_rsc'[c]
    OBVIOUS
  <2>2. \/ applied' = applied /\ kept' = kept /\ old = new /\ (c \in rOn <=> c \in rOn')
        \/ ApplyRow(old, new) /\ kept' = kept
        \/ /\ ApplyRow(resetValRow, new)
           /\ kept' = IF old = resetValRow THEN kept ELSE [kept EXCEPT ![old] = @ + 1]
    <3>1. ASSUME NEW v \in RowValues, perfLockAcqRow(c, v), c \in rOn, old = new
          PROVE  applied' = applied /\ kept' = kept /\ (c \in rOn <=> c \in rOn')
      BY <1>4, <2>1, <3>1 DEF perfLockAcqRow, ForceUpdateRow, ctlVars
    <3>2. ASSUME NEW v \in RowValues, perfLockAcqRow(c, v), c \in rOn, old # new
          PROVE  ApplyRow(old, new) /\ kept' = kept
      BY <1>4, <2>1, <3>2 DEF perfLockAcqRow, ForceUpdateRow
    <3>3. ASSUME NEW v \in RowValues, perfLockAcqRow(c, v), c \notin rOn
          PROVE  ApplyRow(old, new) /\ kept' = kept
      BY <1>2, <1>4, <2>1, <3>3 DEF perfLockAcqRow, perfScnEnableRow
    <3>4. ASSUME perfLockRelRow(c) PROVE ApplyRow(old, new) /\ kept' = kept
      <4>1. scn_rsc'[c] = resetValRow
        BY <3>4 DEF perfLockRelRow, RscBase
      <4> QED BY <1>4, <2>1, <3>4, <4>1 DEF perfLockRelRow, perfScnDisableRow
    <3>5. ASSUME NEW v \in RowValues, perfLockAcqSameRow(c, v)
          PROVE  /\ ApplyRow(resetValRow, new)
                 /\ kept' = IF old = resetValRow THEN kept ELSE [kept EXCEPT ![old] = @ + 1]
      BY <1>4, <2>1, <3>5 DEF perfLockAcqSameRow, perfScnEnableRow
    <3> QED BY <3>1, <3>2, <3>3, <3>4, <3>5 DEF ClientStep
  <2>3. \A v \in DOMAIN applied : applied[v] \in Int /\ kept[v] \in Nat
    BY DEF OneshotInv
  <2>4. DOMAIN applied' = DOMAIN applied /\ DOMAIN kept' = DOMAIN applied
    BY <2>2 DEF OneshotInv, ApplyRow
  <2>5. ASSUME NEW v \in DOMAIN applied
        PROVE  /\ applied'[v] \in Int /\ kept'[v] \in Nat
               /\ v # resetValRow =>
                    \/ applied'[v] = applied[v] /\ kept'[v] = kept[v] /\ old = new /\ (c \in rOn <=> c \in rOn')
                    \/ applied'[v] - kept'[v] = applied[v] - kept[v] + (IF v = new THEN 1 ELSE 0)
                                                                     - (IF v = old THEN 1 ELSE 0)
    <3>0. v \in DOMAIN kept /\ applied[v] \in Int /\ kept[v] \in Nat
      BY <2>3 DEF OneshotInv
    <3>1. CASE applied' = applied /\ kept' = kept /\ old = new /\ (c \in rOn <=> c \in rOn')
      BY <3>0, <3>1
    <3>2. CASE ApplyRow(old, new) /\ kept' = kept
      BY <3>0, <3>2 DEF ApplyRow
    <3>3. CASE /\ ApplyRow(resetValRow, new)
               /\ kept' = IF old = resetValRow THEN kept ELSE [kept EXCEPT ![old] = @ + 1]
      <4>1. kept'[v] = kept[v] + (IF v = old /\ old # resetValRow THEN 1 ELSE 0)
        BY <3>0, <3>3
      <4>2. applied'[v] = applied[v] + (IF v = new /\ new # resetValRow THEN 1 ELSE 0)
        BY <3>0, <3>3 DEF ApplyRow
      <4> QED BY <3>0, <4>1, <4>2
    <3> QED BY <2>2, <3>1, <3>2, <3>3
  <2>6. ASSUME NEW v \in DOMAIN applied, v # resetValRow
        PROVE  applied'[v] = Cardinality({d \in rOn' : scn_rsc'[d] = v}) + kept'[v]
    <3>1. PICK A, B : A = Askers(v) /\ B = {d \in rOn' : scn_rsc'[d] = v}
      OBVIOUS
    <3>2. applied[v] = Cardinality(A) + kept[v] /\ applied[v] \in Int /\ kept[v] \in Nat
      BY <1>4, <2>3, <2>6, <3>1 DEF OneshotInv, SetsBalanced, Askers
    <3>3. Cardinality(B) = Cardinality(A) + (IF c \in rOn' /\ new = v THEN 1 ELSE 0)
                                          - (IF c \in rOn /\ old = v THEN 1 ELSE 0)
      BY <1>1, <2>1, <2>6, <3>1, AskersCount
    <3>4. Cardinality(A) \in Nat
      BY <3>1, AskersFinite
    <3> QED BY <1>1, <1>2, <2>1, <2>5, <2>6, <3>1, <3>2, <3>3, <3>4
  <2> QED BY <1>1, <2>4, <2>5, <2>6 DEF OneshotInv, SetsBalanced
<1> QED BY <1>3, <1>4

\* The three parts hold together.
LEMMA TableInvKept == TableInv /\ [RscNext]_rscVars => TableInv'
<1> SUFFICES ASSUME TableInv, [RscNext]_rscVars PROVE TableInv'
  OBVIOUS
<1>1. CASE UNCHANGED rscVars
  BY <1>1 DEF rscVars, ctlVars, TableInv, RscBase, RankedInv, Ruling, InRange, OneshotInv, SetsBalanced,
              resetValRow, RankedRow, BetterRow, unset_func, set_func
<1>2. ASSUME NEW c \in Client, ClientStep(c)
      PROVE  TableInv'
  <2>1. RscBase' /\ row' = row
    BY <1>2, BaseKept DEF TableInv
  <2>2. RankedInv' /\ unsearched' \in BOOLEAN
    <3>1. CASE RankedRow
      BY <1>2, <3>1, RankedKept DEF TableInv
    <3>2. CASE ~RankedRow
      <4>1. unsearched' = unsearched
        BY <1>2, <3>2 DEF ClientStep, perfLockRelRow, perfLockAcqRow, perfLockAcqSameRow,
                          ForceUpdateRow, perfScnEnableRow, perfScnDisableRow, ApplyRow, ctlVars
      <4> QED BY <2>1, <3>2, <4>1 DEF RankedInv, RankedRow, TableInv
    <3> QED BY <3>1, <3>2
  <2>3. OneshotInv'
    BY <1>2, OneshotKept DEF TableInv
  <2> QED BY <2>1, <2>2, <2>3 DEF TableInv
<1> QED BY <1>1, <1>2 DEF RscNext, ClientStep

\* A row at rest.
LEMMA TableInvStarts == RscInit => TableInv
<1> SUFFICES ASSUME RscInit PROVE TableInv
  OBVIOUS
<1>1. /\ row \in RscCfgTbl /\ rOn = {} /\ scn_rsc = [c \in Client |-> resetValRow]
      /\ curVal = resetValRow /\ lastCall = unset_func(row.def)
      /\ kept = applied /\ unsearched = FALSE
      /\ \A v \in DOMAIN applied : applied[v] = 0
  BY DEF RscInit
<1>2. SoundRow(row)
  BY <1>1, RowsAreSound
<1>3. RscBase
  BY <1>1, <1>2 DEF RscBase
<1>4. OneshotInv
  <2>1. \A v : {c \in rOn : scn_rsc[c] = v} = {}
    BY <1>1
  <2>2. \A v : Cardinality({c \in rOn : scn_rsc[c] = v}) = 0
    BY <2>1, FS_EmptySet, Zenon
  <2> QED BY <1>1, <2>2 DEF OneshotInv, SetsBalanced
<1> QED BY <1>1, <1>3, <1>4 DEF TableInv, RankedInv

\* In every row of RscCfgTbl, for any number of clients: the device was last told the best of the
\* clamped requests of a ranked row, or the default when none is left, unless an unmodified re-acquire
\* gave the ruling value up and nothing has searched since, and no worse then; and a ONESHOT row is
\* told of the end of every value it was told of, but once for each unmodified re-acquire
\* (perfLockAcq, perfScnEnable, perfScnUpdate of perfservice.cpp).
THEOREM RequestsAreHonoured == RscSpec => []RequestsReachDevice
<1>1. TableInv => RequestsReachDevice
  BY TableInvShows
<1> QED BY <1>1, TableInvStarts, TableInvKept, PTL DEF RscSpec

\* No request is taken for the absence of one, in every row of RscCfgTbl but the three that allow
\* RSC_TBL_INVALID_VALUE (loadRscTable).
THEOREM RequestsAreHeard == RscSpec => []EveryRequestHeard
<1>1. TableInv => EveryRequestHeard
  BY TableInvShows
<1> QED BY <1>1, TableInvStarts, TableInvKept, PTL DEF RscSpec

\* What a ONESHOT row is told fits an int.
CallsFit ==
  ~RankedRow => IsInt32(curVal) /\ lastCall.fn \in {"set", "unset"} /\ IsInt32(lastCall.arg)

\* Whether the value is clamped or at rest.
LEMMA SlotFits ==
  ASSUME RscBase, NEW c \in Client
  PROVE  IsInt32(scn_rsc[c])
<1>1. row.min \in Int /\ row.max \in Int /\ -2147483646 <= row.min /\ row.max <= 2147483646
  BY DEF RscBase, SoundRow
<1>2. CASE c \in rOn
  BY <1>1, <1>2 DEF RscBase, IsInt32
<1>3. CASE c \notin rOn
  BY <1>3, RestFacts DEF RscBase
<1> QED BY <1>2, <1>3

\* Every number that the arbitration of a row computes or hands to a setter fits an int, for every
\* row of RscCfgTbl and any number of clients, the resting values beyond the range included.
THEOREM ArbitrationFits == RscSpec => []RscTypeOK
<1> DEFINE Inv == TableInv /\ row \in RscCfgTbl /\ CallsFit
<1>1. RscInit => Inv
  <2> SUFFICES ASSUME RscInit PROVE CallsFit /\ row \in RscCfgTbl
    BY TableInvStarts
  <2>1. row \in RscCfgTbl /\ curVal = resetValRow /\ lastCall = unset_func(row.def) /\ SoundRow(row)
    BY RowsAreSound DEF RscInit
  <2>2. IsInt32(resetValRow) /\ IsInt32(row.def)
    BY <2>1, RestFacts DEF SoundRow
  <2> QED BY <2>1, <2>2 DEF CallsFit, unset_func
<1>2. Inv /\ [RscNext]_rscVars => Inv'
  <2> SUFFICES ASSUME Inv, [RscNext]_rscVars PROVE CallsFit' /\ (row \in RscCfgTbl)'
    BY TableInvKept
  <2>1. CASE UNCHANGED rscVars
    BY <2>1 DEF rscVars, ctlVars, CallsFit, RankedRow
  <2>2. ASSUME NEW c \in Client, ClientStep(c)
        PROVE  CallsFit' /\ (row \in RscCfgTbl)'
    <3>1. RscBase' /\ row' = row /\ resetValRow' = resetValRow
      BY <2>2, BaseKept DEF TableInv
    <3>2. IsInt32(scn_rsc[c])
      BY SlotFits DEF TableInv
    <3>3. IsInt32(scn_rsc'[c])
      <4>1. row'.min \in Int /\ row'.max \in Int /\ -2147483646 <= row'.min /\ row'.max <= 2147483646
        BY <3>1 DEF RscBase, SoundRow
      <4>2. CASE c \in rOn'
        BY <3>1, <4>1, <4>2 DEF RscBase, IsInt32
      <4>3. CASE c \notin rOn'
        BY <3>1, <4>3, RestFacts DEF RscBase, TableInv
      <4> QED BY <4>2, <4>3
    <3>4. CASE ~RankedRow
      <4>1. /\ curVal' \in {curVal, scn_rsc'[c]}
            /\ \/ lastCall' = lastCall
               \/ lastCall' = set_func(scn_rsc'[c])
               \/ lastCall' = unset_func(scn_rsc[c])
        BY <2>2, <3>4 DEF ClientStep, perfLockRelRow, perfLockAcqRow, perfLockAcqSameRow, ForceUpdateRow, perfScnEnableRow, perfScnDisableRow,
                          ApplyRow, ctlVars
      <4> QED BY <3>1, <3>2, <3>3, <3>4, <4>1 DEF CallsFit, RankedRow, set_func, unset_func
    <3> QED BY <3>1, <3>4 DEF CallsFit, RankedRow
  <2> QED BY <2>1, <2>2 DEF RscNext, ClientStep
<1>3. Inv => RscTypeOK
  <2> SUFFICES ASSUME Inv PROVE RscTypeOK
    OBVIOUS
  <2>1. IsInt32(resetValRow) /\ IsInt32(row.def)
    BY RestFacts DEF TableInv, RscBase, SoundRow
  <2>2. ASSUME RankedRow PROVE IsInt32(curVal) /\ lastCall.fn \in {"set", "unset"} /\ IsInt32(lastCall.arg)
    <3>0. CASE unsearched
      <4>1. row.min \in Int /\ row.max \in Int /\ -2147483646 <= row.min /\ row.max <= 2147483646
        BY DEF TableInv, RscBase, SoundRow
      <4>2. InRange(curVal) /\ lastCall = set_func(curVal)
        BY <2>2, <3>0 DEF TableInv, RankedInv
      <4> QED BY <4>1, <4>2 DEF InRange, IsInt32, set_func
    <3>1. CASE ~unsearched /\ rOn = {}
      BY <2>1, <2>2, <3>1 DEF TableInv, RankedInv, unset_func
    <3>2. CASE ~unsearched /\ rOn # {}
      <4>1. PICK c \in rOn : curVal = scn_rsc[c]
        BY <2>2, <3>2 DEF TableInv, RankedInv, Ruling
      <4>2. IsInt32(curVal)
        BY <4>1, SlotFits DEF TableInv, RscBase
      <4> QED BY <2>2, <3>2, <4>2 DEF TableInv, RankedInv, set_func
    <3> QED BY <3>0, <3>1, <3>2
  <2> QED BY <2>1, <2>2 DEF RscTypeOK, CallsFit, TableInv, RscBase, OneshotInv
<1> QED
  <2> HIDE DEF Inv
  <2> QED BY <1>1, <1>2, <1>3, PTL DEF RscSpec

-----------------------------------------------------------------------------
(***************************************************************************)
(* Locks on a node, by the shapes of SetterTbl.                            *)
(***************************************************************************)

SoundSetter(s) ==
  /\ s.ranked \in BOOLEAN /\ s.key \in {"none", "pid", "arg"}
  /\ s.unset \in {"clear", "same", "flip", "none"}
  /\ s.ranked => s.key = "none"

\* Every shape is sound, but those keyed by a thread.
LEMMA SettersAreSound == \A s \in SetterTbl : s.key # "tid" => SoundSetter(s)
<1>a. ASSUME NEW u \in {"clear", "same", "flip", "none"} PROVE SoundSetter(RankedPair(u))
  <2>1. RankedPair(u).ranked /\ RankedPair(u).ranked = TRUE /\ RankedPair(u).key = "none" /\ RankedPair(u).unset = u
    BY DEF RankedPair
  <2> QED BY <2>1 DEF SoundSetter
<1>b. ASSUME NEW u \in {"clear", "same", "flip", "none"}, NEW key \in {"none", "pid", "arg"}
      PROVE SoundSetter(OneshotPair(key, u))
  <2>1. OneshotPair(key, u).ranked = FALSE /\ OneshotPair(key, u).key = key /\ OneshotPair(key, u).unset = u
    BY DEF OneshotPair
  <2> QED BY <2>1 DEF SoundSetter
<1>c. \A u : OneshotPair("tid", u).key = "tid"
  BY DEF OneshotPair
<1>1. \A s \in FpsThreads \cup FpsgoByPid \cup FpsgoByPidMore \cup FbtAttributesA \cup FbtAttributesB \cup FrsEnable :
        s.key # "tid" => SoundSetter(s)
  BY <1>a, <1>b, <1>c DEF FpsThreads, FpsgoByPid, FpsgoByPidMore, FbtAttributesA, FbtAttributesB, FrsEnable, FbtByPid, FbtByTid
<1>2. \A s \in FrsTargets \cup FrsTimes \cup FrsModes \cup FrsZones \cup FrsCold \cup FrsCluster0 \cup FrsCluster1 \cup FrsCluster2 :
        s.key # "tid" => SoundSetter(s)
  BY <1>a, <1>b DEF FrsTargets, FrsTimes, FrsModes, FrsZones, FrsCold, FrsCluster0, FrsCluster1, FrsCluster2
<1>3. \A s \in FrsMapping \cup SchedMacros \cup CoreCtlBoost \cup CtGroups \cup CtTask \cup CoreCtlBusy :
        s.key # "tid" => SoundSetter(s)
  BY <1>a, <1>b DEF FrsMapping, SchedMacros, CoreCtlBoost, CtGroups, CtTask, CoreCtlBusy
<1>4. \A s \in CoreCtlTasks \cup CoreCtlLoading \cup EasControls \cup TaskPreferCpu \cup IsolationCpu \cup SysHints :
        s.key # "tid" => SoundSetter(s)
  BY <1>a, <1>b DEF CoreCtlTasks, CoreCtlLoading, EasControls, TaskPreferCpu, IsolationCpu, SysHints
<1>5. \A s \in SysModes \cup GpuPolicy \cup LmkProperties \cup LmkCallbacks \cup ReadAhead \cup UfsNodes \cup HugePages :
        s.key # "tid" => SoundSetter(s)
  BY <1>a, <1>b DEF SysModes, GpuPolicy, LmkProperties, LmkCallbacks, ReadAhead, UfsNodes, HugePages
<1>6. \A s \in VideoColor \cup SfMask \cup CpusetTopApp \cup Kswapd \cup WifiData \cup RilModes :
        s.key # "tid" => SoundSetter(s)
  BY <1>a, <1>b DEF VideoColor, SfMask, CpusetTopApp, Kswapd, WifiData, RilModes
<1>7. \A s \in PeakPowerBudget \cup PeakPowerLimits \cup PeakPowerModem :
        s.key # "tid" => SoundSetter(s)
  BY <1>a, <1>b DEF PeakPowerBudget, PeakPowerLimits, PeakPowerModem
<1> QED BY <1>1, <1>2, <1>3, <1>4, <1>5, <1>6, <1>7 DEF SetterTbl

\* What the calls work on.  A node that is flipped has a value that may be nobody's.
AskVal == SetterVal \cup {NoVal}
NodeVal == NoVal .. 1
LockRec == [on : BOOLEAN, priority : 0 .. SETTER_MODE_PRIORITY, oneshotReset : BOOLEAN,
            hasReset : BOOLEAN, render_pid : Pid \cup {NoVal}, val : AskVal]
RscRec == [curVal : AskVal, priority : 0 .. SETTER_MODE_PRIORITY]
CallTbl == [lock : [Lock -> LockRec], rsc : RscRec, device : [Keys -> NodeVal],
            render_pid : Pid \cup {NoVal}, disturbed : SUBSET Lock]

\* A value is a number.
LEMMA ValInt == \A v \in SetterVal : v \in Int
BY SettersAssumption

\* A lock that asks has a key.
Keyed(t) == \A l \in Lock : t.lock[l].val # NoVal => KeyOfLock(t.lock[l]) \in Keys

\* The same locks, up to hasReset.
LocksSame(t, u) ==
  \A l \in Lock : /\ u.lock[l].on = t.lock[l].on /\ u.lock[l].priority = t.lock[l].priority
                  /\ u.lock[l].oneshotReset = t.lock[l].oneshotReset
                  /\ u.lock[l].render_pid = t.lock[l].render_pid /\ u.lock[l].val = t.lock[l].val

\* What is at k, if anything, is what a lock that is on asks for there.
Backed(t, k) == t.device[k] # NoVal => Wanted(t, k)

\* What a lock that is not disturbed has in u it got on the way from t, or had in t.
Holds(t, u, l) ==
  l \notin u.disturbed =>
    \/ u.device[KeyOfLock(t.lock[l])] = t.lock[l].val
    \/ l \notin t.disturbed /\ u.device[KeyOfLock(t.lock[l])] = t.device[KeyOfLock(t.lock[l])]

\* The way from t to u leaves no stray where it changes a key and unset_func clears, and disturbs
\* the locks it takes a value from.
Moves(t, u) ==
  /\ LocksSame(t, u)
  /\ \A k \in Keys : u.device[k] = t.device[k] \/ (setter.unset = "clear" => Backed(u, k))
  /\ \A l \in Lock : t.lock[l].val # NoVal => Holds(t, u, l)

\* Locks that are the same have the same keys.
LEMMA SameKeys ==
  ASSUME NEW t, NEW u, LocksSame(t, u)
  PROVE  /\ \A l \in Lock : KeyOfLock(u.lock[l]) = KeyOfLock(t.lock[l])
         /\ Keyed(t) => Keyed(u)
         /\ Asking(u) = Asking(t)
         /\ \A k : Backed(t, k) /\ u.device[k] = t.device[k] => Backed(u, k)
<1>1. \A l \in Lock : KeyOfLock(u.lock[l]) = KeyOfLock(t.lock[l])
  BY DEF LocksSame, KeyOfLock
<1>2. Keyed(t) => Keyed(u)
  BY <1>1 DEF LocksSame, Keyed
<1>3. Asking(u) = Asking(t)
  BY DEF LocksSame, Asking
<1>4. \A k : Backed(t, k) /\ u.device[k] = t.device[k] => Backed(u, k)
  BY <1>1 DEF LocksSame, Backed, Wanted
<1> QED BY <1>1, <1>2, <1>3, <1>4

\* Moves follow one another.
LEMMA MovesCompose ==
  ASSUME NEW t, NEW u, NEW v, Moves(t, u), Moves(u, v)
  PROVE  Moves(t, v)
<1>1. LocksSame(t, v) /\ LocksSame(t, u) /\ LocksSame(u, v)
  BY DEF Moves, LocksSame
<1>2. ASSUME NEW k \in Keys, v.device[k] # t.device[k], setter.unset = "clear" PROVE Backed(v, k)
  <2>1. CASE v.device[k] # u.device[k]
    BY <1>2, <2>1 DEF Moves
  <2>2. CASE v.device[k] = u.device[k]
    <3>1. Backed(u, k)
      BY <1>2, <2>2 DEF Moves
    <3> QED BY <1>1, <2>2, <3>1, SameKeys
  <2> QED BY <2>1, <2>2
<1>3. ASSUME NEW l \in Lock, t.lock[l].val # NoVal PROVE Holds(t, v, l)
  <2>1. KeyOfLock(u.lock[l]) = KeyOfLock(t.lock[l]) /\ u.lock[l].val = t.lock[l].val
    BY <1>1, SameKeys DEF LocksSame
  <2>2. Holds(t, u, l) /\ Holds(u, v, l)
    BY <1>3, <2>1 DEF Moves
  <2> QED BY <2>1, <2>2 DEF Holds
<1> QED BY <1>1, <1>2, <1>3 DEF Moves

\* Staying is a move, and so is a change of the entry or of render_pid.
LEMMA StayMoves ==
  ASSUME NEW t, NEW u, u.lock = t.lock, u.device = t.device, u.disturbed = t.disturbed
  PROVE  Moves(t, u)
BY DEF Moves, LocksSame, Holds

\* A move goes on when only the entry, render_pid or a hasReset changes after it.
LEMMA MovesAside ==
  ASSUME NEW t, NEW u, NEW v, Moves(t, u), LocksSame(u, v), v.device = u.device, v.disturbed = u.disturbed
  PROVE  Moves(t, v)
<1>1. Moves(u, v)
  BY DEF Moves, Holds
<1> QED BY <1>1, MovesCompose

-----------------------------------------------------------------------------
\* A call leaves d at k, and disturbs the locks that want something else there.
Put(t, u, k, d) ==
  /\ u.lock = t.lock /\ u.device = [t.device EXCEPT ![k] = d]
  /\ \A l \in Lock : l \notin u.disturbed => IF KeyOfLock(t.lock[l]) = k THEN t.lock[l].val = d
                                                                       ELSE l \notin t.disturbed
  /\ \/ setter.unset = "clear" => d = NoVal
     \/ \E l \in Lock : t.lock[l].on /\ KeyOfLock(t.lock[l]) = k /\ t.lock[l].val = d

\* Such a call is a move.
LEMMA PutMoves ==
  ASSUME NEW t \in CallTbl, NEW u \in CallTbl, NEW k \in Keys, NEW d \in Int, Put(t, u, k, d)
  PROVE  Moves(t, u) /\ u.device[k] = d
<1> USE DEF Put
<1>1. u.device[k] = d /\ \A j \in Keys \ {k} : u.device[j] = t.device[j]
  BY DEF CallTbl
<1>2. LocksSame(t, u)
  BY DEF LocksSame
<1>3. setter.unset = "clear" => Backed(u, k)
  <2>1. CASE setter.unset = "clear" => d = NoVal
    BY <1>1, <2>1 DEF Backed
  <2>2. CASE \E l \in Lock : t.lock[l].on /\ KeyOfLock(t.lock[l]) = k /\ t.lock[l].val = d
    BY <1>1, <2>2 DEF Backed, Wanted
  <2> QED BY <2>1, <2>2
<1>4. ASSUME NEW l \in Lock PROVE Holds(t, u, l)
  <2>1. CASE KeyOfLock(t.lock[l]) = k
    BY <1>1, <2>1 DEF Holds
  <2>2. CASE KeyOfLock(t.lock[l]) # k
    <3>1. u.device[KeyOfLock(t.lock[l])] = t.device[KeyOfLock(t.lock[l])]
      BY <2>2 DEF CallTbl
    <3> QED BY <2>2, <3>1 DEF Holds
  <2> QED BY <2>1, <2>2
<1> QED BY <1>1, <1>2, <1>3, <1>4 DEF Moves

\* render_pid is switched.
LEMMA SwitchFacts ==
  ASSUME NEW t \in CallTbl, NEW p \in Pid \cup {NoVal}, NEW x, x = set_fpsgo_render_pid(t, p)
  PROVE  /\ x \in CallTbl /\ x.lock = t.lock /\ x.rsc = t.rsc /\ x.device = t.device
         /\ x.disturbed = t.disturbed /\ x.render_pid = p /\ Moves(t, x)
<1>1. /\ x \in CallTbl /\ x.lock = t.lock /\ x.rsc = t.rsc /\ x.device = t.device
      /\ x.disturbed = t.disturbed /\ x.render_pid = p
  BY DEF set_fpsgo_render_pid, CallTbl
<1> QED BY <1>1, StayMoves

\* set_func for lock i: with render_pid switched to its process, it has its value under its own key.
LEMMA SetForFacts ==
  ASSUME SoundSetter(setter), NEW t \in CallTbl, Keyed(t), NEW i \in Lock, t.lock[i].on, t.lock[i].val # NoVal,
         t.render_pid = t.lock[i].render_pid, NEW u, u = SetFor(t, i)
  PROVE  /\ u \in CallTbl /\ u.lock = t.lock /\ u.rsc = t.rsc /\ Moves(t, u)
         /\ u.device[KeyOfLock(t.lock[i])] = t.lock[i].val
<1>1. PICK q, v, k : q = t.lock[i] /\ v = q.val /\ k = KeyOfLock(q)
  OBVIOUS
<1>2. q \in LockRec /\ v \in SetterVal /\ v \in Int /\ v \in NodeVal /\ k \in Keys /\ KeyOf(t.render_pid, v) = k
  <2>1. q \in LockRec /\ k \in Keys /\ KeyOf(t.render_pid, v) = k
    BY <1>1 DEF CallTbl, Keyed, KeyOfLock
  <2>2. v \in SetterVal
    BY <1>1, <2>1 DEF LockRec, AskVal
  <2> QED BY <2>1, <2>2, SettersAssumption DEF NodeVal, NoVal
<1>3. PICK x : x = SetCall(t, v)
  OBVIOUS
<1>4. x = [t EXCEPT !.device[k] = v]
  BY <1>2, <1>3 DEF SetCall
<1>5. PICK S : S = {l \in Lock : KeyOfLock(t.lock[l]) = k /\ t.lock[l].val # v}
  OBVIOUS
<1>6. /\ x \in CallTbl /\ x.lock = t.lock /\ x.rsc = t.rsc /\ x.device = [t.device EXCEPT ![k] = v]
      /\ x.disturbed = t.disturbed /\ t.disturbed \subseteq Lock
  BY <1>2, <1>4 DEF CallTbl
<1>7. Disturbs(x, k, v) = [x EXCEPT !.disturbed = @ \cup S]
  BY <1>5, <1>6 DEF Disturbs
<1>8. u = [x EXCEPT !.disturbed = (t.disturbed \cup S) \ {i}]
  BY <1>1, <1>3, <1>6, <1>7 DEF SetFor, CallTbl
<1>9. /\ u \in CallTbl /\ u.lock = t.lock /\ u.rsc = t.rsc /\ u.device = [t.device EXCEPT ![k] = v]
      /\ u.disturbed = (t.disturbed \cup S) \ {i}
  BY <1>5, <1>6, <1>8 DEF CallTbl
<1>10. \A l \in Lock : l \notin u.disturbed => IF KeyOfLock(t.lock[l]) = k THEN t.lock[l].val = v
                                                                          ELSE l \notin t.disturbed
  BY <1>1, <1>5, <1>9
<1>11. \E l \in Lock : t.lock[l].on /\ KeyOfLock(t.lock[l]) = k /\ t.lock[l].val = v
  BY <1>1
<1>12. Put(t, u, k, v)
  BY <1>9, <1>10, <1>11 DEF Put
<1>13. k \in Keys /\ v \in Int /\ u \in CallTbl
  BY <1>2, <1>9
<1>14. Moves(t, u)
  BY <1>12, <1>13, PutMoves
<1>15. u.device[k] = v
  BY <1>12, <1>13, PutMoves
<1> QED BY <1>1, <1>9, <1>14, <1>15

\* unset_func of v for lock i leaves what its shape says under the key of the lock's process.
LEMMA UnsetForFacts ==
  ASSUME SoundSetter(setter), NEW t \in CallTbl, NEW i \in Lock, NEW v \in SetterVal,
         t.render_pid = t.lock[i].render_pid, NEW k \in Keys, k = KeyOf(t.render_pid, v),
         NEW u, u = UnsetFor(t, i, v)
  PROVE  /\ u \in CallTbl /\ u.lock = t.lock /\ u.rsc = t.rsc /\ u.render_pid = t.render_pid /\ Moves(t, u)
         /\ setter.unset = "clear" => u.device[k] = NoVal
<1>1. CASE setter.unset = "none"
  <2>1. u = t
    BY <1>1 DEF UnsetFor, UnsetCall
  <2> QED BY <1>1, <2>1, StayMoves
<1>2. CASE setter.unset # "none"
  <2>1. PICK d \in NodeVal : d = Leaves(v) /\ (setter.unset = "clear" => d = NoVal)
    BY SettersAssumption DEF Leaves, NodeVal, NoVal, SoundSetter
  <2>2. PICK x : x = UnsetCall(t, v)
    OBVIOUS
  <2>3. x = [t EXCEPT !.device[k] = d]
    BY <1>2, <2>1, <2>2 DEF UnsetCall
  <2>4. PICK S : S = {l \in Lock : KeyOfLock(t.lock[l]) = k /\ t.lock[l].val # d}
    OBVIOUS
  <2>5. /\ x \in CallTbl /\ x.lock = t.lock /\ x.rsc = t.rsc /\ x.device = [t.device EXCEPT ![k] = d]
        /\ x.disturbed = t.disturbed /\ x.render_pid = t.render_pid /\ t.disturbed \subseteq Lock
    BY <2>3 DEF CallTbl
  <2>6. Disturbs(x, k, d) = [x EXCEPT !.disturbed = @ \cup S]
    BY <2>4, <2>5 DEF Disturbs
  <2>7. u = [x EXCEPT !.disturbed = t.disturbed \cup S]
    <3>1. u = Disturbs(x, k, d)
      BY <1>2, <2>1, <2>2 DEF UnsetFor
    <3> QED BY <2>5, <2>6, <3>1 DEF CallTbl
  <2>8. /\ u \in CallTbl /\ u.lock = t.lock /\ u.rsc = t.rsc /\ u.device = [t.device EXCEPT ![k] = d]
        /\ u.disturbed = t.disturbed \cup S /\ u.render_pid = t.render_pid
    BY <2>4, <2>5, <2>7 DEF CallTbl
  <2>9. \A l \in Lock : l \notin u.disturbed => IF KeyOfLock(t.lock[l]) = k THEN t.lock[l].val = d
                                                                           ELSE l \notin t.disturbed
    BY <2>4, <2>8
  <2>10. d \in Int
    BY DEF NodeVal, NoVal
  <2>11. Put(t, u, k, d)
    BY <2>1, <2>8, <2>9 DEF Put
  <2>12. u \in CallTbl
    BY <2>8
  <2>13. Moves(t, u)
    BY <2>10, <2>11, <2>12, PutMoves
  <2>14. u.device[k] = d
    BY <2>10, <2>11, <2>12, PutMoves
  <2> QED BY <2>1, <2>8, <2>13, <2>14
<1> QED BY <1>1, <1>2

\* A mode lock gives way.
LEMMA GiveWayTurn ==
  ASSUME SoundSetter(setter), NEW t \in CallTbl, Keyed(t), NEW s \in Lock, NEW i \in Lock
  PROVE  /\ GiveWaySlot(s, t, i) \in CallTbl /\ GiveWaySlot(s, t, i).rsc = t.rsc
         /\ Moves(t, GiveWaySlot(s, t, i))
<1> DEFINE gives == /\ i # s /\ i \in Asking(t) /\ t.lock[i].oneshotReset
                    /\ t.lock[s].priority < t.rsc.priority
<1>1. CASE ~gives
  <2>1. GiveWaySlot(s, t, i) = t
    BY <1>1 DEF GiveWaySlot
  <2> QED BY <2>1, StayMoves
<1>2. CASE gives
  <2>1. t.lock \in [Lock -> LockRec] /\ t.lock[i] \in LockRec
    BY DEF CallTbl
  <2>2. PICK p \in Pid \cup {NoVal}, v \in SetterVal : p = t.lock[i].render_pid /\ v = t.lock[i].val
    BY <1>2, <2>1 DEF LockRec, Asking, AskVal
  <2>3. PICK k \in Keys : k = KeyOf(p, v)
    BY <1>2, <2>2 DEF Asking, Keyed, KeyOfLock
  <2>4. PICK a : a = set_fpsgo_render_pid(t, p)
    OBVIOUS
  <2>5. /\ a \in CallTbl /\ a.lock = t.lock /\ a.rsc = t.rsc /\ a.render_pid = p /\ Moves(t, a)
    BY <2>4, SwitchFacts
  <2>6. PICK x : x = UnsetFor(a, i, v)
    OBVIOUS
  <2>7. x \in CallTbl /\ x.lock = a.lock /\ x.rsc = a.rsc /\ Moves(a, x)
    BY <2>2, <2>3, <2>5, <2>6, UnsetForFacts
  <2>8. PICK u : u = [x EXCEPT !.lock[i].hasReset = FALSE]
    OBVIOUS
  <2>9. GiveWaySlot(s, t, i) = u
    BY <1>2, <2>2, <2>4, <2>6, <2>8 DEF GiveWaySlot
  <2>10. /\ u \in CallTbl /\ u.rsc = t.rsc /\ u.device = x.device /\ u.disturbed = x.disturbed
         /\ u.lock = [t.lock EXCEPT ![i].hasReset = FALSE]
    BY <2>1, <2>5, <2>7, <2>8 DEF CallTbl, LockRec
  <2>11. LocksSame(x, u)
    BY <2>1, <2>5, <2>7, <2>10 DEF LocksSame, LockRec
  <2>12. Moves(t, x)
    BY <2>5, <2>7, MovesCompose
  <2>13. Moves(t, u)
    BY <2>10, <2>11, <2>12, MovesAside
  <2> QED BY <2>9, <2>10, <2>13
<1> QED BY <1>1, <1>2

\* A mode lock is brought back.
LEMMA BringBackTurn ==
  ASSUME SoundSetter(setter), NEW t \in CallTbl, Keyed(t), NEW i \in Lock
  PROVE  /\ BringBackSlot(t, i) \in CallTbl /\ Moves(t, BringBackSlot(t, i))
         /\ BringBackSlot(t, i).rsc.priority = t.rsc.priority
<1> DEFINE back == /\ i \in Asking(t) /\ t.lock[i].oneshotReset
                   /\ t.lock[i].priority = t.rsc.priority
                   /\ ~t.lock[i].hasReset /\ t.lock[i].val # t.rsc.curVal
<1>1. CASE ~back
  <2>1. BringBackSlot(t, i) = t
    BY <1>1 DEF BringBackSlot
  <2> QED BY <2>1, StayMoves
<1>2. CASE back
  <2>1. t.lock \in [Lock -> LockRec] /\ t.lock[i] \in LockRec /\ t.rsc \in RscRec
    BY DEF CallTbl
  <2>2. PICK p \in Pid \cup {NoVal}, v \in SetterVal : p = t.lock[i].render_pid /\ v = t.lock[i].val
    BY <1>2, <2>1 DEF LockRec, Asking, AskVal
  <2>3. PICK a : a = set_fpsgo_render_pid(t, p)
    OBVIOUS
  <2>4. /\ a \in CallTbl /\ a.lock = t.lock /\ a.rsc = t.rsc /\ a.render_pid = p /\ Moves(t, a)
    BY <2>3, SwitchFacts
  <2>5. PICK x : x = SetFor(a, i)
    OBVIOUS
  <2>6. Keyed(a) /\ a.lock[i].on /\ a.lock[i].val # NoVal
    BY <1>2, <2>4 DEF Keyed, Asking
  <2>7. x \in CallTbl /\ x.lock = a.lock /\ x.rsc = a.rsc /\ Moves(a, x)
    BY <2>2, <2>4, <2>5, <2>6, SetForFacts
  <2>8. PICK u : u = [x EXCEPT !.rsc.curVal = v, !.lock[i].hasReset = TRUE]
    OBVIOUS
  <2>9. BringBackSlot(t, i) = u
    BY <1>2, <2>2, <2>3, <2>5, <2>8 DEF BringBackSlot
  <2>10. /\ u \in CallTbl /\ u.device = x.device /\ u.disturbed = x.disturbed
         /\ u.lock = [t.lock EXCEPT ![i].hasReset = TRUE] /\ u.rsc.priority = t.rsc.priority
    <3>1. [t.lock EXCEPT ![i].hasReset = TRUE] \in [Lock -> LockRec]
      BY <2>1 DEF LockRec
    <3>2. [t.rsc EXCEPT !.curVal = v] \in RscRec /\ [t.rsc EXCEPT !.curVal = v].priority = t.rsc.priority
      BY <2>1 DEF AskVal, RscRec
    <3>3. u = [x EXCEPT !.rsc = [t.rsc EXCEPT !.curVal = v], !.lock = [t.lock EXCEPT ![i].hasReset = TRUE]]
      BY <2>4, <2>7, <2>8 DEF CallTbl
    <3> QED BY <2>7, <3>1, <3>2, <3>3 DEF CallTbl
  <2>11. LocksSame(x, u)
    BY <2>1, <2>4, <2>7, <2>10 DEF LocksSame, LockRec
  <2>12. Moves(t, x)
    BY <2>4, <2>7, MovesCompose
  <2>13. Moves(t, u)
    BY <2>10, <2>11, <2>12, MovesAside
  <2> QED BY <2>9, <2>10, <2>13
<1> QED BY <1>1, <1>2

\* All mode locks give way.
LEMMA GiveWayLoop ==
  ASSUME SoundSetter(setter), NEW t \in CallTbl, Keyed(t), NEW s \in Lock
  PROVE  GiveWay(s, t) \in CallTbl /\ GiveWay(s, t).rsc = t.rsc /\ Moves(t, GiveWay(s, t))
<1> DEFINE G == CHOOSE g : g = [i \in 0 .. LOCKS |-> IF i = 0 THEN t ELSE GiveWaySlot(s, g[i - 1], i)]
<1>1. LOCKS \in Nat /\ Lock = 1 .. LOCKS
  BY SettersAssumption DEF Lock
<1>2. PICK S : S = {x \in CallTbl : x.rsc = t.rsc /\ Moves(t, x)}
  OBVIOUS
<1>3. t \in S
  BY <1>2, StayMoves
<1>4. ASSUME NEW x \in S, NEW i \in 1 .. LOCKS PROVE GiveWaySlot(s, x, i) \in S
  <2>1. x \in CallTbl /\ x.rsc = t.rsc /\ Moves(t, x)
    BY <1>2
  <2>2. Keyed(x)
    BY <2>1, SameKeys DEF Moves
  <2>3. PICK y : y = GiveWaySlot(s, x, i)
    OBVIOUS
  <2>4. y \in CallTbl /\ y.rsc = x.rsc /\ Moves(x, y)
    BY <1>1, <2>1, <2>2, <2>3, GiveWayTurn
  <2>5. Moves(t, y)
    BY <2>1, <2>4, MovesCompose
  <2> QED BY <1>2, <2>1, <2>3, <2>4, <2>5
<1>5. PICK body : body = [x \in S \X (1 .. LOCKS) |-> GiveWaySlot(s, x[1], x[2])]
  OBVIOUS
<1>6. body \in [S \X (1 .. LOCKS) -> S] /\ \A x \in S, i \in 1 .. LOCKS : body[<<x, i>>] = GiveWaySlot(s, x, i)
  BY <1>4, <1>5
<1>7. PICK h \in [0 .. LOCKS -> S] : h[0] = t /\ \A i \in 1 .. LOCKS : h[i] = body[<<h[i - 1], i>>]
  <2>1. Looped(LOCKS, S, t, body)
    BY <1>1, <1>3, <1>6, LoopExists
  <2> QED BY <2>1, Zenon DEF Looped
<1>8. h = [i \in 0 .. LOCKS |-> IF i = 0 THEN t ELSE GiveWaySlot(s, h[i - 1], i)]
  <2>1. ASSUME NEW i \in 1 .. LOCKS PROVE h[i] = GiveWaySlot(s, h[i - 1], i)
    <3>1. h[i - 1] \in S
      BY <1>1
    <3> QED BY <1>6, <1>7, <3>1
  <2> QED BY <1>1, <1>7, <2>1
<1>9. G = [i \in 0 .. LOCKS |-> IF i = 0 THEN t ELSE GiveWaySlot(s, G[i - 1], i)]
  BY <1>8
<1>10. GiveWay(s, t) = G[LOCKS]
  BY DEF GiveWay
<1> HIDE DEF G
<1>11. G[0] = t /\ \A i \in 1 .. LOCKS : G[i] = GiveWaySlot(s, G[i - 1], i)
  BY <1>1, <1>9
<1>12. G[LOCKS] \in S
  <2>1. PICK Q : Q = {i \in 0 .. LOCKS : G[i] \in S}
    OBVIOUS
  <2>2. 0 \in Q /\ \A i \in 1 .. LOCKS : i - 1 \in Q => i \in Q
    BY <1>1, <1>3, <1>4, <1>11, <2>1
  <2>3. \A i \in 0 .. LOCKS : i \in Q
    BY <1>1, <2>2, TurnByTurn
  <2> QED BY <1>1, <2>1, <2>3
<1> QED BY <1>2, <1>10, <1>12

\* All mode locks that can be are brought back.
LEMMA BringBackLoop ==
  ASSUME SoundSetter(setter), NEW t \in CallTbl, Keyed(t)
  PROVE  BringBack(t) \in CallTbl /\ BringBack(t).rsc.priority = t.rsc.priority /\ Moves(t, BringBack(t))
<1> DEFINE G == CHOOSE g : g = [i \in 0 .. LOCKS |-> IF i = 0 THEN t ELSE BringBackSlot(g[i - 1], i)]
<1>1. LOCKS \in Nat /\ Lock = 1 .. LOCKS
  BY SettersAssumption DEF Lock
<1>2. PICK S : S = {x \in CallTbl : x.rsc.priority = t.rsc.priority /\ Moves(t, x)}
  OBVIOUS
<1>3. t \in S
  BY <1>2, StayMoves
<1>4. ASSUME NEW x \in S, NEW i \in 1 .. LOCKS PROVE BringBackSlot(x, i) \in S
  <2>1. x \in CallTbl /\ x.rsc.priority = t.rsc.priority /\ Moves(t, x)
    BY <1>2
  <2>2. Keyed(x)
    BY <2>1, SameKeys DEF Moves
  <2>3. PICK y : y = BringBackSlot(x, i)
    OBVIOUS
  <2>4. y \in CallTbl /\ y.rsc.priority = x.rsc.priority /\ Moves(x, y)
    BY <1>1, <2>1, <2>2, <2>3, BringBackTurn
  <2>5. Moves(t, y)
    BY <2>1, <2>4, MovesCompose
  <2> QED BY <1>2, <2>1, <2>3, <2>4, <2>5
<1>5. PICK body : body = [x \in S \X (1 .. LOCKS) |-> BringBackSlot(x[1], x[2])]
  OBVIOUS
<1>6. body \in [S \X (1 .. LOCKS) -> S] /\ \A x \in S, i \in 1 .. LOCKS : body[<<x, i>>] = BringBackSlot(x, i)
  BY <1>4, <1>5
<1>7. PICK h \in [0 .. LOCKS -> S] : h[0] = t /\ \A i \in 1 .. LOCKS : h[i] = body[<<h[i - 1], i>>]
  <2>1. Looped(LOCKS, S, t, body)
    BY <1>1, <1>3, <1>6, LoopExists
  <2> QED BY <2>1, Zenon DEF Looped
<1>8. h = [i \in 0 .. LOCKS |-> IF i = 0 THEN t ELSE BringBackSlot(h[i - 1], i)]
  <2>1. ASSUME NEW i \in 1 .. LOCKS PROVE h[i] = BringBackSlot(h[i - 1], i)
    <3>1. h[i - 1] \in S
      BY <1>1
    <3> QED BY <1>6, <1>7, <3>1
  <2> QED BY <1>1, <1>7, <2>1
<1>9. G = [i \in 0 .. LOCKS |-> IF i = 0 THEN t ELSE BringBackSlot(G[i - 1], i)]
  BY <1>8
<1>10. BringBack(t) = G[LOCKS]
  BY DEF BringBack
<1> HIDE DEF G
<1>11. G[0] = t /\ \A i \in 1 .. LOCKS : G[i] = BringBackSlot(G[i - 1], i)
  BY <1>1, <1>9
<1>12. G[LOCKS] \in S
  <2>1. PICK Q : Q = {i \in 0 .. LOCKS : G[i] \in S}
    OBVIOUS
  <2>2. 0 \in Q /\ \A i \in 1 .. LOCKS : i - 1 \in Q => i \in Q
    BY <1>1, <1>3, <1>4, <1>11, <2>1
  <2>3. \A i \in 0 .. LOCKS : i \in Q
    BY <1>1, <2>2, TurnByTurn
  <2> QED BY <1>1, <2>1, <2>3
<1> QED BY <1>2, <1>10, <1>12

\* The highest priority of the locks that ask.
IsHighest(t, p) ==
  /\ p \in 0 .. SETTER_MODE_PRIORITY
  /\ \A l \in Asking(t) : p <= t.lock[l].priority
  /\ p = SETTER_MODE_PRIORITY \/ \E l \in Asking(t) : p = t.lock[l].priority

\* The search finds it, and there is no other.
LEMMA HighestFacts ==
  ASSUME NEW t \in CallTbl
  PROVE  /\ IsHighest(t, HighestPriority(t))
         /\ \A p : IsHighest(t, p) => p = HighestPriority(t)
<1> DEFINE S == {t.lock[l].priority : l \in Asking(t)} \cup {SETTER_MODE_PRIORITY}
<1>1. \A l \in Asking(t) : t.lock[l].priority \in 0 .. SETTER_MODE_PRIORITY
  BY DEF Asking, CallTbl, LockRec
<1>2. S \subseteq 0 .. SETTER_MODE_PRIORITY /\ S # {} /\ S \subseteq Nat
  BY <1>1 DEF SETTER_MODE_PRIORITY
<1>3. PICK p \in S : \A n \in S : p <= n
  <2> HIDE DEF S
  <2> QED BY <1>2, LeastNat
<1>4. IsHighest(t, p)
  BY <1>2, <1>3 DEF IsHighest
<1>5. HighestPriority(t) = CHOOSE q \in 0 .. SETTER_MODE_PRIORITY : IsHighest(t, q)
  BY DEF HighestPriority, IsHighest
<1>6. p \in 0 .. SETTER_MODE_PRIORITY
  BY <1>4 DEF IsHighest
<1>7. IsHighest(t, HighestPriority(t))
  BY <1>4, <1>5, <1>6, Zenon
<1>8. ASSUME NEW a, NEW b, IsHighest(t, a), IsHighest(t, b) PROVE a = b
  BY <1>1, <1>8 DEF IsHighest, SETTER_MODE_PRIORITY
<1> QED BY <1>7, <1>8

\* perfScnEnable: the lock has its value under its own key unless it is not heard.
LEMMA EnableMoves ==
  ASSUME SoundSetter(setter), NEW t \in CallTbl, Keyed(t), NEW s \in Lock, t.lock[s].on, t.lock[s].val # NoVal,
         NEW e, e = EnableOneshot(s, t)
  PROVE  /\ e \in CallTbl /\ Moves(t, e)
         /\ IF t.lock[s].priority > t.rsc.priority THEN e.rsc = t.rsc
            ELSE /\ e.rsc.priority = t.lock[s].priority
                 /\ e.device[KeyOfLock(t.lock[s])] = t.lock[s].val
<1>1. PICK q : q = t.lock[s]
  OBVIOUS
<1>2. q \in LockRec /\ q.val \in SetterVal /\ q.render_pid \in Pid \cup {NoVal} /\ q.priority \in 0 .. SETTER_MODE_PRIORITY
  <2>1. q \in LockRec
    BY <1>1 DEF CallTbl
  <2> QED BY <1>1, <2>1 DEF LockRec, AskVal
<1>3. CASE q.priority > t.rsc.priority
  <2>1. e = t
    BY <1>1, <1>3 DEF EnableOneshot
  <2> QED BY <1>1, <1>3, <2>1, StayMoves
<1>4. CASE ~(q.priority > t.rsc.priority)
  <2>1. PICK a : a = set_fpsgo_render_pid(t, q.render_pid)
    OBVIOUS
  <2>2. a \in CallTbl /\ a.lock = t.lock /\ a.rsc = t.rsc /\ Moves(t, a)
    BY <1>2, <2>1, SwitchFacts
  <2>3. Keyed(a)
    BY <2>2 DEF Keyed
  <2>4. PICK b \in CallTbl : b = GiveWay(s, a) /\ Moves(a, b)
    BY <2>2, <2>3, GiveWayLoop
  <2>5. Moves(t, b)
    BY <2>2, <2>4, MovesCompose
  <2>6. PICK c : c = set_fpsgo_render_pid(b, q.render_pid)
    OBVIOUS
  <2>7. c \in CallTbl /\ c.lock = b.lock /\ c.render_pid = q.render_pid /\ Moves(b, c)
    BY <1>2, <2>4, <2>6, SwitchFacts
  <2>8. Moves(t, c)
    BY <2>5, <2>7, MovesCompose
  <2>9. LocksSame(t, c)
    BY <2>8 DEF Moves
  <2>10. KeyOfLock(c.lock[s]) = KeyOfLock(q) /\ Keyed(c)
    BY <1>1, <2>9, SameKeys
  <2>11. c.lock[s].on /\ c.lock[s].val = q.val /\ c.lock[s].val # NoVal /\ c.lock[s].render_pid = c.render_pid
    BY <1>1, <2>7, <2>9 DEF LocksSame
  <2>12. PICK d : d = SetFor(c, s)
    OBVIOUS
  <2>13. d \in CallTbl /\ Moves(c, d) /\ d.device[KeyOfLock(c.lock[s])] = c.lock[s].val
    BY <2>7, <2>10, <2>11, <2>12, SetForFacts
  <2>14. Moves(t, d)
    BY <2>8, <2>13, MovesCompose
  <2>15. e = [d EXCEPT !.rsc = [curVal |-> q.val, priority |-> q.priority]]
    BY <1>1, <1>4, <2>1, <2>4, <2>6, <2>12 DEF EnableOneshot
  <2>16. /\ e \in CallTbl /\ e.lock = d.lock /\ e.device = d.device /\ e.disturbed = d.disturbed
         /\ e.rsc.priority = q.priority
    <3>1. [curVal |-> q.val, priority |-> q.priority] \in RscRec
      BY <1>2 DEF RscRec, AskVal
    <3> QED BY <2>13, <2>15, <3>1 DEF CallTbl
  <2>17. Moves(t, e)
    <3>1. LocksSame(d, e)
      BY <2>16 DEF LocksSame
    <3> QED BY <2>14, <2>16, <3>1, MovesAside
  <2> QED BY <1>1, <1>4, <2>10, <2>11, <2>13, <2>16, <2>17
<1> QED BY <1>3, <1>4

\* perfScnUpdate(s, 1): another value is set under the lock's own key, and the previous one is not
\* left under the key it has for the new process.
LEMMA UpdateMoves ==
  ASSUME SoundSetter(setter), NEW t \in CallTbl, Keyed(t), NEW s \in Lock, t.lock[s].on, t.lock[s].val # NoVal,
         IsHighest(t, t.rsc.priority), NEW prev \in SetterVal, KeyOf(t.lock[s].render_pid, prev) \in Keys,
         NEW u, u = UpdateOneshot(s, prev, t)
  PROVE  /\ u \in CallTbl /\ Moves(t, u) /\ u.rsc.priority = t.rsc.priority
         /\ ~(t.lock[s].priority > t.rsc.priority) /\ prev # t.lock[s].val =>
              /\ u.device[KeyOfLock(t.lock[s])] = t.lock[s].val
              /\ setter.unset = "clear" => Backed(u, KeyOf(t.lock[s].render_pid, prev))
<1>1. PICK q : q = t.lock[s]
  OBVIOUS
<1>2. q \in LockRec /\ q.val \in SetterVal /\ q.render_pid \in Pid \cup {NoVal} /\ prev # NoVal
  <2>1. q \in LockRec
    BY <1>1 DEF CallTbl
  <2> QED BY <1>1, <2>1, SettersAssumption DEF LockRec, AskVal, NoVal
<1>3. CASE q.priority > t.rsc.priority
  <2>1. u = t
    BY <1>1, <1>3 DEF UpdateOneshot
  <2> QED BY <1>1, <1>3, <2>1, StayMoves
<1>4. PICK a : a = set_fpsgo_render_pid(t, q.render_pid)
  OBVIOUS
<1>5. a \in CallTbl /\ a.lock = t.lock /\ a.rsc = t.rsc /\ a.render_pid = q.render_pid /\ Moves(t, a)
  BY <1>2, <1>4, SwitchFacts
<1>6. CASE ~(q.priority > t.rsc.priority) /\ prev = q.val
  <2>1. u = a
    BY <1>1, <1>4, <1>6 DEF UpdateOneshot
  <2> QED BY <1>1, <1>5, <1>6, <2>1
<1>7. CASE ~(q.priority > t.rsc.priority) /\ prev # q.val
  <2>1. PICK k \in Keys : k = KeyOf(q.render_pid, prev)
    BY <1>1
  <2>2. PICK b : b = UnsetFor(a, s, prev)
    OBVIOUS
  <2>3. /\ b \in CallTbl /\ b.lock = a.lock /\ b.rsc = a.rsc /\ b.render_pid = a.render_pid /\ Moves(a, b)
        /\ setter.unset = "clear" => b.device[k] = NoVal
    BY <1>1, <1>5, <2>1, <2>2, UnsetForFacts
  <2>4. Keyed(b) /\ b.lock[s].on /\ b.lock[s].val = q.val /\ b.lock[s].val # NoVal /\ b.lock[s].render_pid = b.render_pid
    BY <1>1, <1>5, <2>3 DEF Keyed
  <2>5. PICK c : c = SetFor(b, s)
    OBVIOUS
  <2>6. c \in CallTbl /\ c.lock = b.lock /\ c.rsc = b.rsc /\ Moves(b, c) /\ c.device[KeyOfLock(b.lock[s])] = b.lock[s].val
    BY <2>3, <2>4, <2>5, SetForFacts
  <2>7. t.rsc.priority = HighestPriority(t)
    BY HighestFacts
  <2>8. u = [c EXCEPT !.rsc.curVal = q.val]
    BY <1>1, <1>2, <1>4, <1>7, <2>2, <2>5, <2>7 DEF UpdateOneshot
  <2>9. /\ u \in CallTbl /\ u.lock = c.lock /\ u.device = c.device /\ u.disturbed = c.disturbed
        /\ u.rsc.priority = t.rsc.priority
    <3>1. q.val \in AskVal
      BY <1>2 DEF AskVal
    <3>2. c.rsc = t.rsc /\ c.rsc \in RscRec
      BY <1>5, <2>3, <2>6 DEF CallTbl
    <3>3. [c.rsc EXCEPT !.curVal = q.val] \in RscRec /\ [c.rsc EXCEPT !.curVal = q.val].priority = t.rsc.priority
      BY <3>1, <3>2 DEF RscRec
    <3>4. u = [c EXCEPT !.rsc = [c.rsc EXCEPT !.curVal = q.val]]
      BY <2>8
    <3> QED BY <2>6, <3>3, <3>4 DEF CallTbl
  <2>10. Moves(t, b) /\ Moves(b, u)
    <3>1. LocksSame(c, u)
      BY <2>9 DEF LocksSame
    <3> QED BY <1>5, <2>3, <2>6, <2>9, <3>1, MovesCompose, MovesAside
  <2>11. Moves(t, u)
    BY <2>10, MovesCompose
  <2>12. setter.unset = "clear" => Backed(u, k)
    <3> SUFFICES ASSUME setter.unset = "clear" PROVE Backed(u, k)
      OBVIOUS
    <3>1. Backed(b, k)
      BY <2>3 DEF Backed
    <3>2. LocksSame(b, u) /\ (u.device[k] = b.device[k] \/ Backed(u, k))
      BY <2>10 DEF Moves
    <3> QED BY <3>1, <3>2, SameKeys
  <2>13. u.device[KeyOfLock(q)] = q.val
    BY <1>1, <1>5, <2>3, <2>6, <2>9
  <2> QED BY <1>1, <2>1, <2>9, <2>11, <2>12, <2>13
<1> QED BY <1>3, <1>6, <1>7

\* perfScnUpdate(s, 0): what the lock set is taken back, unless a higher priority rules.
LEMMA DisableMoves ==
  ASSUME SoundSetter(setter), NEW t \in CallTbl, Keyed(t), NEW s \in Lock, t.lock[s].val # NoVal,
         NEW u, u = DisableOneshot(s, t)
  PROVE  /\ u \in CallTbl /\ Moves(t, u)
         /\ IF t.lock[s].priority > t.rsc.priority THEN u.rsc = t.rsc
            ELSE /\ u.rsc.priority = HighestPriority(t)
                 /\ setter.unset = "clear" => Backed(u, KeyOfLock(t.lock[s]))
<1>1. PICK q : q = t.lock[s]
  OBVIOUS
<1>2. q \in LockRec /\ q.val \in SetterVal /\ q.render_pid \in Pid \cup {NoVal}
  <2>1. q \in LockRec
    BY <1>1 DEF CallTbl
  <2> QED BY <1>1, <2>1 DEF LockRec, AskVal
<1>3. CASE q.priority > t.rsc.priority
  <2>1. u = t
    BY <1>1, <1>3 DEF DisableOneshot
  <2> QED BY <1>1, <1>3, <2>1, StayMoves
<1>4. CASE ~(q.priority > t.rsc.priority)
  <2>1. PICK k \in Keys : k = KeyOfLock(q) /\ k = KeyOf(q.render_pid, q.val)
    BY <1>1 DEF Keyed, KeyOfLock
  <2>2. PICK a : a = set_fpsgo_render_pid(t, q.render_pid)
    OBVIOUS
  <2>3. a \in CallTbl /\ a.lock = t.lock /\ a.rsc = t.rsc /\ a.render_pid = q.render_pid /\ Moves(t, a)
    BY <1>2, <2>2, SwitchFacts
  <2>4. PICK b : b = UnsetFor(a, s, q.val)
    OBVIOUS
  <2>5. /\ b \in CallTbl /\ b.lock = a.lock /\ b.rsc = a.rsc /\ Moves(a, b)
        /\ setter.unset = "clear" => b.device[k] = NoVal
    BY <1>1, <1>2, <2>1, <2>3, <2>4, UnsetForFacts
  <2>6. PICK c : c = [b EXCEPT !.rsc.priority = HighestPriority(t)]
    OBVIOUS
  <2>7. /\ c \in CallTbl /\ c.lock = b.lock /\ c.device = b.device /\ c.disturbed = b.disturbed
        /\ c.rsc.priority = HighestPriority(t)
    <3>1. HighestPriority(t) \in 0 .. SETTER_MODE_PRIORITY /\ b.rsc \in RscRec
      BY <2>5, HighestFacts DEF CallTbl, IsHighest
    <3>2. [b.rsc EXCEPT !.priority = HighestPriority(t)] \in RscRec
          /\ [b.rsc EXCEPT !.priority = HighestPriority(t)].priority = HighestPriority(t)
      BY <3>1 DEF RscRec
    <3>3. c = [b EXCEPT !.rsc = [b.rsc EXCEPT !.priority = HighestPriority(t)]]
      BY <2>6
    <3> QED BY <2>5, <3>2, <3>3 DEF CallTbl
  <2>8. Moves(t, c)
    <3>1. LocksSame(b, c)
      BY <2>7 DEF LocksSame
    <3>2. Moves(t, b)
      BY <2>3, <2>5, MovesCompose
    <3> QED BY <2>7, <3>1, <3>2, MovesAside
  <2>9. Keyed(c)
    BY <2>3, <2>5, <2>7 DEF Keyed
  <2>10. u = BringBack(c)
    BY <1>1, <1>4, <2>2, <2>4, <2>6 DEF DisableOneshot
  <2>11. u \in CallTbl /\ u.rsc.priority = c.rsc.priority /\ Moves(c, u)
    BY <2>7, <2>9, <2>10, BringBackLoop
  <2>12. Moves(t, u)
    BY <2>8, <2>11, MovesCompose
  <2>13. setter.unset = "clear" => Backed(u, k)
    <3> SUFFICES ASSUME setter.unset = "clear" PROVE Backed(u, k)
      OBVIOUS
    <3>1. Backed(c, k)
      BY <2>5, <2>7 DEF Backed
    <3>2. LocksSame(c, u) /\ (u.device[k] = c.device[k] \/ Backed(u, k))
      BY <2>11 DEF Moves
    <3> QED BY <3>1, <3>2, SameKeys
  <2> QED BY <1>1, <1>4, <2>1, <2>7, <2>11, <2>12, <2>13
<1> QED BY <1>3, <1>4

-----------------------------------------------------------------------------
\* Ranked rows: the device has the current value, and nobody asks for more.
RankedAt(t) == t.device[0] = t.rsc.curVal /\ \A l \in Asking(t) : t.lock[l].val <= t.rsc.curVal

\* The search finds the best value asked for, or rest.
LEMMA BiggestFacts ==
  ASSUME NEW t \in CallTbl
  PROVE  /\ BiggestOf(t) \in AskVal
         /\ \A l \in Asking(t) : t.lock[l].val <= BiggestOf(t)
         /\ BiggestOf(t) = NoVal \/ \E l \in Asking(t) : t.lock[l].val = BiggestOf(t)
<1> DEFINE Is(v) == /\ \A l \in Asking(t) : t.lock[l].val <= v
                    /\ v = NoVal \/ \E l \in Asking(t) : t.lock[l].val = v
<1>1. \A l \in Asking(t) : t.lock[l].val \in SetterVal /\ t.lock[l].val \in 0 .. 1
  BY SettersAssumption DEF Asking, CallTbl, LockRec, AskVal
<1>2. \E v \in AskVal : Is(v)
  <2>1. CASE \E l \in Asking(t) : t.lock[l].val = 1
    BY <1>1, <2>1 DEF AskVal
  <2>2. CASE (\A l \in Asking(t) : t.lock[l].val = 0) /\ Asking(t) # {}
    BY <1>1, <2>2 DEF AskVal
  <2>3. CASE Asking(t) = {}
    BY <2>3 DEF AskVal
  <2> QED BY <1>1, <2>1, <2>2, <2>3
<1>3. BiggestOf(t) = CHOOSE v \in AskVal : Is(v)
  BY DEF BiggestOf, AskVal
<1>4. BiggestOf(t) \in AskVal /\ Is(BiggestOf(t))
  <2> HIDE DEF Is
  <2> QED BY <1>2, <1>3
<1> QED BY <1>4

\* The values of a ranked row are numbers, and its key is one.
LEMMA RankedFacts ==
  ASSUME SoundSetter(setter), setter.ranked, NEW t \in CallTbl
  PROVE  /\ Keys = {0} /\ (\A q : KeyOfLock(q) = 0) /\ (\A p, v : KeyOf(p, v) = 0)
         /\ t.rsc.curVal \in AskVal /\ t.rsc.curVal \in Int
         /\ \A l \in Lock : t.lock[l].val \in AskVal /\ t.lock[l].val \in Int
<1>1. Keys = {0} /\ (\A q : KeyOfLock(q) = 0) /\ \A p, v : KeyOf(p, v) = 0
  BY DEF SoundSetter, Keys, KeyOfLock, KeyOf
<1>2. AskVal \subseteq Int
  BY ValInt DEF AskVal, NoVal
<1>3. t.rsc.curVal \in AskVal /\ \A l \in Lock : t.lock[l].val \in AskVal
  BY DEF CallTbl, RscRec, LockRec
<1> QED BY <1>1, <1>2, <1>3

\* A ranked row is given another value.
RankedTo(t, v) == [t EXCEPT !.rsc.curVal = v, !.device[0] = v]

\* It is then the current one, and at the device.
LEMMA RankedPut ==
  ASSUME SoundSetter(setter), setter.ranked, NEW t \in CallTbl, NEW v \in AskVal,
         NEW u, u = RankedTo(t, v)
  PROVE  u \in CallTbl /\ u.lock = t.lock /\ u.disturbed = t.disturbed /\ u.rsc.curVal = v /\ u.device[0] = v
<1>1. Keys = {0}
  BY RankedFacts
<1>2. t.rsc \in RscRec /\ t.device \in [Keys -> NodeVal]
  BY DEF CallTbl
<1>3. u = [t EXCEPT !.rsc = [t.rsc EXCEPT !.curVal = v], !.device = [t.device EXCEPT ![0] = v]]
  BY DEF RankedTo
<1>4. [t.rsc EXCEPT !.curVal = v] \in RscRec /\ [t.rsc EXCEPT !.curVal = v].curVal = v
  BY <1>2 DEF RscRec
<1>5. v \in NodeVal
  BY SettersAssumption DEF AskVal, NodeVal, NoVal
<1>6. [t.device EXCEPT ![0] = v] \in [Keys -> NodeVal] /\ [t.device EXCEPT ![0] = v][0] = v
  BY <1>1, <1>2, <1>5
<1> QED BY <1>3, <1>4, <1>6 DEF CallTbl

\* The search leaves the best value at the device.
LEMMA SearchTop ==
  ASSUME SoundSetter(setter), setter.ranked, NEW t \in CallTbl, t.device[0] = t.rsc.curVal,
         NEW u, u = SearchRanked(t)
  PROVE  u \in CallTbl /\ u.lock = t.lock /\ u.disturbed = t.disturbed /\ RankedAt(u) /\ Backed(u, 0)
<1>1. PICK v \in AskVal : /\ v = BiggestOf(t)
                          /\ \A l \in Asking(t) : t.lock[l].val <= v
                          /\ v = NoVal \/ \E l \in Asking(t) : t.lock[l].val = v
  BY BiggestFacts
<1>2. /\ u \in CallTbl /\ u.lock = t.lock /\ u.disturbed = t.disturbed /\ u.rsc.curVal = v /\ u.device[0] = v
  <2>1. CASE v = t.rsc.curVal
    BY <1>1, <2>1 DEF SearchRanked
  <2>2. CASE v # t.rsc.curVal
    <3>1. u = RankedTo(t, v)
      BY <1>1, <2>2 DEF SearchRanked, RankedTo
    <3> QED BY <3>1, RankedPut
  <2> QED BY <2>1, <2>2
<1>3. Asking(u) = Asking(t)
  BY <1>2 DEF Asking
<1>4. RankedAt(u)
  BY <1>1, <1>2, <1>3 DEF RankedAt
<1>5. Backed(u, 0)
  <2>1. \A q : KeyOfLock(q) = 0
    BY RankedFacts
  <2> QED BY <1>1, <1>2, <2>1 DEF Backed, Wanted, Asking
<1> QED BY <1>2, <1>4, <1>5

\* perfScnEnable of a ranked row: a better value is set, any other leaves the row as it is.
LEMMA EnableTop ==
  ASSUME SoundSetter(setter), setter.ranked, NEW t \in CallTbl, NEW s \in Lock, s \in Asking(t),
         t.device[0] = t.rsc.curVal, \A l \in Asking(t) \ {s} : t.lock[l].val <= t.rsc.curVal,
         NEW u, u = EnableRanked(s, t)
  PROVE  /\ u \in CallTbl /\ u.lock = t.lock /\ u.disturbed = t.disturbed /\ RankedAt(u)
         /\ Backed(u, 0) \/ (u = t /\ t.lock[s].val <= t.rsc.curVal)
<1>1. PICK v : v = t.lock[s].val
  OBVIOUS
<1>2. /\ v \in AskVal /\ v \in Int /\ t.rsc.curVal \in Int /\ \A q : KeyOfLock(q) = 0
      /\ \A l \in Lock : t.lock[l].val \in Int
  BY <1>1, RankedFacts
<1>3. CASE v > t.rsc.curVal
  <2>1. u = RankedTo(t, v)
    <3>1. KeyOf(t.render_pid, v) = 0
      BY RankedFacts
    <3>2. SetCall(t, v) = [t EXCEPT !.device[0] = v]
      BY <3>1 DEF SetCall
    <3>3. u = [SetCall(t, v) EXCEPT !.rsc.curVal = v]
      BY <1>1, <1>3 DEF EnableRanked
    <3> QED BY <3>2, <3>3 DEF CallTbl, RankedTo
  <2>2. u \in CallTbl /\ u.lock = t.lock /\ u.disturbed = t.disturbed /\ u.rsc.curVal = v /\ u.device[0] = v
    BY <1>2, <2>1, RankedPut
  <2>3. Asking(u) = Asking(t) /\ Asking(t) \subseteq Lock
    BY <2>2 DEF Asking
  <2>4. \A l \in Asking(t) : t.lock[l].val <= v
    BY <1>1, <1>2, <1>3, <2>3
  <2>5. RankedAt(u)
    BY <2>2, <2>3, <2>4 DEF RankedAt
  <2>6. Backed(u, 0)
    BY <1>1, <1>2, <2>2 DEF Backed, Wanted, Asking
  <2> QED BY <2>2, <2>5, <2>6
<1>4. CASE ~(v > t.rsc.curVal)
  <2>1. u = t
    BY <1>1, <1>4 DEF EnableRanked
  <2>2. v <= t.rsc.curVal
    BY <1>2, <1>4
  <2>3. RankedAt(t)
    BY <1>1, <2>2 DEF RankedAt
  <2> QED BY <1>1, <2>1, <2>2, <2>3
<1> QED BY <1>3, <1>4

\* perfScnUpdate(s, 0) of a ranked row; s is off.
LEMMA DisableTop ==
  ASSUME SoundSetter(setter), setter.ranked, NEW t \in CallTbl, NEW s \in Lock, t.lock[s].val # NoVal,
         RankedAt(t), NEW u, u = DisableRanked(s, t)
  PROVE  /\ u \in CallTbl /\ u.lock = t.lock /\ u.disturbed = t.disturbed /\ RankedAt(u)
         /\ Backed(u, 0) \/ (u = t /\ t.lock[s].val # t.rsc.curVal)
<1>1. t.rsc.curVal \in Int /\ t.lock[s].val \in Int
  BY RankedFacts
<1>2. CASE t.lock[s].val >= t.rsc.curVal
  <2>1. u = SearchRanked(t)
    BY <1>2 DEF DisableRanked
  <2>2. t.device[0] = t.rsc.curVal
    BY DEF RankedAt
  <2> QED BY <2>1, <2>2, SearchTop
<1>3. CASE ~(t.lock[s].val >= t.rsc.curVal)
  <2>1. u = t
    BY <1>3 DEF DisableRanked
  <2> QED BY <1>1, <1>3, <2>1
<1> QED BY <1>2, <1>3

-----------------------------------------------------------------------------
\* NoStray and Effective of a table t, apart from the keys S.
StrayFree(t, S) == setter.unset = "clear" \/ setter.ranked => \A k \in Keys \ S : Backed(t, k)
InEffect(t) ==
  \A l \in Lock :
    t.lock[l].on /\ t.lock[l].val # NoVal /\ l \notin t.disturbed
      => \/ t.device[KeyOfLock(t.lock[l])] = t.lock[l].val
         \/ setter.ranked /\ t.device[0] > t.lock[l].val

\* Every lock has its key and, while it is on, a value; a ranked row is at its current value, and a
\* ONESHOT row has the highest priority of the locks that ask.
SetTable(t) ==
  /\ t \in CallTbl /\ Keyed(t)
  /\ \A l \in Lock : t.lock[l].on => t.lock[l].val # NoVal
  /\ setter.ranked => RankedAt(t)
  /\ ~setter.ranked => IsHighest(t, t.rsc.priority)
  /\ InEffect(t)

\* That, of the current table, and NoStray.
SetInv == SoundSetter(setter) /\ SetTable(T(lock, disturbed)) /\ StrayFree(T(lock, disturbed), strays)

\* The table of the current state has its fields.
LEMMA TFields ==
  ASSUME NEW x, NEW d, NEW t, t = T(x, d)
  PROVE  t.lock = x /\ t.rsc = rsc /\ t.device = device /\ t.render_pid = NoVal /\ t.disturbed = d
BY DEF T

\* The invariant is about the properties.
LEMMA SetInvSays == SetInv => NoStray /\ Effective
<1> SUFFICES ASSUME SetInv PROVE NoStray /\ Effective
  OBVIOUS
<1>1. PICK t : t = T(lock, disturbed)
  OBVIOUS
<1>2. t.lock = lock /\ t.device = device /\ t.disturbed = disturbed
  BY <1>1, TFields
<1>3. NoStray
  BY <1>1, <1>2 DEF SetInv, StrayFree, Backed, Wanted, NoStray
<1>4. Effective
  BY <1>1, <1>2 DEF SetInv, SetTable, InEffect, Effective
<1> QED BY <1>3, <1>4

\* The table a step leads to says what the next state says.
LEMMA Carry ==
  ASSUME SoundSetter(setter), NEW t, SetTable(t), NEW stray, StrayFree(t, strays \cup stray), Becomes(t, stray)
  PROVE  SetInv'
<1>1. /\ lock' = t.lock /\ rsc' = t.rsc /\ device' = t.device /\ setter' = setter
      /\ strays' = {k \in strays \cup stray : t.device[k] # NoVal /\ ~Wanted(t, k)}
      /\ disturbed' = {l \in t.disturbed : t.lock[l].on}
  BY DEF Becomes
<1>2. PICK u : u = [lock |-> t.lock, rsc |-> t.rsc, device |-> t.device, render_pid |-> NoVal,
                    disturbed |-> disturbed']
  OBVIOUS
<1>3. u \in CallTbl /\ u.lock = t.lock /\ u.rsc = t.rsc /\ u.device = t.device /\ u.disturbed = disturbed'
  BY <1>1, <1>2 DEF SetTable, CallTbl
<1>4. T(lock, disturbed)' = u
  BY <1>1, <1>2 DEF T
<1>5. StrayFree(u, strays')
  <2> SUFFICES ASSUME setter.unset = "clear" \/ setter.ranked, NEW k \in Keys, k \notin strays' PROVE Backed(u, k)
    BY DEF StrayFree
  <2>1. Backed(t, k)
    BY <1>1 DEF StrayFree, Backed
  <2> QED BY <1>3, <2>1 DEF Backed, Wanted
<1>6. InEffect(u)
  BY <1>1, <1>3 DEF SetTable, InEffect
<1>7. Keyed(u) /\ \A l \in Lock : u.lock[l].on => u.lock[l].val # NoVal
  BY <1>3 DEF SetTable, Keyed
<1>8. (setter.ranked => RankedAt(u)) /\ (~setter.ranked => IsHighest(u, u.rsc.priority))
  BY <1>3 DEF SetTable, RankedAt, IsHighest, Asking
<1>9. SoundSetter(setter)' /\ Keys' = Keys /\ (CallTbl)' = CallTbl
  BY <1>1 DEF SoundSetter, Keys, CallTbl
<1>10. \A l \in Lock : KeyOfLock(T(lock, disturbed).lock[l])' = KeyOfLock(u.lock[l])
  BY <1>1, <1>4 DEF KeyOfLock, KeyOf
<1>11. Keyed(T(lock, disturbed))'
  BY <1>4, <1>7, <1>9, <1>10 DEF Keyed
<1>12. (setter.ranked => RankedAt(T(lock, disturbed)))'
  BY <1>1, <1>4, <1>8 DEF RankedAt, Asking
<1>13. (~setter.ranked => IsHighest(T(lock, disturbed), T(lock, disturbed).rsc.priority))'
  BY <1>1, <1>4, <1>8 DEF IsHighest, Asking
<1>14. InEffect(T(lock, disturbed))'
  BY <1>1, <1>4, <1>6, <1>10 DEF InEffect
<1>15. StrayFree(T(lock, disturbed), strays)'
  <2>1. \A k \in Keys : Backed(u, k) => Backed(T(lock, disturbed), k)'
    BY <1>4, <1>10 DEF Backed, Wanted
  <2> QED BY <1>1, <1>5, <1>9, <2>1 DEF StrayFree
<1>16. (T(lock, disturbed) \in CallTbl)'
  BY <1>3, <1>4, <1>9
<1>17. (\A l \in Lock : T(lock, disturbed).lock[l].on => T(lock, disturbed).lock[l].val # NoVal)'
  BY <1>4, <1>7
<1> QED BY <1>9, <1>11, <1>12, <1>13, <1>14, <1>15, <1>16, <1>17 DEF SetInv, SetTable

\* Initially nothing is asked for.
LEMMA SetInvInit == SettersInit => SetInv
<1> SUFFICES ASSUME SettersInit PROVE SetInv
  OBVIOUS
<1>1. SoundSetter(setter)
  BY SettersAreSound DEF SettersInit
<1>2. PICK t : t = T(lock, disturbed)
  OBVIOUS
<1>3. t.lock = lock /\ t.rsc = rsc /\ t.device = device /\ t.disturbed = disturbed
  BY <1>2, TFields
<1>4. t \in CallTbl
  <2>1. lock \in [Lock -> LockRec]
    BY DEF SettersInit, LockRec, AskVal, DEFAULT_PRIORITY, SETTER_MODE_PRIORITY
  <2>2. rsc \in RscRec
    BY DEF SettersInit, RscRec, AskVal, SETTER_MODE_PRIORITY
  <2>3. device \in [Keys -> NodeVal] /\ disturbed \in SUBSET Lock
    BY DEF SettersInit, NoVal, NodeVal
  <2> QED BY <1>2, <2>1, <2>2, <2>3 DEF T, CallTbl
<1>5. \A l \in Lock : lock[l].on = FALSE /\ lock[l].val = NoVal
  BY DEF SettersInit
<1>6. \A k \in Keys : device[k] = NoVal
  BY DEF SettersInit
<1>7. Keyed(t) /\ StrayFree(t, strays) /\ InEffect(t) /\ Asking(t) = {}
  BY <1>3, <1>5, <1>6 DEF Keyed, StrayFree, Backed, InEffect, Asking
<1>8. setter.ranked => RankedAt(t)
  <2> SUFFICES ASSUME setter.ranked PROVE RankedAt(t)
    OBVIOUS
  <2>1. Keys = {0}
    BY <1>1 DEF SoundSetter, Keys
  <2>2. rsc.curVal = NoVal
    BY DEF SettersInit
  <2> QED BY <1>3, <1>6, <1>7, <2>1, <2>2 DEF RankedAt
<1>9. IsHighest(t, t.rsc.priority)
  BY <1>3, <1>7 DEF SettersInit, IsHighest, SETTER_MODE_PRIORITY
<1> QED BY <1>1, <1>2, <1>3, <1>4, <1>5, <1>7, <1>8, <1>9 DEF SetInv, SetTable

-----------------------------------------------------------------------------
\* A step for lock s, from the table t where its slot is written: the other locks stay.
SlotOnly(s, t) ==
  /\ t.device = device
  /\ \A l \in Lock \ {s} : t.lock[l] = lock[l] /\ (l \in disturbed => l \in t.disturbed)

\* On a ONESHOT row the calls go on to u: every lock but s has what it had, unless it is disturbed.
LEMMA OneshotStep ==
  ASSUME SetInv, ~setter.ranked, NEW s \in Lock, NEW t \in CallTbl, Keyed(t), SlotOnly(s, t),
         \A l \in Lock : t.lock[l].on => t.lock[l].val # NoVal,
         NEW u \in CallTbl, Moves(t, u), IsHighest(u, u.rsc.priority), NEW stray,
         t.lock[s].on /\ s \notin u.disturbed => u.device[KeyOfLock(t.lock[s])] = t.lock[s].val,
         setter.unset = "clear" /\ lock[s].on /\ KeyOfLock(lock[s]) \notin stray
           /\ device[KeyOfLock(lock[s])] = lock[s].val => Backed(u, KeyOfLock(lock[s]))
  PROVE  SetTable(u) /\ StrayFree(u, strays \cup stray)
<1>1. LocksSame(t, u)
  BY DEF Moves
<1>2. Keyed(u) /\ \A l \in Lock : KeyOfLock(u.lock[l]) = KeyOfLock(t.lock[l])
  BY <1>1, SameKeys
<1>3. \A l \in Lock : u.lock[l].on => u.lock[l].val # NoVal
  BY <1>1 DEF LocksSame
<1>4. PICK c : c = T(lock, disturbed)
  OBVIOUS
<1>5. /\ c.lock = lock /\ c.device = device /\ c.disturbed = disturbed
      /\ StrayFree(c, strays) /\ InEffect(c)
  BY <1>4, TFields DEF SetInv, SetTable
<1>6. InEffect(u)
  <2> SUFFICES ASSUME NEW l \in Lock, u.lock[l].on, u.lock[l].val # NoVal, l \notin u.disturbed
               PROVE  u.device[KeyOfLock(u.lock[l])] = u.lock[l].val
    BY DEF InEffect
  <2>1. t.lock[l].on /\ t.lock[l].val # NoVal /\ t.lock[l].val = u.lock[l].val
    BY <1>1 DEF LocksSame
  <2>2. CASE l = s
    BY <1>2, <2>1, <2>2
  <2>3. CASE l # s
    <3>1. Holds(t, u, l)
      BY <2>1 DEF Moves
    <3>2. CASE u.device[KeyOfLock(t.lock[l])] = t.lock[l].val
      BY <1>2, <2>1, <3>2
    <3>3. CASE l \notin t.disturbed /\ u.device[KeyOfLock(t.lock[l])] = t.device[KeyOfLock(t.lock[l])]
      <4>1. t.lock[l] = lock[l] /\ l \notin disturbed /\ t.device = device
        BY <2>3, <3>3 DEF SlotOnly
      <4>2. device[KeyOfLock(lock[l])] = lock[l].val
        BY <1>5, <2>1, <4>1 DEF InEffect
      <4> QED BY <1>2, <2>1, <3>3, <4>1, <4>2
    <3> QED BY <3>1, <3>2, <3>3 DEF Holds
  <2> QED BY <2>2, <2>3
<1>7. StrayFree(u, strays \cup stray)
  <2> SUFFICES ASSUME setter.unset = "clear", NEW k \in Keys, k \notin strays, k \notin stray, u.device[k] # NoVal
               PROVE  Backed(u, k)
    BY DEF StrayFree, Backed
  <2>1. CASE u.device[k] # t.device[k]
    BY <2>1 DEF Moves
  <2>2. CASE u.device[k] = t.device[k]
    <3>1. device[k] = u.device[k]
      BY <2>2 DEF SlotOnly
    <3>2. PICK l \in Lock : lock[l].on /\ KeyOfLock(lock[l]) = k /\ lock[l].val = device[k]
      BY <1>5, <3>1 DEF StrayFree, Backed, Wanted
    <3>3. CASE l = s
      BY <3>2, <3>3
    <3>4. CASE l # s
      <4>1. t.lock[l] = lock[l]
        BY <3>4 DEF SlotOnly
      <4>2. u.lock[l].on /\ KeyOfLock(u.lock[l]) = k /\ u.lock[l].val = u.device[k]
        BY <1>1, <1>2, <3>1, <3>2, <4>1 DEF LocksSame
      <4> QED BY <4>2 DEF Backed, Wanted
    <3> QED BY <3>3, <3>4
  <2> QED BY <2>1, <2>2
<1> QED BY <1>2, <1>3, <1>6, <1>7 DEF SetTable

\* On a ranked row: what is at the device stays wanted, by another lock than s or by s.
LEMMA RankedStep ==
  ASSUME SetInv, setter.ranked, NEW s \in Lock, NEW t \in CallTbl, SlotOnly(s, t),
         \A l \in Lock : t.lock[l].on => t.lock[l].val # NoVal,
         NEW u \in CallTbl, u.lock = t.lock, RankedAt(u), NEW stray,
         \/ Backed(u, 0)
         \/ /\ u.device = t.device
            /\ 0 \notin stray /\ lock[s].on /\ device[0] = lock[s].val
                 => t.lock[s].on /\ t.lock[s].val = device[0]
  PROVE  SetTable(u) /\ StrayFree(u, strays \cup stray)
<1>1. SoundSetter(setter)
  BY DEF SetInv
<1>2. /\ Keys = {0} /\ \A q : KeyOfLock(q) = 0
      /\ u.rsc.curVal \in Int /\ \A l \in Lock : u.lock[l].val \in Int
  BY <1>1, RankedFacts
<1>3. Keyed(u)
  BY <1>2 DEF Keyed
<1>4. InEffect(u)
  <2> SUFFICES ASSUME NEW l \in Lock, u.lock[l].on, u.lock[l].val # NoVal
               PROVE  u.device[0] = u.lock[l].val \/ u.device[0] > u.lock[l].val
    BY <1>2 DEF InEffect
  <2>1. u.lock[l].val <= u.rsc.curVal /\ u.device[0] = u.rsc.curVal
    BY DEF RankedAt, Asking
  <2> QED BY <1>2, <2>1
<1>5. PICK c : c = T(lock, disturbed)
  OBVIOUS
<1>6. c.lock = lock /\ c.device = device /\ StrayFree(c, strays)
  BY <1>5, TFields DEF SetInv
<1>7. StrayFree(u, strays \cup stray)
  <2> SUFFICES ASSUME 0 \notin strays, 0 \notin stray, u.device = t.device, u.device[0] # NoVal,
                      lock[s].on /\ device[0] = lock[s].val => t.lock[s].on /\ t.lock[s].val = device[0]
               PROVE  Backed(u, 0)
    BY <1>2 DEF StrayFree, Backed
  <2>1. device = u.device
    BY DEF SlotOnly
  <2>2. PICK l \in Lock : lock[l].on /\ lock[l].val = device[0]
    BY <1>2, <1>6, <2>1 DEF StrayFree, Backed, Wanted
  <2>3. u.lock[l].on /\ u.lock[l].val = u.device[0]
    BY <2>1, <2>2 DEF SlotOnly
  <2> QED BY <1>2, <2>3 DEF Backed, Wanted
<1> QED BY <1>3, <1>4, <1>7 DEF SetTable

\* The slot a lock is given.
LEMMA SlotFacts ==
  ASSUME SetInv, NEW s \in Lock, NEW prio \in 0 .. SETTER_MODE_PRIORITY, NEW reset \in BOOLEAN, NEW pid \in PidsOf,
         NEW v \in SetterVal, NEW d \in SUBSET Lock, disturbed \subseteq d \cup {s},
         NEW t, t = T(SlotFor(s, prio, reset, pid, v), d)
  PROVE  /\ t \in CallTbl /\ Keyed(t) /\ t.rsc = rsc /\ t.disturbed = d /\ SlotOnly(s, t)
         /\ t.lock[s].on /\ t.lock[s].val = v /\ t.lock[s].render_pid = pid /\ t.lock[s].priority = prio
         /\ v # NoVal /\ \A l \in Lock : t.lock[l].on => t.lock[l].val # NoVal
<1>1. PICK x : x = SlotFor(s, prio, reset, pid, v)
  OBVIOUS
<1>2. t.lock = x /\ t.rsc = rsc /\ t.device = device /\ t.disturbed = d
  BY <1>1, TFields
<1>3. PICK c : c = T(lock, disturbed)
  OBVIOUS
<1>4. c.lock = lock /\ c.rsc = rsc /\ c.device = device
  BY <1>3, TFields
<1>5. /\ c \in CallTbl /\ lock \in [Lock -> LockRec] /\ rsc \in RscRec /\ device \in [Keys -> NodeVal]
  BY <1>3, <1>4 DEF SetInv, SetTable, CallTbl
<1>6. PICK b \in BOOLEAN : b = (lock[s].oneshotReset \/ reset \/ prio = SETTER_MODE_PRIORITY)
  OBVIOUS
<1>7. x = [lock EXCEPT ![s].on = TRUE, ![s].priority = prio, ![s].render_pid = pid, ![s].val = v,
                       ![s].oneshotReset = b]
  BY <1>1, <1>5, <1>6 DEF SlotFor, LockRec
<1>8. pid \in Pid \cup {NoVal} /\ v \in AskVal /\ v # NoVal
  BY SettersAssumption DEF PidsOf, AskVal, NoVal
<1>9. PICK q : q = [lock[s] EXCEPT !.on = TRUE, !.priority = prio, !.render_pid = pid, !.val = v, !.oneshotReset = b]
  OBVIOUS
<1>10. q \in LockRec
  BY <1>5, <1>8, <1>9 DEF LockRec
<1>11. q.on /\ q.val = v /\ q.render_pid = pid /\ q.priority = prio
  BY <1>5, <1>9 DEF LockRec
<1>12. x = [lock EXCEPT ![s] = q]
  BY <1>5, <1>7, <1>9
<1>13. x \in [Lock -> LockRec] /\ x[s] = q /\ \A l \in Lock \ {s} : x[l] = lock[l]
  BY <1>5, <1>10, <1>12
<1>14. t \in CallTbl
  BY <1>1, <1>5, <1>13 DEF T, CallTbl
<1>15. KeyOfLock(q) \in Keys
  <2>1. KeyOfLock(q) = KeyOf(pid, v)
    BY <1>11 DEF KeyOfLock
  <2> QED BY <2>1 DEF KeyOf, Keys, PidsOf, SetInv, SoundSetter
<1>16. Keyed(t)
  <2>1. \A l \in Lock : lock[l].val # NoVal => KeyOfLock(lock[l]) \in Keys
    BY <1>3, <1>4 DEF SetInv, SetTable, Keyed
  <2> QED BY <1>2, <1>13, <1>15, <2>1 DEF Keyed
<1>17. \A l \in Lock : t.lock[l].on => t.lock[l].val # NoVal
  <2>1. \A l \in Lock : lock[l].on => lock[l].val # NoVal
    BY <1>3, <1>4 DEF SetInv, SetTable
  <2> QED BY <1>2, <1>8, <1>11, <1>13, <2>1
<1>18. SlotOnly(s, t)
  BY <1>2, <1>13 DEF SlotOnly
<1> QED BY <1>2, <1>8, <1>11, <1>13, <1>14, <1>16, <1>17, <1>18

\* Locks that are the same have the same highest priority.
LEMMA SameHighest ==
  ASSUME NEW t, NEW u, LocksSame(t, u), NEW p, IsHighest(t, p)
  PROVE  IsHighest(u, p)
<1>1. Asking(u) = Asking(t) /\ Asking(t) \subseteq Lock
  BY SameKeys DEF Asking
<1>2. \A l \in Lock : u.lock[l].priority = t.lock[l].priority
  BY DEF LocksSame
<1> QED BY <1>1, <1>2 DEF IsHighest

\* The current table, and what the invariant says of it.
LEMMA NowFacts ==
  ASSUME SetInv, NEW c, c = T(lock, disturbed)
  PROVE  /\ SoundSetter(setter) /\ SetTable(c) /\ StrayFree(c, strays) /\ c \in CallTbl
         /\ c.lock = lock /\ c.rsc = rsc /\ c.device = device /\ c.disturbed = disturbed
         /\ disturbed \subseteq Lock /\ rsc.priority \in 0 .. SETTER_MODE_PRIORITY
         /\ \A l \in Lock : /\ lock[l] \in LockRec /\ lock[l].priority \in 0 .. SETTER_MODE_PRIORITY
                            /\ lock[l].on \in BOOLEAN /\ lock[l].val \in AskVal
                            /\ lock[l].on => lock[l].val # NoVal
<1>1. c.lock = lock /\ c.rsc = rsc /\ c.device = device /\ c.disturbed = disturbed
  BY TFields
<1>2. SoundSetter(setter) /\ SetTable(c) /\ StrayFree(c, strays) /\ c \in CallTbl
  BY DEF SetInv, SetTable
<1>3. disturbed \subseteq Lock /\ rsc \in RscRec /\ lock \in [Lock -> LockRec]
  BY <1>1, <1>2 DEF CallTbl
<1>4. rsc.priority \in 0 .. SETTER_MODE_PRIORITY
  BY <1>3 DEF RscRec
<1>5. \A l \in Lock : lock[l] \in LockRec
  BY <1>3
<1>6. \A l \in Lock : /\ lock[l].priority \in 0 .. SETTER_MODE_PRIORITY
                      /\ lock[l].on \in BOOLEAN /\ lock[l].val \in AskVal
  BY <1>5 DEF LockRec
<1>7. \A l \in Lock : lock[l].on => lock[l].val # NoVal
  BY <1>1, <1>2 DEF SetTable
<1> QED BY <1>1, <1>2, <1>3, <1>4, <1>5, <1>6, <1>7

\* perfLockAcq of a free slot.
LEMMA AcqKeeps ==
  ASSUME SetInv, NEW s \in Lock, NEW prio \in PrioritiesOf, NEW reset \in ResetsOf, NEW pid \in PidsOf,
         NEW v \in SetterVal, SetterLockAcq(s, prio, reset, pid, v)
  PROVE  SetInv'
<1>1. prio \in 0 .. SETTER_MODE_PRIORITY /\ reset \in BOOLEAN
  <2>1. prio \in 0 .. SETTER_MODE_PRIORITY
    BY SettersAssumption DEF PrioritiesOf, SETTER_MODE_PRIORITY, DEFAULT_PRIORITY
  <2>2. reset \in BOOLEAN
    BY Zenon DEF ResetsOf
  <2> QED BY <2>1, <2>2
<1>2. PICK c : c = T(lock, disturbed)
  OBVIOUS
<1>3. /\ SoundSetter(setter) /\ SetTable(c)
      /\ c.lock = lock /\ c.rsc = rsc /\ c.device = device
      /\ disturbed \subseteq Lock /\ rsc.priority \in 0 .. SETTER_MODE_PRIORITY
  BY <1>2, NowFacts
<1>4. PICK d : d = IF Hears(prio) THEN disturbed ELSE disturbed \cup {s}
  OBVIOUS
<1>5. d \in SUBSET Lock /\ disturbed \subseteq d \cup {s}
  BY <1>3, <1>4
<1>6. PICK t : t = T(SlotFor(s, prio, reset, pid, v), d)
  OBVIOUS
<1>7. /\ t \in CallTbl /\ Keyed(t) /\ t.rsc = rsc /\ t.disturbed = d /\ SlotOnly(s, t)
      /\ t.lock[s].on /\ t.lock[s].val = v /\ t.lock[s].priority = prio
      /\ v # NoVal /\ \A l \in Lock : t.lock[l].on => t.lock[l].val # NoVal
  BY <1>1, <1>5, <1>6, SlotFacts
<1>8. PICK u : u = EnableSetter(s, t)
  OBVIOUS
<1>9. Becomes(u, {}) /\ ~lock[s].on
  BY <1>4, <1>6, <1>8 DEF SetterLockAcq
<1>10. /\ s \in Asking(t) /\ s \notin Asking(c) /\ Asking(c) \subseteq Lock /\ Asking(t) \subseteq Lock
       /\ \A l \in Lock \ {s} : t.lock[l] = c.lock[l] /\ (l \in Asking(t) <=> l \in Asking(c))
  BY <1>3, <1>7, <1>9 DEF Asking, SlotOnly
<1>11. CASE setter.ranked
  <2>1. RankedAt(c)
    BY <1>3, <1>11 DEF SetTable
  <2>2. t.device[0] = t.rsc.curVal /\ \A l \in Asking(t) \ {s} : t.lock[l].val <= t.rsc.curVal
    BY <1>3, <1>7, <1>10, <2>1 DEF RankedAt, SlotOnly
  <2>3. u = EnableRanked(s, t)
    BY <1>8, <1>11 DEF EnableSetter
  <2>4. u \in CallTbl /\ u.lock = t.lock /\ RankedAt(u) /\ (Backed(u, 0) \/ u = t)
    BY <1>3, <1>7, <1>10, <1>11, <2>2, <2>3, EnableTop
  <2>5. \/ Backed(u, 0)
        \/ /\ u.device = t.device
           /\ 0 \notin {} /\ lock[s].on /\ device[0] = lock[s].val
                => t.lock[s].on /\ t.lock[s].val = device[0]
    BY <1>9, <2>4
  <2>6. SetTable(u) /\ StrayFree(u, strays \cup {})
    BY <1>7, <1>11, <2>4, <2>5, RankedStep
  <2> QED BY <1>3, <1>9, <2>6, Carry
<1>12. CASE ~setter.ranked
  <2>1. u = EnableOneshot(s, t)
    BY <1>8, <1>12 DEF EnableSetter
  <2>2. /\ u \in CallTbl /\ Moves(t, u)
        /\ IF t.lock[s].priority > t.rsc.priority THEN u.rsc = t.rsc
           ELSE /\ u.rsc.priority = t.lock[s].priority
                /\ u.device[KeyOfLock(t.lock[s])] = t.lock[s].val
    BY <1>3, <1>7, <2>1, EnableMoves
  <2>3. Hears(prio) <=> ~(prio > rsc.priority)
    BY <1>1, <1>3, <1>12 DEF Hears
  <2>4. s \notin u.disturbed => u.device[KeyOfLock(t.lock[s])] = t.lock[s].val
    <3>1. CASE Hears(prio)
      BY <1>7, <2>2, <2>3, <3>1
    <3>2. CASE ~Hears(prio)
      <4>1. s \in t.disturbed
        BY <1>4, <1>7, <3>2
      <4>2. Holds(t, u, s)
        BY <1>7, <2>2 DEF Moves
      <4> QED BY <4>1, <4>2 DEF Holds
    <3> QED BY <3>1, <3>2
  <2>5. IsHighest(u, u.rsc.priority)
    <3>1. IsHighest(c, rsc.priority)
      BY <1>3, <1>12 DEF SetTable
    <3>2. \A l \in Asking(c) : c.lock[l].priority \in Int /\ rsc.priority <= c.lock[l].priority
      BY <1>3, <3>1 DEF IsHighest, SetTable, CallTbl, LockRec, Asking
    <3>3. IsHighest(t, u.rsc.priority)
      <4>1. CASE Hears(prio)
        <5>1. u.rsc.priority = prio /\ prio <= rsc.priority
          BY <1>1, <1>3, <1>7, <2>2, <2>3, <4>1
        <5> QED BY <1>1, <1>3, <1>7, <1>10, <3>2, <5>1 DEF IsHighest
      <4>2. CASE ~Hears(prio)
        <5>1. u.rsc.priority = rsc.priority /\ rsc.priority <= prio
          BY <1>1, <1>3, <1>7, <2>2, <2>3, <4>2
        <5>2. \A l \in Asking(c) : l \in Asking(t) /\ t.lock[l] = c.lock[l]
          BY <1>10
        <5>3. \A l \in Asking(t) : rsc.priority <= t.lock[l].priority
          BY <1>7, <1>10, <3>2, <5>1
        <5> QED BY <3>1, <5>1, <5>2, <5>3 DEF IsHighest
      <4> QED BY <4>1, <4>2
    <3> QED BY <2>2, <3>3, SameHighest DEF Moves
  <2>6. SetTable(u) /\ StrayFree(u, strays \cup {})
    BY <1>7, <1>9, <1>12, <2>2, <2>4, <2>5, OneshotStep
  <2> QED BY <1>3, <1>9, <2>6, Carry
<1> QED BY <1>11, <1>12

\* A lock acquired again and not marked: it was in effect and asks for the same, or it is set.
LEMMA AgainEffective ==
  ASSUME SetInv, ~setter.ranked, NEW s \in Lock, lock[s].on, NEW pid, NEW v, NEW modified \in BOOLEAN,
         NEW t, SlotOnly(s, t), t.disturbed = DisturbedAgain(s, pid, v, modified),
         t.lock[s].val = v, t.lock[s].render_pid = pid, v # NoVal, NEW u, Moves(t, u),
         Hears(lock[s].priority) /\ (modified => v # lock[s].val) => u.device[KeyOfLock(t.lock[s])] = v
  PROVE  s \notin u.disturbed => u.device[KeyOfLock(t.lock[s])] = t.lock[s].val
<1>1. SUFFICES ASSUME s \notin u.disturbed, ~(Hears(lock[s].priority) /\ (modified => v # lock[s].val))
               PROVE  u.device[KeyOfLock(t.lock[s])] = v
  OBVIOUS
<1>2. Holds(t, u, s)
  BY DEF Moves
<1>3. CASE pid = lock[s].render_pid /\ v = lock[s].val
  <2>1. t.disturbed = disturbed /\ KeyOfLock(t.lock[s]) = KeyOfLock(lock[s]) /\ t.device = device
    BY <1>3 DEF DisturbedAgain, KeyOfLock, SlotOnly
  <2>2. PICK c : c = T(lock, disturbed)
    OBVIOUS
  <2>3. SetTable(c) /\ c.lock = lock /\ c.device = device /\ c.disturbed = disturbed
    BY <2>2, NowFacts
  <2>4. s \notin disturbed => device[KeyOfLock(lock[s])] = lock[s].val
    BY <1>3, <2>3 DEF SetTable, InEffect
  <2> QED BY <1>1, <1>2, <1>3, <2>1, <2>4 DEF Holds
<1>4. CASE ~(pid = lock[s].render_pid /\ v = lock[s].val)
  <2>1. s \in t.disturbed
    BY <1>1, <1>4 DEF DisturbedAgain
  <2> QED BY <1>1, <1>2, <2>1 DEF Holds
<1> QED BY <1>3, <1>4

\* A lock acquired again for the same value at the same key still wants what is there.
LEMMA SameBacked ==
  ASSUME NEW s \in Lock, NEW t, NEW u, Moves(t, u), setter.unset = "clear", t.lock[s].on,
         KeyOfLock(t.lock[s]) \in Keys, t.device[KeyOfLock(t.lock[s])] = t.lock[s].val
  PROVE  Backed(u, KeyOfLock(t.lock[s]))
<1>1. PICK k \in Keys : k = KeyOfLock(t.lock[s])
  OBVIOUS
<1>2. LocksSame(t, u) /\ (u.device[k] = t.device[k] \/ Backed(u, k))
  BY DEF Moves
<1>3. Backed(t, k)
  BY <1>1 DEF Backed, Wanted
<1> QED BY <1>1, <1>2, <1>3, SameKeys

\* perfLockAcq of a lock that is on.
LEMMA ReAcqKeeps ==
  ASSUME SetInv, NEW s \in Lock, NEW pid \in PidsOf, NEW v \in SetterVal, NEW modified \in BOOLEAN,
         SetterLockReAcq(s, pid, v, modified)
  PROVE  SetInv'
<1>1. PICK c : c = T(lock, disturbed)
  OBVIOUS
<1>2. /\ SoundSetter(setter) /\ SetTable(c) /\ c \in CallTbl
      /\ c.lock = lock /\ c.rsc = rsc /\ c.device = device
      /\ disturbed \subseteq Lock /\ rsc.priority \in 0 .. SETTER_MODE_PRIORITY
      /\ lock[s].priority \in 0 .. SETTER_MODE_PRIORITY /\ lock[s].val \in AskVal
      /\ lock[s].on => lock[s].val # NoVal
  BY <1>1, NowFacts
<1>3. PICK d : d = DisturbedAgain(s, pid, v, modified)
  OBVIOUS
<1>4. d \in SUBSET Lock /\ disturbed \subseteq d \cup {s}
  BY <1>2, <1>3 DEF DisturbedAgain
<1>5. PICK prio \in 0 .. SETTER_MODE_PRIORITY, prev \in SetterVal : prio = lock[s].priority /\ prev = lock[s].val
  BY <1>2 DEF SetterLockReAcq, AskVal
<1>a. PICK reset \in BOOLEAN : reset = FALSE
  OBVIOUS
<1>6. PICK t : t = T(SlotFor(s, prio, reset, pid, v), d)
  OBVIOUS
<1>7. /\ t \in CallTbl /\ Keyed(t) /\ t.rsc = rsc /\ t.disturbed = d /\ SlotOnly(s, t)
      /\ t.lock[s].on /\ t.lock[s].val = v /\ t.lock[s].render_pid = pid /\ t.lock[s].priority = prio
      /\ v # NoVal /\ \A l \in Lock : t.lock[l].on => t.lock[l].val # NoVal
  BY <1>4, <1>6, SlotFacts
<1>8. PICK u : u = IF modified THEN UpdateSetter(s, prev, t) ELSE EnableSetter(s, t)
  OBVIOUS
<1>9. PICK stray : stray = StrayAgain(s, pid, v, modified)
  OBVIOUS
<1>10. Becomes(u, stray) /\ lock[s].on
  BY <1>a, <1>3, <1>5, <1>6, <1>8, <1>9 DEF SetterLockReAcq
<1>11. /\ s \in Asking(t) /\ s \in Asking(c) /\ Asking(c) \subseteq Lock /\ Asking(t) = Asking(c)
       /\ \A l \in Lock \ {s} : t.lock[l] = c.lock[l]
       /\ t.device = device
  BY <1>2, <1>7, <1>10 DEF Asking, SlotOnly
<1>12. CASE setter.ranked
  <2>1. RankedAt(c)
    BY <1>2, <1>12 DEF SetTable
  <2>2. t.device[0] = t.rsc.curVal /\ \A l \in Asking(t) \ {s} : t.lock[l].val <= t.rsc.curVal
    BY <1>2, <1>7, <1>11, <2>1 DEF RankedAt
  <2>3. /\ u \in CallTbl /\ u.lock = t.lock /\ RankedAt(u)
        /\ Backed(u, 0) \/ (~modified /\ u = t /\ v <= rsc.curVal)
    <3>1. CASE modified
      <4>1. u = SearchRanked(t)
        BY <1>8, <1>12, <3>1 DEF UpdateSetter
      <4> QED BY <1>2, <1>7, <1>12, <2>2, <4>1, SearchTop
    <3>2. CASE ~modified
      <4>1. u = EnableRanked(s, t)
        BY <1>8, <1>12, <3>2 DEF EnableSetter
      <4>2. /\ u \in CallTbl /\ u.lock = t.lock /\ RankedAt(u)
            /\ Backed(u, 0) \/ (u = t /\ t.lock[s].val <= t.rsc.curVal)
        BY <1>2, <1>7, <1>11, <1>12, <2>2, <4>1, EnableTop
      <4> QED BY <1>7, <3>2, <4>2
    <3> QED BY <3>1, <3>2
  <2>4. \/ Backed(u, 0)
        \/ /\ u.device = t.device
           /\ 0 \notin stray /\ lock[s].on /\ device[0] = lock[s].val
                => t.lock[s].on /\ t.lock[s].val = device[0]
    <3> SUFFICES ASSUME ~modified, u = t, v <= rsc.curVal, 0 \notin stray, device[0] = lock[s].val
                 PROVE  v = device[0]
      BY <1>7, <2>3
    <3>1. KeyOfLock(lock[s]) = 0
      BY <1>2, <1>12, RankedFacts
    <3>2. ~(v < lock[s].val)
      BY <1>9, <1>12, <3>1 DEF StrayAgain
    <3>3. v \in Int /\ lock[s].val \in Int /\ rsc.curVal = device[0]
      BY <1>5, <1>7, <1>11, <2>2, ValInt
    <3> QED BY <3>2, <3>3
  <2>5. SetTable(u) /\ StrayFree(u, strays \cup stray)
    BY <1>7, <1>12, <2>3, <2>4, RankedStep
  <2> QED BY <1>2, <1>10, <2>5, Carry
<1>13. CASE ~setter.ranked
  <2>1. Hears(prio) <=> ~(prio > rsc.priority)
    BY <1>2, <1>13 DEF Hears
  <2>2. IsHighest(c, rsc.priority)
    BY <1>2, <1>13 DEF SetTable
  <2>3. \A l \in Lock : t.lock[l].priority = c.lock[l].priority
    BY <1>2, <1>5, <1>7, <1>11
  <2>4. IsHighest(t, rsc.priority)
    BY <1>11, <2>2, <2>3 DEF IsHighest
  <2>5. KeyOf(pid, prev) \in Keys /\ KeyOfLock(lock[s]) \in Keys /\ KeyOfLock(t.lock[s]) = KeyOf(pid, v)
    <3>1. KeyOfLock(lock[s]) \in Keys /\ KeyOfLock(t.lock[s]) \in Keys
      BY <1>2, <1>5, <1>7, <1>10 DEF SetTable, Keyed
    <3>2. KeyOf(pid, prev) \in {KeyOfLock(t.lock[s]), KeyOfLock(lock[s])}
      BY <1>2, <1>5, <1>7 DEF KeyOf, KeyOfLock, SoundSetter
    <3> QED BY <1>7, <3>1, <3>2 DEF KeyOfLock
  <2>6. /\ u \in CallTbl /\ Moves(t, u) /\ u.rsc.priority = rsc.priority
        /\ Hears(prio) /\ (modified => v # prev) => u.device[KeyOfLock(t.lock[s])] = v
        /\ Hears(prio) /\ modified /\ v # prev /\ setter.unset = "clear" => Backed(u, KeyOf(pid, prev))
    <3>1. CASE modified
      <4>1. u = UpdateOneshot(s, prev, t)
        BY <1>8, <1>13, <3>1 DEF UpdateSetter
      <4>2. /\ u \in CallTbl /\ Moves(t, u) /\ u.rsc.priority = t.rsc.priority
            /\ ~(t.lock[s].priority > t.rsc.priority) /\ prev # t.lock[s].val =>
                 /\ u.device[KeyOfLock(t.lock[s])] = t.lock[s].val
                 /\ setter.unset = "clear" => Backed(u, KeyOf(t.lock[s].render_pid, prev))
        <5>1. IsHighest(t, t.rsc.priority) /\ KeyOf(t.lock[s].render_pid, prev) \in Keys /\ t.lock[s].val # NoVal
          BY <1>7, <2>4, <2>5
        <5> QED BY <1>2, <1>7, <4>1, <5>1, UpdateMoves
      <4> QED BY <1>7, <2>1, <3>1, <4>2
    <3>2. CASE ~modified
      <4>1. u = EnableOneshot(s, t)
        BY <1>8, <1>13, <3>2 DEF EnableSetter
      <4>2. /\ u \in CallTbl /\ Moves(t, u)
            /\ IF t.lock[s].priority > t.rsc.priority THEN u.rsc = t.rsc
               ELSE /\ u.rsc.priority = t.lock[s].priority
                    /\ u.device[KeyOfLock(t.lock[s])] = t.lock[s].val
        BY <1>2, <1>7, <4>1, EnableMoves
      <4>3. rsc.priority <= prio
        BY <1>7, <1>11, <2>4 DEF IsHighest
      <4>4. u.rsc.priority = rsc.priority
        BY <1>2, <1>7, <4>2, <4>3
      <4> QED BY <1>7, <2>1, <3>2, <4>2, <4>4
    <3> QED BY <3>1, <3>2
  <2>7. IsHighest(u, u.rsc.priority)
    BY <2>4, <2>6, SameHighest DEF Moves
  <2>8. s \notin u.disturbed => u.device[KeyOfLock(t.lock[s])] = t.lock[s].val
    BY <1>3, <1>5, <1>7, <1>10, <1>13, <2>6, AgainEffective
  <2>9. ASSUME setter.unset = "clear", KeyOfLock(lock[s]) \notin stray,
               device[KeyOfLock(lock[s])] = lock[s].val
        PROVE  Backed(u, KeyOfLock(lock[s]))
    <3>1. /\ KeyOfLock(lock[s]) = KeyOf(pid, prev) /\ (Hears(prio) \/ v = prev)
          /\ ~modified => KeyOf(pid, prev) = KeyOf(pid, v)
      BY <1>5, <1>9, <2>9 DEF StrayAgain
    <3>2. CASE v = prev
      <4>1. KeyOfLock(t.lock[s]) = KeyOfLock(lock[s]) /\ t.device[KeyOfLock(t.lock[s])] = t.lock[s].val
        BY <1>5, <1>7, <1>11, <2>5, <2>9, <3>1, <3>2
      <4> QED BY <1>7, <2>5, <2>6, <2>9, <4>1, SameBacked
    <3>3. CASE v # prev /\ modified
      BY <2>6, <2>9, <3>1, <3>3
    <3>4. CASE v # prev /\ ~modified
      <4>1. KeyOfLock(t.lock[s]) = KeyOfLock(lock[s]) /\ u.device[KeyOfLock(t.lock[s])] = v
        BY <2>5, <2>6, <3>1, <3>4
      <4>2. LocksSame(t, u)
        BY <2>6 DEF Moves
      <4>3. u.lock[s].on /\ KeyOfLock(u.lock[s]) = KeyOfLock(t.lock[s]) /\ u.lock[s].val = v
        BY <1>7, <4>2, SameKeys DEF LocksSame
      <4> QED BY <4>1, <4>3 DEF Backed, Wanted
    <3> QED BY <3>2, <3>3, <3>4
  <2>10. SetTable(u) /\ StrayFree(u, strays \cup stray)
    BY <1>7, <1>10, <1>13, <2>6, <2>7, <2>8, <2>9, OneshotStep
  <2> QED BY <1>2, <1>10, <2>10, Carry
<1> QED BY <1>12, <1>13

\* perfLockRel.
LEMMA RelKeeps ==
  ASSUME SetInv, NEW s \in Lock, SetterLockRel(s)
  PROVE  SetInv'
<1>1. PICK c : c = T(lock, disturbed)
  OBVIOUS
<1>2. /\ SoundSetter(setter) /\ SetTable(c) /\ c \in CallTbl
      /\ c.lock = lock /\ c.rsc = rsc /\ c.device = device /\ c.disturbed = disturbed
      /\ rsc.priority \in 0 .. SETTER_MODE_PRIORITY /\ lock[s].priority \in 0 .. SETTER_MODE_PRIORITY
      /\ lock[s].on => lock[s].val # NoVal
  BY <1>1, NowFacts
<1>3. lock \in [Lock -> LockRec] /\ rsc \in RscRec /\ device \in [Keys -> NodeVal] /\ disturbed \in SUBSET Lock
  BY <1>2 DEF CallTbl
<1>4. PICK off : off = [lock EXCEPT ![s].on = FALSE]
  OBVIOUS
<1>5. /\ off \in [Lock -> LockRec] /\ \A l \in Lock \ {s} : off[l] = lock[l]
      /\ off[s].on = FALSE /\ off[s].val = lock[s].val /\ off[s].render_pid = lock[s].render_pid
      /\ off[s].priority = lock[s].priority
  BY <1>3, <1>4 DEF LockRec
<1>6. PICK t : t = T(off, disturbed)
  OBVIOUS
<1>7. t.lock = off /\ t.rsc = rsc /\ t.device = device /\ t.disturbed = disturbed
  BY <1>6, TFields
<1>8. t \in CallTbl
  BY <1>3, <1>5, <1>6 DEF T, CallTbl
<1>9. KeyOfLock(t.lock[s]) = KeyOfLock(lock[s])
  BY <1>5, <1>7 DEF KeyOfLock
<1>10. SlotOnly(s, t)
  BY <1>5, <1>7 DEF SlotOnly
<1>11. Keyed(t)
  <2>1. \A l \in Lock : lock[l].val # NoVal => KeyOfLock(lock[l]) \in Keys
    BY <1>2 DEF SetTable, Keyed
  <2> QED BY <1>5, <1>7, <1>9, <2>1 DEF Keyed
<1>12. \A l \in Lock : t.lock[l].on => t.lock[l].val # NoVal
  <2>1. \A l \in Lock : lock[l].on => lock[l].val # NoVal
    BY <1>2 DEF SetTable
  <2> QED BY <1>5, <1>7, <2>1
<1>13. PICK u : u = DisableSetter(s, t)
  OBVIOUS
<1>14. PICK w : w = [u EXCEPT !.lock = [u.lock EXCEPT ![s] =
                      [@ EXCEPT !.priority = DEFAULT_PRIORITY, !.oneshotReset = FALSE,
                                !.render_pid = NoVal, !.val = NoVal]]]
  OBVIOUS
<1>15. PICK stray : stray = IF Hears(lock[s].priority) THEN {} ELSE {KeyOfLock(lock[s])}
  OBVIOUS
<1>16. Becomes(w, stray) /\ lock[s].on
  BY <1>4, <1>6, <1>13, <1>14, <1>15 DEF SetterLockRel
<1>17. /\ Asking(t) = Asking(c) \ {s} /\ Asking(c) \subseteq Lock
       /\ \A l \in Asking(t) : t.lock[l] = c.lock[l]
  BY <1>2, <1>5, <1>7 DEF Asking
<1>18. t.lock[s].val # NoVal /\ ~t.lock[s].on
  BY <1>2, <1>5, <1>7, <1>16
<1>19. ASSUME SetTable(u), LocksSame(t, u), StrayFree(u, strays \cup stray)
       PROVE  SetTable(w) /\ StrayFree(w, strays \cup stray)
  <2>1. PICK q : q = [u.lock[s] EXCEPT !.priority = DEFAULT_PRIORITY, !.oneshotReset = FALSE,
                                       !.render_pid = NoVal, !.val = NoVal]
    OBVIOUS
  <2>2. u \in CallTbl /\ u.lock \in [Lock -> LockRec] /\ u.lock[s] \in LockRec /\ u.lock[s].on = FALSE
    BY <1>5, <1>7, <1>19 DEF SetTable, CallTbl, LocksSame
  <2>3. q \in LockRec
    <3>1. DEFAULT_PRIORITY \in 0 .. SETTER_MODE_PRIORITY /\ NoVal \in AskVal /\ NoVal \in Pid \cup {NoVal}
      BY DEF AskVal, DEFAULT_PRIORITY, SETTER_MODE_PRIORITY
    <3> QED BY <2>1, <2>2, <3>1 DEF LockRec
  <2>4. q.on = FALSE /\ q.val = NoVal
    BY <2>1, <2>2 DEF LockRec
  <2>5. w = [u EXCEPT !.lock = [u.lock EXCEPT ![s] = q]]
    BY <1>14, <2>1, <2>2
  <2>6. /\ w \in CallTbl /\ w.rsc = u.rsc /\ w.device = u.device /\ w.disturbed = u.disturbed
        /\ w.lock = [u.lock EXCEPT ![s] = q]
    BY <2>2, <2>3, <2>5 DEF CallTbl
  <2>7. w.lock[s] = q /\ \A l \in Lock \ {s} : w.lock[l] = u.lock[l]
    BY <2>2, <2>6
  <2>8. \A k : Backed(u, k) => Backed(w, k)
    BY <2>2, <2>6, <2>7 DEF Backed, Wanted
  <2>9. Asking(w) = Asking(u) /\ \A l \in Asking(w) : w.lock[l] = u.lock[l]
    BY <2>2, <2>4, <2>7 DEF Asking
  <2>10. Keyed(w) /\ \A l \in Lock : w.lock[l].on => w.lock[l].val # NoVal
    BY <1>19, <2>4, <2>7 DEF SetTable, Keyed
  <2>11. InEffect(w)
    BY <1>19, <2>4, <2>6, <2>7 DEF SetTable, InEffect
  <2>12. (setter.ranked => RankedAt(w)) /\ (~setter.ranked => IsHighest(w, w.rsc.priority))
    BY <1>19, <2>6, <2>9 DEF SetTable, RankedAt, IsHighest
  <2>13. StrayFree(w, strays \cup stray)
    BY <1>19, <2>8 DEF StrayFree
  <2> QED BY <2>6, <2>10, <2>11, <2>12, <2>13 DEF SetTable
<1>20. CASE setter.ranked
  <2>1. RankedAt(c)
    BY <1>2, <1>20 DEF SetTable
  <2>2. RankedAt(t)
    BY <1>2, <1>7, <1>17, <2>1 DEF RankedAt
  <2>3. u = DisableRanked(s, t)
    BY <1>13, <1>20 DEF DisableSetter
  <2>4. /\ u \in CallTbl /\ u.lock = t.lock /\ RankedAt(u)
        /\ Backed(u, 0) \/ (u = t /\ t.lock[s].val # t.rsc.curVal)
    BY <1>2, <1>8, <1>18, <1>20, <2>2, <2>3, DisableTop
  <2>5. \/ Backed(u, 0)
        \/ /\ u.device = t.device
           /\ 0 \notin stray /\ lock[s].on /\ device[0] = lock[s].val
                => t.lock[s].on /\ t.lock[s].val = device[0]
    BY <1>5, <1>7, <2>2, <2>4 DEF RankedAt
  <2>6. SetTable(u) /\ StrayFree(u, strays \cup stray)
    BY <1>8, <1>10, <1>12, <1>20, <2>4, <2>5, RankedStep
  <2>7. LocksSame(t, u)
    BY <2>4 DEF LocksSame
  <2> QED BY <1>2, <1>16, <1>19, <2>6, <2>7, Carry
<1>21. CASE ~setter.ranked
  <2>1. u = DisableOneshot(s, t)
    BY <1>13, <1>21 DEF DisableSetter
  <2>2. /\ u \in CallTbl /\ Moves(t, u)
        /\ IF t.lock[s].priority > t.rsc.priority THEN u.rsc = t.rsc
           ELSE /\ u.rsc.priority = HighestPriority(t)
                /\ setter.unset = "clear" => Backed(u, KeyOfLock(t.lock[s]))
    BY <1>2, <1>8, <1>11, <1>18, <2>1, DisableMoves
  <2>3. Hears(lock[s].priority) <=> ~(t.lock[s].priority > t.rsc.priority)
    BY <1>2, <1>5, <1>7, <1>21 DEF Hears
  <2>4. IsHighest(t, u.rsc.priority)
    <3>1. CASE Hears(lock[s].priority)
      BY <1>8, <2>2, <2>3, <3>1, HighestFacts
    <3>2. CASE ~Hears(lock[s].priority)
      <4>1. IsHighest(c, rsc.priority) /\ u.rsc = rsc
        BY <1>2, <1>7, <1>21, <2>2, <2>3, <3>2 DEF SetTable
      <4>2. rsc.priority # lock[s].priority
        BY <1>2, <1>5, <1>7, <2>3, <3>2
      <4> QED BY <1>2, <1>17, <4>1, <4>2 DEF IsHighest
    <3> QED BY <3>1, <3>2
  <2>5. IsHighest(u, u.rsc.priority) /\ LocksSame(t, u)
    BY <2>2, <2>4, SameHighest DEF Moves
  <2>6. KeyOfLock(lock[s]) \notin stray /\ setter.unset = "clear" => Backed(u, KeyOfLock(lock[s]))
    BY <1>9, <1>15, <2>2, <2>3
  <2>7. SetTable(u) /\ StrayFree(u, strays \cup stray)
    BY <1>8, <1>10, <1>11, <1>12, <1>18, <1>21, <2>2, <2>5, <2>6, OneshotStep
  <2> QED BY <1>2, <1>16, <1>19, <2>5, <2>7, Carry
<1> QED BY <1>20, <1>21

\* The invariant is inductive.
LEMMA SetInvStep == SetInv /\ [SettersNext]_setterVars => SetInv'
<1> SUFFICES ASSUME SetInv, [SettersNext]_setterVars PROVE SetInv'
  OBVIOUS
<1>1. CASE UNCHANGED setterVars
  BY <1>1 DEF setterVars, SetInv, SetTable, SoundSetter, T, CallTbl, Keyed, KeyOfLock, KeyOf, Keys, RankedAt,
              IsHighest, Asking, StrayFree, Backed, Wanted, InEffect
<1>2. ASSUME NEW s \in Lock, NEW pid \in PidsOf, NEW v \in SetterVal, NEW prio \in PrioritiesOf,
             NEW reset \in ResetsOf, SetterLockAcq(s, prio, reset, pid, v)
      PROVE  SetInv'
  BY <1>2, AcqKeeps
<1>3. ASSUME NEW s \in Lock, NEW pid \in PidsOf, NEW v \in SetterVal, NEW modified \in BOOLEAN,
             SetterLockReAcq(s, pid, v, modified)
      PROVE  SetInv'
  BY <1>3, ReAcqKeeps
<1>4. ASSUME NEW s \in Lock, SetterLockRel(s) PROVE SetInv'
  BY <1>4, RelKeeps
<1> QED BY <1>1, <1>2, <1>3, <1>4 DEF SettersNext

\* Whatever locks come, are acquired again for another process or value, by either
\* branch of perfLockAcq, and go: a value at the kernel belongs to a lock that is on
\* and asks for it there.  The exceptions are those NoStray names: what a lock leaves
\* when it is passed over, goes to another process, or is enabled again with no unset.
\* set_fpsgo_render_pid is switched before every call.
THEOREM NothingStrays == SettersSpec => []NoStray
<1>1. SettersInit => SetInv
  BY SetInvInit
<1>2. SetInv /\ [SettersNext]_setterVars => SetInv'
  BY SetInvStep
<1>3. SetInv => NoStray
  BY SetInvSays
<1> QED BY <1>1, <1>2, <1>3, PTL DEF SettersSpec

\* A lock that is on has its value at the kernel under the key of its own process,
\* from the call of perfScnEnable or perfScnUpdate that sets it until a call leaves
\* another value there; one that is heard is set when it is acquired, and when it is
\* acquired again with another value.
THEOREM LocksAreEffective == SettersSpec => []Effective
<1>1. SettersInit => SetInv
  BY SetInvInit
<1>2. SetInv /\ [SettersNext]_setterVars => SetInv'
  BY SetInvStep
<1>3. SetInv => Effective
  BY SetInvSays
<1> QED BY <1>1, <1>2, <1>3, PTL DEF SettersSpec

-----------------------------------------------------------------------------
(***************************************************************************)
(* Types.                                                                  *)
(***************************************************************************)
\* The thermal policies: numbers of locks, what was refused, and what the core was told.
ThermTypes ==
  /\ held \in [Policy -> 0 .. REF_MAX] /\ odd \subseteq Policy /\ lost \in BOOLEAN
  /\ {active_policy, core} \subseteq Policy \cup {DefaultPolicy, NotYet}

\* The highest policy is one of the policies, or the default.
LEMMA HighestIsPolicy ==
  ASSUME ThermInv
  PROVE  max_id \in Policy \cup {DefaultPolicy}
<1>1. PICK s : s = [list |-> policy_list, max_id |-> max_id]
  OBVIOUS
<1>2. GoodState(s) /\ s.list = policy_list /\ s.max_id = max_id
  BY <1>1 DEF ThermInv, StatusInv
<1>3. ListOK(policy_list) /\ max_id = get_next_policy(policy_list)
  BY <1>2 DEF GoodState
<1>4. Highest(Ids(policy_list), max_id)
  BY <1>3, NextIsHighest
<1>5. Ids(policy_list) \subseteq Policy
  <2>1. \A i \in DOMAIN policy_list : policy_list[i] \in Item
    BY <1>3 DEF ListOK
  <2> QED BY <2>1 DEF Ids, Item
<1> QED BY <1>4, <1>5 DEF Highest

\* Every step of the thermal policies keeps these types.
LEMMA ThermTypesKept == ThermInv /\ ThermTypes /\ [TNext]_tVars => ThermTypes'
<1> SUFFICES ASSUME ThermInv, ThermTypes, [TNext]_tVars PROVE ThermTypes'
  OBVIOUS
<1>1. held \in [Policy -> 0 .. REF_MAX] /\ REF_MAX \in Nat
  BY ThermalAssumption DEF ThermTypes
<1>2. ASSUME NEW id \in Policy, load_thm_api_start(id) PROVE ThermTypes'
  <2>1. held[id] < REF_MAX /\ held' = [held EXCEPT ![id] = @ + 1] /\ UNCHANGED <<active_policy, core, lost>>
    BY <1>2 DEF load_thm_api_start
  <2>2. odd' \subseteq odd \cup {id}
    BY <1>2 DEF load_thm_api_start
  <2>3. held' \in [Policy -> 0 .. REF_MAX]
    BY <1>1, <2>1
  <2> QED BY <2>1, <2>2, <2>3 DEF ThermTypes
<1>3. ASSUME NEW id \in Policy, load_thm_api_stop(id) PROVE ThermTypes'
  <2>1. held[id] > 0 /\ held' = [held EXCEPT ![id] = @ - 1] /\ UNCHANGED <<active_policy, core, odd, lost>>
    BY <1>3 DEF load_thm_api_stop
  <2>2. held' \in [Policy -> 0 .. REF_MAX]
    BY <1>1, <2>1
  <2> QED BY <2>1, <2>2 DEF ThermTypes
<1>4. CASE save_policy_prop
  BY <1>4 DEF save_policy_prop, ThermTypes
<1>5. CASE change_policy
  <2>1. active_policy' \in {active_policy, max_id} /\ core' \in {core, max_id} /\ UNCHANGED <<held, odd>>
    BY <1>5 DEF change_policy
  <2>2. lost' \in {lost, TRUE, FALSE}
    BY <1>5 DEF change_policy
  <2>3. lost' \in BOOLEAN
    BY <2>2 DEF ThermTypes
  <2> QED BY <2>1, <2>3, HighestIsPolicy DEF ThermTypes
<1>6. CASE reset_thermal_policy
  <2>1. held' = [id \in Policy |-> 0] /\ odd' = odd \cup SavedIds(prop) /\ active_policy' = NotYet /\ UNCHANGED <<core, lost>>
    BY <1>6 DEF reset_thermal_policy, SavedIds
  <2>2. SavedIds(prop) \subseteq Policy
    <3>1. \A c \in Codes : decode_policy_prop(c).id \in Policy
      <4> SUFFICES ASSUME NEW c \in Codes PROVE decode_policy_prop(c).id \in Policy
        OBVIOUS
      <4>1. decode_policy_prop(c) \in Item
        BY DecodeFacts
      <4>2. \A x \in Item : x.id \in Policy
        BY DEF Item
      <4> QED BY <4>1, <4>2
    <3>2. ASSUME NEW k \in 1 .. PROP_NUM PROVE Range(prop[k]) \subseteq Codes
      <4>1. prop[k] \in Seq(Codes)
        BY DEF ThermInv, PropsOK
      <4> QED BY <4>1 DEF Range
    <3>3. DOMAIN prop = 1 .. PROP_NUM
      BY DEF ThermInv, PropsOK
    <3>4. \A x \in SavedIds(prop) : \E k \in DOMAIN prop : \E c \in Range(prop[k]) : x = decode_policy_prop(c).id
      BY Zenon DEF SavedIds
    <3>5. ASSUME NEW x \in SavedIds(prop) PROVE x \in Policy
      <4>1. PICK k \in DOMAIN prop : \E c \in Range(prop[k]) : x = decode_policy_prop(c).id
        BY <3>4
      <4>2. PICK c \in Range(prop[k]) : x = decode_policy_prop(c).id
        BY <4>1
      <4>3. c \in Codes
        BY <3>2, <3>3
      <4> QED BY <3>1, <4>2, <4>3, Zenon
    <3> QED BY <3>5
  <2>3. held' \in [Policy -> 0 .. REF_MAX]
    BY <1>1, <2>1
  <2> QED BY <2>1, <2>2, <2>3 DEF ThermTypes
<1>7. CASE CoreRestart
  BY <1>7 DEF CoreRestart, ThermTypes
<1>8. CASE UNCHANGED tVars
  BY <1>8 DEF tVars, ThermTypes
<1> QED BY <1>2, <1>3, <1>4, <1>5, <1>6, <1>7, <1>8 DEF TNext

\* The list has each policy once, with a count that encode_policy_prop can write, and fits
\* the properties (utility_thermal.cpp).
LEMMA ThermalIsTyped == TSpec => []ThermalTypeOK
<1>1. TInit => ThermTypes
  <2> SUFFICES ASSUME TInit PROVE ThermTypes
    OBVIOUS
  <2>1. held \in [Policy -> 0 .. REF_MAX] /\ odd \subseteq Policy /\ active_policy = NotYet /\ core = DefaultPolicy
    BY ThermalAssumption DEF TInit
  <2>2. lost \in BOOLEAN
    BY Zenon DEF TInit
  <2> QED BY <2>1, <2>2 DEF ThermTypes
<1>2. ThermInv /\ ThermTypes => ThermalTypeOK
  <2> SUFFICES ASSUME ThermInv, ThermTypes PROVE ThermalTypeOK
    OBVIOUS
  <2>1. ListOK(policy_list) /\ Len(policy_list) <= PROP_NUM * ITEM_MAX
    BY DEF ThermInv, StatusInv, GoodState, Room
  <2>2. \A i \in DOMAIN policy_list : policy_list[i].id \in Policy /\ policy_list[i].refcnt \in 1 .. REF_MAX
    <3>1. \A i \in DOMAIN policy_list : policy_list[i] \in Item
      BY <2>1 DEF ListOK
    <3> QED BY <3>1 DEF Item
  <2>3. Cardinality(Ids(policy_list)) = Len(policy_list)
    <3>1. PICK n \in Nat : n = Len(policy_list) /\ DOMAIN policy_list = 1 .. n
      BY <2>1 DEF ListOK
    <3>2. PICK f : f = [i \in 1 .. n |-> policy_list[i].id]
      OBVIOUS
    <3>3. \A x : x \in Ids(policy_list) <=> \E i \in 1 .. n : x = f[i]
      BY <3>1, <3>2 DEF Ids
    <3>4. \A i, j \in 1 .. n : f[i] = f[j] => i = j
      BY <2>1, <3>1, <3>2 DEF ListOK, Distinct
    <3>5. f \in [1 .. n -> Ids(policy_list)]
      BY <3>2, <3>3
    <3>6. f \in Bijection(1 .. n, Ids(policy_list))
      <4>1. f \in Injection(1 .. n, Ids(policy_list))
        BY <3>4, <3>5 DEF Injection, IsInjective
      <4>2. f \in Surjection(1 .. n, Ids(policy_list))
        BY <3>3, <3>5 DEF Surjection
      <4> QED BY <4>1, <4>2 DEF Bijection
    <3>7. ExistsBijection(1 .. n, Ids(policy_list))
      BY <3>6 DEF ExistsBijection
    <3> QED BY <3>1, <3>7, FS_CountingElements
  <2>4. {max_id, active_policy, core} \subseteq Policy \cup {DefaultPolicy, NotYet}
    BY HighestIsPolicy DEF ThermTypes
  <2> QED BY <2>1, <2>2, <2>3, <2>4 DEF ThermInv, ThermTypes, ThermalTypeOK
<1> QED BY <1>1, <1>2, ThermTypesKept, ThermAlways, PTL DEF TSpec

-----------------------------------------------------------------------------
\* The network boosts: uids that the HAL or the agent keeps.
UidTypes ==
  /\ channel \in {1, 2} /\ boostEnabled \in BOOLEAN /\ lastFgBoost \in AnyUid
  /\ boosts \in [Value -> 0 .. MaxLocks]
  /\ uidRules \subseteq AnyUid /\ strayUids \subseteq AnyUid

\* What the agent is asked to change is one uid.
LEMMA RulesAreUids ==
  ASSUME uidRules \subseteq AnyUid, NEW uid
  PROVE  /\ uid \in AnyUid => booster_netd_config_by_uid(TRUE, uid) \subseteq AnyUid
         /\ booster_netd_config_by_uid(FALSE, uid) \subseteq AnyUid
BY DEF booster_netd_config_by_uid

\* Every step of the rules by uid keeps these types.
LEMMA UidTypesKept == UidInv /\ UidTypes /\ UidNext => UidTypes'
<1> SUFFICES ASSUME UidInv, UidTypes, UidNext PROVE UidTypes'
  OBVIOUS
<1>1. /\ boosts \in [Value -> 0 .. MaxLocks] /\ MaxLocks \in Nat /\ uidRules \subseteq AnyUid
      /\ fgUid \in AnyUid /\ Uid \subseteq AnyUid /\ FOREGROUND \in AnyUid /\ NoUid \in AnyUid
  BY NetdAssumption DEF UidTypes, UidInv, AnyUid, FOREGROUND
<1>2. ASSUME NEW v \in Value, NEW o \in Outcome, netd_set_priority_uid(v, o) PROVE UidTypes'
  <2> DEFINE uid == IF v \in {FOREGROUND, ALWAYS} THEN fgUid ELSE v
  <2>1. uid \in AnyUid
    BY <1>1 DEF Value
  <2>2. boosts[v] < MaxLocks /\ boosts' = [boosts EXCEPT ![v] = @ + 1] /\ UNCHANGED <<channel, boostEnabled>>
    BY <1>2 DEF netd_set_priority_uid
  <2>3. lastFgBoost' \in {lastFgBoost, fgUid}
    BY <1>2 DEF netd_set_priority_uid
  <2>4. uidRules' \in {uidRules, booster_netd_config_by_uid(TRUE, uid)}
    BY <1>2, Zenon DEF netd_set_priority_uid
  <2>5. strayUids' \subseteq strayUids \cup {lastFgBoost, uid}
    BY <1>2, Zenon DEF netd_set_priority_uid
  <2> HIDE DEF uid
  <2>6. boosts' \in [Value -> 0 .. MaxLocks]
    BY <1>1, <2>2
  <2>7. uidRules' \subseteq AnyUid
    BY <1>1, <2>1, <2>4, RulesAreUids
  <2> QED BY <1>1, <2>1, <2>2, <2>3, <2>5, <2>6, <2>7 DEF UidTypes
<1>3. ASSUME NEW v \in Value, NEW o \in Outcome, netd_clear_priority_uid(v, o) PROVE UidTypes'
  <2> DEFINE uid == IF v = FOREGROUND /\ lastFgBoost # NoUid THEN lastFgBoost ELSE v
  <2>1. v # ALWAYS => uid \in AnyUid
    BY <1>1 DEF Value, UidTypes
  <2>2. boosts[v] > 0 /\ boosts' = [boosts EXCEPT ![v] = @ - 1] /\ UNCHANGED <<channel, boostEnabled>>
    BY <1>3 DEF netd_clear_priority_uid
  <2>3. lastFgBoost' \in {lastFgBoost, NoUid}
    BY <1>3 DEF netd_clear_priority_uid
  <2>4. uidRules' \in {uidRules, booster_netd_config_by_uid(FALSE, uid)}
    BY <1>3, Zenon DEF netd_clear_priority_uid
  <2>5. strayUids' = strayUids \/ (v # ALWAYS /\ strayUids' = strayUids \cup {uid})
    BY <1>3, Zenon DEF netd_clear_priority_uid
  <2> HIDE DEF uid
  <2>6. boosts' \in [Value -> 0 .. MaxLocks]
    BY <1>1, <2>2
  <2>7. uidRules' \subseteq AnyUid
    BY <1>1, <2>4, RulesAreUids
  <2> QED BY <1>1, <2>1, <2>2, <2>3, <2>5, <2>6, <2>7 DEF UidTypes
<1>4. ASSUME NEW uid \in Uid \cup {NoUid}, SetForeground(uid) PROVE UidTypes'
  BY <1>4 DEF SetForeground, UidTypes
<1>5. CASE SetNetdStatus
  BY <1>5 DEF SetNetdStatus, UidTypes
<1>6. ASSUME NEW act \in {"UIDSET", "UIDCLEAR", "UIDCLEARALL"}, NEW uid \in Uid,
             booster_netd_process_uid_request(act, uid)
      PROVE  UidTypes'
  <2>1. uidRules' \in {booster_netd_config_by_uid(TRUE, uid), booster_netd_config_by_uid(FALSE, uid), {}}
    BY <1>6 DEF booster_netd_process_uid_request
  <2>2. uidRules' \subseteq AnyUid
    BY <1>1, <2>1, RulesAreUids
  <2>3. strayUids' \subseteq strayUids \cup {uid} /\ UNCHANGED <<channel, boostEnabled, lastFgBoost, boosts>>
    BY <1>6 DEF booster_netd_process_uid_request
  <2> QED BY <1>1, <2>2, <2>3 DEF UidTypes
<1>7. ASSUME NEW o \in Outcome, netd_reset(o) PROVE UidTypes'
  <2>1. boosts' \in [Value -> 0 .. MaxLocks]
    BY <1>1, <1>7 DEF netd_reset
  <2>2. lastFgBoost' = NoUid /\ uidRules' \subseteq uidRules /\ strayUids' \subseteq strayUids \cup uidRules
    BY <1>7 DEF netd_reset
  <2> QED BY <1>1, <1>7, <2>1, <2>2 DEF netd_reset, UidTypes
<1> QED BY <1>2, <1>3, <1>4, <1>5, <1>6, <1>7 DEF UidNext

\* Links that the HAL lost track of are links.
LEMMA StraysAreLinks == LinkInv /\ strayLinks \subseteq Link /\ LinkNext => (strayLinks \subseteq Link)'
<1> SUFFICES ASSUME LinkInv, strayLinks \subseteq Link, LinkNext PROVE strayLinks' \subseteq Link
  OBVIOUS
<1>1. /\ nIpFilterCurIdx \in FilterEntry
      /\ \A e \in FilterEntry : pIpFilterTbl[e] # NoLink => pIpFilterTbl[e] \in Link
  BY DEF LinkInv, LinkTypes
<1>2. ASSUME NEW l \in Link, NEW clear, NEW set, SetOnePacketLink(l, clear, set) PROVE strayLinks' \subseteq Link
  BY <1>1, <1>2 DEF SetOnePacketLink
<1>3. ASSUME NEW stop, NEW lostAt \in SUBSET FilterEntry, Deletable(stop, lostAt)
      PROVE  {pIpFilterTbl[e] : e \in lostAt} \subseteq Link
  BY <1>1, <1>3 DEF Deletable
<1>4. ASSUME NEW stop, NEW lostAt \in SUBSET FilterEntry, deleteAllDupPackerLink(stop, lostAt)
      PROVE  strayLinks' \subseteq Link
  BY <1>3, <1>4 DEF deleteAllDupPackerLink
<1>5. ASSUME NEW links, NEW n, NEW lostAt \in SUBSET FilterEntry, SetDupPacketMultiLink(links, n, lostAt)
      PROVE  strayLinks' \subseteq Link
  BY <1>3, <1>5 DEF SetDupPacketMultiLink
<1>6. ASSUME NEW act, NEW l \in Link, booster_netd_config_by_linkinfo(act, l) PROVE strayLinks' \subseteq Link
  BY <1>6 DEF booster_netd_config_by_linkinfo
<1>7. ASSUME NEW o, netd_reset_links(o) PROVE strayLinks' \subseteq Link
  BY <1>7 DEF netd_reset_links, LinkInv, LinkTypes
<1> QED BY <1>2, <1>4, <1>5, <1>6, <1>7 DEF LinkNext

\* The tables of the network boosts hold uids and links, in the range of their indices
\* (utility_netd.cpp).
LEMMA NetdIsTyped == NSpec => []NetdTypeOK
<1> DEFINE Inv == UidInv /\ UidTypes /\ LinkInv /\ strayLinks \subseteq Link
<1>1. NInit => Inv
  <2> SUFFICES ASSUME NInit PROVE Inv
    OBVIOUS
  <2>1. UidInv
    BY DEF NInit, UidInit, UidInv, AnyUid
  <2>2. UidTypes
    BY NetdAssumption DEF NInit, UidInit, UidTypes, AnyUid
  <2>3. LinkInv /\ strayLinks = {}
    BY NetdAssumption DEF NInit, LinkInit, LinkInv, LinkTypes, LinksListed, FilterEntry
  <2> QED BY <2>1, <2>2, <2>3
<1>2. Inv /\ [NNext]_<<uidVars, linkVars>> => Inv'
  <2>1. UidInv /\ UidTypes /\ UNCHANGED uidVars => UidInv' /\ UidTypes'
    BY DEF uidVars, UidInv, UidTypes, Accounted, InTable
  <2>2. LinkInv /\ strayLinks \subseteq Link /\ UNCHANGED linkVars => LinkInv' /\ (strayLinks \subseteq Link)'
    BY DEF linkVars, LinkInv, LinkTypes, LinksListed
  <2> QED BY <2>1, <2>2, UidNextKeeps, UidTypesKept, LinkNextKeeps, StraysAreLinks DEF NNext
<1>3. Inv => NetdTypeOK
  BY DEF UidInv, UidTypes, LinkInv, LinkTypes, NetdTypeOK, AnyUid
<1> QED
  <2> HIDE DEF Inv
  <2> QED BY <1>1, <1>2, <1>3, PTL DEF NSpec

-----------------------------------------------------------------------------
\* The limits: every number asked for or written is small.
LimitMax == Max({freqMax + 1, nGpuFreqCount, VPU_BOOST_MAX})
Fits(p) == p.min \in -1 .. LimitMax /\ p.max \in -1 .. LimitMax

\* How small.
LEMMA LimitMaxFacts ==
  LimitMax \in Int /\ freqMax + 1 <= LimitMax /\ nGpuFreqCount <= LimitMax /\ 100 <= LimitMax
<1>1. freqMax + 1 \in Int /\ nGpuFreqCount \in Int /\ VPU_BOOST_MAX \in Int /\ VPU_BOOST_MAX = 100
  BY LimitsAssumption DEF VPU_BOOST_MAX
<1>2. /\ LimitMax \in {freqMax + 1, nGpuFreqCount, VPU_BOOST_MAX}
      /\ LimitMax >= freqMax + 1 /\ LimitMax >= nGpuFreqCount /\ LimitMax >= VPU_BOOST_MAX
  BY <1>1, Max3 DEF LimitMax
<1> QED BY <1>1, <1>2

\* What has no bound of its own: what was asked, hard limits, and what dex2oat holds.
LimTypes ==
  /\ \A s \in DOMAIN asked : Fits(asked[s])
  /\ unit.kind = "cpu" => Fits(seen["hard"]) /\ Fits(written["hard"])
  /\ unit.kind = "dex2oat" => written["dex2oat"].min \in {-1, 1, 3}

\* One end of a pair changes.
LEMMA FitsAfter ==
  ASSUME NEW S, NEW f \in [S -> IntPair], \A s \in S : Fits(f[s]),
         NEW scope \in S, NEW end \in {"min", "max"}, NEW v \in -1 .. LimitMax
  PROVE  \A s \in S : Fits([f EXCEPT ![scope][end] = v][s])
<1>1. f[scope] \in IntPair
  OBVIOUS
<1>2. v \in Int
  BY LimitMaxFacts
<1>3. PICK q : q = [f[scope] EXCEPT ![end] = v]
  OBVIOUS
<1>4. Fits(q)
  <2>1. CASE end = "min"
    BY <1>1, <1>2, <1>3, <2>1 DEF IntPair, Fits
  <2>2. CASE end = "max"
    BY <1>1, <1>2, <1>3, <2>2 DEF IntPair, Fits
  <2> QED BY <2>1, <2>2
<1>5. \A s \in S : [f EXCEPT ![scope][end] = v][s] = IF s = scope THEN q ELSE f[s]
  BY <1>3
<1> QED BY <1>4, <1>5

\* What is worked out for a cluster is no larger than what was asked.
LEMMA SeenFits ==
  ASSUME NEW p \in IntPair, Fits(p)
  PROVE  Fits(Align(Pair(CapAt(p.min), CapAt(p.max))))
<1>1. p.min \in Int /\ p.max \in Int /\ freqMax \in Nat
  BY LimitsAssumption DEF IntPair
<1> QED BY <1>1, LimitMaxFacts DEF Fits, Align, Pair, CapAt

\* What is written for a core lies between the lowest and the highest frequency, or at a hard limit.
LEMMA FreqFits ==
  ASSUME NEW k \in [CpuScope -> IntPair], NEW c \in Cpu, Fits(k["hard"])
  PROVE  Fits(FreqToSet(k, c))
<1>1. PICK floor \in Int, ceil \in Int :
        /\ FreqToSet(k, c) = Pair(IntoHard(k["hard"], Align(Pair(floor, ceil)).min),
                                  IntoHard(k["hard"], Align(Pair(floor, ceil)).max))
        /\ \/ floor \in {Clamp(k[c].min), Clamp(k["soft"].min)}
           \/ floor \in {Clamp(k["cpu0"].min), Clamp(k["cpu1"].min)}
        /\ \/ ceil \in {Ceiling(k[c]), Ceiling(k["soft"])}
           \/ ceil \in {Clamp(k["cpu0"].max), Clamp(k["cpu1"].max)}
  BY FloorAndCeiling
<1>2. freqMin \in Nat /\ freqMax \in Nat /\ freqMin < freqMax
  BY LimitsAssumption
<1>3. \A v \in Int : Clamp(v) \in freqMin .. freqMax
  BY <1>2 DEF Clamp
<1>4. \A p \in IntPair : Clamp(p.min) \in freqMin .. freqMax /\ Clamp(p.max) \in freqMin .. freqMax
                          /\ Ceiling(p) \in freqMin .. freqMax
  BY <1>2, <1>3 DEF IntPair, Ceiling
<1>5. c \in CpuScope /\ {"soft", "cpu0", "cpu1", "hard"} \subseteq CpuScope
  BY DEF CpuScope, Cpu
<1>6. floor \in freqMin .. freqMax /\ ceil \in freqMin .. freqMax
  BY <1>1, <1>4, <1>5
<1>7. PICK a \in freqMin .. freqMax, b \in freqMin .. freqMax :
        a = Align(Pair(floor, ceil)).min /\ b = Align(Pair(floor, ceil)).max
  BY <1>6 DEF Align, Pair
<1>8. k["hard"] \in IntPair /\ k["hard"].min \in -1 .. LimitMax /\ k["hard"].max \in -1 .. LimitMax
  BY <1>5 DEF Fits
<1>9. \A v \in freqMin .. freqMax : IntoHard(k["hard"], v) \in -1 .. LimitMax
  BY <1>2, <1>8, LimitMaxFacts DEF IntoHard
<1>10. FreqToSet(k, c) = Pair(IntoHard(k["hard"], a), IntoHard(k["hard"], b))
  BY <1>1, <1>7
<1> QED BY <1>9, <1>10 DEF Fits, Pair

\* Setting a core's limits leaves the hard ones alone.
LEMMA CoreLeavesHard ==
  ASSUME NEW now, NEW k, NEW w, DOMAIN k = CpuScope, DOMAIN w = Cpu \cup {"hard"}, NEW c \in Cpu,
         NEW kw, kw = setCPUFreq(now, <<k, w>>, c)
  PROVE  /\ DOMAIN kw[1] = CpuScope /\ DOMAIN kw[2] = Cpu \cup {"hard"} /\ kw = <<kw[1], kw[2]>>
         /\ kw[1]["hard"] = k["hard"] /\ kw[2]["hard"] = w["hard"]
<1>1. PICK k2 : k2 = IF unit.byCore THEN [k EXCEPT ![c] = updateCPUFreqInfo(now, c)] ELSE k
  OBVIOUS
<1>2. PICK target : target = IF unit.byCore THEN c ELSE "cpu0"
  OBVIOUS
<1>3. PICK w2 : w2 = [w EXCEPT ![target] = FreqToSet(k2, c)]
  OBVIOUS
<1>4. <<k, w>>[1] = k /\ <<k, w>>[2] = w /\ <<k2, w2>>[1] = k2 /\ <<k2, w2>>[2] = w2
  OBVIOUS
<1>5. setCPUFreq(now, <<k, w>>, c) = <<k2, w2>>
  BY <1>1, <1>2, <1>3, <1>4, Zenon DEF setCPUFreq
<1>6. "hard" # c /\ "hard" # target /\ "hard" \in CpuScope
  BY <1>2 DEF Cpu, CpuScope
<1>7. DOMAIN k2 = CpuScope /\ k2["hard"] = k["hard"]
  BY <1>1, <1>6
<1>8. DOMAIN w2 = Cpu \cup {"hard"} /\ w2["hard"] = w["hard"]
  BY <1>3, <1>6
<1> QED BY <1>4, <1>5, <1>7, <1>8

\* A request for the cluster brings the hard limits up to date.
LEMMA ClusterSeesHard ==
  ASSUME CpuInv, NEW now
  PROVE  /\ setClusterFreq(now)[1]["hard"] = updateClusterFreqInfo(now)["hard"]
         /\ setClusterFreq(now)[2]["hard"] = written["hard"]
<1>1. PICK k : k = [s \in DOMAIN seen |-> IF s \in Cpu THEN seen[s] ELSE updateClusterFreqInfo(now)[s]]
  OBVIOUS
<1>2. DOMAIN seen = CpuScope /\ DOMAIN written = Cpu \cup {"hard"} /\ "hard" \in CpuScope /\ "hard" \notin Cpu
  BY DEF CpuInv, CpuScope, Cpu
<1>3. DOMAIN k = CpuScope /\ k["hard"] = updateClusterFreqInfo(now)["hard"]
  BY <1>1, <1>2
<1>4. PICK first : first = setCPUFreq(now, <<k, written>>, "cpu0")
  OBVIOUS
<1>5. "cpu0" \in Cpu /\ "cpu1" \in Cpu
  BY DEF Cpu
<1>6. /\ DOMAIN first[1] = CpuScope /\ DOMAIN first[2] = Cpu \cup {"hard"} /\ first = <<first[1], first[2]>>
      /\ first[1]["hard"] = k["hard"] /\ first[2]["hard"] = written["hard"]
  BY <1>2, <1>3, <1>4, <1>5, CoreLeavesHard
<1>7. PICK k1, w1 : k1 = first[1] /\ w1 = first[2]
  OBVIOUS
<1>8. PICK second : second = setCPUFreq(now, <<k1, w1>>, "cpu1")
  OBVIOUS
<1>9. DOMAIN k1 = CpuScope /\ DOMAIN w1 = Cpu \cup {"hard"}
  BY <1>6, <1>7
<1>10. second[1]["hard"] = k1["hard"] /\ second[2]["hard"] = w1["hard"]
  <2>1. "cpu1" \in Cpu
    BY <1>5
  <2>2. /\ DOMAIN second[1] = CpuScope /\ DOMAIN second[2] = Cpu \cup {"hard"} /\ second = <<second[1], second[2]>>
        /\ second[1]["hard"] = k1["hard"] /\ second[2]["hard"] = w1["hard"]
    BY <1>8, <1>9, <2>1, CoreLeavesHard
  <2> QED BY <2>2
<1>11. setClusterFreq(now) = IF unit.byCore THEN second ELSE first
  <2>1. first = <<k1, w1>>
    BY <1>6, <1>7
  <2> QED BY <1>1, <1>4, <1>8, <2>1, Zenon DEF setClusterFreq
<1> QED BY <1>3, <1>6, <1>7, <1>10, <1>11

\* A request for the CPU's frequency.
LEMMA CpuFits ==
  ASSUME CpuInv, LimTypes, unit.kind = "cpu", NEW scope \in CpuScope, NEW end \in {"min", "max"},
         NEW v \in -1 .. freqMax + 1, setCPUFreqLimit(scope, end, v)
  PROVE  LimTypes'
<1> DEFINE x == IF v = -1 THEN IF end = "min" THEN 0 ELSE freqMax ELSE v
<1>1. x \in -1 .. LimitMax
  BY LimitsAssumption, LimitMaxFacts
<1>2. PICK now : now = [asked EXCEPT ![scope][end] = x]
  OBVIOUS
<1>3. PICK new : new = CASE scope = "soft" -> setClusterFreq(now)
                         [] scope = "hard" -> setClusterHardFreq(now)
                         [] OTHER -> setCPUFreq(now, <<seen, written>>, scope)
  OBVIOUS
<1>4. asked' = now /\ seen' = new[1] /\ written' = new[2] /\ unit' = unit
  BY <1>2, <1>3 DEF setCPUFreqLimit
<1> HIDE DEF x
<1>5. /\ asked \in [CpuScope -> IntPair] /\ DOMAIN asked = CpuScope /\ \A s \in CpuScope : Fits(asked[s])
      /\ Fits(seen["hard"]) /\ Fits(written["hard"])
      /\ DOMAIN seen = CpuScope /\ DOMAIN written = Cpu \cup {"hard"}
  BY DEF CpuInv, LimTypes
<1>6. now \in [CpuScope -> IntPair] /\ DOMAIN now = CpuScope
  <2>1. x \in Int
    BY <1>1, LimitMaxFacts
  <2> QED BY <1>2, <1>5, <2>1 DEF IntPair
<1>7. \A s \in CpuScope : Fits(now[s])
  BY <1>1, <1>2, <1>5, FitsAfter
<1>8. Fits(updateClusterFreqInfo(now)["hard"])
  <2>1. "hard" \in CpuScope
    BY DEF CpuScope
  <2>2. updateClusterFreqInfo(now)["hard"] = Align(Pair(CapAt(now["hard"].min), CapAt(now["hard"].max)))
    BY DEF updateClusterFreqInfo
  <2>3. now["hard"] \in IntPair /\ Fits(now["hard"])
    BY <1>6, <1>7, <2>1
  <2> QED BY <2>2, <2>3, SeenFits
<1>9. Fits(new[1]["hard"]) /\ Fits(new[2]["hard"])
  <2>1. ASSUME new = setClusterFreq(now) PROVE Fits(new[1]["hard"]) /\ Fits(new[2]["hard"])
    BY <1>5, <1>8, <2>1, ClusterSeesHard
  <2>2. CASE scope = "soft"
    <3>1. new = setClusterFreq(now)
      BY <1>3, <2>2
    <3> QED BY <2>1, <3>1
  <2>3. CASE scope = "hard"
    <3>1. new = setClusterHardFreq(now)
      BY <1>3, <2>3
    <3>2. CASE ~unit.hard_user_limit
      <4>1. new = setClusterFreq(now)
        BY <3>1, <3>2 DEF setClusterHardFreq
      <4> QED BY <2>1, <4>1
    <3>3. CASE unit.hard_user_limit
      <4>1. PICK q : q = Pair(IF now["hard"].min <= 0 THEN Ignore ELSE now["hard"].min,
                              IF now["hard"].max <= 0 \/ now["hard"].max >= freqMax
                              THEN Ignore ELSE now["hard"].max)
        OBVIOUS
      <4>2. now["hard"] \in IntPair /\ Fits(now["hard"])
        BY <1>6, <1>7 DEF CpuScope
      <4>3. Fits(q)
        BY <4>1, <4>2, LimitMaxFacts DEF Fits, Pair, Ignore
      <4>4. new[1] = seen /\ new[2] = [written EXCEPT !["hard"] = q]
        BY <3>1, <3>3, <4>1 DEF setClusterHardFreq
      <4>5. new[2]["hard"] = q
        BY <1>5, <4>4
      <4> QED BY <1>5, <4>3, <4>4, <4>5
    <3> QED BY <3>2, <3>3
  <2>4. CASE scope \in Cpu
    <3>1. scope # "soft" /\ scope # "hard"
      BY <2>4 DEF Cpu
    <3>2. new = setCPUFreq(now, <<seen, written>>, scope)
      BY <1>3, <3>1
    <3>3. new[1]["hard"] = seen["hard"] /\ new[2]["hard"] = written["hard"]
      <4>1. DOMAIN seen = CpuScope /\ DOMAIN written = Cpu \cup {"hard"}
        BY <1>5
      <4>2. PICK k, w : k = seen /\ w = written /\ DOMAIN k = CpuScope /\ DOMAIN w = Cpu \cup {"hard"}
        BY <4>1
      <4>0. PICK c \in Cpu : c = scope
        BY <2>4
      <4>3. new = setCPUFreq(now, <<k, w>>, c)
        BY <3>2, <4>0, <4>2
      <4>4. /\ DOMAIN new[1] = CpuScope /\ DOMAIN new[2] = Cpu \cup {"hard"} /\ new = <<new[1], new[2]>>
            /\ new[1]["hard"] = k["hard"] /\ new[2]["hard"] = w["hard"]
        BY <4>2, <4>3, CoreLeavesHard
      <4> QED BY <4>2, <4>4
    <3> QED BY <1>5, <3>3
  <2> QED BY <2>2, <2>3, <2>4 DEF CpuScope, Cpu
<1> QED BY <1>4, <1>6, <1>7, <1>9 DEF LimTypes, Fits

\* Every step keeps the numbers small.
LEMMA LimTypesKept == LimInv /\ LimTypes /\ [LimitsNext]_limitVars => LimTypes'
<1> SUFFICES ASSUME LimInv, LimTypes, [LimitsNext]_limitVars PROVE LimTypes'
  OBVIOUS
<1>1. LimitsAssumption /\ unit \in Units
  BY LimitsAssumption DEF LimInv
<1>2. \A s \in DOMAIN asked : Fits(asked[s])
  BY DEF LimTypes
<1>3. ASSUME NEW S, asked \in [S -> IntPair], NEW scope \in S, NEW end \in {"min", "max"}, NEW v \in -1 .. LimitMax,
             asked' = [asked EXCEPT ![scope][end] = v], unit' = unit, unit.kind \notin {"cpu", "dex2oat"}
      PROVE  LimTypes'
  <2>1. \A s \in S : Fits([asked EXCEPT ![scope][end] = v][s])
    BY <1>2, <1>3, FitsAfter
  <2> QED BY <1>3, <2>1 DEF LimTypes, Fits
<1>4. ASSUME NEW scope \in DOMAIN asked, NEW end \in {"min", "max"},
             NEW v \in LimitValues(scope, end), setCPUFreqLimit(scope, end, v)
      PROVE  LimTypes'
  <2>1. unit.kind = "cpu" /\ CpuInv
    BY <1>4 DEF setCPUFreqLimit, LimInv
  <2>2. scope \in CpuScope
    BY <2>1 DEF CpuInv
  <2>3. v \in -1 .. freqMax + 1
    BY <1>1, <1>4, <2>1 DEF LimitValues, LimitsAssumption
  <2> QED BY <1>4, <2>1, <2>2, <2>3, CpuFits
<1>5. ASSUME NEW scope \in DOMAIN asked, NEW end \in {"min", "max"},
             NEW v \in LimitValues(scope, end), setGPUFreqOPP(scope, end, v)
      PROVE  LimTypes'
  <2>1. unit' = unit /\ unit.kind = "gpu" /\ GpuInv
    BY <1>5 DEF setGPUFreqOPP, LimInv
  <2>2. v \in -1 .. nGpuFreqCount
    BY <1>5, <2>1 DEF LimitValues
  <2>3. PICK x : x = IF v = -1 THEN IF end = "min" THEN nGpuFreqCount - 1 ELSE 0 ELSE v
    OBVIOUS
  <2>4. x \in -1 .. LimitMax
    BY <1>1, <2>2, <2>3, LimitMaxFacts DEF LimitsAssumption
  <2>5. asked' = [asked EXCEPT ![scope][end] = x]
    BY <1>5, <2>3 DEF setGPUFreqOPP
  <2>6. asked \in [{"soft", "hard"} -> IntPair] /\ scope \in {"soft", "hard"}
    BY <2>1 DEF GpuInv
  <2> QED BY <1>3, <2>1, <2>4, <2>5, <2>6
<1>6. ASSUME NEW scope \in DOMAIN asked, NEW end \in {"min", "max"},
             NEW v \in LimitValues(scope, end), setBoost(scope, end, v)
      PROVE  LimTypes'
  <2>1. unit' = unit /\ unit.kind = "apu" /\ ApuInv
    BY <1>6 DEF setBoost, LimInv
  <2>2. v \in -1 .. LimitMax
    BY <1>6, <2>1, LimitMaxFacts DEF LimitValues, VPU_BOOST_MAX
  <2>3. asked' = [asked EXCEPT ![scope][end] = v]
    BY <1>6 DEF setBoost
  <2>4. asked \in [ApuScope -> IntPair] /\ scope \in ApuScope
    BY <2>1 DEF ApuInv
  <2> QED BY <1>3, <2>1, <2>2, <2>3, <2>4
<1>7. ASSUME NEW scope \in DOMAIN asked, NEW end \in {"min", "max"},
             NEW v \in LimitValues(scope, end), setCPUCoreCluster(scope, end, v)
      PROVE  LimTypes'
  <2>1. unit' = unit /\ unit.kind = "cores" /\ CoresInv
    BY <1>7 DEF setCPUCoreCluster, LimInv
  <2>2. PICK x : x = IF end = "max" /\ v = -1 THEN cpuNum ELSE v
    OBVIOUS
  <2>3. x \in -1 .. LimitMax
    BY <1>7, <2>1, <2>2, LimitMaxFacts DEF LimitValues, cpuNum
  <2>4. asked' = [asked EXCEPT ![scope][end] = x]
    BY <1>7, <2>2 DEF setCPUCoreCluster
  <2>5. asked \in [Cluster -> IntPair] /\ scope \in Cluster
    BY <2>1 DEF CoresInv
  <2> QED BY <1>3, <2>1, <2>3, <2>4, <2>5
<1>8. ASSUME NEW end \in {"min", "max"}, NEW v \in {-1, 30, 60}, setFstbSoftFps(end, v)
      PROVE  LimTypes'
  <2>1. unit' = unit /\ unit.kind = "fps" /\ FpsInv
    BY <1>8 DEF setFstbSoftFps, LimInv
  <2>2. v \in -1 .. LimitMax
    BY <1>8, LimitMaxFacts
  <2>3. asked \in [{"soft"} -> IntPair] /\ asked' = [asked EXCEPT !["soft"][end] = v]
    BY <1>8, <2>1 DEF setFstbSoftFps, FpsInv
  <2> QED BY <1>3, <2>1, <2>2, <2>3
<1>9. ASSUME NEW scope \in {"low", "high"}, NEW v \in {-1, 8, 16, 32},
             sched_pelt_halflife(scope, v)
      PROVE  LimTypes'
  <2>1. unit' = unit /\ unit.kind = "pelt" /\ PeltInv
    BY <1>9 DEF sched_pelt_halflife, LimInv, OverrideInv
  <2>2. v \in -1 .. LimitMax
    BY <1>9, LimitMaxFacts
  <2>3. asked \in [{"low", "high"} -> IntPair]
    BY <2>1 DEF PeltInv
  <2>4. asked' = [asked EXCEPT ![scope]["min"] = v]
    BY <1>9 DEF sched_pelt_halflife
  <2> QED BY <1>3, <2>1, <2>2, <2>3, <2>4
<1>10. ASSUME Dex2oatInv, unit' = unit, unit.kind = "dex2oat", NEW scope \in {"low", "high"}, NEW v \in {-1, 0, 1, 3, 4},
              asked' = [asked EXCEPT ![scope].min = v],
              written' = written \/ (v \in {-1, 1, 3} /\ written' = [written EXCEPT !["dex2oat"].min = v])
       PROVE  LimTypes'
  <2>1. asked \in [{"low", "high"} -> IntPair] /\ v \in -1 .. LimitMax
    BY <1>10, LimitMaxFacts DEF Dex2oatInv
  <2>2. asked' = [asked EXCEPT ![scope]["min"] = v]
    BY <1>10
  <2>3. \A s \in {"low", "high"} : Fits([asked EXCEPT ![scope]["min"] = v][s])
    BY <1>2, <2>1, FitsAfter
  <2>4. DOMAIN asked' = {"low", "high"}
    BY <2>1, <2>2
  <2>5. written'["dex2oat"].min \in {-1, 1, 3}
    BY <1>10 DEF LimTypes, Dex2oatInv, IntPair
  <2> QED BY <1>10, <2>2, <2>3, <2>4, <2>5 DEF LimTypes, Fits
<1>11. ASSUME NEW scope \in {"low", "high"},
              \/ \E v \in {0, 1, cpu_max, cpu_max + 1} : set_dex2oat_cpus(scope, v)
              \/ unset_dex2oat_cpus(scope)
       PROVE  LimTypes'
  <2>1. unit' = unit /\ unit.kind = "dex2oat" /\ Dex2oatInv
    BY <1>11 DEF set_dex2oat_cpus, unset_dex2oat_cpus, LimInv, OverrideInv
  <2>2. ASSUME NEW v \in {0, 1, cpu_max, cpu_max + 1}, set_dex2oat_cpus(scope, v) PROVE LimTypes'
    <3>1. asked' = [asked EXCEPT ![scope].min = v]
      BY <2>2 DEF set_dex2oat_cpus
    <3>2. written' = written \/ (v \in {-1, 1, 3} /\ written' = [written EXCEPT !["dex2oat"].min = v])
      BY <2>2 DEF set_dex2oat_cpus, do_set_dex2oat_cpus, cpu_max
    <3>3. v \in {-1, 0, 1, 3, 4}
      BY DEF cpu_max
    <3> QED BY <1>10, <2>1, <3>1, <3>2, <3>3
  <2>3. CASE unset_dex2oat_cpus(scope)
    <3>1. asked' = [asked EXCEPT ![scope].min = -1]
      BY <2>3 DEF unset_dex2oat_cpus
    <3>2. written' = written \/ written' = [written EXCEPT !["dex2oat"].min = -1]
      BY <2>3 DEF unset_dex2oat_cpus
    <3>3. PICK v \in {-1, 0, 1, 3, 4} : v = -1 /\ v \in {-1, 1, 3}
      OBVIOUS
    <3>4. asked' = [asked EXCEPT ![scope].min = v]
      BY <3>1, <3>3
    <3>5. written' = written \/ (v \in {-1, 1, 3} /\ written' = [written EXCEPT !["dex2oat"].min = v])
      BY <3>2, <3>3
    <3> QED BY <1>10, <2>1, <3>4, <3>5
  <2> QED BY <1>11, <2>2, <2>3
<1>12. CASE BootCompletes
  BY <1>12 DEF BootCompletes, LimTypes, Fits
<1>13. CASE UNCHANGED limitVars
  BY <1>13 DEF limitVars, LimTypes, Fits
<1> QED BY <1>4, <1>5, <1>6, <1>7, <1>8, <1>9, <1>11, <1>12, <1>13 DEF LimitsNext

\* Initially they are.
LEMMA LimTypesStart == LimitsInit => LimTypes
<1> SUFFICES ASSUME LimitsInit PROVE LimTypes
  OBVIOUS
<1>1. unit \in Units /\ LimitsAssumption
  BY LimitsAssumption DEF LimitsInit
<1>2. /\ Fits(Pair(0, freqMax)) /\ Fits(Pair(nGpuFreqCount - 1, -1)) /\ Fits(Pair(-1, cpuNum))
      /\ Fits(Pair(-1, -1))
  BY <1>1, LimitMaxFacts DEF Fits, Pair, cpuNum, LimitsAssumption
<1>3. Fits(NotAsked(unit))
  BY <1>2 DEF NotAsked
<1>4. \A s \in DOMAIN asked : Fits(asked[s])
  BY <1>3 DEF LimitsInit
<1>5. CASE unit.kind = "cpu"
  <2>1. seen["hard"] = Pair(0, freqMax)
    BY <1>5 DEF LimitsInit, initCPUFreqInfo, ScopesOf
  <2>2. written["hard"] = Pair(-1, -1)
    BY <1>5 DEF LimitsInit, NodesOf, Ignore
  <2> QED BY <1>2, <1>4, <1>5, <2>1, <2>2 DEF LimTypes
<1>6. CASE unit.kind = "dex2oat"
  <2>1. written["dex2oat"] = Pair(-1, -1)
    BY <1>6 DEF LimitsInit, NodesOf, AtRest
  <2> QED BY <1>4, <1>6, <2>1 DEF LimTypes, Pair
<1> QED BY <1>4, <1>5, <1>6 DEF LimTypes

\* What a driver is given for a number of cores is a number of cores.
LEMMA CoresFit ==
  ASSUME NEW a \in Int, NEW b \in Int
  PROVE  Fits(setClusterCores(Pair(a, b)))
<1>1. PICK w : w = setClusterCores(Pair(a, b))
  OBVIOUS
<1>2. w.min \in -1 .. 2 /\ w.max \in -1 .. 2
  BY <1>1, SMTT(60) DEF setClusterCores, Pair, Ignore, cpuNum, default_core_min
<1> QED BY <1>1, <1>2, LimitMaxFacts DEF Fits

\* Whatever is asked for, what is kept and written are small numbers for the scopes and nodes of
\* the unit.
LEMMA LimitsFit ==
  ASSUME LimInv, LimTypes
  PROVE  LimitsTypeOK
<1>1. unit \in Units /\ unit.kind \in {"cpu", "gpu", "apu", "cores", "fps", "pelt", "dex2oat"}
  BY KindOfUnit DEF LimInv
<1>2. \A s \in DOMAIN asked : Fits(asked[s])
  BY DEF LimTypes
<1>3. SUFFICES /\ DOMAIN asked = ScopesOf(unit.kind) /\ DOMAIN written = NodesOf(unit)
               /\ \A n \in DOMAIN written : Fits(written[n])
  BY <1>1, <1>2 DEF LimitsTypeOK, Fits, LimitMax
<1>4. CASE unit.kind = "cpu"
  <2>1. CpuInv /\ Fits(seen["hard"]) /\ Fits(written["hard"])
    BY <1>4 DEF LimInv, LimTypes
  <2>2. DOMAIN asked = ScopesOf(unit.kind) /\ DOMAIN written = NodesOf(unit) /\ DOMAIN written = Cpu \cup {"hard"}
    BY <1>4, <2>1 DEF CpuInv, ScopesOf, CpuScope, NodesOf, Cpu
  <2>3. \A c \in Cpu : Fits(FreqToSet(seen, c))
    BY <2>1, FreqFits DEF CpuInv
  <2>4. Fits(Pair(freqMin, freqMax))
    BY LimitsAssumption, LimitMaxFacts DEF Fits, Pair
  <2>5. \A c \in Cpu : Fits(written[c])
    BY <2>1, <2>3, <2>4 DEF CpuInv, Targets, Cpu
  <2> QED BY <2>1, <2>2, <2>5
<1>5. CASE unit.kind = "gpu"
  <2>1. GpuInv
    BY <1>5 DEF LimInv
  <2>2. DOMAIN asked = ScopesOf(unit.kind) /\ DOMAIN written = NodesOf(unit) /\ DOMAIN written = {"gpu"}
    BY <1>5, <2>1 DEF GpuInv, ScopesOf, NodesOf
  <2>3. setGpuFreq(asked).min \in 0 .. nGpuFreqCount - 1 /\ setGpuFreq(asked).max \in 0 .. nGpuFreqCount - 1
    <3>1. PICK x, y : setGpuFreq(asked) = Pair(IF x \notin 0 .. nGpuFreqCount - 1 THEN nGpuFreqCount - 1 ELSE x,
                                               IF y \notin 0 .. nGpuFreqCount - 1 THEN 0 ELSE y)
      BY Zenon DEF setGpuFreq
    <3>2. PICK c, d : /\ c = (IF x \notin 0 .. nGpuFreqCount - 1 THEN nGpuFreqCount - 1 ELSE x)
                      /\ d = (IF y \notin 0 .. nGpuFreqCount - 1 THEN 0 ELSE y)
      OBVIOUS
    <3>3. nGpuFreqCount - 1 \in 0 .. nGpuFreqCount - 1 /\ 0 \in 0 .. nGpuFreqCount - 1
      BY LimitsAssumption
    <3>4. c \in 0 .. nGpuFreqCount - 1 /\ d \in 0 .. nGpuFreqCount - 1
      BY <3>2, <3>3, Zenon
    <3>5. setGpuFreq(asked).min = c /\ setGpuFreq(asked).max = d
      BY <3>1, <3>2 DEF Pair
    <3> QED BY <3>4, <3>5
  <2>4. Fits(written["gpu"])
    BY <2>1, <2>3, LimitsAssumption, LimitMaxFacts DEF GpuInv, Fits
  <2> QED BY <2>2, <2>4
<1>6. CASE unit.kind = "apu"
  <2>1. ApuInv
    BY <1>6 DEF LimInv
  <2>2. DOMAIN asked = ScopesOf(unit.kind) /\ DOMAIN written = NodesOf(unit) /\ DOMAIN written = ApuScope /\ DOMAIN asked = ApuScope
    BY <1>6, <2>1 DEF ApuInv, ScopesOf, NodesOf, ApuScope
  <2>3. \A p \in IntPair : Fits(p) => Fits(BoostPair(p))
    BY LimitMaxFacts DEF BoostPair, Align, Pair, IntPair, VPU_BOOST_MAX, Fits
  <2>4. Fits(Pair(0, VPU_BOOST_MAX))
    BY LimitMaxFacts DEF Pair, VPU_BOOST_MAX, Fits
  <2>5. \A s \in ApuScope : asked[s] \in IntPair /\ Fits(asked[s])
    BY <1>2, <2>1, <2>2 DEF ApuInv
  <2>6. \A n \in ApuScope : Fits(written[n])
    BY <2>1, <2>3, <2>4, <2>5 DEF ApuInv
  <2> QED BY <2>2, <2>6
<1>7. CASE unit.kind = "cores"
  <2>1. asked \in [Cluster -> IntPair] /\ written = setCPUCores(asked)
    BY <1>7 DEF LimInv, CoresInv
  <2>2. DOMAIN asked = Cluster /\ DOMAIN asked = ScopesOf(unit.kind) /\ NodesOf(unit) = Cluster
    BY <1>7, <2>1 DEF ScopesOf, NodesOf, Cluster
  <2> DEFINE least(c) == IF asked[c].min > cpuNum THEN Ignore ELSE asked[c].min
             most(c) == Max({asked[c].max, least(c)})
             top(c) == IF c = "cluster0" /\ \A d \in DOMAIN asked : most(d) = 0 THEN Ignore ELSE most(c)
  <2>3. written = [c \in DOMAIN asked |-> setClusterCores(Pair(least(c), top(c)))]
    BY <2>1, Zenon DEF setCPUCores
  <2>4. ASSUME NEW c \in Cluster PROVE least(c) \in Int /\ top(c) \in Int
    <3>1. least(c) \in Int /\ asked[c].max \in Int
      BY <2>1 DEF IntPair, Ignore
    <3>2. most(c) \in Int
      <4> HIDE DEF least
      <4> QED BY <3>1, Max2
    <3> HIDE DEF most
    <3> QED BY <3>1, <3>2 DEF Ignore
  <2> HIDE DEF least, top
  <2>5. \A c \in Cluster : Fits(written[c])
    BY <2>2, <2>3, <2>4, CoresFit
  <2> QED BY <2>2, <2>3, <2>5
<1>8. CASE unit.kind = "fps"
  <2>1. FpsInv
    BY <1>8 DEF LimInv
  <2>2. DOMAIN asked = ScopesOf(unit.kind) /\ DOMAIN written = NodesOf(unit) /\ DOMAIN written = {"soft"} /\ DOMAIN asked = {"soft"}
    BY <1>8, <2>1 DEF FpsInv, ScopesOf, NodesOf
  <2> QED BY <1>2, <2>1, <2>2 DEF FpsInv
<1>9. CASE unit.kind = "pelt"
  <2>1. PeltInv
    BY <1>9 DEF LimInv, OverrideInv
  <2>2. DOMAIN asked = ScopesOf(unit.kind) /\ DOMAIN written = NodesOf(unit) /\ DOMAIN written = {"pelt"}
    BY <1>9, <2>1 DEF PeltInv, ScopesOf, NodesOf
  <2>3. Fits(written["pelt"])
    <3>1. \A x : sched_set_pelt_multiplier(x) \in {1, 2, 4}
      BY DEF sched_set_pelt_multiplier
    <3>2. written["pelt"].min \in {1, 2, 4} /\ written["pelt"].max = -1
      BY <2>1, <3>1 DEF PeltInv
    <3> QED BY <3>2, LimitMaxFacts DEF Fits
  <2> QED BY <2>2, <2>3
<1>10. CASE unit.kind = "dex2oat"
  <2>1. Dex2oatInv /\ written["dex2oat"].min \in {-1, 1, 3}
    BY <1>10 DEF LimInv, OverrideInv, LimTypes
  <2>2. DOMAIN asked = ScopesOf(unit.kind) /\ DOMAIN written = NodesOf(unit) /\ DOMAIN written = {"dex2oat"}
    BY <1>10, <2>1 DEF Dex2oatInv, ScopesOf, NodesOf
  <2>3. Fits(written["dex2oat"])
    BY <2>1, LimitMaxFacts DEF Dex2oatInv, Fits
  <2> QED BY <2>2, <2>3
<1> QED BY <1>1, <1>4, <1>5, <1>6, <1>7, <1>8, <1>9, <1>10

-----------------------------------------------------------------------------
\* The setters: the shape looked at, and the two histories.
SetTypes == setter \in SetterTbl /\ strays \subseteq Keys

\* Every step adds keys of the setter to the strays, and nothing else.
LEMMA SetTypesKept == SetInv /\ SetTypes /\ [SettersNext]_setterVars => SetTypes'
<1> SUFFICES ASSUME SetInv, SetTypes, [SettersNext]_setterVars PROVE SetTypes'
  OBVIOUS
<1>1. ASSUME NEW t, NEW stray, stray \subseteq Keys, Becomes(t, stray)
      PROVE  SetTypes'
  <2>1. setter' = setter /\ strays' \subseteq strays \cup stray
    BY <1>1 DEF Becomes
  <2>2. Keys' = Keys
    BY <2>1 DEF Keys
  <2> QED BY <1>1, <2>1, <2>2 DEF SetTypes
<1>2. ASSUME NEW s \in Lock, lock[s].on PROVE KeyOfLock(lock[s]) \in Keys
  <2>1. PICK c : c = T(lock, disturbed)
    OBVIOUS
  <2>2. SetTable(c) /\ c.lock = lock /\ lock[s].val # NoVal
    BY <1>2, <2>1, NowFacts
  <2> QED BY <2>2 DEF SetTable, Keyed
<1>3. ASSUME NEW s \in Lock, NEW pid \in PidsOf, NEW v \in SetterVal, NEW prio \in PrioritiesOf,
             NEW reset \in ResetsOf, SetterLockAcq(s, prio, reset, pid, v)
      PROVE  SetTypes'
  <2>1. PICK t : Becomes(t, {})
    BY <1>3, Zenon DEF SetterLockAcq
  <2> QED BY <1>1, <2>1
<1>4. ASSUME NEW s \in Lock, NEW pid \in PidsOf, NEW v \in SetterVal, NEW modified \in BOOLEAN,
             SetterLockReAcq(s, pid, v, modified)
      PROVE  SetTypes'
  <2>1. PICK stray : stray = StrayAgain(s, pid, v, modified)
    OBVIOUS
  <2>2. PICK t : Becomes(t, stray)
    BY <1>4, <2>1, Zenon DEF SetterLockReAcq
  <2>3. lock[s].on
    BY <1>4 DEF SetterLockReAcq
  <2>4. stray \subseteq {KeyOfLock(lock[s])}
    BY <2>1 DEF StrayAgain
  <2>5. stray \subseteq Keys
    BY <1>2, <2>3, <2>4
  <2> QED BY <1>1, <2>2, <2>5
<1>5. ASSUME NEW s \in Lock, SetterLockRel(s) PROVE SetTypes'
  <2>1. PICK stray : stray = IF Hears(lock[s].priority) THEN {} ELSE {KeyOfLock(lock[s])}
    OBVIOUS
  <2>2. PICK t : Becomes(t, stray)
    BY <1>5, <2>1, Zenon DEF SetterLockRel
  <2>3. lock[s].on
    BY <1>5 DEF SetterLockRel
  <2>4. stray \subseteq Keys
    BY <1>2, <2>1, <2>3
  <2> QED BY <1>1, <2>2, <2>4
<1>6. CASE UNCHANGED setterVars
  BY <1>6 DEF setterVars, SetTypes, Keys
<1> QED BY <1>3, <1>4, <1>5, <1>6 DEF SettersNext

\* The slots, the row, the node and the histories of any pair of setters are typed.
LEMMA SettersAreTyped == SettersSpec => []SettersTypeOK
<1>1. SettersInit => SetInv /\ SetTypes
  BY SetInvInit DEF SettersInit, SetTypes
<1>2. SetInv /\ SetTypes /\ [SettersNext]_setterVars => SetInv' /\ SetTypes'
  BY SetInvStep, SetTypesKept
<1>3. SetInv /\ SetTypes => SettersTypeOK
  <2> SUFFICES ASSUME SetInv, SetTypes PROVE SettersTypeOK
    OBVIOUS
  <2>1. PICK c : c = T(lock, disturbed)
    OBVIOUS
  <2>2. c \in CallTbl /\ c.lock = lock /\ c.rsc = rsc /\ c.device = device /\ c.disturbed = disturbed
    BY <2>1, NowFacts
  <2>3. /\ lock \in [Lock -> LockRec] /\ rsc \in RscRec
        /\ device \in [Keys -> NodeVal] /\ disturbed \subseteq Lock
    BY <2>2 DEF CallTbl
  <2> QED BY <2>3 DEF SetTypes, SettersTypeOK, LockRec, RscRec, AskVal, NodeVal
<1> QED BY <1>1, <1>2, <1>3, PTL DEF SettersSpec

\* What is asked of any unit, and what its nodes hold, are small numbers.
LEMMA LimitsAreTyped == LimitsSpec => []LimitsTypeOK
<1>1. LimitsInit => LimInv /\ LimTypes
  BY LimitsStart, LimTypesStart
<1>2. LimInv /\ LimTypes /\ [LimitsNext]_limitVars => LimInv' /\ LimTypes'
  BY LimitsStep, LimTypesKept
<1>3. LimInv /\ LimTypes => LimitsTypeOK
  BY LimitsFit
<1> QED BY <1>1, <1>2, <1>3, PTL DEF LimitsSpec

-----------------------------------------------------------------------------
\* Composed, each family behaves as it does alone: the others leave it as it is.
LEMMA ResourcesCompose == Spec => RscSpec /\ TSpec /\ NSpec /\ SettersSpec /\ LimitsSpec
<1>1. Init => RscInit /\ TInit /\ NInit /\ SettersInit /\ LimitsInit
  BY DEF Init, NInit
<1>2. [Next]_vars => [RscNext]_rscVars
  BY DEF Next, vars
<1>3. [Next]_vars => [TNext]_tVars
  BY DEF Next, vars
<1>4. [Next]_vars => [NNext]_<<uidVars, linkVars>>
  BY DEF Next, vars, NNext
<1>5. [Next]_vars => [SettersNext]_setterVars
  BY DEF Next, vars
<1>6. [Next]_vars => [LimitsNext]_limitVars
  BY DEF Next, vars
<1> QED BY <1>1, <1>2, <1>3, <1>4, <1>5, <1>6, PTL DEF Spec, RscSpec, TSpec, NSpec, SettersSpec, LimitsSpec

\* What the table, its setters, the thermal policies and the tables of Netd keep has the type its
\* declarations give it, for any number of clients, policies, uids, links, slots and processes and
\* any range of frequencies: no index leaves its table, the policies never outgrow the properties
\* they are saved in, the arbitration stays within an int, and no limit given to a driver is out
\* of the range of what can be asked for.
THEOREM ResourcesAreTyped == Spec => []TypeOK
<1>1. RscTypeOK /\ ThermalTypeOK /\ NetdTypeOK /\ SettersTypeOK /\ LimitsTypeOK => TypeOK
  BY DEF TypeOK
<1> QED BY <1>1, ResourcesCompose, ArbitrationFits, ThermalIsTyped, NetdIsTyped, SettersAreTyped, LimitsAreTyped, PTL
=============================================================================
