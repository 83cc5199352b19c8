---------------------------- MODULE LoopTheorems ----------------------------
(***************************************************************************)
(* Loops as recursive functions: that such a function exists, and what     *)
(* holds after each turn, is shown by looking at the first turn for which  *)
(* it would fail.  A claim is given as the set of turns for which it holds.*)
(* And a sequence with an element taken out.                               *)
(***************************************************************************)
EXTENDS Integers, Sequences, SequenceTheorems, WellFoundedInduction, TLAPS

\* Every nonempty set of naturals has a least element.
LEMMA LeastNat ==
  ASSUME NEW T, T \subseteq Nat, T # {}
  PROVE  \E x \in T : \A y \in T : x <= y
<1> DEFINE R == {ss \in Nat \X Nat : ss[1] < ss[2]}
<1>1. IsWellFoundedOn(R, Nat)
  BY NatLessThanWellFounded DEF OpToRel
<1>2. PICK x \in T : \A y \in T : ~ (<<y, x>> \in R)
  <2> HIDE DEF R
  <2> QED BY <1>1, WFMin
<1>3. ASSUME NEW y \in T PROVE x <= y
  <2>1. x \in Nat /\ y \in Nat
    OBVIOUS
  <2>2. <<y, x>> \in Nat \X Nat
    BY <2>1
  <2>3. ~(y < x)
    BY <1>2, <2>2
  <2> QED BY <2>1, <2>3
<1> QED
  BY <1>3

\* What holds at 0 and is handed on from turn to turn holds after every turn.
LEMMA TurnByTurn ==
  ASSUME NEW n \in Nat, NEW G, 0 \in G, \A k \in 1 .. n : k - 1 \in G => k \in G
  PROVE  \A k \in 0 .. n : k \in G
<1> DEFINE Bad == {k \in 0 .. n : k \notin G}
<1>1. SUFFICES ASSUME Bad # {} PROVE FALSE
  OBVIOUS
<1>2. PICK m \in Bad : \A k \in Bad : m <= k
  <2>1. Bad \subseteq Nat
    OBVIOUS
  <2> HIDE DEF Bad
  <2> QED BY <1>1, <2>1, LeastNat
<1>3. m \in 1 .. n /\ m - 1 \in 0 .. n /\ m \notin G
  BY <1>2
<1>4. m - 1 \notin Bad
  BY <1>2, <1>3
<1> QED BY <1>3, <1>4

\* The values of a loop, turn by turn.
Looped(n, S, t, body) ==
  \E h \in [0 .. n -> S] : h[0] = t /\ \A k \in 1 .. n : h[k] = body[<<h[k - 1], k>>]

\* A loop whose body stays in a set has a value after every turn.
LEMMA LoopExists ==
  ASSUME NEW n \in Nat, NEW S, NEW t \in S, NEW body \in [S \X (1 .. n) -> S]
  PROVE  Looped(n, S, t, body)
<1> DEFINE Upto(m) == \E h \in [0 .. m -> S] : h[0] = t /\ \A k \in 1 .. m : h[k] = body[<<h[k - 1], k>>]
           G == {m \in 0 .. n : Upto(m)}
<1>1. Upto(0)
  <2>1. [i \in 0 .. 0 |-> t] \in [0 .. 0 -> S] /\ [i \in 0 .. 0 |-> t][0] = t
    OBVIOUS
  <2>2. PICK h \in [0 .. 0 -> S] : h[0] = t
    BY <2>1
  <2>3. \A k \in 1 .. 0 : h[k] = body[<<h[k - 1], k>>]
    OBVIOUS
  <2> QED BY <2>2, <2>3
<1>2. ASSUME NEW m \in 1 .. n, Upto(m - 1) PROVE Upto(m)
  <2>1. PICK h \in [0 .. m - 1 -> S] : h[0] = t /\ \A k \in 1 .. m - 1 : h[k] = body[<<h[k - 1], k>>]
    BY <1>2
  <2>2. m - 1 \in 0 .. m - 1 /\ h[m - 1] \in S
    OBVIOUS
  <2>3. PICK x \in S : x = body[<<h[m - 1], m>>]
    BY <2>2
  <2>4. PICK f : f = [i \in 0 .. m |-> IF i = m THEN x ELSE h[i]]
    OBVIOUS
  <2>5. f \in [0 .. m -> S] /\ f[m] = x /\ \A i \in 0 .. m - 1 : f[i] = h[i]
    BY <2>4
  <2>6. f[0] = t
    BY <2>1, <2>5
  <2>7. ASSUME NEW k \in 1 .. m PROVE f[k] = body[<<f[k - 1], k>>]
    <3>1. k - 1 \in 0 .. m - 1 /\ f[k - 1] = h[k - 1]
      BY <2>5
    <3>2. CASE k = m
      BY <2>3, <2>5, <3>1, <3>2
    <3>3. CASE k # m
      <4>1. k \in 1 .. m - 1 /\ k \in 0 .. m - 1
        BY <3>3
      <4> QED BY <2>1, <2>5, <3>1, <4>1
    <3> QED BY <3>2, <3>3
  <2> QED BY <2>5, <2>6, <2>7
<1>3. 0 \in G
  BY <1>1
<1>4. \A m \in 1 .. n : m - 1 \in G => m \in G
  <2> HIDE DEF Upto
  <2> QED BY <1>2
<1>5. \A m \in 0 .. n : m \in G
  <2> HIDE DEF G
  <2> QED BY <1>3, <1>4, TurnByTurn
<1>6. n \in 0 .. n
  OBVIOUS
<1>7. Upto(n)
  <2> HIDE DEF Upto
  <2> QED BY <1>5, <1>6
<1> QED BY <1>7 DEF Looped

-----------------------------------------------------------------------------
\* A sequence with its i-th element taken out.
CutOut(s, i) == SubSeq(s, 1, i - 1) \o SubSeq(s, i + 1, Len(s))

\* The elements before it stay where they are, those behind it move up by one.
LEMMA CutOutFacts ==
  ASSUME NEW S, NEW s \in Seq(S), NEW i \in DOMAIN s
  PROVE  /\ CutOut(s, i) \in Seq(S) /\ Len(CutOut(s, i)) = Len(s) - 1
         /\ \A k \in 1 .. Len(s) - 1 : CutOut(s, i)[k] = IF k < i THEN s[k] ELSE s[k + 1]
<1>1. i \in 1 .. Len(s) /\ Len(s) \in Nat /\ \A k \in 1 .. Len(s) : s[k] \in S
  OBVIOUS
<1>2. PICK a, b : a = SubSeq(s, 1, i - 1) /\ b = SubSeq(s, i + 1, Len(s))
  OBVIOUS
<1>3. /\ a \in Seq(S) /\ Len(a) = i - 1
      /\ \A k \in 1 .. i - 1 : a[k] = s[k]
  <2>1. \A k \in 1 .. i - 1 : s[k] \in S
    BY <1>1
  <2> QED BY <1>1, <1>2, <2>1, SubSeqProperties
<1>4. /\ b \in Seq(S) /\ Len(b) = Len(s) - i
      /\ \A k \in 1 .. Len(s) - i : b[k] = s[i + k]
  <2>1. \A k \in i + 1 .. Len(s) : s[k] \in S
    BY <1>1
  <2>2. /\ b \in Seq(S) /\ Len(b) = IF i + 1 <= Len(s) THEN Len(s) - (i + 1) + 1 ELSE 0
        /\ \A k \in 1 .. Len(s) - (i + 1) + 1 : b[k] = s[(i + 1) + k - 1]
    BY <1>1, <1>2, <2>1, SubSeqProperties
  <2> QED BY <1>1, <2>2
<1>5. PICK r : r = a \o b
  OBVIOUS
<1>6. /\ r \in Seq(S) /\ Len(r) = Len(s) - 1
      /\ \A k \in 1 .. Len(s) - 1 : r[k] = IF k <= i - 1 THEN a[k] ELSE b[k - (i - 1)]
  <2>1. /\ r \in Seq(S) /\ Len(r) = Len(a) + Len(b)
        /\ \A k \in 1 .. Len(a) + Len(b) : r[k] = IF k <= Len(a) THEN a[k] ELSE b[k - Len(a)]
    BY <1>3, <1>4, <1>5, ConcatProperties
  <2>2. PICK n \in Nat : n = Len(s)
    BY <1>1
  <2>3. Len(a) = i - 1 /\ Len(b) = n - i /\ i \in 1 .. n
    BY <1>1, <1>3, <1>4, <2>2
  <2>4. (i - 1) + (n - i) = n - 1
    BY <2>2, <2>3
  <2> QED BY <2>1, <2>2, <2>3, <2>4
<1>7. CutOut(s, i) = r
  BY <1>2, <1>5 DEF CutOut
<1>8. ASSUME NEW k \in 1 .. Len(s) - 1 PROVE r[k] = IF k < i THEN s[k] ELSE s[k + 1]
  <2>1. CASE k < i
    BY <1>1, <1>3, <1>6, <2>1
  <2>2. CASE ~(k < i)
    <3>1. PICK j \in 1 .. Len(s) - i : j = k - (i - 1) /\ i + j = k + 1
      <4>1. PICK n \in Nat : n = Len(s)
        BY <1>1
      <4>2. k - (i - 1) \in 1 .. n - i /\ i + (k - (i - 1)) = k + 1
        BY <1>1, <2>2, <4>1
      <4> QED BY <4>1, <4>2
    <3>2. r[k] = b[j] /\ b[j] = s[i + j]
      BY <1>1, <1>4, <1>6, <2>2, <3>1
    <3> QED BY <2>2, <3>1, <3>2
  <2> QED BY <2>1, <2>2
<1> QED BY <1>6, <1>7, <1>8
=============================================================================
