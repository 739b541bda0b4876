--------------------------- MODULE SequenceLemmas ---------------------------
(***************************************************************************)
(* Lemmas about the operators on numbers, sets and sequences that the      *)
(* specifications are built from.                                          *)
(***************************************************************************)
EXTENDS Integers, Sequences, SequencesExt, WellFoundedInduction, TLAPS

(***************************************************************************)
(* Natural numbers: a non-empty set has a least element, and if it is      *)
(* bounded a greatest; induction over a set.                               *)
(***************************************************************************)
LessThan == {ss \in Nat \X Nat : ss[1] < ss[2]}

\* The order of the natural numbers is well founded.
LEMMA LessThanWF == IsWellFoundedOn(LessThan, Nat)
  BY NatLessThanWellFounded, Zenon DEF OpToRel, LessThan

\* A set of natural numbers that is not empty has a least element.
LEMMA NatMin ==
  ASSUME NEW S \in SUBSET Nat, S # {}
  PROVE  Min(S) \in S /\ \A y \in S : Min(S) <= y
  <1>1. \A x, y \in Nat : <<x, y>> \in LessThan <=> x < y
    BY DEF LessThan
  <1>2. PICK x \in S : \A y \in S : ~(<<y, x>> \in LessThan)
    BY LessThanWF, WFMin
  <1>3. \A y \in S : ~(y < x)
    BY <1>1, <1>2
  <1>4. \A y \in S : x <= y
    BY <1>3
  <1> QED
    BY <1>4 DEF Min

\* A set of natural numbers that is bounded has a greatest element.
LEMMA NatMax ==
  ASSUME NEW S \in SUBSET Nat, S # {}, NEW n \in Nat, \A y \in S : y <= n
  PROVE  Max(S) \in S /\ \A y \in S : y <= Max(S)
  <1> DEFINE T == {k \in Nat : \A y \in S : y <= k}
             m == Min(T)
  <1>1. m \in T /\ \A k \in T : m <= k
    <2>1. T \in SUBSET Nat /\ n \in T
      OBVIOUS
    <2> HIDE DEF T
    <2> QED
      BY <2>1, NatMin
  <1> HIDE DEF m
  <1>2. m \in S
    <2> SUFFICES ASSUME m \notin S PROVE FALSE
      OBVIOUS
    <2>1. PICK y \in S : TRUE
      OBVIOUS
    <2>2. \A z \in S : z <= m - 1
      <3>1. ASSUME NEW z \in S PROVE z <= m - 1
        <4>1. z \in Nat /\ z <= m /\ z # m /\ m \in Nat
          BY <1>1
        <4> QED
          BY <4>1
      <3> QED
        BY <3>1
    <2>3. m - 1 \in Nat
      <3>1. y \in Nat /\ y <= m - 1 /\ m \in Nat
        BY <1>1, <2>1, <2>2
      <3> QED
        BY <3>1
    <2>4. m - 1 \in T
      BY <2>2, <2>3
    <2>5. m <= m - 1
      BY <1>1, <2>4
    <2> QED
      BY <1>1, <2>5
  <1>3. \E x \in S : \A y \in S : x >= y
    <2>1. \A y \in S : m >= y
      <3>1. \A y \in S : y <= m /\ y \in Int /\ m \in Int
        BY <1>1
      <3> QED
        BY <3>1
    <2> QED
      BY <1>2, <2>1
  <1>4. Max(S) \in S /\ \A y \in S : Max(S) >= y
    BY <1>3 DEF Max
  <1>5. \A y \in S : y \in Int /\ Max(S) \in Int
    <2>1. S \subseteq Int
      OBVIOUS
    <2> QED
      BY <1>4, <2>1
  <1> QED
    BY <1>4, <1>5

\* A set with 0, and with n + 1 for each n in it, has every natural number.
LEMMA SetInduction ==
  ASSUME NEW S, 0 \in S, \A n \in Nat : n \in S => n + 1 \in S
  PROVE  Nat \subseteq S
  <1> SUFFICES ASSUME Nat \ S # {} PROVE FALSE
    OBVIOUS
  <1> DEFINE x == Min(Nat \ S)
  <1>1. x \in Nat \ S /\ \A y \in Nat \ S : x <= y
    <2>1. Nat \ S \in SUBSET Nat
      OBVIOUS
    <2> QED
      BY <2>1, NatMin
  <1> HIDE DEF x
  <1>2. x - 1 \in Nat /\ x - 1 \notin Nat \ S
    BY <1>1
  <1> QED
    BY <1>1, <1>2
------------------------------------------------------------------------------
(***************************************************************************)
(* FlattenSeq, which pushes the atoms of one regexp after the other.       *)
(***************************************************************************)
Flattens(n, s, f) == f = [i \in 1..n |-> IF i = 1 THEN s[i] ELSE f[i - 1] \o s[i]]
Flattenable(X, n, s) ==
  {k \in Nat : k <= n => \E f \in [1..k -> Seq(X)] : Flattens(k, s, f)}

\* Every sequence of sequences has a function that flattens its prefixes.
LEMMA FlattenExists ==
  ASSUME NEW X, NEW n \in Nat, NEW s \in [1..n -> Seq(X)]
  PROVE  \E f \in [1..n -> Seq(X)] : Flattens(n, s, f)
  <1> DEFINE S == Flattenable(X, n, s)
  <1>1. 0 \in S
    <2>1. [i \in 1..0 |-> <<>>] \in [1..0 -> Seq(X)] /\ Flattens(0, s, [i \in 1..0 |-> <<>>])
      BY DEF Flattens
    <2> QED
      BY <2>1 DEF Flattenable
  <1>2. ASSUME NEW k \in Nat, k \in S
        PROVE  k + 1 \in S
    <2>0. CASE ~(k + 1 <= n)
      BY <2>0 DEF Flattenable
    <2>1. CASE k + 1 <= n
      <3>1. PICK f \in [1..k -> Seq(X)] : Flattens(k, s, f)
        BY <1>2, <2>1 DEF Flattenable
      <3> DEFINE last == IF k = 0 THEN s[1] ELSE f[k] \o s[k + 1]
                 g == [i \in 1..k + 1 |-> IF i = k + 1 THEN last ELSE f[i]]
      <3>2. last \in Seq(X)
        BY <2>1
      <3>3. g \in [1..k + 1 -> Seq(X)]
        BY <3>2
      <3>4. ASSUME NEW i \in 1..k + 1
            PROVE  g[i] = IF i = 1 THEN s[i] ELSE g[i - 1] \o s[i]
        <4>1. CASE i = k + 1
          BY <4>1
        <4>2. CASE i # k + 1
          <5>1. i \in 1..k /\ g[i] = f[i] /\ (i # 1 => i - 1 \in 1..k /\ g[i - 1] = f[i - 1])
            BY <4>2
          <5>2. f[i] = IF i = 1 THEN s[i] ELSE f[i - 1] \o s[i]
            BY <3>1, <5>1 DEF Flattens
          <5> QED
            BY <5>1, <5>2
        <4> QED
          BY <4>1, <4>2
      <3> HIDE DEF last
      <3>5. Flattens(k + 1, s, g)
        BY <3>4 DEF Flattens
      <3> HIDE DEF g
      <3> QED
        BY <3>3, <3>5, <2>1 DEF Flattenable
    <2> QED
      BY <2>0, <2>1
  <1> HIDE DEF S
  <1>3. n \in S
    BY <1>1, <1>2, SetInduction
  <1> QED
    BY <1>3 DEF S, Flattenable

\* The sequence r has the elements of the first k sequences of s and no others; it is at
\* least as long as each of them, and when these have up to two elements, as two of each
\* at most.
Collects(X, s, k, r) ==
  /\ r \in Seq(X)
  /\ \A i \in 1..k : Len(s[i]) <= Len(r)
  /\ \A i \in 1..k : ToSet(s[i]) \subseteq ToSet(r)
  /\ \A a \in ToSet(r) : \E i \in 1..k : a \in ToSet(s[i])
  /\ (\A i \in 1..k : Len(s[i]) <= 2) => Len(r) <= 2 * k

\* The elements and the length of a sequence that goes on with another.
LEMMA Concatenated ==
  ASSUME NEW X, NEW p \in Seq(X), NEW q \in Seq(X)
  PROVE  /\ p \o q \in Seq(X) /\ ToSet(p \o q) = ToSet(p) \cup ToSet(q)
         /\ Len(p) <= Len(p \o q) /\ Len(q) <= Len(p \o q)
         /\ Len(p \o q) = Len(p) + Len(q)
  <1>1. Len(p \o q) = Len(p) + Len(q) /\ DOMAIN (p \o q) = 1..(Len(p) + Len(q))
    OBVIOUS
  <1>2. ASSUME NEW i \in 1..(Len(p) + Len(q))
        PROVE  (p \o q)[i] \in ToSet(p) \cup ToSet(q)
    <2>1. CASE i <= Len(p)
      <3>1. i \in DOMAIN p /\ (p \o q)[i] = p[i]
        BY <2>1
      <3> QED
        BY <3>1 DEF ToSet
    <2>2. CASE ~(i <= Len(p))
      <3>1. i - Len(p) \in DOMAIN q /\ (p \o q)[i] = q[i - Len(p)]
        BY <2>2
      <3> QED
        BY <3>1 DEF ToSet
    <2> QED
      BY <2>1, <2>2
  <1>3. ASSUME NEW i \in DOMAIN p
        PROVE  p[i] \in ToSet(p \o q)
    <2>1. i \in 1..(Len(p) + Len(q)) /\ (p \o q)[i] = p[i]
      OBVIOUS
    <2> QED
      BY <2>1, <1>1 DEF ToSet
  <1>4. ASSUME NEW i \in DOMAIN q
        PROVE  q[i] \in ToSet(p \o q)
    <2>1. Len(p) + i \in 1..(Len(p) + Len(q)) /\ (p \o q)[Len(p) + i] = q[i]
      OBVIOUS
    <2> QED
      BY <2>1, <1>1 DEF ToSet
  <1>5. Len(p) <= Len(p \o q) /\ Len(q) <= Len(p \o q)
    BY <1>1
  <1>6. ToSet(p \o q) = ToSet(p) \cup ToSet(q)
    BY <1>1, <1>2, <1>3, <1>4 DEF ToSet
  <1> QED
    BY <1>1, <1>5, <1>6

\* FlattenSeq collects all its sequences.
LEMMA Flattened ==
  ASSUME NEW X, NEW n \in Nat, NEW s \in [1..n -> Seq(X)]
  PROVE  Collects(X, s, n, FlattenSeq(s))
  <1>1. s \in Seq(Seq(X)) /\ Len(s) = n
    OBVIOUS
  <1>2. CASE n = 0
    BY <1>1, <1>2 DEF FlattenSeq, ToSet, Collects
  <1>3. CASE n # 0
    <2>1. PICK h : Flattens(n, s, h) /\ FlattenSeq(s) = h[n]
      <3> DEFINE h == CHOOSE f : Flattens(n, s, f)
      <3>1. FlattenSeq(s) = h[n]
        BY <1>1, <1>3 DEF FlattenSeq, Flattens
      <3>2. Flattens(n, s, h)
        BY FlattenExists
      <3> QED
        BY <3>1, <3>2
    <2> DEFINE S == {k \in Nat : k \in 1..n => Collects(X, s, k, h[k])}
    <2>2. \A i \in 1..n : h[i] = IF i = 1 THEN s[i] ELSE h[i - 1] \o s[i]
      BY <2>1 DEF Flattens
    <2>3. 0 \in S
      OBVIOUS
    <2>4. ASSUME NEW k \in Nat, k \in S
          PROVE  k + 1 \in S
      <3> SUFFICES ASSUME k + 1 \in 1..n PROVE Collects(X, s, k + 1, h[k + 1])
        OBVIOUS
      <3>1. CASE k = 0
        BY <3>1, <2>2 DEF Collects
      <3>2. CASE k # 0
        <4>1. Collects(X, s, k, h[k]) /\ s[k + 1] \in Seq(X)
          BY <2>4, <3>2
        <4>2. h[k + 1] = h[k] \o s[k + 1]
          <5>1. k + 1 # 1 /\ (k + 1) - 1 = k
            BY <3>2
          <5> QED
            BY <5>1, <2>2
        <4>3. h[k] \in Seq(X) /\ ToSet(h[k + 1]) = ToSet(h[k]) \cup ToSet(s[k + 1])
          BY <4>1, <4>2, Concatenated DEF Collects
        <4>4. /\ h[k + 1] \in Seq(X)
              /\ Len(h[k]) <= Len(h[k + 1]) /\ Len(s[k + 1]) <= Len(h[k + 1])
          <5>1. /\ h[k] \o s[k + 1] \in Seq(X)
                /\ Len(h[k]) <= Len(h[k] \o s[k + 1]) /\ Len(s[k + 1]) <= Len(h[k] \o s[k + 1])
            BY <4>1, <4>3, Concatenated
          <5> QED
            BY <5>1, <4>2, Zenon
        <4>5. \A i \in 1..k + 1 : i \in 1..k \/ i = k + 1
          OBVIOUS
        <4>6. ASSUME NEW i \in 1..k + 1 
              PROVE  Len(s[i]) <= Len(h[k + 1]) /\ ToSet(s[i]) \subseteq ToSet(h[k + 1])
          <5>1. CASE i \in 1..k
            <6>1. Len(s[i]) \in Nat /\ Len(h[k]) \in Nat /\ Len(h[k + 1]) \in Nat
              BY <4>3, <4>4
            <6>2. Len(s[i]) <= Len(h[k]) /\ ToSet(s[i]) \subseteq ToSet(h[k])
              BY <5>1, <4>1 DEF Collects
            <6> QED
              BY <6>1, <6>2, <4>3, <4>4, SMTT(30)
          <5>2. CASE i = k + 1
            BY <5>2, <4>3, <4>4
          <5> QED
            BY <5>1, <5>2, <4>5
        <4>7. ASSUME NEW a \in ToSet(h[k + 1])
              PROVE  \E i \in 1..k + 1 : a \in ToSet(s[i])
          <5>1. 1..k \subseteq 1..k + 1 /\ k + 1 \in 1..k + 1
            OBVIOUS
          <5> QED
            BY <5>1, <4>1, <4>3 DEF Collects
        <4>8. ASSUME \A i \in 1..k + 1 : Len(s[i]) <= 2
              PROVE  Len(h[k + 1]) <= 2 * (k + 1)
          <5>1. Len(h[k]) <= 2 * k /\ Len(h[k]) \in Nat
            BY <4>8, <4>1, <4>3 DEF Collects
          <5>2. Len(s[k + 1]) <= 2 /\ Len(s[k + 1]) \in Nat
            BY <4>8, <4>1
          <5>3. Len(h[k] \o s[k + 1]) = Len(h[k]) + Len(s[k + 1])
            BY <4>1, <4>3, Concatenated
          <5>4. Len(h[k + 1]) = Len(h[k]) + Len(s[k + 1])
            BY <5>3, <4>2, Zenon
          <5>5. \A m, l \in Nat : m <= 2 * k /\ l <= 2 => m + l <= 2 * (k + 1)
            OBVIOUS
          <5>6. Len(h[k]) + Len(s[k + 1]) <= 2 * (k + 1)
            BY <5>1, <5>2, <5>5, Zenon
          <5> QED
            BY <5>4, <5>6, Zenon
        <4> QED
          BY <4>4, <4>6, <4>7, <4>8 DEF Collects
      <3> QED
        BY <3>1, <3>2
    <2> HIDE DEF S
    <2>5. n \in S
      BY <2>3, <2>4, SetInduction
    <2> QED
      BY <2>5, <2>1, <1>3 DEF S
  <1> QED
    BY <1>2, <1>3

\* FlattenSeq of two sequences.
LEMMA TwoFlattened ==
  ASSUME NEW X, NEW s \in [1..2 -> Seq(X)]
  PROVE  FlattenSeq(s) = s[1] \o s[2]
  <1>1. Len(s) = 2
    <2>1. PICK n \in Nat : n = 2
      OBVIOUS
    <2>2. s \in [1..n -> Seq(X)]
      BY <2>1
    <2>3. Len(s) = n
      BY <2>2
    <2> QED
      BY <2>1, <2>3
  <1> DEFINE h == CHOOSE f : Flattens(2, s, f)
  <1>2. FlattenSeq(s) = h[2]
    BY <1>1 DEF FlattenSeq, Flattens
  <1>3. Flattens(2, s, h)
    BY FlattenExists
  <1> HIDE DEF h
  <1>4. \A i \in 1..2 : h[i] = IF i = 1 THEN s[i] ELSE h[i - 1] \o s[i]
    BY <1>3 DEF Flattens
  <1>5. h[1] = s[1] /\ h[2] = h[1] \o s[2]
    <2>1. 1 \in 1..2 /\ 2 \in 1..2 /\ 2 # 1 /\ 2 - 1 = 1
      OBVIOUS
    <2> QED
      BY <1>4, <2>1
  <1> QED
    BY <1>2, <1>5

\* The pairs s[1], ..., s[k], one after the other.
InPairs(X, s, k, r) ==
  /\ r \in Seq(X) /\ Len(r) = 2 * k
  /\ \A i \in 1..k : r[2 * i - 1] = s[i][1] /\ r[2 * i] = s[i][2]

\* A pair more.
LEMMA PairAdded ==
  ASSUME NEW X, NEW k \in Nat, NEW s, NEW r, InPairs(X, s, k, r),
         s[k + 1] \in Seq(X), Len(s[k + 1]) = 2
  PROVE  InPairs(X, s, k + 1, r \o s[k + 1])
  <1>1. PICK q \in Seq(X) : q = s[k + 1] /\ Len(q) = 2
    OBVIOUS
  <1>2. r \in Seq(X) /\ Len(r) = 2 * k
    BY DEF InPairs
  <1>3. r \o q \in Seq(X) /\ Len(r \o q) = 2 * (k + 1)
    <2>1. r \o q \in Seq(X) /\ Len(r \o q) = Len(r) + Len(q)
      BY <1>1, <1>2, Concatenated
    <2>2. 2 * k + 2 = 2 * (k + 1)
      OBVIOUS
    <2>3. Len(r) + Len(q) = 2 * k + 2
      BY <1>1, <1>2
    <2> QED
      BY <2>1, <2>2, <2>3
  <1>4. ASSUME NEW i \in 1..k + 1
        PROVE  (r \o q)[2 * i - 1] = s[i][1] /\ (r \o q)[2 * i] = s[i][2]
    <2>1. CASE i \in 1..k
      <3>1. 2 * i - 1 \in 1..2 * k /\ 2 * i \in 1..2 * k
        BY <2>1
      <3>2. (r \o q)[2 * i - 1] = r[2 * i - 1] /\ (r \o q)[2 * i] = r[2 * i]
        BY <1>1, <1>2, <3>1
      <3> QED
        BY <2>1, <3>2 DEF InPairs
    <2>2. CASE i = k + 1
      <3>1. 2 * i - 1 = Len(r) + 1 /\ 2 * i = Len(r) + 2
        BY <1>2, <2>2
      <3>2. (r \o q)[Len(r) + 1] = q[1] /\ (r \o q)[Len(r) + 2] = q[2]
        BY <1>1, <1>2, SMTT(30)
      <3> QED
        BY <1>1, <2>2, <3>1, <3>2
    <2>3. i \in 1..k \/ i = k + 1
      OBVIOUS
    <2> QED
      BY <2>1, <2>2, <2>3
  <1> QED
    BY <1>1, <1>3, <1>4, Zenon DEF InPairs

\* FlattenSeq of pairs.
LEMMA PairsFlattened ==
  ASSUME NEW X, NEW n \in Nat, NEW s \in [1..n -> Seq(X)], \A i \in 1..n : Len(s[i]) = 2
  PROVE  InPairs(X, s, n, FlattenSeq(s))
  <1>1. s \in Seq(Seq(X)) /\ Len(s) = n
    OBVIOUS
  <1>2. CASE n = 0
    BY <1>1, <1>2 DEF FlattenSeq, InPairs
  <1>3. CASE n # 0
    <2>1. PICK h : Flattens(n, s, h) /\ FlattenSeq(s) = h[n]
      <3> DEFINE h == CHOOSE f : Flattens(n, s, f)
      <3>1. FlattenSeq(s) = h[n]
        BY <1>1, <1>3 DEF FlattenSeq, Flattens
      <3>2. Flattens(n, s, h)
        BY FlattenExists
      <3> QED
        BY <3>1, <3>2
    <2> DEFINE S == {k \in Nat : k \in 1..n => InPairs(X, s, k, h[k])}
    <2>2. \A i \in 1..n : h[i] = IF i = 1 THEN s[i] ELSE h[i - 1] \o s[i]
      BY <2>1 DEF Flattens
    <2>3. 0 \in S
      OBVIOUS
    <2>4. ASSUME NEW k \in Nat, k \in S
          PROVE  k + 1 \in S
      <3> SUFFICES ASSUME k + 1 \in 1..n PROVE InPairs(X, s, k + 1, h[k + 1])
        OBVIOUS
      <3>1. CASE k = 0
        <4>1. h[1] = s[1] /\ s[1] \in Seq(X) /\ Len(s[1]) = 2
          BY <2>2, <3>1
        <4>2. \A i \in 1..1 : 2 * i - 1 = 1 /\ 2 * i = 2 /\ i = 1
          OBVIOUS
        <4>3. InPairs(X, s, 1, h[1])
          BY <4>1, <4>2 DEF InPairs
        <4> QED
          BY <3>1, <4>3
      <3>2. CASE k # 0
        <4>1. InPairs(X, s, k, h[k]) /\ s[k + 1] \in Seq(X) /\ Len(s[k + 1]) = 2
          BY <2>4, <3>2
        <4>2. h[k + 1] = h[k] \o s[k + 1]
          <5>1. k + 1 # 1 /\ (k + 1) - 1 = k
            BY <3>2
          <5> QED
            BY <5>1, <2>2
        <4>3. InPairs(X, s, k + 1, h[k] \o s[k + 1])
          BY <4>1, PairAdded
        <4> QED
          BY <4>2, <4>3, Zenon
      <3> QED
        BY <3>1, <3>2
    <2> HIDE DEF S
    <2>5. n \in S
      BY <2>3, <2>4, SetInduction
    <2> QED
      BY <2>5, <2>1, <1>3 DEF S
  <1> QED
    BY <1>2, <1>3
\* FlattenSeq, prefix by prefix.
IsPrefixes(X, n, s, h) ==
  /\ h \in [0..n -> Seq(X)] /\ h[0] = <<>>
  /\ \A k \in 0..n - 1 :
       h[k + 1] = h[k] \o s[k + 1] /\ Len(h[k + 1]) = Len(h[k]) + Len(s[k + 1])

\* Every sequence of sequences has its flattened prefixes, and FlattenSeq is the last.
LEMMA FlattenSteps ==
  ASSUME NEW X, NEW n \in Nat, NEW s \in [1..n -> Seq(X)]
  PROVE  \E h : IsPrefixes(X, n, s, h) /\ h[n] = FlattenSeq(s)
  <1>1. s \in Seq(Seq(X)) /\ Len(s) = n
    OBVIOUS
  <1>2. CASE n = 0
    <2> DEFINE h == [k \in 0..0 |-> <<>>]
    <2>1. FlattenSeq(s) = <<>>
      BY <1>1, <1>2 DEF FlattenSeq
    <2>2. IsPrefixes(X, 0, s, h) /\ h[0] = <<>>
      <3>1. ~\E k \in 0..0 - 1 : TRUE
        OBVIOUS
      <3> QED
        BY <3>1 DEF IsPrefixes
    <2> QED
      BY <2>1, <2>2, <1>2, Zenon
  <1>3. CASE n # 0
    <2>1. PICK f : Flattens(n, s, f) /\ FlattenSeq(s) = f[n] /\ f \in [1..n -> Seq(X)]
      <3> DEFINE g == CHOOSE f : Flattens(n, s, f)
      <3>1. FlattenSeq(s) = g[n]
        BY <1>1, <1>3 DEF FlattenSeq, Flattens
      <3>2. PICK f \in [1..n -> Seq(X)] : Flattens(n, s, f)
        BY FlattenExists
      <3>3. Flattens(n, s, g)
        BY <3>2
      <3> HIDE DEF g
      <3> DEFINE S == {k \in Nat : k \in 1..n => g[k] = f[k]}
      <3>4. \A k \in 1..n : f[k] = IF k = 1 THEN s[k] ELSE f[k - 1] \o s[k]
        BY <3>2 DEF Flattens
      <3>5. \A k \in 1..n : g[k] = IF k = 1 THEN s[k] ELSE g[k - 1] \o s[k]
        BY <3>3 DEF Flattens
      <3>6. ASSUME NEW k \in Nat, k \in S PROVE k + 1 \in S
        <4>1. CASE k = 0
          BY <4>1, <3>4, <3>5
        <4>2. CASE k # 0
          <5> SUFFICES ASSUME k + 1 \in 1..n PROVE g[k + 1] = f[k + 1]
            OBVIOUS
          <5>1. g[k] = f[k] /\ k + 1 # 1 /\ (k + 1) - 1 = k
            BY <3>6, <4>2
          <5>2. g[k + 1] = g[(k + 1) - 1] \o s[k + 1]
            BY <5>1, <3>5, Zenon
          <5>3. f[k + 1] = f[(k + 1) - 1] \o s[k + 1]
            BY <5>1, <3>4, Zenon
          <5> QED
            BY <5>1, <5>2, <5>3
        <4> QED
          BY <4>1, <4>2
      <3>7. 0 \in S
        OBVIOUS
      <3> HIDE DEF S
      <3>8. n \in S
        BY <3>6, <3>7, SetInduction
      <3>9. g[n] = f[n]
        BY <3>8, <1>3 DEF S
      <3> QED
        BY <3>1, <3>2, <3>9
    <2> DEFINE h == [k \in 0..n |-> IF k = 0 THEN <<>> ELSE f[k]]
    <2>2. h \in [0..n -> Seq(X)] /\ h[0] = <<>> /\ h[n] = FlattenSeq(s)
      BY <2>1, <1>3
    <2>3. ASSUME NEW k \in 0..n - 1 PROVE h[k + 1] = h[k] \o s[k + 1]
      <3>1. k + 1 \in 1..n /\ h[k + 1] = f[k + 1] /\ s[k + 1] \in Seq(X)
        OBVIOUS
      <3>2. f[k + 1] = IF k + 1 = 1 THEN s[k + 1] ELSE f[(k + 1) - 1] \o s[k + 1]
        BY <3>1, <2>1 DEF Flattens
      <3>3. CASE k = 0
        BY <3>1, <3>2, <3>3
      <3>4. CASE k # 0
        <4>1. k + 1 # 1 /\ (k + 1) - 1 = k /\ h[k] = f[k]
          BY <3>4
        <4> HIDE DEF h
        <4> QED
          BY <3>1, <3>2, <4>1
      <3> QED
        BY <3>3, <3>4
    <2> HIDE DEF h
    <2>4. ASSUME NEW k \in 0..n - 1 PROVE Len(h[k + 1]) = Len(h[k]) + Len(s[k + 1])
      <3>1. k \in 0..n /\ k + 1 \in 1..n
        OBVIOUS
      <3>2. h[k] \in Seq(X) /\ s[k + 1] \in Seq(X)
        BY <3>1, <2>2
      <3>3. \A p, q \in Seq(X) : Len(p \o q) = Len(p) + Len(q)
        OBVIOUS
      <3>4. Len(h[k] \o s[k + 1]) = Len(h[k]) + Len(s[k + 1])
        BY <3>2, <3>3, Zenon
      <3>5. h[k + 1] = h[k] \o s[k + 1]
        BY <2>3
      <3> QED
        BY <3>4, <3>5, Zenon
    <2> QED
      BY <2>2, <2>3, <2>4 DEF IsPrefixes
  <1> QED
    BY <1>2, <1>3

\* What holds of the empty prefix and goes on from one prefix to the next holds of the
\* last.
LEMMA PrefixInduction ==
  ASSUME NEW n \in Nat, NEW S, 0 \in S, \A k \in 0..n - 1 : k \in S => k + 1 \in S
  PROVE  n \in S
  <1> DEFINE T == {k \in Nat : k <= n => k \in S}
  <1>1. 0 \in T /\ \A k \in Nat : k \in T => k + 1 \in T
    OBVIOUS
  <1> HIDE DEF T
  <1>2. Nat \subseteq T
    BY <1>1, SetInduction
  <1> QED
    BY <1>2 DEF T

\* A set of sequences with the empty one, and with every two the one that goes on from the
\* first with the second, has what FlattenSeq makes of its members.
LEMMA FlattenClosed ==
  ASSUME NEW X, NEW C \in SUBSET Seq(X), <<>> \in C, \A p, q \in C : p \o q \in C,
         NEW n \in Nat, NEW s \in [1..n -> C]
  PROVE  FlattenSeq(s) \in C
  <1>0. s \in [1..n -> Seq(X)]
    OBVIOUS
  <1>1. PICK h : IsPrefixes(X, n, s, h) /\ h[n] = FlattenSeq(s)
    BY <1>0, FlattenSteps
  <1> DEFINE S == {k \in 0..n : h[k] \in C}
  <1>2. 0 \in S
    BY <1>1 DEF IsPrefixes
  <1>3. ASSUME NEW k \in 0..n - 1, k \in S PROVE k + 1 \in S
    <2>1. k + 1 \in 1..n /\ k + 1 \in 0..n /\ s[k + 1] \in C
      OBVIOUS
    <2>2. h[k + 1] = h[k] \o s[k + 1]
      BY <1>1 DEF IsPrefixes
    <2>3. h[k] \o s[k + 1] \in C
      BY <2>1, <1>3
    <2> QED
      BY <2>1, <2>2, <2>3
  <1> HIDE DEF S
  <1>4. n \in S
    BY <1>2, <1>3, PrefixInduction
  <1> QED
    BY <1>1, <1>4 DEF S

\* FlattenSeq of a sequence with one more behind it.
LEMMA FlattenAppended ==
  ASSUME NEW X, NEW n \in Nat, NEW s \in [1..n + 1 -> Seq(X)],
         NEW t \in [1..n -> Seq(X)], \A k \in 1..n : t[k] = s[k]
  PROVE  FlattenSeq(s) = FlattenSeq(t) \o s[n + 1]
  <1>1. PICK h : IsPrefixes(X, n + 1, s, h) /\ h[n + 1] = FlattenSeq(s)
    BY FlattenSteps
  <1>2. PICK g : IsPrefixes(X, n, t, g) /\ g[n] = FlattenSeq(t)
    BY FlattenSteps
  <1> DEFINE S == {k \in 0..n : g[k] = h[k]}
  <1>3. 0 \in S
    BY <1>1, <1>2 DEF IsPrefixes
  <1>4. ASSUME NEW k \in 0..n - 1, k \in S PROVE k + 1 \in S
    <2>1. k + 1 \in 1..n /\ k \in 0..n /\ k \in 0..(n + 1) - 1
      OBVIOUS
    <2>2. g[k + 1] = g[k] \o t[k + 1]
      BY <1>2 DEF IsPrefixes
    <2>3. h[k + 1] = h[k] \o s[k + 1]
      BY <2>1, <1>1 DEF IsPrefixes
    <2>4. g[k] = h[k] /\ t[k + 1] = s[k + 1] /\ k + 1 \in 0..n
      BY <2>1, <1>4
    <2> QED
      BY <2>2, <2>3, <2>4
  <1> HIDE DEF S
  <1>5. n \in S
    BY <1>3, <1>4, PrefixInduction
  <1>6. n \in 0..(n + 1) - 1
    OBVIOUS
  <1>7. h[n + 1] = h[n] \o s[n + 1]
    BY <1>1, <1>6 DEF IsPrefixes
  <1> QED
    BY <1>1, <1>2, <1>5, <1>7 DEF S

\* FlattenSeq of sequences of one element has these elements.
LEMMA SinglesFlattened ==
  ASSUME NEW X, NEW n \in Nat, NEW s \in [1..n -> Seq(X)], \A k \in 1..n : Len(s[k]) = 1
  PROVE  FlattenSeq(s) = [k \in 1..n |-> s[k][1]]
  <1>1. PICK h : IsPrefixes(X, n, s, h) /\ h[n] = FlattenSeq(s)
    BY FlattenSteps
  <1> DEFINE S == {k \in 0..n : Len(h[k]) = k /\ \A i \in 1..k : h[k][i] = s[i][1]}
  <1>2. 0 \in S
    BY <1>1 DEF IsPrefixes
  <1>3. ASSUME NEW k \in 0..n - 1, k \in S PROVE k + 1 \in S
    <2>1. /\ h[k] \in Seq(X) /\ s[k + 1] \in Seq(X) /\ h[k + 1] = h[k] \o s[k + 1]
          /\ Len(h[k + 1]) = Len(h[k]) + Len(s[k + 1])
      <3>1. k \in 0..n /\ k + 1 \in 1..n
        OBVIOUS
      <3> QED
        BY <3>1, <1>1 DEF IsPrefixes
    <2>2. PICK p \in Seq(X) : p = h[k]
      BY <2>1
    <2>3. PICK q \in Seq(X) : q = s[k + 1]
      BY <2>1
    <2>4. Len(p) = k /\ \A i \in 1..k : p[i] = s[i][1]
      BY <1>3, <2>2
    <2>5. Len(q) = 1 /\ k + 1 \in 1..n /\ k + 1 \in 0..n
      BY <2>3
    <2>6. Len(p \o q) = k + 1 /\ \A i \in 1..k + 1 : (p \o q)[i] = s[i][1]
      <3>1. \A i \in 1..k : (p \o q)[i] = p[i]
        BY <2>4
      <3>2. (p \o q)[k + 1] = q[1]
        <4>1. Len(p) \in Nat /\ k + 1 \in 1..Len(p) + Len(q) /\ k + 1 > Len(p) /\ (k + 1) - Len(p) = 1
          BY <2>4, <2>5
        <4> QED
          BY <4>1
      <3>3. q[1] = s[k + 1][1]
        BY <2>3
      <3>4. \A i \in 1..k + 1 : i \in 1..k \/ i = k + 1
        OBVIOUS
      <3>5. ASSUME NEW i \in 1..k + 1 PROVE (p \o q)[i] = s[i][1]
        BY <3>1, <3>2, <3>3, <3>4, <2>4
      <3>6. Len(p \o q) = Len(p) + Len(q)
        OBVIOUS
      <3> QED
        BY <3>5, <3>6, <2>4, <2>5
    <2>7. h[k + 1] = p \o q
      BY <2>1, <2>2, <2>3
    <2> QED
      BY <2>5, <2>6, <2>7
  <1> HIDE DEF S
  <1>4. n \in S
    BY <1>2, <1>3, PrefixInduction
  <1>5. Len(h[n]) = n /\ (\A i \in 1..n : h[n][i] = s[i][1]) /\ h[n] \in Seq(X)
    BY <1>4, <1>1 DEF S, IsPrefixes
  <1> QED
    BY <1>5, <1>1
\* The sequence r has the first k sequences of s one after the other: off says where each
\* of them ends.
Laid(s, k, off, r) ==
  /\ off[0] = 0 /\ off[k] = Len(r)
  /\ \A l \in 1..k : off[l] = off[l - 1] + Len(s[l])
  /\ \A l, m \in 0..k : l <= m => off[l] <= off[m]
  /\ \A l \in 1..k : \A j \in 1..Len(s[l]) :
       off[l - 1] + j \in 1..Len(r) /\ r[off[l - 1] + j] = s[l][j]
  /\ \A x \in 1..Len(r) : \E l \in 1..k : off[l - 1] < x /\ x <= off[l]

\* One more sequence behind those that are laid out.
LEMMA LaidOneMore ==
  ASSUME NEW X, NEW n \in Nat, NEW s \in [1..n -> Seq(X)], NEW off \in [0..n -> Nat],
         NEW k \in 0..n - 1, NEW p \in Seq(X), Laid(s, k, off, p),
         NEW q \in Seq(X), q = s[k + 1], off[k + 1] = Len(p) + Len(q)
  PROVE  Laid(s, k + 1, off, p \o q)
  <1> DEFINE r == p \o q
  <1>1. /\ r \in Seq(X) /\ Len(r) = Len(p) + Len(q)
        /\ \A i \in 1..Len(p) : r[i] = p[i]
        /\ \A i \in 1..Len(q) : r[Len(p) + i] = q[i]
    OBVIOUS
  <1>2. PICK a \in Nat : a = Len(p)
    OBVIOUS
  <1>3. PICK b \in Nat : b = Len(q)
    OBVIOUS
  <1>4. Len(r) = a + b
    BY <1>1, <1>2, <1>3
  <1> HIDE DEF r
  <1>5. off[k] = a /\ off[k + 1] = a + b /\ (k + 1) - 1 = k /\ off[0] = 0
    BY <1>2, <1>3 DEF Laid
  <1>6. \A l \in 1..k + 1 : l \in 1..k \/ l = k + 1
    OBVIOUS
  <1>7. ASSUME NEW l \in 1..k + 1 PROVE off[l] = off[l - 1] + Len(s[l])
    <2>1. CASE l \in 1..k
      BY <2>1 DEF Laid
    <2>2. CASE l = k + 1
      BY <2>2, <1>2, <1>3, <1>5
    <2> QED
      BY <2>1, <2>2, <1>6
  <1>8. ASSUME NEW l \in 0..k + 1, NEW m \in 0..k + 1, l <= m PROVE off[l] <= off[m]
    <2>1. \A i \in 0..k : off[i] \in Nat /\ off[i] <= a
      <3>1. \A i \in 0..k : i \in 0..n /\ i <= k /\ k \in 0..k
        OBVIOUS
      <3> QED
        BY <3>1, <1>5 DEF Laid
    <2>2. CASE m \in 0..k
      <3>1. l \in 0..k
        BY <1>8, <2>2
      <3> QED
        BY <1>8, <2>2, <3>1 DEF Laid
    <2>3. CASE m = k + 1 /\ l \in 0..k
      BY <2>1, <2>3, <1>5
    <2>4. CASE m = k + 1 /\ l = k + 1
      BY <2>4, <1>5
    <2> QED
      BY <1>8, <2>2, <2>3, <2>4
  <1>9. ASSUME NEW l \in 1..k + 1, NEW j \in 1..Len(s[l])
        PROVE  off[l - 1] + j \in 1..(a + b) /\ r[off[l - 1] + j] = s[l][j]
    <2>1. CASE l \in 1..k
      <3>1. off[l - 1] + j \in 1..a /\ p[off[l - 1] + j] = s[l][j]
        BY <2>1, <1>2 DEF Laid
      <3>2. PICK i : i = off[l - 1] + j
        OBVIOUS
      <3>3. i \in 1..a /\ p[i] = s[l][j]
        BY <3>1, <3>2
      <3>4. r[i] = p[i] /\ i \in 1..(a + b)
        BY <3>3, <1>1, <1>2
      <3> QED
        BY <3>2, <3>3, <3>4, Zenon
    <2>2. CASE l = k + 1
      <3>1. l - 1 = k /\ s[l] = q /\ j \in 1..b
        BY <2>2, <1>3
      <3>2. off[l - 1] = a
        BY <3>1, <1>5
      <3>3. r[a + j] = q[j]
        BY <3>1, <1>1, <1>2, <1>3
      <3> QED
        BY <3>1, <3>2, <3>3
    <2> QED
      BY <2>1, <2>2, <1>6
  <1>10. ASSUME NEW x \in 1..(a + b) PROVE \E l \in 1..k + 1 : off[l - 1] < x /\ x <= off[l]
    <2>1. CASE x \in 1..a
      <3>1. PICK l \in 1..k : off[l - 1] < x /\ x <= off[l]
        BY <2>1, <1>2 DEF Laid
      <3>2. l \in 1..k + 1
        OBVIOUS
      <3> QED
        BY <3>1, <3>2
    <2>2. CASE x > a
      <3>1. k + 1 \in 1..k + 1 /\ off[(k + 1) - 1] < x /\ x <= off[k + 1]
        BY <2>2, <1>5
      <3> QED
        BY <3>1
    <2> QED
      BY <2>1, <2>2
  <1>11. Laid(s, k + 1, off, r)
    BY <1>4, <1>5, <1>7, <1>8, <1>9, <1>10 DEF Laid
  <1> QED
    BY <1>11 DEF r

\* FlattenSeq lays its sequences out.
LEMMA FlattenLaid ==
  ASSUME NEW X, NEW n \in Nat, NEW s \in [1..n -> Seq(X)]
  PROVE  \E off \in [0..n -> Nat] : Laid(s, n, off, FlattenSeq(s))
  <1>1. PICK h : IsPrefixes(X, n, s, h) /\ h[n] = FlattenSeq(s)
    BY FlattenSteps
  <1>2. h \in [0..n -> Seq(X)] /\ h[0] = <<>>
    BY <1>1 DEF IsPrefixes
  <1> DEFINE off == [k \in 0..n |-> Len(h[k])]
             S == {k \in 0..n : Laid(s, k, off, h[k])}
  <1>3. off \in [0..n -> Nat] /\ \A k \in 0..n : off[k] = Len(h[k])
    BY <1>2
  <1> HIDE DEF off
  <1>4. 0 \in S
    <2>1. off[0] = 0 /\ Len(h[0]) = 0 /\ 0 \in 0..n
      BY <1>2, <1>3
    <2> QED
      BY <2>1 DEF Laid
  <1>5. ASSUME NEW k \in 0..n - 1, k \in S PROVE k + 1 \in S
    <2>1. k \in 0..n /\ k + 1 \in 0..n /\ k + 1 \in 1..n
      OBVIOUS
    <2>2. PICK p \in Seq(X) : p = h[k]
      BY <2>1, <1>2
    <2>3. PICK q \in Seq(X) : q = s[k + 1]
      BY <2>1
    <2>4. h[k + 1] = p \o q /\ Len(h[k + 1]) = Len(p) + Len(q)
      BY <2>2, <2>3, <1>1 DEF IsPrefixes
    <2>5. off[k + 1] = Len(p) + Len(q)
      BY <2>1, <2>4, <1>3
    <2>6. Laid(s, k, off, p)
      BY <1>5, <2>2
    <2>7. Laid(s, k + 1, off, p \o q)
      BY <2>3, <2>5, <2>6, <1>3, LaidOneMore
    <2> QED
      BY <2>1, <2>4, <2>7, Zenon
  <1> HIDE DEF S
  <1>6. n \in S
    BY <1>4, <1>5, PrefixInduction
  <1> QED
    BY <1>1, <1>3, <1>6 DEF S
\* The places in s that the elements of r are from, when each sequence of s has one or none.
Origins(s, n, r, g) ==
  /\ g \in [1..Len(r) -> 1..n]
  /\ \A x \in 1..Len(r) : Len(s[g[x]]) = 1 /\ r[x] = s[g[x]][1]
  /\ \A x, y \in 1..Len(r) : x < y => g[x] < g[y]
  /\ \A k \in 1..n : Len(s[k]) = 1 => \E x \in 1..Len(r) : g[x] = k

\* FlattenSeq of sequences of one element or none selects: it keeps the order, and every
\* element.
LEMMA OnesFlattened ==
  ASSUME NEW X, NEW n \in Nat, NEW s \in [1..n -> Seq(X)], \A k \in 1..n : Len(s[k]) <= 1
  PROVE  FlattenSeq(s) \in Seq(X) /\ \E g : Origins(s, n, FlattenSeq(s), g)
  <1>0. FlattenSeq(s) \in Seq(X)
    BY Flattened DEF Collects
  <1>1. PICK r \in Seq(X) : r = FlattenSeq(s)
    BY <1>0
  <1>2. PICK off \in [0..n -> Nat] : Laid(s, n, off, r)
    BY <1>1, FlattenLaid
  <1>3. PICK m \in Nat : m = Len(r)
    OBVIOUS
  <1> DEFINE Holds(x, l) == off[l - 1] < x /\ x <= off[l]
             g == [x \in 1..m |-> CHOOSE l \in 1..n : Holds(x, l)]
  <1>4. \A l \in 1..n : /\ l - 1 \in 0..n /\ l \in 0..n /\ Len(s[l]) \in {0, 1}
                        /\ off[l] = off[l - 1] + Len(s[l]) /\ off[l] \in Nat /\ off[l - 1] \in Nat
    <2> SUFFICES ASSUME NEW l \in 1..n
                 PROVE  /\ l - 1 \in 0..n /\ l \in 0..n /\ Len(s[l]) \in {0, 1}
                        /\ off[l] = off[l - 1] + Len(s[l]) /\ off[l] \in Nat /\ off[l - 1] \in Nat
      OBVIOUS
    <2>1. l - 1 \in 0..n /\ l \in 0..n
      OBVIOUS
    <2>2. Len(s[l]) \in Nat
      OBVIOUS
    <2>3. Len(s[l]) <= 1
      OBVIOUS
    <2>4. Len(s[l]) \in {0, 1}
      <3>1. \A c \in Nat : c <= 1 => c \in {0, 1}
        OBVIOUS
      <3> QED
        BY <3>1, <2>2, <2>3, Zenon
    <2>5. off[l] = off[l - 1] + Len(s[l])
      BY <1>2 DEF Laid
    <2> QED
      BY <2>1, <2>4, <2>5
  <1>5. \A k, l \in 0..n : k <= l => off[k] <= off[l]
    BY <1>2 DEF Laid
  <1>6. ASSUME NEW x \in 1..m
        PROVE  /\ g[x] \in 1..n /\ Len(s[g[x]]) = 1 /\ r[x] = s[g[x]][1]
               /\ off[g[x]] = x /\ off[g[x] - 1] = x - 1
    <2>1. \E l \in 1..n : Holds(x, l)
      BY <1>2, <1>3 DEF Laid
    <2>2. PICK l : l = g[x]
      OBVIOUS
    <2>3. l \in 1..n /\ Holds(x, l)
      BY <2>1, <2>2
    <2>4. Len(s[l]) = 1 /\ off[l] = x /\ off[l - 1] = x - 1
      BY <2>3, <1>4
    <2>5. r[off[l - 1] + 1] = s[l][1]
      BY <2>3, <2>4, <1>2 DEF Laid
    <2>6. (x - 1) + 1 = x
      OBVIOUS
    <2> HIDE DEF g
    <2> QED
      BY <2>2, <2>3, <2>4, <2>5, <2>6
  <1>7. g \in [1..m -> 1..n]
    BY <1>6
  <1> HIDE DEF g
  <1>8. ASSUME NEW x \in 1..m, NEW y \in 1..m, x < y PROVE g[x] < g[y]
    <2>1. g[x] \in 0..n /\ g[y] \in 0..n /\ off[g[x]] = x /\ off[g[y]] = y
      <3>1. \A l \in 1..n : l \in 0..n
        OBVIOUS
      <3>2. g[x] \in 1..n /\ off[g[x]] = x
        BY <1>6
      <3>3. g[y] \in 1..n /\ off[g[y]] = y
        BY <1>6
      <3> QED
        BY <3>1, <3>2, <3>3
    <2> SUFFICES ASSUME g[y] <= g[x] PROVE FALSE
      BY <2>1
    <2>2. off[g[y]] <= off[g[x]]
      BY <2>1, <1>5
    <2> QED
      BY <2>1, <2>2, <1>8
  <1>9. ASSUME NEW k \in 1..n, Len(s[k]) = 1 PROVE \E x \in 1..m : g[x] = k
    <2>1. PICK x : x = off[k - 1] + 1
      OBVIOUS
    <2>2. x \in 1..m /\ off[k] = x /\ off[k - 1] = x - 1 /\ k \in 0..n /\ k - 1 \in 0..n
      <3>1. k \in 0..n /\ k - 1 \in 0..n /\ off[k] = off[k - 1] + 1 /\ off[k - 1] \in Nat
        BY <1>4, <1>9
      <3>2. off[k - 1] + 1 \in 1..Len(r)
        <4>1. 1 \in 1..Len(s[k])
          BY <1>9
        <4>2. \A l \in 1..n : \A j \in 1..Len(s[l]) : off[l - 1] + j \in 1..Len(r)
          BY <1>2, Zenon DEF Laid
        <4> QED
          BY <4>1, <4>2, Zenon
      <3> QED
        BY <3>1, <3>2, <2>1, <1>3
    <2>3. PICK l \in 1..n : l = g[x]
      BY <2>2, <1>6
    <2>4. off[l] = x /\ off[l - 1] = x - 1 /\ l \in 0..n /\ l - 1 \in 0..n
      <3>1. l \in 0..n /\ l - 1 \in 0..n
        OBVIOUS
      <3>2. off[l] = x /\ off[l - 1] = x - 1
        BY <2>2, <2>3, <1>6
      <3> QED
        BY <3>1, <3>2
    <2>5. ~(l < k)
      <3> SUFFICES ASSUME l <= k - 1 PROVE FALSE
        OBVIOUS
      <3>1. off[l] <= off[k - 1]
        BY <2>2, <2>4, <1>5
      <3> QED
        BY <3>1, <2>2, <2>4
    <2>6. ~(k < l)
      <3> SUFFICES ASSUME k <= l - 1 PROVE FALSE
        OBVIOUS
      <3>1. off[k] <= off[l - 1]
        BY <2>2, <2>4, <1>5
      <3> QED
        BY <3>1, <2>2, <2>4
    <2>7. l = k
      BY <2>5, <2>6
    <2> QED
      BY <2>2, <2>3, <2>7
  <1>10. Origins(s, n, r, g)
    BY <1>3, <1>6, <1>7, <1>8, <1>9 DEF Origins
  <1> QED
    BY <1>0, <1>1, <1>10
------------------------------------------------------------------------------
(***************************************************************************)
(* Pieces of sequences.                                                    *)
(***************************************************************************)

\* A piece of a sequence: its type, its length and its elements.
LEMMA Piece ==
  ASSUME NEW X, NEW s \in Seq(X), NEW a \in Nat, NEW b \in Nat, a <= b, b <= Len(s)
  PROVE  /\ SubSeq(s, a + 1, b) \in Seq(X)
         /\ Len(SubSeq(s, a + 1, b)) = b - a
         /\ \A i \in 1..b - a : SubSeq(s, a + 1, b)[i] = s[a + i]
  OBVIOUS

\* A piece of a sequence with nothing in it.
LEMMA NoPiece ==
  ASSUME NEW X, NEW s \in Seq(X), NEW a \in Int, NEW b \in Int, b < a
  PROVE  SubSeq(s, a, b) = <<>>
  OBVIOUS

\* Two sequences with the same elements are the same.
LEMMA SameSequence ==
  ASSUME NEW X, NEW s \in Seq(X), NEW t \in Seq(X), Len(s) = Len(t),
         \A i \in 1..Len(s) : s[i] = t[i]
  PROVE  s = t
  OBVIOUS

\* A piece of a piece is a piece.
LEMMA PieceOfPiece ==
  ASSUME NEW X, NEW s \in Seq(X), NEW a \in Nat, NEW b \in Nat, a <= b, b <= Len(s),
         NEW c \in Nat, NEW d \in Nat, c <= d, d <= b - a
  PROVE  SubSeq(SubSeq(s, a + 1, b), c + 1, d) = SubSeq(s, (a + c) + 1, a + d)
  <1> DEFINE p == SubSeq(s, a + 1, b)
             q == SubSeq(p, c + 1, d)
             r == SubSeq(s, (a + c) + 1, a + d)
  <1>1. p \in Seq(X) /\ Len(p) = b - a /\ \A i \in 1..b - a : p[i] = s[a + i]
    BY Piece
  <1> HIDE DEF p
  <1>2. q \in Seq(X) /\ Len(q) = d - c /\ \A i \in 1..d - c : q[i] = p[c + i]
    BY <1>1, Piece
  <1>3. r \in Seq(X) /\ Len(r) = d - c /\ \A i \in 1..d - c : r[i] = s[(a + c) + i]
    <2>1. a + c \in Nat /\ a + d \in Nat /\ a + c <= a + d /\ a + d <= Len(s)
      OBVIOUS
    <2>2. /\ r \in Seq(X) /\ Len(r) = (a + d) - (a + c)
          /\ \A i \in 1..(a + d) - (a + c) : r[i] = s[(a + c) + i]
      BY <2>1, Piece
    <2> QED
      BY <2>2
  <1> HIDE DEF q, r
  <1>4. \A i \in 1..d - c : q[i] = r[i]
    <2>1. ASSUME NEW i \in 1..d - c PROVE q[i] = r[i]
      <3>1. c + i \in 1..b - a /\ a + (c + i) = (a + c) + i
        OBVIOUS
      <3> QED
        BY <3>1, <1>1, <1>2, <1>3
    <2> QED
      BY <2>1
  <1>5. q = r
    BY <1>2, <1>3, <1>4, SameSequence
  <1> QED
    BY <1>5 DEF p, q, r

\* SubSeqs has the pieces of a sequence.
LEMMA Pieces ==
  ASSUME NEW X, NEW s \in Seq(X)
  PROVE  /\ \A a, b \in 0..Len(s) : a <= b => SubSeq(s, a + 1, b) \in SubSeqs(s)
         /\ \A p \in SubSeqs(s) : \E a, b \in 0..Len(s) : a <= b /\ p = SubSeq(s, a + 1, b)
  <1>1. ASSUME NEW i \in 0..Len(s), NEW j \in 0..Len(s)
        PROVE  \E a, b \in 0..Len(s) : a <= b /\ SubSeq(s, i + 1, j) = SubSeq(s, a + 1, b)
    <2>1. CASE i <= j
      BY <2>1
    <2>2. CASE j < i
      <3>1. SubSeq(s, i + 1, j) = <<>> /\ SubSeq(s, 0 + 1, 0) = <<>>
        BY <2>2, NoPiece
      <3>2. 0 \in 0..Len(s)
        OBVIOUS
      <3> QED
        BY <3>1, <3>2
    <2> QED
      BY <2>1, <2>2
  <1>2. \A a, b \in 0..Len(s) : SubSeq(s, a + 1, b) \in SubSeqs(s)
    BY DEF SubSeqs
  <1>3. ASSUME NEW p \in SubSeqs(s)
        PROVE  \E a, b \in 0..Len(s) : a <= b /\ p = SubSeq(s, a + 1, b)
    <2>1. PICK i, j \in 0..Len(s) : p = SubSeq(s, i + 1, j)
      BY DEF SubSeqs
    <2>2. PICK a, b \in 0..Len(s) : a <= b /\ SubSeq(s, i + 1, j) = SubSeq(s, a + 1, b)
      BY <1>1
    <2> QED
      BY <2>1, <2>2
  <1> QED
    BY <1>2, <1>3, Zenon

\* The pieces of a piece are pieces.
LEMMA PiecesOfPiece ==
  ASSUME NEW X, NEW s \in Seq(X), NEW p \in SubSeqs(s)
  PROVE  p \in Seq(X) /\ Len(p) <= Len(s) /\ SubSeqs(p) \subseteq SubSeqs(s)
  <1>1. PICK a, b \in 0..Len(s) : a <= b /\ p = SubSeq(s, a + 1, b)
    BY Pieces
  <1>2. a \in Nat /\ b \in Nat /\ b <= Len(s) /\ Len(s) \in Nat
    OBVIOUS
  <1>3. p \in Seq(X) /\ Len(p) = b - a
    BY <1>1, <1>2, Piece
  <1>4. ASSUME NEW q \in SubSeqs(p)
        PROVE  q \in SubSeqs(s)
    <2>1. PICK c, d \in 0..Len(p) : c <= d /\ q = SubSeq(p, c + 1, d)
      BY <1>3, Pieces
    <2>2. q = SubSeq(s, (a + c) + 1, a + d)
      BY <1>1, <1>2, <1>3, <2>1, PieceOfPiece
    <2>3. a + c \in 0..Len(s) /\ a + d \in 0..Len(s) /\ a + c <= a + d
      BY <1>1, <1>2, <1>3, <2>1
    <2> QED
      BY <2>2, <2>3, Pieces
  <1> QED
    BY <1>1, <1>2, <1>3, <1>4
=============================================================================
