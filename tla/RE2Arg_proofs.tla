---------------------------- MODULE RE2Arg_proofs ----------------------------
(***************************************************************************)
(* Proofs about RE2Arg, for every set of submatches and types and for all  *)
(* widths and buffer sizes: what the parsers of numbers accept and store.  *)
(***************************************************************************)
EXTENDS RE2Arg, SequenceLemmas

\* What the bytes of submatches are, and the radixes.
Byte == 0..255
Radix == {0, 8, 10, 16}
------------------------------------------------------------------------------
(***************************************************************************)
(* Scanning.                                                               *)
(***************************************************************************)
Counts(s, C, p) ==
  /\ p \in 0..Len(s)
  /\ \A i \in 1..p : s[i] \in C
  /\ p < Len(s) => s[p + 1] \notin C

\* Prefix counts the bytes of C that a sequence starts with.
LEMMA PrefixCounts ==
  ASSUME NEW A, NEW s \in Seq(A), NEW C
  PROVE  Counts(s, C, Prefix(s, C))
  <1> DEFINE S == {n \in 0..Len(s) : \A i \in 1..n : s[i] \in C}
             p == Max(S)
  <1>0. Len(s) \in Nat
    OBVIOUS
  <1>1. S \in SUBSET Nat /\ 0 \in S /\ \A n \in S : n <= Len(s)
    BY <1>0
  <1>2. p \in S /\ \A n \in S : n <= p
    <2> HIDE DEF S
    <2> QED
      BY <1>0, <1>1, NatMax
  <1>3. p \in 0..Len(s) /\ \A i \in 1..p : s[i] \in C
    BY <1>2
  <1>4. ASSUME p < Len(s), s[p + 1] \in C PROVE FALSE
    <2>1. PICK q \in 0..Len(s) : q = p
      BY <1>3
    <2>2. q + 1 \in 0..Len(s) /\ \A i \in 1..q + 1 : i \in 1..q \/ i = q + 1
      <3>1. q < Len(s) /\ q \in Nat
        BY <1>4, <2>1
      <3> QED
        BY <1>0, <3>1
    <2>3. \A i \in 1..q + 1 : s[i] \in C
      BY <1>3, <1>4, <2>1, <2>2
    <2>4. q + 1 \in S
      BY <2>2, <2>3
    <2>5. q + 1 <= q
      BY <1>2, <2>1, <2>4
    <2> QED
      BY <2>5
  <1>5. Prefix(s, C) = p
    BY DEF Prefix
  <1> HIDE DEF p
  <1> QED
    BY <1>3, <1>4, <1>5 DEF Counts

\* There is only one such count.
LEMMA OnePrefix ==
  ASSUME NEW A, NEW s \in Seq(A), NEW C, NEW p, Counts(s, C, p)
  PROVE  Prefix(s, C) = p
  <1>1. PICK q : q = Prefix(s, C)
    OBVIOUS
  <1>2. Counts(s, C, q)
    BY <1>1, PrefixCounts
  <1>3. Len(s) \in Nat /\ p \in 0..Len(s) /\ q \in 0..Len(s)
    BY <1>2 DEF Counts
  <1>4. ~(p < q)
    <2> SUFFICES ASSUME p < q PROVE FALSE
      OBVIOUS
    <2>1. p + 1 \in 1..q /\ p < Len(s)
      BY <1>3
    <2> QED
      BY <1>2, <2>1 DEF Counts
  <1>5. ~(q < p)
    <2> SUFFICES ASSUME q < p PROVE FALSE
      OBVIOUS
    <2>1. q + 1 \in 1..p /\ q < Len(s)
      BY <1>3
    <2> QED
      BY <1>2, <2>1 DEF Counts
  <1> QED
    BY <1>1, <1>3, <1>4, <1>5

\* The rest of a sequence.
LEMMA FromIs ==
  ASSUME NEW A, NEW s \in Seq(A), NEW n \in Nat, n <= Len(s)
  PROVE  /\ From(s, n) \in Seq(A) /\ Len(From(s, n)) = Len(s) - n
         /\ \A i \in 1..(Len(s) - n) : From(s, n)[i] = s[n + i]
  <1>1. PICK m \in Nat : m = Len(s)
    OBVIOUS
  <1>2. /\ SubSeq(s, n + 1, m) \in Seq(A) /\ Len(SubSeq(s, n + 1, m)) = m - n
        /\ \A i \in 1..(m - n) : SubSeq(s, n + 1, m)[i] = s[n + i]
    BY <1>1, Piece
  <1> QED
    BY <1>1, <1>2, Zenon DEF From

\* The rest e of a sequence of m elements.
RestOf(A, s, m, n, e) ==
  e \in Seq(A) /\ Len(e) = m - n /\ \A i \in 1..(m - n) : e[i] = s[n + i]

\* The same with names for the rest and the length.
LEMMA Rest ==
  ASSUME NEW A, NEW s \in Seq(A), NEW n \in Nat, n <= Len(s), NEW m, m = Len(s), NEW e, e = From(s, n)
  PROVE  RestOf(A, s, m, n, e)
  <1>1. RestOf(A, s, Len(s), n, From(s, n))
    BY FromIs DEF RestOf
  <1> QED
    BY <1>1, Zenon

\* All of it.
LEMMA FromStart ==
  ASSUME NEW A, NEW s \in Seq(A)
  PROVE  From(s, 0) = s
  <1>1. Len(s) \in Nat /\ 0 <= Len(s) /\ Len(s) - 0 = Len(s) /\ \A i \in 1..Len(s) : 0 + i = i
    OBVIOUS
  <1>2. /\ From(s, 0) \in Seq(A) /\ Len(From(s, 0)) = Len(s)
        /\ \A i \in 1..Len(s) : From(s, 0)[i] = s[i]
    BY <1>1, FromIs
  <1> QED
    BY <1>2, SameSequence

\* All but the first.
LEMMA TailIs ==
  ASSUME NEW A, NEW s \in Seq(A), s # <<>>
  PROVE  Tail(s) = From(s, 1)
  <1>1. Len(s) \in Nat /\ 1 <= Len(s)
    OBVIOUS
  <1>2. /\ From(s, 1) \in Seq(A) /\ Len(From(s, 1)) = Len(s) - 1
        /\ \A i \in 1..(Len(s) - 1) : From(s, 1)[i] = s[1 + i]
    BY <1>1, FromIs
  <1>3. Tail(s) \in Seq(A) /\ Len(Tail(s)) = Len(s) - 1 /\ \A i \in 1..(Len(s) - 1) : Tail(s)[i] = s[1 + i]
    BY <1>1
  <1>4. Len(Tail(s)) = Len(From(s, 1)) /\ \A i \in 1..Len(Tail(s)) : Tail(s)[i] = From(s, 1)[i]
    BY <1>2, <1>3
  <1> QED
    BY <1>2, <1>3, <1>4, SameSequence

\* A C string in a buffer has all the bytes, or ends before one of them that is a NUL.
LEMMA CStringIs ==
  ASSUME NEW s \in Seq(Byte)
  PROVE  /\ CStringAt(s) \in Seq(Byte) /\ Len(CStringAt(s)) <= Len(s)
         /\ \A i \in 1..Len(CStringAt(s)) : CStringAt(s)[i] = s[i]
         /\ \/ CStringAt(s) = s /\ \A i \in 1..Len(s) : s[i] # NUL
            \/ Len(CStringAt(s)) < Len(s) /\ \E i \in 1..Len(s) : s[i] = NUL
  <1>1. PICK p : p = Prefix(s, 1..255)
    OBVIOUS
  <1>2. Counts(s, 1..255, p)
    BY <1>1, PrefixCounts
  <1>3. p \in 0..Len(s) /\ Len(s) \in Nat /\ \A i \in 1..Len(s) : s[i] \in Byte
    BY <1>2 DEF Counts
  <1>4. CStringAt(s) = SubSeq(s, 1, p)
    BY <1>1 DEF CStringAt
  <1>5. CStringAt(s) \in Seq(Byte) /\ Len(CStringAt(s)) = p /\ \A i \in 1..p : CStringAt(s)[i] = s[i]
    BY <1>3, <1>4
  <1>6. Len(CStringAt(s)) <= Len(s)
    BY <1>3, <1>5
  <1>7. CASE p = Len(s)
    <2>1. CStringAt(s) = s
      BY <1>5, <1>7, SameSequence
    <2>2. \A i \in 1..Len(s) : s[i] \in 1..255
      BY <1>2, <1>7 DEF Counts
    <2>3. \A c \in 1..255 : c # NUL
      BY DEF NUL
    <2> QED
      BY <1>5, <1>6, <2>1, <2>2, <2>3
  <1>8. CASE p # Len(s)
    <2>1. p < Len(s) /\ p + 1 \in 1..Len(s)
      BY <1>3, <1>8
    <2>2. s[p + 1] \notin 1..255 /\ s[p + 1] \in Byte
      BY <1>2, <1>3, <2>1 DEF Counts
    <2>3. \A c \in Byte : c \notin 1..255 => c = NUL
      BY DEF NUL, Byte
    <2>4. Len(CStringAt(s)) < Len(s) /\ \E i \in 1..Len(s) : s[i] = NUL
      BY <1>5, <2>1, <2>2, <2>3
    <2> QED
      BY <1>5, <1>6, <2>4
  <1> QED
    BY <1>7, <1>8

\* StripZeros takes k zeros from the front: none, or all but two of them.
Strips(s, k) ==
  /\ k \in 0..Len(s) /\ StripZeros(s) = From(s, k)
  /\ \A i \in 1..k : s[i] = Zero
  /\ k > 0 => k + 2 <= Len(s) /\ \A i \in 1..k + 2 : s[i] = Zero
  /\ k + 3 <= Len(s) => \E z \in 0..2 : s[(k + z) + 1] # Zero /\ \A i \in 1..z : s[k + i] = Zero

\* What StripZeros does.
LEMMA StripZerosStrips ==
  ASSUME NEW s \in Seq(Byte)
  PROVE  \E k : Strips(s, k)
  <1>1. PICK p : p = Prefix(s, {Zero})
    OBVIOUS
  <1>2. Counts(s, {Zero}, p)
    BY <1>1, PrefixCounts
  <1>3. /\ p \in 0..Len(s) /\ p \in Nat /\ Len(s) \in Nat
        /\ \A i \in 1..p : s[i] = Zero
        /\ p < Len(s) => s[p + 1] # Zero
    BY <1>2 DEF Counts
  <1>4. CASE p < 3
    <2>1. StripZeros(s) = From(s, 0)
      BY <1>1, <1>4, FromStart, Zenon DEF StripZeros
    <2>2. 0 + 3 <= Len(s) => \E z \in 0..2 : s[(0 + z) + 1] # Zero /\ \A i \in 1..z : s[0 + i] = Zero
      <3> SUFFICES ASSUME 0 + 3 <= Len(s) PROVE s[(0 + p) + 1] # Zero /\ \A i \in 1..p : s[0 + i] = Zero
        BY <1>3, <1>4
      <3>1. p < Len(s) /\ (0 + p) + 1 = p + 1 /\ \A i \in 1..p : 0 + i = i
        BY <1>3, <1>4
      <3> QED
        BY <1>3, <3>1
    <2>3. 0 \in 0..Len(s) /\ (\A i \in 1..0 : s[i] = Zero) /\ ~(0 > 0)
      BY <1>3
    <2> QED
      BY <2>1, <2>2, <2>3 DEF Strips
  <1>5. CASE ~(p < 3)
    <2>1. PICK k \in Nat : k = p - 2
      BY <1>3, <1>5
    <2>2. k \in 0..Len(s) /\ k > 0 /\ k + 2 = p /\ k <= p /\ k + 2 <= Len(s)
      BY <1>3, <1>5, <2>1
    <2>3. StripZeros(s) = From(s, k)
      BY <1>1, <1>5, <2>1, Zenon DEF StripZeros
    <2>4. (\A i \in 1..k : s[i] = Zero) /\ (\A i \in 1..k + 2 : s[i] = Zero)
      BY <1>3, <2>2
    <2>5. k + 3 <= Len(s) => \E z \in 0..2 : s[(k + z) + 1] # Zero /\ \A i \in 1..z : s[k + i] = Zero
      <3> SUFFICES ASSUME k + 3 <= Len(s) PROVE s[(k + 2) + 1] # Zero /\ \A i \in 1..2 : s[k + i] = Zero
        OBVIOUS
      <3>1. p < Len(s) /\ (k + 2) + 1 = p + 1 /\ \A i \in 1..2 : k + i \in 1..k + 2
        BY <1>3, <2>2
      <3>2. s[(k + 2) + 1] # Zero
        BY <1>3, <3>1
      <3> QED
        BY <2>4, <3>1, <3>2
    <2> QED
      BY <2>2, <2>3, <2>4, <2>5 DEF Strips
  <1> QED
    BY <1>4, <1>5
------------------------------------------------------------------------------
(***************************************************************************)
(* Powers of two and the values of numerals.                               *)
(***************************************************************************)
Doubles(n, f) == f = [i \in 0..n |-> IF i = 0 THEN 1 ELSE 2 * f[i - 1]]
Doublings == {n \in Nat : \E f \in [0..n -> Nat \ {0}] : Doubles(n, f)}

\* There is a function that doubles from 1 on, for every number of steps.
LEMMA DoublesExists ==
  ASSUME NEW n \in Nat
  PROVE  \E f \in [0..n -> Nat \ {0}] : Doubles(n, f)
  <1>1. 0 \in Doublings
    <2> DEFINE f == [i \in 0..0 |-> 1]
    <2>1. f \in [0..0 -> Nat \ {0}]
      OBVIOUS
    <2>2. Doubles(0, f)
      <3>1. f = [i \in 0..0 |-> IF i = 0 THEN 1 ELSE 2 * f[i - 1]]
        OBVIOUS
      <3> QED
        BY <3>1 DEF Doubles
    <2> QED
      BY <2>1, <2>2 DEF Doublings
  <1>2. ASSUME NEW k \in Nat, k \in Doublings
        PROVE  k + 1 \in Doublings
    <2>1. PICK f \in [0..k -> Nat \ {0}] : Doubles(k, f)
      BY <1>2 DEF Doublings
    <2>2. \A i \in 0..k : f[i] = IF i = 0 THEN 1 ELSE 2 * f[i - 1]
      BY <2>1 DEF Doubles
    <2> DEFINE g == [i \in 0..k + 1 |-> IF i = k + 1 THEN 2 * f[k] ELSE f[i]]
    <2>3. f[k] \in Nat \ {0} /\ 2 * f[k] \in Nat \ {0}
      <3>1. \A x \in Nat \ {0} : 2 * x \in Nat \ {0}
        OBVIOUS
      <3>2. f[k] \in Nat \ {0}
        OBVIOUS
      <3> QED
        BY <3>1, <3>2
    <2>4. \A i \in 0..k + 1 : i # k + 1 => i \in 0..k /\ f[i] \in Nat \ {0}
      OBVIOUS
    <2>5. g \in [0..k + 1 -> Nat \ {0}]
      BY <2>3, <2>4
    <2>6. ASSUME NEW i \in 0..k + 1
          PROVE  g[i] = IF i = 0 THEN 1 ELSE 2 * g[i - 1]
      <3>1. CASE i = k + 1
        <4>1. i # 0 /\ i - 1 = k /\ k \in 0..k + 1 /\ k # k + 1
          BY <3>1
        <4> QED
          BY <3>1, <4>1
      <3>2. CASE i # k + 1
        <4>1. i \in 0..k /\ g[i] = f[i] /\ (i # 0 => i - 1 \in 0..k + 1 /\ i - 1 # k + 1 /\ g[i - 1] = f[i - 1])
          BY <3>2
        <4>2. f[i] = IF i = 0 THEN 1 ELSE 2 * f[i - 1]
          BY <2>2, <4>1
        <4> QED
          BY <4>1, <4>2
      <3> QED
        BY <3>1, <3>2
    <2>7. g = [i \in 0..k + 1 |-> g[i]]
      OBVIOUS
    <2> HIDE DEF g
    <2>8. Doubles(k + 1, g)
      BY <2>6, <2>7 DEF Doubles
    <2> QED
      BY <2>5, <2>8 DEF Doublings
  <1>3. n \in Doublings
    BY <1>1, <1>2, SetInduction
  <1> QED
    BY <1>3 DEF Doublings

\* The function that Pow2 reads its value from.
LEMMA Pow2Doubles ==
  ASSUME NEW n \in Nat
  PROVE  \E f \in [0..n -> Nat \ {0}] : Doubles(n, f) /\ Pow2(n) = f[n]
  <1>1. PICK f \in [0..n -> Nat \ {0}] : Doubles(n, f)
    BY DoublesExists
  <1> DEFINE h == CHOOSE g : Doubles(n, g)
  <1>2. Doubles(n, h)
    BY <1>1
  <1>3. Pow2(n) = h[n]
    BY DEF Pow2, Doubles
  <1> HIDE DEF h
  <1>4. \A i \in 0..n : h[i] = IF i = 0 THEN 1 ELSE 2 * h[i - 1]
    BY <1>2 DEF Doubles
  <1>5. \A i \in 0..n : f[i] = IF i = 0 THEN 1 ELSE 2 * f[i - 1]
    BY <1>1 DEF Doubles
  <1> DEFINE S == {k \in Nat : k \in 0..n => h[k] = f[k]}
  <1>6. 0 \in S
    BY <1>4, <1>5
  <1>7. ASSUME NEW k \in Nat, k \in S PROVE k + 1 \in S
    <2> SUFFICES ASSUME k + 1 \in 0..n PROVE h[k + 1] = f[k + 1]
      OBVIOUS
    <2>1. k \in 0..n /\ k + 1 # 0 /\ (k + 1) - 1 = k
      OBVIOUS
    <2>2. h[k] = f[k]
      BY <1>7, <2>1
    <2> QED
      BY <1>4, <1>5, <2>1, <2>2
  <1>8. n \in S
    <2> HIDE DEF S
    <2> QED
      BY <1>6, <1>7, SetInduction
  <1> QED
    BY <1>1, <1>3, <1>8

\* Powers of two double at each step.
LEMMA Pow2Step ==
  /\ Pow2(0) = 1
  /\ \A n \in Nat : Pow2(n) \in Nat \ {0} /\ Pow2(n + 1) = 2 * Pow2(n)
  <1>1. Pow2(0) = 1
    <2>1. PICK f \in [0..0 -> Nat \ {0}] : Doubles(0, f) /\ Pow2(0) = f[0]
      BY Pow2Doubles
    <2> QED
      BY <2>1 DEF Doubles
  <1>2. ASSUME NEW n \in Nat
        PROVE  Pow2(n) \in Nat \ {0} /\ Pow2(n + 1) = 2 * Pow2(n)
    <2>1. PICK f \in [0..n -> Nat \ {0}] : Doubles(n, f) /\ Pow2(n) = f[n]
      BY Pow2Doubles
    <2>2. n + 1 \in Nat
      OBVIOUS
    <2>3. PICK g \in [0..n + 1 -> Nat \ {0}] : Doubles(n + 1, g) /\ Pow2(n + 1) = g[n + 1]
      BY <2>2, Pow2Doubles
    <2>4. \A i \in 0..n : f[i] = IF i = 0 THEN 1 ELSE 2 * f[i - 1]
      BY <2>1 DEF Doubles
    <2>5. \A i \in 0..n + 1 : g[i] = IF i = 0 THEN 1 ELSE 2 * g[i - 1]
      BY <2>3 DEF Doubles
    <2> DEFINE S == {k \in Nat : k \in 0..n => g[k] = f[k]}
    <2>6. 0 \in S
      <3>1. 0 \in 0..n /\ 0 \in 0..n + 1
        OBVIOUS
      <3> QED
        BY <2>4, <2>5, <3>1
    <2>7. ASSUME NEW k \in Nat, k \in S PROVE k + 1 \in S
      <3> SUFFICES ASSUME k + 1 \in 0..n PROVE g[k + 1] = f[k + 1]
        OBVIOUS
      <3>1. k \in 0..n /\ k + 1 # 0 /\ (k + 1) - 1 = k /\ k + 1 \in 0..n + 1
        OBVIOUS
      <3>2. g[k] = f[k]
        BY <2>7, <3>1
      <3> QED
        BY <2>4, <2>5, <3>1, <3>2
    <2>8. n \in S
      <3> HIDE DEF S
      <3> QED
        BY <2>6, <2>7, SetInduction
    <2>9. n + 1 \in 0..n + 1 /\ n + 1 # 0 /\ (n + 1) - 1 = n /\ n \in 0..n
      OBVIOUS
    <2>10. g[n + 1] = 2 * g[n] /\ g[n] = f[n]
      BY <2>5, <2>8, <2>9
    <2> QED
      BY <2>1, <2>3, <2>9, <2>10
  <1> QED
    BY <1>1, <1>2

\* Powers of two grow.
LEMMA Pow2Grows ==
  ASSUME NEW m \in Nat, NEW n \in Nat, m <= n
  PROVE  Pow2(m) <= Pow2(n)
  <1> DEFINE S == {d \in Nat : Pow2(m) <= Pow2(m + d)}
  <1>1. 0 \in S
    <2>1. m + 0 = m /\ Pow2(m) \in Nat
      BY Pow2Step
    <2> QED
      BY <2>1
  <1>2. ASSUME NEW d \in Nat, d \in S PROVE d + 1 \in S
    <2>1. m + d \in Nat /\ m + (d + 1) = (m + d) + 1
      OBVIOUS
    <2>2. Pow2(m) \in Nat /\ Pow2(m + d) \in Nat /\ Pow2((m + d) + 1) = 2 * Pow2(m + d)
      BY <2>1, Pow2Step
    <2>3. \A x, y \in Nat : x <= y => x <= 2 * y
      OBVIOUS
    <2>4. Pow2(m) <= Pow2(m + (d + 1))
      BY <1>2, <2>1, <2>2, <2>3
    <2> QED
      BY <2>4
  <1>3. n - m \in Nat /\ m + (n - m) = n
    OBVIOUS
  <1>4. n - m \in S
    <2> HIDE DEF S
    <2> QED
      BY <1>1, <1>2, <1>3, SetInduction
  <1> QED
    BY <1>3, <1>4

\* What DigitValue says of a byte.
LEMMA DigitIs ==
  /\ \A c \in Byte : DigitValue(c) \in Nat /\ (DigitValue(c) = 0 <=> c = Zero)
  /\ \A c \in Byte : DigitValue(c) < 16 =>
       c \in 48..122 /\ c \notin {NUL, Minus, Plus, 88, 120} /\ c \notin Spaces
  <1>1. ASSUME NEW c \in Byte
        PROVE  /\ DigitValue(c) \in Nat /\ (DigitValue(c) = 0 <=> c = Zero)
               /\ DigitValue(c) < 16 => c \in 48..57 \/ c \in 65..70 \/ c \in 97..102
    <2>0. c \in Int
      BY DEF Byte
    <2>1. CASE c \in 48..57
      BY <2>0, <2>1 DEF DigitValue, Zero
    <2>2. CASE c \in 65..90
      BY <2>0, <2>2 DEF DigitValue, Zero
    <2>3. CASE c \in 97..122
      BY <2>0, <2>3 DEF DigitValue, Zero
    <2>4. CASE c \notin 48..57 /\ c \notin 65..90 /\ c \notin 97..122
      BY <2>0, <2>4 DEF DigitValue, Zero
    <2> QED
      BY <2>1, <2>2, <2>3, <2>4
  <1>2. \A c \in Byte : c \in 48..57 \/ c \in 65..70 \/ c \in 97..102 =>
          c \in 48..122 /\ c \notin {NUL, Minus, Plus, 88, 120} /\ c \notin Spaces
    BY DEF Byte, NUL, Minus, Plus, Spaces
  <1> QED
    BY <1>1, <1>2

Accumulates(k, d, b, f) == f = [n \in 0..k |-> IF n = 0 THEN 0 ELSE f[n - 1] * b + DigitValue(d[n])]
Accumulations(d, b) ==
  {k \in Nat : k <= Len(d) => \E f \in [0..k -> Nat] : Accumulates(k, d, b, f)}

\* There is a function that has the value of each prefix of a sequence of digits.
LEMMA AccumulatesExists ==
  ASSUME NEW d \in Seq(Byte), NEW b \in Nat
  PROVE  \E f \in [0..Len(d) -> Nat] : Accumulates(Len(d), d, b, f)
  <1> DEFINE S == Accumulations(d, b)
  <1>1. 0 \in S
    <2> DEFINE f == [i \in 0..0 |-> 0]
    <2>1. f \in [0..0 -> Nat]
      OBVIOUS
    <2>2. f = [n \in 0..0 |-> IF n = 0 THEN 0 ELSE f[n - 1] * b + DigitValue(d[n])]
      OBVIOUS
    <2> HIDE DEF f
    <2> QED
      BY <2>1, <2>2 DEF Accumulates, Accumulations
  <1>2. ASSUME NEW k \in Nat, k \in S
        PROVE  k + 1 \in S
    <2> SUFFICES ASSUME k + 1 <= Len(d)
                 PROVE  \E f \in [0..k + 1 -> Nat] : Accumulates(k + 1, d, b, f)
      BY DEF Accumulations
    <2>1. k <= Len(d) /\ k + 1 \in 1..Len(d)
      OBVIOUS
    <2>2. PICK f \in [0..k -> Nat] : Accumulates(k, d, b, f)
      BY <1>2, <2>1 DEF Accumulations
    <2>3. \A i \in 0..k : f[i] = IF i = 0 THEN 0 ELSE f[i - 1] * b + DigitValue(d[i])
      BY <2>2 DEF Accumulates
    <2>4. PICK e : e = f[k] * b + DigitValue(d[k + 1])
      OBVIOUS
    <2>5. e \in Nat
      <3>1. d[k + 1] \in Byte /\ f[k] \in Nat
        BY <2>1
      <3>2. DigitValue(d[k + 1]) \in Nat
        BY <3>1, DigitIs
      <3>3. \A x, y, z \in Nat : x * y + z \in Nat
        OBVIOUS
      <3> QED
        BY <2>4, <3>1, <3>2, <3>3
    <2> DEFINE g == [i \in 0..k + 1 |-> IF i = k + 1 THEN e ELSE f[i]]
    <2>6. \A i \in 0..k + 1 : i # k + 1 => i \in 0..k /\ f[i] \in Nat
      OBVIOUS
    <2>7. g \in [0..k + 1 -> Nat]
      BY <2>5, <2>6
    <2>8. ASSUME NEW i \in 0..k + 1
          PROVE  g[i] = IF i = 0 THEN 0 ELSE g[i - 1] * b + DigitValue(d[i])
      <3>1. CASE i = k + 1
        <4>1. i # 0 /\ i - 1 = k /\ k \in 0..k + 1 /\ k # k + 1
          BY <3>1
        <4>2. g[i] = e /\ g[i - 1] = f[k]
          BY <3>1, <4>1
        <4> QED
          BY <2>4, <3>1, <4>1, <4>2, Zenon
      <3>2. CASE i # k + 1
        <4>1. i \in 0..k /\ g[i] = f[i] /\ (i # 0 => i - 1 \in 0..k + 1 /\ i - 1 # k + 1 /\ g[i - 1] = f[i - 1])
          BY <3>2
        <4>2. f[i] = IF i = 0 THEN 0 ELSE f[i - 1] * b + DigitValue(d[i])
          BY <2>3, <4>1
        <4> QED
          BY <4>1, <4>2, Zenon
      <3> QED
        BY <3>1, <3>2
    <2>9. g = [i \in 0..k + 1 |-> g[i]]
      OBVIOUS
    <2> HIDE DEF g
    <2>10. Accumulates(k + 1, d, b, g)
      BY <2>8, <2>9, Zenon DEF Accumulates
    <2> QED
      BY <2>7, <2>10
  <1>3. Len(d) \in S
    <2> HIDE DEF S
    <2> QED
      BY <1>1, <1>2, SetInduction
  <1> QED
    BY <1>3 DEF Accumulations

\* The values of the prefixes of d, the last of which is that of d.
Accumulated(d, b, v) ==
  /\ v \in [0..Len(d) -> Nat] /\ v[0] = 0 /\ ValueOf(d, b) = v[Len(d)]
  /\ \A i \in 1..Len(d) : v[i] = v[i - 1] * b + DigitValue(d[i])

\* What ValueOf computes.
LEMMA ValueIs ==
  ASSUME NEW d \in Seq(Byte), NEW b \in Nat
  PROVE  \E v : Accumulated(d, b, v)
  <1>1. PICK n \in Nat : n = Len(d)
    OBVIOUS
  <1>2. PICK f \in [0..n -> Nat] : Accumulates(n, d, b, f)
    BY <1>1, AccumulatesExists
  <1> DEFINE h == CHOOSE g : Accumulates(n, d, b, g)
  <1>3. Accumulates(n, d, b, h)
    BY <1>2
  <1>4. ValueOf(d, b) = h[n]
    BY <1>1, Zenon DEF ValueOf, Accumulates
  <1> HIDE DEF h
  <1>5. \A i \in 0..n : h[i] = IF i = 0 THEN 0 ELSE h[i - 1] * b + DigitValue(d[i])
    BY <1>3 DEF Accumulates
  <1>6. h = [i \in 0..n |-> h[i]]
    BY <1>3 DEF Accumulates
  <1>7. h[0] = 0
    BY <1>5
  <1>8. \A i \in 1..n : h[i] = h[i - 1] * b + DigitValue(d[i])
    <2>1. \A i \in 1..n : i \in 0..n /\ i # 0
      OBVIOUS
    <2> QED
      BY <1>5, <2>1, Zenon
  <1> DEFINE S == {k \in Nat : k \in 0..n => h[k] \in Nat}
  <1>9. 0 \in S
    BY <1>7
  <1>10. ASSUME NEW k \in Nat, k \in S PROVE k + 1 \in S
    <2> SUFFICES ASSUME k + 1 \in 0..n PROVE h[k + 1] \in Nat
      OBVIOUS
    <2>1. k \in 0..n /\ k + 1 \in 1..n /\ (k + 1) - 1 = k
      OBVIOUS
    <2>2. h[k] \in Nat /\ d[k + 1] \in Byte
      BY <1>1, <1>10, <2>1
    <2>3. DigitValue(d[k + 1]) \in Nat
      BY <2>2, DigitIs
    <2>4. h[k + 1] = h[k] * b + DigitValue(d[k + 1])
      BY <1>8, <2>1
    <2>5. \A x, y, z \in Nat : x * y + z \in Nat
      OBVIOUS
    <2>6. h[k] * b + DigitValue(d[k + 1]) \in Nat
      BY <2>2, <2>3, <2>5, Zenon
    <2> QED
      BY <2>4, <2>6, Zenon
  <1>11. Nat \subseteq S
    <2> HIDE DEF S
    <2> QED
      BY <1>9, <1>10, SetInduction
  <1>12. h \in [0..n -> Nat]
    <2>1. \A k \in 0..n : k \in Nat /\ h[k] \in Nat
      BY <1>11
    <2> HIDE DEF S
    <2> QED
      BY <1>6, <2>1
  <1> QED
    BY <1>1, <1>4, <1>7, <1>8, <1>12 DEF Accumulated

\* The value of a sequence of bytes is a natural number.
LEMMA ValueType ==
  ASSUME NEW d \in Seq(Byte), NEW b \in Nat
  PROVE  ValueOf(d, b) \in Nat
  <1>1. PICK v : Accumulated(d, b, v)
    BY ValueIs
  <1>2. Len(d) \in 0..Len(d)
    OBVIOUS
  <1> QED
    BY <1>1, <1>2 DEF Accumulated

\* Leading zeros do not change the value.
LEMMA ZerosCountNothing ==
  ASSUME NEW d \in Seq(Byte), NEW b \in Nat, NEW k \in Nat, k <= Len(d),
         \A i \in 1..k : d[i] = Zero
  PROVE  ValueOf(From(d, k), b) = ValueOf(d, b)
  <1>1. PICK n \in Nat : n = Len(d)
    OBVIOUS
  <1>2. PICK e : e = From(d, k)
    OBVIOUS
  <1>3. e \in Seq(Byte) /\ Len(e) = n - k /\ \A i \in 1..(n - k) : e[i] = d[k + i]
    BY <1>1, <1>2, FromIs
  <1>4. PICK v : Accumulated(d, b, v)
    BY ValueIs
  <1>5. PICK w : Accumulated(e, b, w)
    BY <1>3, ValueIs
  <1>6. /\ v \in [0..n -> Nat] /\ v[0] = 0 /\ ValueOf(d, b) = v[n]
        /\ \A i \in 1..n : v[i] = v[i - 1] * b + DigitValue(d[i])
    BY <1>1, <1>4 DEF Accumulated
  <1>7. /\ w[0] = 0 /\ ValueOf(e, b) = w[n - k]
        /\ \A i \in 1..(n - k) : w[i] = w[i - 1] * b + DigitValue(e[i])
    BY <1>3, <1>5 DEF Accumulated
  <1>8. DigitValue(Zero) = 0
    BY DEF DigitValue, Zero
  <1> DEFINE S == {j \in Nat : j \in 0..k => v[j] = 0}
  <1>9. 0 \in S
    BY <1>6
  <1>10. ASSUME NEW j \in Nat, j \in S PROVE j + 1 \in S
    <2> SUFFICES ASSUME j + 1 \in 0..k PROVE v[j + 1] = 0
      OBVIOUS
    <2>1. j \in 0..k /\ j + 1 \in 1..n /\ j + 1 \in 1..k /\ (j + 1) - 1 = j
      BY <1>1
    <2>2. v[j + 1] = v[j] * b + DigitValue(d[j + 1])
      BY <1>6, <2>1
    <2>3. v[j] = 0 /\ DigitValue(d[j + 1]) = 0
      BY <1>8, <1>10, <2>1
    <2>4. 0 * b + 0 = 0
      OBVIOUS
    <2> QED
      BY <2>2, <2>3, <2>4
  <1>11. v[k] = 0
    <2>1. k \in S
      <3> HIDE DEF S
      <3> QED
        BY <1>9, <1>10, SetInduction
    <2> QED
      BY <2>1
  <1> DEFINE T == {j \in Nat : j \in 0..(n - k) => w[j] = v[k + j]}
  <1>12. 0 \in T
    <2>1. k + 0 = k
      OBVIOUS
    <2> QED
      BY <1>7, <1>11, <2>1
  <1>13. ASSUME NEW j \in Nat, j \in T PROVE j + 1 \in T
    <2> SUFFICES ASSUME j + 1 \in 0..(n - k) PROVE w[j + 1] = v[k + (j + 1)]
      OBVIOUS
    <2>1. /\ j \in 0..(n - k) /\ j + 1 \in 1..(n - k) /\ (j + 1) - 1 = j
          /\ k + (j + 1) \in 1..n /\ (k + (j + 1)) - 1 = k + j
      BY <1>1
    <2>2. w[j + 1] = w[j] * b + DigitValue(e[j + 1])
      BY <1>7, <2>1
    <2>3. v[k + (j + 1)] = v[k + j] * b + DigitValue(d[k + (j + 1)])
      BY <1>6, <2>1
    <2>4. w[j] = v[k + j] /\ e[j + 1] = d[k + (j + 1)]
      BY <1>3, <1>13, <2>1
    <2> QED
      BY <2>2, <2>3, <2>4, Zenon
  <1>14. n - k \in Nat /\ k + (n - k) = n /\ n - k \in 0..(n - k)
    BY <1>1
  <1>15. n - k \in T
    <2> HIDE DEF T
    <2> QED
      BY <1>12, <1>13, <1>14, SetInduction
  <1>16. w[n - k] = v[n]
    BY <1>14, <1>15
  <1> QED
    BY <1>2, <1>6, <1>7, <1>16, Zenon

\* A digit that is not zero makes each digit behind it count for three bits at least.
LEMMA DigitsCount ==
  ASSUME NEW d \in Seq(Byte), NEW b \in {8, 10, 16}, NEW z \in Nat, NEW m \in Nat,
         (z + m) + 1 = Len(d), d[z + 1] # Zero
  PROVE  ValueOf(d, b) >= Pow2(3 * m)
  <1>0. b \in Nat
    OBVIOUS
  <1>1. PICK v : Accumulated(d, b, v)
    BY <1>0, ValueIs
  <1>2. PICK n \in Nat : n = Len(d)
    OBVIOUS
  <1>3. /\ v \in [0..n -> Nat] /\ ValueOf(d, b) = v[n]
        /\ \A i \in 1..n : v[i] = v[i - 1] * b + DigitValue(d[i])
    BY <1>1, <1>2 DEF Accumulated
  <1>4. \A i \in 1..n : d[i] \in Byte /\ DigitValue(d[i]) \in Nat
    BY <1>2, DigitIs
  <1>5. \A x \in Nat : x * b >= 8 * x
    OBVIOUS
  <1> DEFINE S == {j \in Nat : j <= m => v[(z + j) + 1] >= Pow2(3 * j)}
  <1>6. 0 \in S
    <2>1. z + 1 \in 1..n /\ (z + 1) - 1 = z /\ z \in 0..n /\ (z + 0) + 1 = z + 1 /\ 3 * 0 = 0
      BY <1>2
    <2>2. v[z + 1] = v[z] * b + DigitValue(d[z + 1])
      BY <1>3, <2>1
    <2>3. DigitValue(d[z + 1]) \in Nat /\ DigitValue(d[z + 1]) # 0
      BY <1>4, <2>1, DigitIs
    <2>4. v[z] \in Nat
      BY <1>3, <2>1
    <2>5. \A x, e \in Nat : e # 0 => x * b + e >= 1
      <3>1. \A x \in Nat : x * b \in Nat
        BY <1>0
      <3> QED
        BY <3>1
    <2>6. v[z + 1] >= 1
      BY <2>2, <2>3, <2>4, <2>5
    <2>7. v[(z + 0) + 1] >= Pow2(3 * 0)
      BY <2>1, <2>6, Pow2Step
    <2> QED
      BY <2>7
  <1>7. ASSUME NEW j \in Nat, j \in S PROVE j + 1 \in S
    <2> SUFFICES ASSUME j + 1 <= m PROVE v[(z + (j + 1)) + 1] >= Pow2(3 * (j + 1))
      OBVIOUS
    <2>1. PICK i \in Nat : i = (z + j) + 1
      OBVIOUS
    <2>2. i \in 0..n /\ i + 1 \in 1..n /\ (i + 1) - 1 = i /\ (z + (j + 1)) + 1 = i + 1 /\ j <= m
      BY <1>2, <2>1
    <2>3. PICK p : p = Pow2(3 * j)
      OBVIOUS
    <2>4. p \in Nat /\ Pow2(3 * (j + 1)) = 8 * p
      <3>1. 3 * j \in Nat /\ (3 * j) + 1 \in Nat /\ ((3 * j) + 1) + 1 \in Nat
        OBVIOUS
      <3>2. Pow2((3 * j) + 1) = 2 * p /\ p \in Nat
        BY <2>3, <3>1, Pow2Step
      <3>3. Pow2(((3 * j) + 1) + 1) = 2 * Pow2((3 * j) + 1)
        BY <3>1, Pow2Step
      <3>4. Pow2((((3 * j) + 1) + 1) + 1) = 2 * Pow2(((3 * j) + 1) + 1)
        BY <3>1, Pow2Step
      <3>5. (((3 * j) + 1) + 1) + 1 = 3 * (j + 1)
        OBVIOUS
      <3>6. Pow2(3 * (j + 1)) = 2 * (2 * (2 * p))
        BY <3>2, <3>3, <3>4, <3>5, Zenon
      <3> QED
        BY <3>2, <3>6
    <2>5. v[i] \in Nat /\ v[i] >= p
      BY <1>3, <1>7, <2>1, <2>2, <2>3
    <2>6. v[i + 1] = v[i] * b + DigitValue(d[i + 1])
      BY <1>3, <2>2
    <2>7. DigitValue(d[i + 1]) \in Nat
      BY <1>4, <2>2
    <2>8. \A x, y, e \in Nat : x >= y => x * b + e >= 8 * y
      <3>1. \A x \in Nat : x * b \in Nat
        BY <1>0
      <3> QED
        BY <1>5, <3>1
    <2>9. v[i + 1] >= 8 * p
      BY <2>4, <2>5, <2>6, <2>7, <2>8
    <2> QED
      BY <2>2, <2>4, <2>9
  <1>8. m \in S
    <2> HIDE DEF S
    <2> QED
      BY <1>6, <1>7, SetInduction
  <1> QED
    BY <1>2, <1>3, <1>8
------------------------------------------------------------------------------
(***************************************************************************)
(* Numerals behind their sign: what strtol takes of them, and what they    *)
(* are without leading zeros.                                              *)
(***************************************************************************)
Figures(b, rdx) == IF BaseOf(b, rdx) = 16 /\ HasX(b) THEN From(b, 2) ELSE b
AreFigures(d, base) == d # <<>> /\ \A i \in DOMAIN d : DigitValue(d[i]) < base

\* The bases of numerals.
LEMMA BaseIs ==
  ASSUME NEW b, NEW rdx \in Radix
  PROVE  BaseOf(b, rdx) \in {8, 10, 16}
  <1>1. CASE rdx # 0
    BY <1>1 DEF BaseOf, Radix
  <1>2. CASE rdx = 0 /\ HasX(b)
    BY <1>2 DEF BaseOf
  <1>3. CASE rdx = 0 /\ ~HasX(b) /\ StartsWith(b, Zero)
    BY <1>3 DEF BaseOf
  <1>4. CASE rdx = 0 /\ ~HasX(b) /\ ~StartsWith(b, Zero)
    BY <1>4 DEF BaseOf
  <1> QED
    BY <1>1, <1>2, <1>3, <1>4

\* The digits of a numeral.
LEMMA FiguresIs ==
  ASSUME NEW b \in Seq(Byte), NEW rdx
  PROVE  Figures(b, rdx) \in Seq(Byte)
  <1>1. CASE BaseOf(b, rdx) = 16 /\ HasX(b)
    <2>1. Len(b) >= 2 /\ 2 \in Nat /\ 2 <= Len(b)
      BY <1>1 DEF HasX
    <2>2. From(b, 2) \in Seq(Byte)
      BY <2>1, FromIs
    <2> QED
      BY <1>1, <2>2 DEF Figures
  <1>2. CASE ~(BaseOf(b, rdx) = 16 /\ HasX(b))
    BY <1>2 DEF Figures
  <1> QED
    BY <1>1, <1>2

\* The value behind the sign of a numeral.
LEMMA NumeralParts ==
  ASSUME NEW s, NEW rdx, NEW b, b = From(s, Sign(s))
  PROVE  /\ IsNumeral(s, rdx) <=> AreFigures(Figures(b, rdx), BaseOf(b, rdx))
         /\ Numeral(s, rdx) = (IF StartsWith(s, Minus) THEN -1 ELSE 1) * ValueOf(Figures(b, rdx), BaseOf(b, rdx))
  <1>1. Base(s, rdx) = BaseOf(b, rdx) /\ Magnitude(s, rdx) = Figures(b, rdx)
    BY Zenon DEF Base, Magnitude, Figures
  <1> QED
    BY <1>1, Zenon DEF IsNumeral, Numeral, AreFigures

\* It takes all of the body of a numeral and no other.
LEMMA TakenAll ==
  ASSUME NEW b \in Seq(Byte), NEW rdx \in Radix,
         NEW base, base = BaseOf(b, rdx), NEW x, x = SkipsX(b, base), NEW n, n = Taken(b, base)
  PROVE  /\ n \in 0..Len(b) /\ x \in {0, 2} /\ x + n <= Len(b)
         /\ (n # 0 /\ x + n = Len(b)) <=> AreFigures(Figures(b, rdx), base)
         /\ n # 0 /\ x + n = Len(b) => SubSeq(b, x + 1, x + n) = Figures(b, rdx)
  <1>0. base \in {8, 10, 16}
    BY BaseIs
  <1>1. PICK m \in Nat : m = Len(b)
    OBVIOUS
  <1>2. x \in {0, 2} /\ x <= m /\ x \in Nat
    BY <1>1 DEF SkipsX
  <1>3. PICK e : e = From(b, x)
    OBVIOUS
  <1>4. e \in Seq(Byte) /\ Len(e) = m - x /\ \A i \in 1..(m - x) : e[i] = b[x + i]
    <2>1. x <= Len(b) /\ x \in Nat
      BY <1>1, <1>2
    <2>2. RestOf(Byte, b, m, x, e)
      BY <1>1, <1>3, <2>1, Rest
    <2> QED
      BY <2>2 DEF RestOf
  <1> DEFINE C == {d \in 48..122 : DigitValue(d) < base}
  <1>5. Counts(e, C, n)
    <2>1. n = Prefix(e, C)
      BY <1>3 DEF Taken
    <2> QED
      BY <1>4, <2>1, PrefixCounts
  <1>6. \A c \in Byte : c \in C <=> DigitValue(c) < base
    <2>1. \A v \in Nat : v < base => v < 16
      BY <1>0
    <2> QED
      BY <2>1, DigitIs
  <1> HIDE DEF C
  <1>7. n \in 0..(m - x) /\ n \in Nat /\ n \in 0..m /\ x + n <= m
    <2>1. n \in 0..(m - x)
      BY <1>4, <1>5 DEF Counts
    <2> QED
      BY <1>2, <2>1
  <1>8. n = m - x <=> \A i \in 1..(m - x) : DigitValue(e[i]) < base
    <2>1. \A i \in 1..(m - x) : e[i] \in Byte
      BY <1>4
    <2>2. ASSUME n = m - x PROVE \A i \in 1..(m - x) : DigitValue(e[i]) < base
      BY <1>5, <1>6, <2>1, <2>2 DEF Counts
    <2>3. ASSUME n # m - x PROVE \E i \in 1..(m - x) : ~(DigitValue(e[i]) < base)
      <3>1. n < m - x /\ n + 1 \in 1..(m - x)
        BY <1>2, <1>7, <2>3
      <3>2. e[n + 1] \notin C
        BY <1>4, <1>5, <3>1 DEF Counts
      <3> QED
        BY <1>6, <2>1, <3>1, <3>2
    <2> QED
      BY <2>2, <2>3
  <1>9. (n # 0 /\ x + n = m) <=> AreFigures(e, base)
    <2>1. DOMAIN e = 1..(m - x) /\ (e # <<>> <=> m - x # 0)
      BY <1>4
    <2>2. x + n = m <=> n = m - x
      BY <1>2, <1>7
    <2> QED
      BY <1>8, <2>1, <2>2 DEF AreFigures
  <1>10. CASE Figures(b, rdx) = e
    <2>1. n # 0 /\ x + n = m => SubSeq(b, x + 1, x + n) = e
      BY <1>1, <1>3 DEF From
    <2> QED
      BY <1>1, <1>2, <1>7, <1>9, <1>10, <2>1
  <1>11. CASE Figures(b, rdx) # e
    <2>1. base = 16 /\ HasX(b) /\ x = 0
      <3>1. CASE base = 16 /\ HasX(b)
        <4>1. x # 2
          BY <1>3, <1>11, <3>1 DEF Figures
        <4> QED
          BY <1>2, <3>1, <4>1
      <3>2. CASE ~(base = 16 /\ HasX(b))
        <4>1. x = 0 /\ Figures(b, rdx) = b
          BY <3>2, Zenon DEF SkipsX, Figures
        <4>2. e = b
          BY <1>3, <4>1, FromStart
        <4> QED
          BY <1>11, <4>1, <4>2
      <3> QED
        BY <3>1, <3>2
    <2>2. m >= 2 /\ b[2] \in {88, 120} /\ Figures(b, rdx) = From(b, 2)
      BY <1>1, <2>1 DEF HasX, Figures
    <2>3. ~(m > 2 /\ DigitValue(b[3]) < 16)
      BY <1>1, <2>1 DEF SkipsX
    <2>4. ~AreFigures(e, base)
      <3>1. 2 \in 1..m /\ 2 \in DOMAIN e /\ e[2] = b[2] /\ b[2] \in Byte
        BY <1>1, <1>4, <2>1, <2>2
      <3>2. ~(DigitValue(b[2]) < 16)
        BY <2>2, <3>1, DigitIs
      <3> QED
        BY <2>1, <3>1, <3>2 DEF AreFigures
    <2>5. ~AreFigures(From(b, 2), base)
      <3>1. /\ From(b, 2) \in Seq(Byte) /\ Len(From(b, 2)) = m - 2
            /\ \A i \in 1..(m - 2) : From(b, 2)[i] = b[2 + i]
        <4>1. 2 \in Nat /\ 2 <= Len(b)
          BY <1>1, <2>2
        <4> QED
          BY <1>1, <4>1, FromIs
      <3>2. CASE m = 2
        <4>1. From(b, 2) = <<>>
          BY <3>1, <3>2
        <4> QED
          BY <4>1 DEF AreFigures
      <3>3. CASE m > 2
        <4>1. 1 \in DOMAIN From(b, 2) /\ From(b, 2)[1] = b[3]
          BY <3>1, <3>3
        <4> QED
          BY <2>1, <2>3, <3>3, <4>1 DEF AreFigures
      <3> QED
        BY <1>1, <2>2, <3>2, <3>3
    <2> QED
      BY <1>1, <1>2, <1>7, <1>9, <2>2, <2>4, <2>5
  <1> QED
    BY <1>10, <1>11

\* strtol takes all of a string that does not start with a space exactly when it is a
\* numeral, and computes its value.
LEMMA StrtolExact ==
  ASSUME NEW c \in Seq(Byte), NEW rdx \in Radix, c # <<>>, ~StartsWithSpace(c)
  PROVE  /\ Strtol(c, rdx).end = Len(c) <=> IsNumeral(c, rdx)
         /\ IsNumeral(c, rdx) => Strtol(c, rdx).value = Numeral(c, rdx)
         /\ Strtol(c, rdx).end <= Len(c)
  <1>1. Prefix(c, Spaces) = 0
    <2>1. Len(c) \in Nat /\ c[0 + 1] \notin Spaces
      BY DEF StartsWithSpace
    <2>2. Counts(c, Spaces, 0)
      BY <2>1 DEF Counts
    <2> QED
      BY <2>2, OnePrefix
  <1>2. From(c, 0) = c
    BY FromStart
  <1>3. PICK g \in {0, 1} : g = Sign(c)
    BY DEF Sign
  <1>4. PICK m \in Nat : m = Len(c) /\ 1 <= m
    OBVIOUS
  <1>5. PICK b : b = From(c, g)
    OBVIOUS
  <1>6. b \in Seq(Byte) /\ Len(b) = m - g
    BY <1>3, <1>4, <1>5, FromIs
  <1>7. PICK base : base = BaseOf(b, rdx)
    OBVIOUS
  <1>8. PICK x : x = SkipsX(b, base)
    OBVIOUS
  <1>9. PICK n : n = Taken(b, base)
    OBVIOUS
  <1>10. PICK v : v = ValueOf(SubSeq(b, x + 1, x + n), base)
    OBVIOUS
  <1>11. Strtol(c, rdx) = IF n = 0 THEN [value |-> 0, end |-> 0]
                          ELSE [value |-> IF StartsWith(c, Minus) THEN -v ELSE v, end |-> ((0 + g) + x) + n]
    <2>1. From(c, Prefix(c, Spaces)) = c
      BY <1>1, <1>2
    <2>2. From(From(c, Prefix(c, Spaces)), Sign(From(c, Prefix(c, Spaces)))) = b
      BY <2>1, <1>3, <1>5, Zenon
    <2>3. BaseOf(b, rdx) = base /\ SkipsX(b, base) = x /\ Taken(b, base) = n
      BY <1>7, <1>8, <1>9
    <2>4. Sign(From(c, Prefix(c, Spaces))) = g
      BY <1>3, <2>1
    <2> QED
      BY <1>1, <1>10, <2>1, <2>2, <2>3, <2>4 DEF Strtol
  <1>12. /\ n \in 0..(m - g) /\ x \in {0, 2} /\ x + n <= m - g
         /\ (n # 0 /\ x + n = m - g) <=> AreFigures(Figures(b, rdx), base)
         /\ n # 0 /\ x + n = m - g => SubSeq(b, x + 1, x + n) = Figures(b, rdx)
    <2>1. /\ n \in 0..Len(b) /\ x \in {0, 2} /\ x + n <= Len(b)
          /\ (n # 0 /\ x + n = Len(b)) <=> AreFigures(Figures(b, rdx), base)
          /\ n # 0 /\ x + n = Len(b) => SubSeq(b, x + 1, x + n) = Figures(b, rdx)
      BY <1>6, <1>7, <1>8, <1>9, TakenAll
    <2>2. Len(b) = m - g
      BY <1>6
    <2> QED
      BY <2>1, <2>2, Zenon
  <1>13. /\ IsNumeral(c, rdx) <=> AreFigures(Figures(b, rdx), base)
         /\ Numeral(c, rdx) = (IF StartsWith(c, Minus) THEN -1 ELSE 1) * ValueOf(Figures(b, rdx), base)
    BY <1>3, <1>5, <1>7, NumeralParts
  <1>14. /\ Strtol(c, rdx).end = m <=> (n # 0 /\ x + n = m - g)
         /\ Strtol(c, rdx).end <= m
    <2>1. n \in Nat /\ x \in Nat /\ g \in Nat
      BY <1>12, <1>3, <1>4
    <2>2. CASE n = 0
      BY <1>4, <1>11, <2>2
    <2>3. CASE n # 0
      <3>1. Strtol(c, rdx).end = ((0 + g) + x) + n
        BY <1>11, <2>3
      <3> QED
        BY <1>12, <2>1, <2>3, <3>1
    <2> QED
      BY <2>2, <2>3
  <1>15. ASSUME IsNumeral(c, rdx) PROVE Strtol(c, rdx).value = Numeral(c, rdx)
    <2>1. n # 0 /\ v = ValueOf(Figures(b, rdx), base)
      BY <1>10, <1>12, <1>13, <1>15
    <2>2. v \in Nat
      <3>1. base \in Nat
        BY <1>7, BaseIs
      <3> QED
        BY <1>6, <2>1, <3>1, FiguresIs, ValueType
    <2>3. Strtol(c, rdx).value = IF StartsWith(c, Minus) THEN -v ELSE v
      BY <1>11, <2>1
    <2>4. Numeral(c, rdx) = (IF StartsWith(c, Minus) THEN -1 ELSE 1) * v
      BY <1>13, <2>1
    <2> QED
      BY <2>2, <2>3, <2>4
  <1> QED
    BY <1>4, <1>12, <1>13, <1>14, <1>15

\* It takes nothing of an empty string.
LEMMA StrtolEmpty ==
  ASSUME NEW rdx \in Radix
  PROVE  Strtol(<<>>, rdx).end = 0 /\ Strtol(<<>>, rdx).value = 0
  <1>1. <<>> \in Seq(Byte) /\ Len(<<>>) = 0
    OBVIOUS
  <1>2. PICK e : e \in Seq(Byte) /\ e = <<>>
    BY <1>1
  <1>3. PICK p : p = Prefix(e, Spaces)
    OBVIOUS
  <1>4. p = 0
    <2>1. Counts(e, Spaces, p)
      BY <1>2, <1>3, PrefixCounts
    <2> QED
      BY <1>1, <1>2, <2>1 DEF Counts
  <1>5. From(e, 0) = e
    BY <1>2, FromStart
  <1>6. ~StartsWith(e, Minus) /\ ~StartsWith(e, Plus) /\ Sign(e) = 0
    BY <1>2 DEF StartsWith, Sign
  <1>7. PICK base : base = BaseOf(e, rdx)
    OBVIOUS
  <1>8. Taken(e, base) = 0
    <2>1. PICK n : n = Taken(e, base)
      OBVIOUS
    <2>2. n \in 0..Len(e)
      BY <1>2, <1>7, <2>1, TakenAll
    <2> QED
      BY <1>1, <1>2, <2>1, <2>2
  <1>9. Strtol(e, rdx) = [value |-> 0, end |-> 0]
    BY <1>3, <1>4, <1>5, <1>6, <1>7, <1>8 DEF Strtol
  <1> QED
    BY <1>2, <1>9
------------------------------------------------------------------------------
(***************************************************************************)
(* The number that TerminateNumber makes of a submatch without spaces.     *)
(***************************************************************************)
Stripped(s) == IF StartsWith(s, Minus) THEN <<Minus>> \o StripZeros(Tail(s)) ELSE StripZeros(s)

\* The number has the sign of s, and behind it all but the first k zeros of s.
Keeps(s, g, b, number, k) ==
  /\ number \in Seq(Byte) /\ Len(number) = g + (Len(b) - k)
  /\ StartsWith(number, Minus) <=> StartsWith(s, Minus)
  /\ Sign(number) = g /\ From(number, g) = From(b, k)
  /\ \A i \in 1..Len(number) : \E j \in 1..Len(s) : number[i] = s[j]
  /\ number # <<>> => number[1] = s[1] /\ s # <<>>
  /\ k \in 0..Len(b) /\ k \in Nat
  /\ \A i \in 1..k : b[i] = Zero
  /\ k > 0 => k + 2 <= Len(b) /\ \A i \in 1..k + 2 : b[i] = Zero
  /\ ~StartsWith(s, Plus) => Strips(b, k)

\* What TerminateNumber keeps of a number.
LEMMA StrippedKeeps ==
  ASSUME NEW s \in Seq(Byte)
  PROVE  \E k : Keeps(s, Sign(s), From(s, Sign(s)), Stripped(s), k)
  <1>1. CASE StartsWith(s, Minus)
    <2>1. PICK t : t = From(s, 1)
      OBVIOUS
    <2>2. s # <<>> /\ s[1] = Minus /\ Len(s) \in Nat /\ 1 <= Len(s) /\ Sign(s) = 1
      BY <1>1 DEF StartsWith, Sign
    <2>3. t \in Seq(Byte) /\ Len(t) = Len(s) - 1 /\ \A i \in 1..(Len(s) - 1) : t[i] = s[1 + i]
      <3>1. 1 \in Nat /\ 1 <= Len(s)
        BY <2>2
      <3>2. RestOf(Byte, s, Len(s), 1, t)
        BY <2>1, <3>1, Rest
      <3> QED
        BY <3>2 DEF RestOf
    <2>4. PICK k : Strips(t, k)
      BY <2>3, StripZerosStrips
    <2>5. PICK e : e = From(t, k)
      OBVIOUS
    <2>6. k \in 0..Len(t) /\ StripZeros(t) = e
      BY <2>4, <2>5 DEF Strips
    <2>7. k \in Nat /\ k <= Len(t) /\ Len(t) \in Nat
      BY <2>3, <2>6
    <2>8. e \in Seq(Byte) /\ Len(e) = Len(t) - k /\ \A i \in 1..(Len(t) - k) : e[i] = t[k + i]
      <3>1. k \in Nat /\ k <= Len(t) /\ t \in Seq(Byte)
        BY <2>3, <2>7
      <3>2. RestOf(Byte, t, Len(t), k, e)
        BY <2>5, <3>1, Rest
      <3> QED
        BY <3>2 DEF RestOf
    <2>9. PICK number : number = <<Minus>> \o e
      OBVIOUS
    <2>10. Stripped(s) = number
      <3>1. Tail(s) = t
        BY <2>1, <2>2, TailIs
      <3> QED
        BY <1>1, <2>6, <2>9, <3>1, Zenon DEF Stripped
    <2>11. PICK m \in Nat : m = Len(e)
      BY <2>8
    <2>12. /\ number \in Seq(Byte) /\ Len(number) = 1 + m /\ number # <<>>
           /\ number[1] = Minus /\ \A i \in 1..m : number[1 + i] = e[i]
      <3>1. Minus \in Byte
        BY DEF Minus, Byte
      <3>2. <<Minus>> \in Seq(Byte) /\ Len(<<Minus>>) = 1 /\ <<Minus>>[1] = Minus
        BY <3>1
      <3> QED
        BY <2>8, <2>9, <2>11, <3>2
    <2>13. From(number, 1) = e
      <3>1. 1 <= Len(number) /\ Len(number) - 1 = m
        BY <2>11, <2>12
      <3>2. /\ From(number, 1) \in Seq(Byte) /\ Len(From(number, 1)) = Len(number) - 1
            /\ \A i \in 1..(Len(number) - 1) : From(number, 1)[i] = number[1 + i]
        <4>1. 1 \in Nat /\ number \in Seq(Byte)
          BY <2>12
        <4> QED
          BY <3>1, <4>1, FromIs
      <3>3. Len(From(number, 1)) = Len(e) /\ \A i \in 1..Len(e) : From(number, 1)[i] = e[i]
        BY <2>11, <2>12, <3>1, <3>2
      <3> QED
        BY <2>8, <3>2, <3>3, SameSequence
    <2>14. ASSUME NEW i \in 1..Len(number) PROVE \E j \in 1..Len(s) : number[i] = s[j]
      <3>1. CASE i = 1
        BY <2>2, <2>12, <3>1
      <3>2. CASE i # 1
        <4>1. i - 1 \in 1..m /\ 1 + (i - 1) = i
          BY <2>12, <3>2
        <4>2. number[i] = e[i - 1]
          BY <2>12, <4>1
        <4>3. PICK j : j = 1 + (k + (i - 1))
          OBVIOUS
        <4>4. i - 1 \in 1..(Len(t) - k) /\ k + (i - 1) \in 1..(Len(s) - 1) /\ j \in 1..Len(s)
          BY <2>2, <2>3, <2>7, <2>8, <2>11, <4>1, <4>3
        <4>5. e[i - 1] = t[k + (i - 1)] /\ t[k + (i - 1)] = s[j]
          BY <2>3, <2>8, <4>3, <4>4
        <4> QED
          BY <4>2, <4>4, <4>5
      <3> QED
        BY <3>1, <3>2
    <2>15. StartsWith(number, Minus) /\ Sign(number) = 1 /\ ~StartsWith(s, Plus)
      BY <2>2, <2>12 DEF StartsWith, Sign, Plus, Minus
    <2>16. /\ k \in 0..Len(t) /\ \A i \in 1..k : t[i] = Zero
           /\ k > 0 => k + 2 <= Len(t) /\ \A i \in 1..k + 2 : t[i] = Zero
      BY <2>4 DEF Strips
    <2>17. Keeps(s, 1, t, number, k)
      BY <1>1, <2>2, <2>4, <2>5, <2>7, <2>8, <2>11, <2>12, <2>13, <2>14, <2>15, <2>16, Zenon DEF Keeps
    <2> QED
      BY <2>1, <2>2, <2>10, <2>17, Zenon
  <1>2. CASE ~StartsWith(s, Minus)
    <2>1. PICK k : Strips(s, k)
      BY StripZerosStrips
    <2>2. PICK number : number = StripZeros(s)
      OBVIOUS
    <2>3. /\ k \in 0..Len(s) /\ number = From(s, k) /\ \A i \in 1..k : s[i] = Zero
          /\ k > 0 => k + 2 <= Len(s) /\ \A i \in 1..k + 2 : s[i] = Zero
      BY <2>1, <2>2 DEF Strips
    <2>4. k \in Nat /\ k <= Len(s) /\ Len(s) \in Nat
      BY <2>3
    <2>5. /\ number \in Seq(Byte) /\ Len(number) = Len(s) - k
          /\ \A i \in 1..(Len(s) - k) : number[i] = s[k + i]
      BY <2>3, <2>4, FromIs
    <2>6. Stripped(s) = number
      BY <1>2, <2>2, Zenon DEF Stripped
    <2>7. number # <<>> => number[1] = s[1] /\ s # <<>>
      <3> SUFFICES ASSUME number # <<>> PROVE number[1] = s[1] /\ s # <<>>
        OBVIOUS
      <3>1. 1 \in 1..(Len(s) - k) /\ s # <<>>
        BY <2>4, <2>5
      <3>2. number[1] = s[k + 1]
        BY <2>5, <3>1
      <3>3. CASE k = 0
        BY <3>1, <3>2, <3>3
      <3>4. CASE k # 0
        <4>1. k > 0 /\ 1 \in 1..k + 2 /\ k + 1 \in 1..k + 2
          BY <2>4, <3>4
        <4> QED
          BY <2>3, <3>1, <3>2, <4>1
      <3> QED
        BY <3>3, <3>4
    <2>8. s # <<>> => number # <<>>
      <3>1. CASE k = 0
        BY <2>4, <2>5, <3>1
      <3>2. CASE k # 0
        <4>1. k > 0 /\ k + 2 <= Len(s)
          BY <2>3, <2>4, <3>2
        <4> QED
          BY <2>4, <2>5, <4>1
      <3> QED
        BY <3>1, <3>2
    <2>9. (StartsWith(number, Minus) <=> StartsWith(s, Minus)) /\ Sign(number) = Sign(s)
      BY <2>7, <2>8, Zenon DEF StartsWith, Sign
    <2>10. ASSUME NEW i \in 1..Len(number) PROVE \E j \in 1..Len(s) : number[i] = s[j]
      <3>1. i \in 1..(Len(s) - k) /\ k + i \in 1..Len(s)
        BY <2>4, <2>5
      <3> QED
        BY <2>5, <3>1
    <2>11. CASE ~StartsWith(s, Plus)
      <3>1. Sign(s) = 0
        BY <1>2, <2>11 DEF Sign
      <3>2. From(s, 0) = s /\ From(number, 0) = number
        BY <2>5, FromStart
      <3>3. Len(number) = 0 + (Len(s) - k)
        BY <2>4, <2>5
      <3>4. Keeps(s, 0, s, number, k)
        BY <2>1, <2>3, <2>4, <2>5, <2>7, <2>9, <2>10, <3>1, <3>2, <3>3, Zenon DEF Keeps
      <3> QED
        BY <2>6, <3>1, <3>2, <3>4, Zenon
    <2>12. CASE StartsWith(s, Plus)
      <3>1. Sign(s) = 1 /\ s # <<>> /\ s[1] = Plus
        BY <2>12 DEF Sign, StartsWith
      <3>2. k = 0
        <4> SUFFICES ASSUME k # 0 PROVE FALSE
          OBVIOUS
        <4>1. 1 \in 1..k
          BY <2>4
        <4> QED
          BY <2>3, <3>1, <4>1 DEF Plus, Zero
      <3>3. number = s
        BY <2>3, <3>2, FromStart
      <3>4. PICK b : b = From(s, 1)
        OBVIOUS
      <3>5. b \in Seq(Byte) /\ Len(b) = Len(s) - 1 /\ From(b, 0) = b
        <4>1. 1 <= Len(s)
          BY <3>1
        <4> QED
          BY <3>4, <4>1, FromIs, FromStart
      <3>6. Len(s) = 1 + (Len(b) - 0) /\ 0 \in 0..Len(b) /\ 0 \in Nat /\ ~(0 > 0) /\ 1..0 = {}
        BY <2>4, <3>5
      <3>7. \A i \in 1..0 : b[i] = Zero
        OBVIOUS
      <3>8. Keeps(s, 1, b, s, 0)
        <4>1. \A i \in 1..Len(s) : \E j \in 1..Len(s) : s[i] = s[j]
          OBVIOUS
        <4> QED
          BY <2>12, <3>1, <3>4, <3>5, <3>6, <3>7, <4>1, Zenon DEF Keeps
      <3> QED
        BY <2>6, <3>1, <3>3, <3>4, <3>8, Zenon
    <2> QED
      BY <2>11, <2>12
  <1> QED
    BY <1>1, <1>2

\* Without the zeros that TerminateNumber removes the body of a numeral has the base, the
\* prefix and the value that it has with them.
LEMMA SameWithoutZeros ==
  ASSUME NEW b \in Seq(Byte), NEW k \in Nat, k <= Len(b), \A i \in 1..k : b[i] = Zero,
         k > 0 => k + 2 <= Len(b) /\ \A i \in 1..k + 2 : b[i] = Zero,
         NEW e, e = From(b, k), NEW rdx \in Radix
  PROVE  /\ HasX(e) <=> HasX(b)
         /\ BaseOf(e, rdx) = BaseOf(b, rdx)
         /\ AreFigures(Figures(e, rdx), BaseOf(b, rdx)) <=> AreFigures(Figures(b, rdx), BaseOf(b, rdx))
         /\ ValueOf(Figures(e, rdx), BaseOf(b, rdx)) = ValueOf(Figures(b, rdx), BaseOf(b, rdx))
  <1>1. CASE k = 0
    <2>1. e = b
      BY <1>1, FromStart
    <2> QED
      BY <2>1
  <1>2. CASE k # 0
    <2>1. PICK n \in Nat : n = Len(b)
      OBVIOUS
    <2>2. k + 2 <= n /\ \A i \in 1..k + 2 : b[i] = Zero
      BY <1>2, <2>1
    <2>3. e \in Seq(Byte) /\ Len(e) = n - k /\ \A i \in 1..(n - k) : e[i] = b[k + i]
      <3>1. RestOf(Byte, b, n, k, e)
        BY <2>1, Rest
      <3> QED
        BY <3>1 DEF RestOf
    <2>4. b[1] = Zero /\ b[2] = Zero /\ e[1] = Zero /\ e[2] = Zero
      <3>1. {1, 2, k + 1, k + 2} \subseteq 1..k + 2 /\ {1, 2} \subseteq 1..(n - k)
        BY <2>2
      <3> QED
        BY <2>2, <2>3, <3>1
    <2>5. ~HasX(b) /\ ~HasX(e)
      BY <2>4 DEF HasX, Zero
    <2>6. StartsWith(b, Zero) /\ StartsWith(e, Zero)
      <3>1. b # <<>> /\ e # <<>>
        BY <2>1, <2>2, <2>3
      <3> QED
        BY <2>4, <3>1 DEF StartsWith
    <2>7. PICK base \in {8, 10, 16} : base = BaseOf(b, rdx)
      BY BaseIs
    <2>8. BaseOf(e, rdx) = base
      BY <2>5, <2>6, <2>7, Zenon DEF BaseOf
    <2>9. Figures(b, rdx) = b /\ Figures(e, rdx) = e
      BY <2>5, Zenon DEF Figures
    <2>10. ValueOf(e, base) = ValueOf(b, base)
      <3>1. base \in Nat
        BY <2>7
      <3> QED
        BY <3>1, ZerosCountNothing
    <2>11. AreFigures(e, base) <=> AreFigures(b, base)
      <3>1. b # <<>> /\ e # <<>> /\ DOMAIN b = 1..n /\ DOMAIN e = 1..(n - k)
        BY <2>1, <2>2, <2>3
      <3>2. ASSUME \A i \in 1..n : DigitValue(b[i]) < base, NEW i \in 1..(n - k)
            PROVE  DigitValue(e[i]) < base
        <4>1. k + i \in 1..n
          BY <2>1, <2>2
        <4> QED
          BY <2>3, <3>2, <4>1
      <3>3. ASSUME \A i \in 1..(n - k) : DigitValue(e[i]) < base, NEW i \in 1..n
            PROVE  DigitValue(b[i]) < base
        <4>1. CASE i <= k
          <5>1. b[i] = Zero /\ DigitValue(Zero) = 0
            BY <4>1 DEF DigitValue, Zero
          <5> QED
            BY <2>7, <5>1
        <4>2. CASE ~(i <= k)
          <5>1. i - k \in 1..(n - k) /\ k + (i - k) = i
            BY <2>1, <4>2
          <5> QED
            BY <2>3, <3>3, <5>1
        <4> QED
          BY <4>1, <4>2
      <3> QED
        BY <3>1, <3>2, <3>3 DEF AreFigures
    <2> QED
      BY <2>5, <2>7, <2>8, <2>9, <2>10, <2>11, Zenon
  <1> QED
    BY <1>1, <1>2

\* The number is a numeral when s is, with the same value.
LEMMA StrippedNumeral ==
  ASSUME NEW s \in Seq(Byte), NEW rdx \in Radix
  PROVE  /\ IsNumeral(Stripped(s), rdx) <=> IsNumeral(s, rdx)
         /\ Numeral(Stripped(s), rdx) = Numeral(s, rdx)
         /\ HasX(From(Stripped(s), Sign(Stripped(s)))) <=> HasX(From(s, Sign(s)))
  <1>1. PICK g : g = Sign(s)
    OBVIOUS
  <1>2. PICK b : b = From(s, g)
    OBVIOUS
  <1>3. PICK number : number = Stripped(s)
    OBVIOUS
  <1>4. PICK k : Keeps(s, g, b, number, k)
    BY <1>1, <1>2, <1>3, StrippedKeeps
  <1>5. PICK e : e = From(b, k)
    OBVIOUS
  <1>6. b \in Seq(Byte)
    <2>1. g \in Nat /\ g <= Len(s)
      BY <1>1 DEF Sign, StartsWith
    <2> QED
      BY <1>2, <2>1, FromIs
  <1>7. /\ Sign(number) = g /\ From(number, g) = e /\ k \in 0..Len(b) /\ k \in Nat
        /\ StartsWith(number, Minus) <=> StartsWith(s, Minus)
        /\ \A i \in 1..k : b[i] = Zero
        /\ k > 0 => k + 2 <= Len(b) /\ \A i \in 1..k + 2 : b[i] = Zero
    BY <1>4, <1>5, Zenon DEF Keeps
  <1>8. k <= Len(b) /\ Len(b) \in Nat
    BY <1>6, <1>7
  <1>9. /\ HasX(e) <=> HasX(b)
        /\ BaseOf(e, rdx) = BaseOf(b, rdx)
        /\ AreFigures(Figures(e, rdx), BaseOf(b, rdx)) <=> AreFigures(Figures(b, rdx), BaseOf(b, rdx))
        /\ ValueOf(Figures(e, rdx), BaseOf(b, rdx)) = ValueOf(Figures(b, rdx), BaseOf(b, rdx))
    BY <1>5, <1>6, <1>7, <1>8, SameWithoutZeros
  <1>10. /\ IsNumeral(s, rdx) <=> AreFigures(Figures(b, rdx), BaseOf(b, rdx))
         /\ Numeral(s, rdx) = (IF StartsWith(s, Minus) THEN -1 ELSE 1) * ValueOf(Figures(b, rdx), BaseOf(b, rdx))
    BY <1>1, <1>2, NumeralParts
  <1>11. /\ IsNumeral(number, rdx) <=> AreFigures(Figures(e, rdx), BaseOf(e, rdx))
         /\ Numeral(number, rdx)
              = (IF StartsWith(number, Minus) THEN -1 ELSE 1) * ValueOf(Figures(e, rdx), BaseOf(e, rdx))
    BY <1>7, NumeralParts
  <1>12. Numeral(number, rdx) = Numeral(s, rdx)
    <2>1. PICK v : v = ValueOf(Figures(b, rdx), BaseOf(b, rdx))
      OBVIOUS
    <2>2. ValueOf(Figures(e, rdx), BaseOf(e, rdx)) = v
      BY <1>9, <2>1
    <2>3. Numeral(s, rdx) = (IF StartsWith(s, Minus) THEN -1 ELSE 1) * v
      BY <1>10, <2>1, Zenon
    <2>4. Numeral(number, rdx) = (IF StartsWith(number, Minus) THEN -1 ELSE 1) * v
      BY <1>11, <2>2, Zenon
    <2>5. CASE StartsWith(s, Minus)
      BY <1>7, <2>3, <2>4, <2>5, Zenon
    <2>6. CASE ~StartsWith(s, Minus)
      BY <1>7, <2>3, <2>4, <2>6, Zenon
    <2> QED
      BY <2>5, <2>6
  <1> QED
    BY <1>1, <1>2, <1>3, <1>7, <1>9, <1>10, <1>11, <1>12, Zenon

\* A numeral holds no NUL and starts with no space, and is not empty.
LEMMA NumeralBytes ==
  ASSUME NEW s \in Seq(Byte), NEW rdx \in Radix, IsNumeral(s, rdx)
  PROVE  s # <<>> /\ ~StartsWithSpace(s) /\ \A i \in 1..Len(s) : s[i] # NUL
  <1>1. PICK g \in {0, 1} : g = Sign(s) /\ g <= Len(s)
    BY DEF Sign, StartsWith
  <1>2. PICK b : b = From(s, g)
    OBVIOUS
  <1>3. PICK n \in Nat : n = Len(s)
    OBVIOUS
  <1>4. b \in Seq(Byte) /\ Len(b) = n - g /\ \A i \in 1..(n - g) : b[i] = s[g + i]
    <2>1. g \in Nat /\ g <= Len(s)
      BY <1>1
    <2>2. RestOf(Byte, s, n, g, b)
      BY <1>2, <1>3, <2>1, Rest
    <2> QED
      BY <2>2 DEF RestOf
  <1>5. PICK base \in {8, 10, 16} : base = BaseOf(b, rdx)
    BY BaseIs
  <1>6. AreFigures(Figures(b, rdx), base)
    BY <1>1, <1>2, <1>5, NumeralParts
  <1>7. \A c \in Byte : DigitValue(c) < base => c # NUL /\ c \notin Spaces
    <2>1. \A v \in Nat : v < base => v < 16
      OBVIOUS
    <2> QED
      BY <2>1, DigitIs
  <1>8. b # <<>> /\ b[1] \notin Spaces /\ \A i \in 1..Len(b) : b[i] # NUL
    <2>1. CASE Figures(b, rdx) = b
      <3>1. b # <<>> /\ \A i \in 1..Len(b) : DigitValue(b[i]) < base /\ b[i] \in Byte
        BY <1>4, <1>6, <2>1 DEF AreFigures
      <3>2. 1 \in 1..Len(b)
        BY <1>4, <3>1
      <3> QED
        BY <1>7, <3>1, <3>2
    <2>2. CASE Figures(b, rdx) # b
      <3>1. HasX(b) /\ Figures(b, rdx) = From(b, 2)
        BY <2>2 DEF Figures
      <3>2. PICK m \in Nat : m = Len(b) /\ m >= 2
        BY <1>4, <3>1 DEF HasX
      <3>3. /\ From(b, 2) \in Seq(Byte) /\ Len(From(b, 2)) = m - 2
            /\ \A i \in 1..(m - 2) : From(b, 2)[i] = b[2 + i]
        <4>1. 2 \in Nat /\ 2 <= Len(b)
          BY <3>2
        <4>2. RestOf(Byte, b, m, 2, From(b, 2))
          BY <1>4, <3>2, <4>1, Rest
        <4> QED
          BY <4>2 DEF RestOf
      <3>4. b[1] = Zero /\ b[2] \in {88, 120} /\ b # <<>>
        BY <3>1 DEF HasX, StartsWith
      <3>5. ASSUME NEW i \in 1..m PROVE b[i] # NUL
        <4>1. CASE i \in {1, 2}
          BY <3>4, <4>1 DEF NUL, Zero
        <4>2. CASE i \notin {1, 2}
          <5>1. i - 2 \in 1..(m - 2) /\ 2 + (i - 2) = i
            BY <3>2, <4>2
          <5>2. From(b, 2)[i - 2] = b[i] /\ b[i] \in Byte
            <6>1. b \in Seq(Byte) /\ i \in 1..Len(b)
              BY <1>4, <3>2
            <6>2. b[i] \in Byte
              BY <6>1
            <6> QED
              BY <3>3, <5>1, <6>2
          <5>3. DOMAIN From(b, 2) = 1..(m - 2)
            BY <3>3
          <5>4. DigitValue(b[i]) < base
            BY <1>6, <3>1, <5>1, <5>2, <5>3 DEF AreFigures
          <5> QED
            BY <1>7, <5>2, <5>4
        <4> QED
          BY <4>1, <4>2
      <3> QED
        BY <3>2, <3>4, <3>5 DEF Spaces, Zero
    <2> QED
      BY <2>1, <2>2
  <1>9. s # <<>>
    BY <1>3, <1>4, <1>8
  <1>10. ~StartsWithSpace(s) /\ (g = 1 => s[1] # NUL)
    <2>1. CASE g = 0
      <3>1. 1 \in 1..(n - g) /\ b[1] = s[g + 1] /\ g + 1 = 1
        BY <1>3, <1>4, <1>9, <2>1
      <3> QED
        BY <1>8, <2>1, <3>1 DEF StartsWithSpace
    <2>2. CASE g = 1
      <3>1. s[1] \in {Minus, Plus}
        BY <1>1, <2>2 DEF Sign, StartsWith
      <3> QED
        BY <3>1 DEF StartsWithSpace, Spaces, NUL, Minus, Plus
    <2> QED
      BY <2>1, <2>2
  <1>11. ASSUME NEW i \in 1..n PROVE s[i] # NUL
    <2>1. CASE g = 1 /\ i = 1
      BY <1>10, <2>1
    <2>2. CASE ~(g = 1 /\ i = 1)
      <3>1. i - g \in 1..(n - g) /\ g + (i - g) = i
        BY <2>2
      <3> QED
        BY <1>4, <1>8, <3>1
    <2> QED
      BY <2>1, <2>2
  <1> QED
    BY <1>3, <1>9, <1>10, <1>11

\* strtol takes all of the number in the buffer exactly when it is a numeral: a NUL among
\* its bytes ends the C string before.
LEMMA ReadsNumber ==
  ASSUME NEW number \in Seq(Byte), number # <<>>, ~StartsWithSpace(number),
         NEW c, c = CStringAt(number), NEW r \in Radix, NEW rdx \in Radix,
         c = number => r = rdx
  PROVE  /\ Strtol(c, r).end = Len(number) <=> IsNumeral(number, rdx)
         /\ IsNumeral(number, rdx) => Strtol(c, r).value = Numeral(number, rdx) /\ c = number
  <1>1. /\ c \in Seq(Byte) /\ Len(c) <= Len(number)
        /\ \A i \in 1..Len(c) : c[i] = number[i]
        /\ \/ c = number
           \/ Len(c) < Len(number) /\ \E i \in 1..Len(number) : number[i] = NUL
    BY CStringIs
  <1>2. CASE c = number
    BY <1>2, StrtolExact
  <1>3. CASE c # number
    <2>1. Len(c) < Len(number) /\ ~IsNumeral(number, rdx)
      <3>1. Len(c) < Len(number) /\ \E i \in 1..Len(number) : number[i] = NUL
        BY <1>1, <1>3
      <3> QED
        BY <3>1, NumeralBytes
    <2>2. CASE c = <<>>
      <3>1. Strtol(c, r).end = 0 /\ Len(number) # 0
        BY <2>2, StrtolEmpty
      <3> QED
        BY <2>1, <3>1
    <2>3. CASE c # <<>>
      <3>1. ~StartsWithSpace(c)
        <4>1. 1 \in 1..Len(c)
          BY <1>1, <2>3
        <4>2. c[1] = number[1]
          BY <1>1, <4>1
        <4> QED
          BY <4>2 DEF StartsWithSpace
      <3>2. PICK end : end = Strtol(c, r).end
        OBVIOUS
      <3>3. PICK m \in Nat : m = Len(c) /\ m < Len(number)
        BY <1>1, <2>1
      <3>4. end <= m /\ (end = m <=> IsNumeral(c, r))
        BY <1>1, <2>3, <3>1, <3>2, <3>3, StrtolExact
      <3>5. end # Len(number)
        BY <1>1, <3>3, <3>4
      <3> QED
        BY <2>1, <3>2, <3>5
    <2> QED
      BY <2>2, <2>3
  <1> QED
    BY <1>2, <1>3

\* A numeral whose zeros in front can be removed, and that is too long for the buffer
\* without them, is out of the range of a long.
LEMMA LongNumbers ==
  ASSUME NEW s \in Seq(Byte), NEW rdx \in Radix, IsNumeral(s, rdx),
         ~StartsWith(s, Plus), ~HasX(From(s, Sign(s))),
         Len(Stripped(s)) > kMaxNumberLength
  PROVE  \E v \in Nat : /\ v >= Pow2(LongBits)
                        /\ Numeral(s, rdx) = IF StartsWith(s, Minus) THEN -v ELSE v
  <1>1. PICK g \in {0, 1} : g = Sign(s) /\ g <= Len(s)
    BY DEF Sign, StartsWith
  <1>2. PICK b : b = From(s, g)
    OBVIOUS
  <1>3. b \in Seq(Byte)
    <2>1. g \in Nat /\ g <= Len(s)
      BY <1>1
    <2> QED
      BY <1>2, <2>1, FromIs
  <1>4. PICK number : number = Stripped(s)
    OBVIOUS
  <1>5. PICK k : Keeps(s, g, b, number, k)
    BY <1>1, <1>2, <1>4, StrippedKeeps
  <1>6. /\ Strips(b, k) /\ k \in 0..Len(b) /\ k \in Nat /\ Len(number) = g + (Len(b) - k)
        /\ \A i \in 1..k : b[i] = Zero
    BY <1>5, Zenon DEF Keeps
  <1>7. PICK e : e = From(b, k)
    OBVIOUS
  <1>8. PICK n \in Nat : n = Len(b) /\ k <= n
    BY <1>3, <1>6
  <1>9. e \in Seq(Byte) /\ Len(e) = n - k /\ \A i \in 1..(n - k) : e[i] = b[k + i]
    <2>1. k \in Nat /\ k <= Len(b)
      BY <1>6, <1>8
    <2>2. RestOf(Byte, b, n, k, e)
      BY <1>3, <1>7, <1>8, <2>1, Rest
    <2> QED
      BY <2>2 DEF RestOf
  <1>10. PICK base \in {8, 10, 16} : base = BaseOf(b, rdx)
    BY BaseIs
  <1>11. Figures(b, rdx) = b
    BY <1>1, <1>2, Zenon DEF Figures
  <1>12. PICK v : v = ValueOf(b, base)
    OBVIOUS
  <1>13. v \in Nat /\ v = ValueOf(e, base)
    <2>1. base \in Nat /\ k <= Len(b)
      BY <1>8
    <2>2. v \in Nat
      BY <1>3, <1>12, <2>1, ValueType
    <2>3. ValueOf(From(b, k), base) = ValueOf(b, base)
      BY <1>3, <1>6, <2>1, ZerosCountNothing
    <2> QED
      BY <1>7, <1>12, <2>2, <2>3
  <1>14. PICK max \in Nat, bits \in Nat : max = kMaxNumberLength /\ bits = LongBits
    BY ArgAssumption
  <1>15. 3 * (max - 3) >= bits /\ bits # 0
    BY <1>14, ArgAssumption
  <1>16. n - k >= max /\ max - 3 \in Nat /\ k + 3 <= n
    <2>1. g + (n - k) > max
      BY <1>4, <1>6, <1>8, <1>14
    <2>2. max >= 4
      BY <1>14, <1>15
    <2>3. n - k \in Nat
      BY <1>6, <1>8
    <2>4. n - k >= max
      BY <1>1, <1>14, <2>1, <2>3
    <2> QED
      BY <1>6, <1>8, <1>14, <2>2, <2>3, <2>4
  <1>17. PICK z \in 0..2 : b[(k + z) + 1] # Zero
    BY <1>6, <1>8, <1>16 DEF Strips
  <1>18. PICK m \in Nat : (z + m) + 1 = n - k /\ m >= max - 3
    <2>0. z \in Nat /\ z <= 2 /\ max \in Nat
      BY <1>14, <1>17
    <2>1. PICK d \in Nat : d = n - k /\ d >= max /\ d >= 3
      <3>1. k \in Nat /\ n \in Nat /\ k <= n
        BY <1>6, <1>8
      <3>2. \A i, j \in Nat : j <= i => i - j \in Nat
        OBVIOUS
      <3>3. n - k \in Nat
        BY <3>1, <3>2
      <3>4. max >= 3
        BY <1>16, <2>0
      <3> QED
        BY <1>16, <2>0, <3>3, <3>4
    <2>2. d - (z + 1) \in Nat /\ (z + (d - (z + 1))) + 1 = d /\ d - (z + 1) >= max - 3
      BY <2>0, <2>1
    <2> QED
      BY <2>1, <2>2
  <1>19. e[z + 1] # Zero
    <2>1. z + 1 \in 1..(n - k) /\ k + (z + 1) = (k + z) + 1
      BY <1>6, <1>8, <1>18
    <2>2. e[z + 1] = b[k + (z + 1)]
      BY <1>9, <2>1
    <2> QED
      BY <1>17, <2>1, <2>2
  <1>20. v >= Pow2(3 * m)
    <2>1. z \in Nat /\ (z + m) + 1 = Len(e)
      BY <1>9, <1>18
    <2>2. ValueOf(e, base) >= Pow2(3 * m)
      BY <1>9, <1>19, <2>1, DigitsCount
    <2> QED
      BY <1>13, <2>2
  <1>21. Pow2(bits) <= Pow2(3 * m)
    <2>1. 3 * m \in Nat /\ bits <= 3 * m
      BY <1>14, <1>15, <1>18
    <2> QED
      BY <2>1, Pow2Grows
  <1>22. v >= Pow2(bits)
    <2>1. 3 * m \in Nat
      OBVIOUS
    <2>2. Pow2(bits) \in Nat /\ Pow2(3 * m) \in Nat
      BY <2>1, Pow2Step
    <2> QED
      BY <1>13, <1>20, <1>21, <2>2
  <1>23. Numeral(s, rdx) = (IF StartsWith(s, Minus) THEN -1 ELSE 1) * v
    BY <1>1, <1>2, <1>10, <1>11, <1>12, NumeralParts
  <1>24. Numeral(s, rdx) = IF StartsWith(s, Minus) THEN -v ELSE v
    BY <1>13, <1>23
  <1> QED
    BY <1>13, <1>14, <1>22, <1>24
------------------------------------------------------------------------------
(***************************************************************************)
(* Casts to a narrower type.                                               *)
(***************************************************************************)

\* Remainders of the numbers around zero.
LEMMA Remainders ==
  ASSUME NEW m \in Nat \ {0}, NEW v \in Int
  PROVE  /\ v % m \in 0..m - 1
         /\ v \in 0..m - 1 => v % m = v
         /\ v + m \in 0..m - 1 => v % m = v + m
  OBVIOUS

\* A cast keeps exactly the values of the type.
LEMMA CastKeeps ==
  ASSUME NEW t, t.class \in {"signed", "unsigned"}, NEW n \in Nat, t.bits = n + 1, NEW v \in Int
  PROVE  Cast(v, t) = v <=> v \in ValuesOf(t)
  <1>1. PICK h \in Nat \ {0} : h = Pow2(n)
    BY Pow2Step
  <1>2. Pow2(n + 1) = 2 * h /\ (n + 1) - 1 = n
    BY <1>1, Pow2Step
  <1>3. PICK m \in Nat \ {0} : m = 2 * h
    OBVIOUS
  <1>4. PICK w : w = v % m
    OBVIOUS
  <1>5. /\ w \in 0..m - 1
        /\ v \in 0..m - 1 => w = v
        /\ v + m \in 0..m - 1 => w = v + m
    BY <1>4, Remainders
  <1>6. CASE t.class = "signed"
    <2>1. Cast(v, t) = IF w >= h THEN w - m ELSE w
      BY <1>1, <1>2, <1>3, <1>4, <1>6, Zenon DEF Cast
    <2>2. ValuesOf(t) = -h..h - 1
      BY <1>1, <1>2, <1>6, Zenon DEF ValuesOf
    <2>3. w \in 0..m - 1 /\ w >= h => w - m \in -h..-1
      BY <1>1, <1>3
    <2>4. w \in 0..m - 1 /\ ~(w >= h) => w \in 0..h - 1
      BY <1>1, <1>3
    <2>5. v \in -h..h - 1 => v \in 0..h - 1 \/ v + m \in h..m - 1
      BY <1>1, <1>3
    <2>6. ASSUME v \in -h..h - 1 PROVE (IF w >= h THEN w - m ELSE w) = v
      <3>1. CASE v \in 0..h - 1
        <4>1. v \in 0..m - 1 /\ ~(v >= h)
          BY <1>1, <1>3, <3>1
        <4>2. w = v
          BY <1>5, <4>1, Zenon
        <4> QED
          BY <4>1, <4>2, Zenon
      <3>2. CASE v + m \in h..m - 1
        <4>1. v + m \in 0..m - 1 /\ v + m >= h /\ (v + m) - m = v
          BY <1>1, <1>3, <3>2
        <4>2. w = v + m
          BY <1>5, <4>1, Zenon
        <4> QED
          BY <4>1, <4>2, Zenon
      <3> QED
        BY <2>5, <2>6, <3>1, <3>2
    <2>7. (IF w >= h THEN w - m ELSE w) \in -h..h - 1
      <3>1. \A x \in -h..-1 : x \in -h..h - 1
        BY <1>1
      <3>2. \A x \in 0..h - 1 : x \in -h..h - 1
        BY <1>1
      <3>3. CASE w >= h
        BY <1>5, <2>3, <3>1, <3>3, Zenon
      <3>4. CASE ~(w >= h)
        BY <1>5, <2>4, <3>2, <3>4, Zenon
      <3> QED
        BY <3>3, <3>4
    <2> QED
      BY <2>1, <2>2, <2>6, <2>7
  <1>7. CASE t.class = "unsigned"
    <2>1. Cast(v, t) = w
      BY <1>2, <1>3, <1>4, <1>7 DEF Cast
    <2>2. ValuesOf(t) = 0..m - 1
      BY <1>2, <1>3, <1>7 DEF ValuesOf
    <2>3. w \in 0..m - 1 /\ (v \in 0..m - 1 => w = v)
      BY <1>5, Zenon
    <2> QED
      BY <2>1, <2>2, <2>3, Zenon
  <1> QED
    BY <1>6, <1>7

\* The integer types have a bit at least, and no more than a long.
LEMMA IntegerTypes ==
  ASSUME NEW t \in Types, t.class \in {"signed", "unsigned"}
  PROVE  /\ t \in [class : {"signed", "unsigned"}, bits : 1..LongBits]
         /\ \E n, l \in Nat : t.bits = n + 1 /\ LongBits = l + 1 /\ n <= l
  <1>1. t \notin {FloatType, CharType, StringType, VoidType}
    BY DEF FloatType, CharType, StringType, VoidType
  <1>2. PICK b \in 1..LongBits : t \in {Signed(b), Unsigned(b)}
    <2>1. Types \subseteq (UNION {{Signed(b), Unsigned(b)} : b \in 1..LongBits})
                            \cup {FloatType, CharType, StringType, VoidType}
      BY ArgAssumption, Zenon
    <2>2. t \in UNION {{Signed(b), Unsigned(b)} : b \in 1..LongBits}
      BY <1>1, <2>1, Zenon
    <2> QED
      BY <2>2
  <1>3. LongBits \in Nat /\ t.bits = b /\ t \in [class : {"signed", "unsigned"}, bits : 1..LongBits]
    BY <1>2, ArgAssumption DEF Signed, Unsigned
  <1>4. b - 1 \in Nat /\ LongBits - 1 \in Nat /\ b = (b - 1) + 1 /\ LongBits = (LongBits - 1) + 1
        /\ b - 1 <= LongBits - 1
    BY <1>3
  <1> QED
    BY <1>3, <1>4

\* A narrower type has fewer values.
LEMMA NarrowerValues ==
  ASSUME NEW t \in Types, t.class \in {"signed", "unsigned"}, NEW u, u.class = t.class, u.bits = LongBits
  PROVE  /\ ValuesOf(t) \subseteq ValuesOf(u) /\ ValuesOf(u) \subseteq Int
         /\ \A v \in Nat : v >= Pow2(LongBits) => v \notin ValuesOf(t) /\ -v \notin ValuesOf(t)
  <1>1. PICK n \in Nat, l \in Nat : t.bits = n + 1 /\ LongBits = l + 1 /\ n <= l
    BY IntegerTypes
  <1>2. PICK h \in Nat \ {0}, k \in Nat \ {0} : h = Pow2(n) /\ k = Pow2(l)
    BY Pow2Step
  <1>3. h <= k
    BY <1>1, <1>2, Pow2Grows
  <1>4. (n + 1) - 1 = n /\ (l + 1) - 1 = l
    OBVIOUS
  <1>5. Pow2(n + 1) = 2 * h /\ Pow2(l + 1) = 2 * k
    BY <1>2, Pow2Step
  <1>6. PICK a \in Nat, c \in Nat : a = 2 * h /\ c = 2 * k
    BY <1>2
  <1>7. Pow2(t.bits) = a /\ Pow2(LongBits) = c /\ Pow2(t.bits - 1) = h /\ Pow2(LongBits - 1) = k
    BY <1>1, <1>2, <1>4, <1>5, <1>6
  <1>8. CASE t.class = "signed"
    <2>1. ValuesOf(t) = -h..h - 1 /\ ValuesOf(u) = -k..k - 1
      BY <1>7, <1>8 DEF ValuesOf
    <2>2. -h..h - 1 \subseteq -k..k - 1 /\ -k..k - 1 \subseteq Int
      BY <1>2, <1>3
    <2>3. \A v \in Nat : v >= c => v \notin -h..h - 1 /\ -v \notin -h..h - 1
      BY <1>2, <1>3, <1>6
    <2> QED
      BY <1>7, <2>1, <2>2, <2>3, Zenon
  <1>9. CASE t.class # "signed"
    <2>1. ValuesOf(t) = 0..a - 1 /\ ValuesOf(u) = 0..c - 1
      BY <1>7, <1>9 DEF ValuesOf
    <2>2. 0..a - 1 \subseteq 0..c - 1 /\ 0..c - 1 \subseteq Int
      BY <1>2, <1>3, <1>6
    <2>3. \A v \in Nat : v >= c => v \notin 0..a - 1 /\ -v \notin 0..a - 1
      BY <1>2, <1>3, <1>6
    <2> QED
      BY <1>7, <2>1, <2>2, <2>3, Zenon
  <1> QED
    BY <1>8, <1>9
------------------------------------------------------------------------------
(***************************************************************************)
(* What the parsers of numbers return.                                     *)
(***************************************************************************)

\* What TerminateNumber makes of a submatch whose spaces it accepts.
LEMMA Terminates ==
  ASSUME NEW s, NEW max, NEW number, number = Stripped(From(s, Prefix(s, Spaces))),
         NEW t, t = IF Len(number) > max THEN Terminated(<<>>, Len(s))
                    ELSE Terminated(CStringAt(number), Len(number))
  PROVE  /\ TerminateNumber(s, max, TRUE) = t
         /\ ~StartsWithSpace(s) => TerminateNumber(s, max, FALSE) = t
  <1>1. PICK rest : rest = From(s, Prefix(s, Spaces))
    OBVIOUS
  <1>2. number = IF StartsWith(rest, Minus) THEN <<Minus>> \o StripZeros(Tail(rest)) ELSE StripZeros(rest)
    BY <1>1 DEF Stripped
  <1> QED
    BY <1>1, <1>2 DEF TerminateNumber

\* The numerals that a parser of the type stores.
Storable(s) ==
  /\ IsNumeral(s, radix) /\ Numeral(s, radix) \in ValuesOf(type)
  /\ type.class = "unsigned" => ~StartsWith(s, Minus)
RemovableZeros(s) == Len(s) <= kMaxNumberLength \/ (~StartsWith(s, Plus) /\ ~HasX(From(s, Sign(s))))

\* What TerminateNumber finds is not longer than what it was given.
LEMMA StrippedLength ==
  ASSUME NEW s \in Seq(Byte)
  PROVE  /\ Stripped(s) \in Seq(Byte) /\ Len(Stripped(s)) <= Len(s)
         /\ StartsWith(Stripped(s), Minus) <=> StartsWith(s, Minus)
         /\ Stripped(s) # <<>> => Stripped(s)[1] = s[1] /\ s # <<>>
         /\ s # <<>> => Stripped(s) # <<>>
         /\ \A i \in 1..Len(Stripped(s)) : \E j \in 1..Len(s) : Stripped(s)[i] = s[j]
  <1>1. PICK g \in {0, 1} : g = Sign(s) /\ g <= Len(s)
    BY DEF Sign, StartsWith
  <1>2. PICK b : b = From(s, g)
    OBVIOUS
  <1>3. PICK number : number = Stripped(s)
    OBVIOUS
  <1>4. PICK k : Keeps(s, g, b, number, k)
    BY <1>1, <1>2, <1>3, StrippedKeeps
  <1>5. /\ number \in Seq(Byte) /\ Len(number) = g + (Len(b) - k)
        /\ StartsWith(number, Minus) <=> StartsWith(s, Minus)
        /\ number # <<>> => number[1] = s[1] /\ s # <<>>
        /\ \A i \in 1..Len(number) : \E j \in 1..Len(s) : number[i] = s[j]
        /\ k \in Nat /\ k \in 0..Len(b)
    BY <1>4, Zenon DEF Keeps
  <1>6. k > 0 => k + 2 <= Len(b)
    BY <1>4, Zenon DEF Keeps
  <1>7. PICK n \in Nat : n = Len(s)
    OBVIOUS
  <1>8. Len(b) = n - g
    <2>1. g \in Nat /\ g <= Len(s)
      BY <1>1
    <2>2. Len(From(s, g)) = Len(s) - g
      BY <2>1, FromIs
    <2> QED
      BY <1>2, <1>7, <2>2
  <1>9. Len(number) <= n
    BY <1>1, <1>5, <1>7, <1>8
  <1>10. n # 0 => Len(number) # 0
    <2>0. /\ Len(number) = g + ((n - g) - k) /\ g \in {0, 1} /\ g <= n
          /\ k \in Nat /\ k \in 0..(n - g) /\ (k > 0 => k + 2 <= n - g)
      <3>1. Len(number) = g + (Len(b) - k) /\ k \in Nat /\ k \in 0..Len(b)
        BY <1>5
      <3> QED
        BY <1>1, <1>6, <1>7, <1>8, <3>1
    <2>1. CASE k > 0
      BY <2>0, <2>1
    <2>2. CASE ~(k > 0)
      <3>1. k = 0
        BY <2>0, <2>2
      <3> QED
        BY <2>0, <3>1
    <2> QED
      BY <2>1, <2>2
  <1>11. s # <<>> => number # <<>>
    BY <1>5, <1>7, <1>10
  <1> QED
    BY <1>3, <1>5, <1>7, <1>9, <1>11, Zenon

\* No spaces to skip.
LEMMA NoSpaces ==
  ASSUME NEW s \in Seq(Byte), ~StartsWithSpace(s)
  PROVE  From(s, Prefix(s, Spaces)) = s
  <1>1. Counts(s, Spaces, 0)
    <2>1. Len(s) \in Nat /\ (0 < Len(s) => s[0 + 1] \notin Spaces)
      BY DEF StartsWithSpace
    <2> QED
      BY <2>1 DEF Counts
  <1>2. Prefix(s, Spaces) = 0
    BY <1>1, OnePrefix
  <1> QED
    BY <1>2, FromStart

\* The parsers of the integer types accept exactly the numerals that they can store.
LEMMA IntegersParsed ==
  ASSUME type \in Types, type.class \in {"signed", "unsigned"}, radix \in Radixes,
         NEW s \in Seq(Byte), RemovableZeros(s)
  PROVE  ParseInteger(s) = IF Storable(s) THEN <<Numeral(s, radix)>> ELSE <<>>
  <1>1. radix \in Radix
    BY ArgAssumption DEF Radix
  <1>2. PICK t : t = TerminateNumber(s, kMaxNumberLength, FALSE)
    OBVIOUS
  <1>3. PICK r : r = Strtol(t.cstr, radix)
    OBVIOUS
  <1>4. ParseInteger(s) =
          CASE s = <<>> -> <<>>
            [] s # <<>> /\ type.class = "unsigned" /\ StartsWith(t.cstr, Minus) -> <<>>
            [] OTHER -> IF r.end # t.n \/ r.value \notin ValuesOf(Long) THEN <<>> ELSE Narrowed(r.value)
    BY <1>2, <1>3 DEF ParseInteger
  <1>5. ASSUME r.end # t.n PROVE ParseInteger(s) = <<>>
    BY <1>4, <1>5
  <1>6. ASSUME t = Terminated(<<>>, Len(s)), s # <<>> PROVE ParseInteger(s) = <<>>
    <2>1. r.end = 0
      BY <1>1, <1>3, <1>6, StrtolEmpty DEF Terminated
    <2>2. t.n = Len(s) /\ Len(s) # 0
      BY <1>6 DEF Terminated
    <2> QED
      BY <1>5, <2>1, <2>2
  <1>7. CASE s = <<>>
    <2>1. ParseInteger(s) = <<>>
      BY <1>4, <1>7
    <2>2. ~Storable(s)
      BY <1>1, <1>7, NumeralBytes DEF Storable
    <2> QED
      BY <2>1, <2>2
  <1>8. CASE s # <<>> /\ StartsWithSpace(s)
    <2>1. t = Terminated(<<>>, Len(s))
      BY <1>2, <1>8 DEF TerminateNumber
    <2>2. ~Storable(s)
      BY <1>1, <1>8, NumeralBytes DEF Storable
    <2> QED
      BY <1>6, <1>8, <2>1, <2>2
  <1>9. CASE s # <<>> /\ ~StartsWithSpace(s)
    <2>1. PICK number : number = Stripped(s)
      OBVIOUS
    <2>2. t = IF Len(number) > kMaxNumberLength THEN Terminated(<<>>, Len(s))
              ELSE Terminated(CStringAt(number), Len(number))
      <3>1. number = Stripped(From(s, Prefix(s, Spaces)))
        BY <1>9, <2>1, NoSpaces
      <3>2. TerminateNumber(s, kMaxNumberLength, FALSE) =
              IF Len(number) > kMaxNumberLength THEN Terminated(<<>>, Len(s))
              ELSE Terminated(CStringAt(number), Len(number))
        BY <1>9, <3>1, Terminates
      <3> QED
        BY <1>2, <3>2
    <2>3. /\ number \in Seq(Byte) /\ Len(number) <= Len(s) /\ number # <<>> /\ number[1] = s[1]
          /\ StartsWith(number, Minus) <=> StartsWith(s, Minus)
      BY <1>9, <2>1, StrippedLength
    <2>4. /\ IsNumeral(number, radix) <=> IsNumeral(s, radix)
          /\ Numeral(number, radix) = Numeral(s, radix)
      BY <1>1, <2>1, StrippedNumeral
    <2>5. CASE Len(number) > kMaxNumberLength
      <3>1. ParseInteger(s) = <<>>
        BY <1>6, <1>9, <2>2, <2>5
      <3>2. ASSUME Storable(s) PROVE FALSE
        <4>1. IsNumeral(s, radix) /\ Numeral(s, radix) \in ValuesOf(type)
          BY <3>2 DEF Storable
        <4>2. ~StartsWith(s, Plus) /\ ~HasX(From(s, Sign(s)))
          <5>1. ~(Len(s) <= kMaxNumberLength)
            BY <2>3, <2>5, ArgAssumption
          <5> QED
            BY <5>1 DEF RemovableZeros
        <4>3. PICK v \in Nat : /\ v >= Pow2(LongBits)
                              /\ Numeral(s, radix) = IF StartsWith(s, Minus) THEN -v ELSE v
          BY <1>1, <2>1, <2>5, <4>1, <4>2, LongNumbers
        <4>4. Long.class = type.class /\ Long.bits = LongBits
          <5>1. type \in [class : {"signed", "unsigned"}, bits : 1..LongBits]
            BY IntegerTypes
          <5> QED
            BY <5>1 DEF Long
        <4>5. v \notin ValuesOf(type) /\ -v \notin ValuesOf(type)
          BY <4>3, <4>4, NarrowerValues
        <4> QED
          BY <4>1, <4>3, <4>5
      <3> QED
        BY <3>1, <3>2
    <2>6. CASE ~(Len(number) > kMaxNumberLength)
      <3>1. PICK c : c = CStringAt(number)
        OBVIOUS
      <3>2. t.cstr = c /\ t.n = Len(number)
        BY <2>2, <2>6, <3>1 DEF Terminated
      <3>3. ~StartsWithSpace(number)
        BY <1>9, <2>3 DEF StartsWithSpace
      <3>4. /\ r.end = t.n <=> IsNumeral(s, radix)
            /\ IsNumeral(s, radix) => r.value = Numeral(s, radix) /\ c = number
        <4>1. /\ Strtol(c, radix).end = Len(number) <=> IsNumeral(number, radix)
              /\ IsNumeral(number, radix) => Strtol(c, radix).value = Numeral(number, radix) /\ c = number
          BY <1>1, <2>3, <3>1, <3>3, ReadsNumber
        <4> QED
          BY <1>3, <2>4, <3>2, <4>1
      <3>5. CASE ~IsNumeral(s, radix)
        BY <1>5, <3>4, <3>5 DEF Storable
      <3>6. CASE IsNumeral(s, radix) /\ type.class = "unsigned" /\ StartsWith(s, Minus)
        <4>1. StartsWith(t.cstr, Minus)
          BY <2>3, <3>2, <3>4, <3>6
        <4>2. ParseInteger(s) = <<>>
          BY <1>4, <1>9, <3>6, <4>1
        <4> QED
          BY <3>6, <4>2 DEF Storable
      <3>7. CASE IsNumeral(s, radix) /\ ~(type.class = "unsigned" /\ StartsWith(s, Minus))
        <4>1. PICK v : v = Numeral(s, radix)
          OBVIOUS
        <4>2. r.end = t.n /\ r.value = v /\ ~(type.class = "unsigned" /\ StartsWith(t.cstr, Minus))
          BY <2>3, <3>2, <3>4, <3>7, <4>1
        <4>3. ParseInteger(s) = IF v \notin ValuesOf(Long) THEN <<>> ELSE Narrowed(v)
          BY <1>4, <1>9, <4>2
        <4>4. v \in Int
          <5>1. PICK b : b = From(s, Sign(s))
            OBVIOUS
          <5>2. b \in Seq(Byte)
            <6>1. Sign(s) \in Nat /\ Sign(s) <= Len(s)
              BY DEF Sign, StartsWith
            <6> QED
              BY <5>1, <6>1, FromIs
          <5>3. PICK w \in Nat : w = ValueOf(Figures(b, radix), BaseOf(b, radix))
            <6>1. BaseOf(b, radix) \in Nat
              BY <1>1, BaseIs
            <6> QED
              BY <5>2, <6>1, FiguresIs, ValueType
          <5>4. v = (IF StartsWith(s, Minus) THEN -1 ELSE 1) * w
            BY <4>1, <5>1, <5>3, NumeralParts
          <5> QED
            BY <5>3, <5>4
        <4>5. Cast(v, type) = v <=> v \in ValuesOf(type)
          <5>1. PICK n \in Nat : type.bits = n + 1
            BY IntegerTypes
          <5> QED
            BY <4>4, <5>1, CastKeeps
        <4>6. v \in ValuesOf(type) => v \in ValuesOf(Long)
          <5>1. Long.class = type.class /\ Long.bits = LongBits
            <6>1. type \in [class : {"signed", "unsigned"}, bits : 1..LongBits]
              BY IntegerTypes
            <6> QED
              BY <6>1 DEF Long
          <5> QED
            BY <5>1, NarrowerValues
        <4>7. ParseInteger(s) = IF v \in ValuesOf(type) THEN <<v>> ELSE <<>>
          BY <4>3, <4>5, <4>6 DEF Narrowed
        <4>8. Storable(s) <=> v \in ValuesOf(type)
          BY <3>7, <4>1, Zenon DEF Storable
        <4> QED
          BY <4>1, <4>7, <4>8
      <3> QED
        BY <3>5, <3>6, <3>7
    <2> QED
      BY <2>5, <2>6
  <1> QED
    BY <1>7, <1>8, <1>9

\* Whatever an integer parser stores is a value of its type.
LEMMA IntegersFit ==
  ASSUME type \in Types, type.class \in {"signed", "unsigned"}, NEW s
  PROVE  ParseInteger(s) = <<>> \/ \E v \in ValuesOf(type) : ParseInteger(s) = <<v>>
  <1>1. PICK t : t = TerminateNumber(s, kMaxNumberLength, FALSE)
    OBVIOUS
  <1>2. PICK r : r = Strtol(t.cstr, radix)
    OBVIOUS
  <1>3. ParseInteger(s) =
          CASE s = <<>> -> <<>>
            [] s # <<>> /\ type.class = "unsigned" /\ StartsWith(t.cstr, Minus) -> <<>>
            [] OTHER -> IF r.end # t.n \/ r.value \notin ValuesOf(Long) THEN <<>> ELSE Narrowed(r.value)
    BY <1>1, <1>2 DEF ParseInteger
  <1>4. ParseInteger(s) = <<>> \/ (r.value \in ValuesOf(Long) /\ ParseInteger(s) = Narrowed(r.value))
    BY <1>3
  <1>5. ASSUME NEW v \in ValuesOf(Long), Cast(v, type) = v PROVE v \in ValuesOf(type)
    <2>1. Long.class = type.class /\ Long.bits = LongBits
      <3>1. type \in [class : {"signed", "unsigned"}, bits : 1..LongBits]
        BY IntegerTypes
      <3> QED
        BY <3>1 DEF Long
    <2>2. v \in Int
      BY <2>1, NarrowerValues
    <2>3. PICK n \in Nat : type.bits = n + 1
      BY IntegerTypes
    <2> QED
      BY <1>5, <2>2, <2>3, CastKeeps
  <1> QED
    BY <1>4, <1>5, Zenon DEF Narrowed

\* Behind the spaces that it starts with a sequence has no space.
LEMMA SpacesSkipped ==
  ASSUME NEW s \in Seq(Byte)
  PROVE  /\ From(s, Prefix(s, Spaces)) \in Seq(Byte)
         /\ ~StartsWithSpace(From(s, Prefix(s, Spaces)))
  <1>1. PICK p : p = Prefix(s, Spaces)
    OBVIOUS
  <1>2. Counts(s, Spaces, p)
    BY <1>1, PrefixCounts
  <1>3. p \in Nat /\ p <= Len(s) /\ Len(s) \in Nat /\ (p < Len(s) => s[p + 1] \notin Spaces)
    BY <1>2 DEF Counts
  <1>4. /\ From(s, p) \in Seq(Byte) /\ Len(From(s, p)) = Len(s) - p
        /\ \A i \in 1..(Len(s) - p) : From(s, p)[i] = s[p + i]
    <2>1. p \in Nat /\ p <= Len(s)
      BY <1>3
    <2> QED
      BY <2>1, FromIs
  <1>5. ASSUME From(s, p) # <<>> PROVE From(s, p)[1] \notin Spaces
    <2>1. 1 \in 1..(Len(s) - p) /\ p < Len(s)
      BY <1>3, <1>4, <1>5
    <2> QED
      BY <1>3, <1>4, <2>1
  <1> QED
    BY <1>1, <1>4, <1>5 DEF StartsWithSpace

\* The number behind the spaces of s, and whether the parsers of the floats take it.
FloatNumber(rest) == IF rest = <<>> THEN 0 ELSE Numeral(rest, FloatRadix(rest))
FloatTaken(rest) ==
  (rest = <<>> \/ IsNumeral(rest, FloatRadix(rest))) /\ FloatNumber(rest) \in Floats

\* The parsers of the floats accept exactly the numerals in their range.
LEMMA FloatsParsed ==
  ASSUME NEW s \in Seq(Byte), s # <<>>, NEW rest, rest = From(s, Prefix(s, Spaces)),
         Len(rest) <= kMaxLength, ~Fractional(rest)
  PROVE  ParseFloat(s) = IF FloatTaken(rest) THEN <<Rounded(FloatNumber(rest))>> ELSE <<>>
  <1>1. rest \in Seq(Byte) /\ ~StartsWithSpace(rest)
    BY SpacesSkipped
  <1>2. PICK number : number = Stripped(rest)
    OBVIOUS
  <1>3. /\ number \in Seq(Byte) /\ Len(number) <= Len(rest)
        /\ number # <<>> => number[1] = rest[1] /\ rest # <<>>
        /\ rest # <<>> => number # <<>>
        /\ \A i \in 1..Len(number) : \E j \in 1..Len(rest) : number[i] = rest[j]
    BY <1>1, <1>2, StrippedLength
  <1>4. PICK c : c = CStringAt(number)
    OBVIOUS
  <1>5. c \in Seq(Byte) /\ Len(c) <= Len(number) /\ \A i \in 1..Len(c) : c[i] = number[i]
    BY <1>3, <1>4, CStringIs
  <1>6. PICK t : t = TerminateNumber(s, kMaxLength, TRUE)
    OBVIOUS
  <1>7. t.cstr = c /\ t.n = Len(number)
    <2>1. ~(Len(number) > kMaxLength)
      BY <1>1, <1>3, ArgAssumption
    <2>2. t = Terminated(c, Len(number))
      BY <1>2, <1>4, <1>6, <2>1, Terminates
    <2> QED
      BY <2>2 DEF Terminated
  <1>8. ~Fractional(c)
    <2> SUFFICES ASSUME NEW i \in 1..Len(c), c[i] \in Marks PROVE FALSE
      BY <1>5 DEF Fractional
    <2>1. i \in 1..Len(number)
      BY <1>3, <1>5
    <2>2. PICK j \in 1..Len(rest) : number[i] = rest[j]
      BY <1>3, <2>1
    <2>3. j \in DOMAIN rest /\ rest[j] \in Marks
      BY <1>1, <1>5, <2>2
    <2> QED
      BY <2>3 DEF Fractional
  <1>9. PICK r : r = Strtol(c, FloatRadix(c))
    OBVIOUS
  <1>10. ParseFloat(s) = IF r.end # t.n \/ r.value \notin Floats THEN <<>> ELSE <<Rounded(r.value)>>
    BY <1>6, <1>7, <1>8, <1>9 DEF ParseFloat
  <1>11. FloatRadix(c) \in Radix /\ FloatRadix(rest) \in Radix
    BY DEF FloatRadix, Radix
  <1>12. CASE rest = <<>>
    <2>1. Len(number) = 0 /\ c = <<>>
      BY <1>3, <1>5, <1>12
    <2>2. r.end = 0 /\ r.value = 0
      BY <1>9, <1>11, <2>1, StrtolEmpty
    <2>3. 0 \in Floats
      BY ArgAssumption DEF Floats
    <2>4. ParseFloat(s) = <<Rounded(0)>>
      BY <1>7, <1>10, <2>1, <2>2, <2>3
    <2> QED
      BY <1>12, <2>3, <2>4 DEF FloatTaken, FloatNumber
  <1>13. CASE rest # <<>>
    <2>1. number # <<>> /\ ~StartsWithSpace(number)
      BY <1>1, <1>3, <1>13 DEF StartsWithSpace
    <2>2. PICK rdx \in Radix : rdx = FloatRadix(rest)
      BY <1>11
    <2>3. /\ IsNumeral(number, rdx) <=> IsNumeral(rest, rdx)
          /\ Numeral(number, rdx) = Numeral(rest, rdx)
          /\ HasX(From(number, Sign(number))) <=> HasX(From(rest, Sign(rest)))
      BY <1>1, <1>2, StrippedNumeral
    <2>4. c = number => FloatRadix(c) = rdx
      BY <2>2, <2>3 DEF FloatRadix
    <2>5. /\ Strtol(c, FloatRadix(c)).end = Len(number) <=> IsNumeral(number, rdx)
          /\ IsNumeral(number, rdx) => Strtol(c, FloatRadix(c)).value = Numeral(number, rdx)
      BY <1>3, <1>4, <1>11, <2>1, <2>4, ReadsNumber
    <2>6. /\ r.end = t.n <=> IsNumeral(rest, rdx)
          /\ IsNumeral(rest, rdx) => r.value = Numeral(rest, rdx)
      BY <1>7, <1>9, <2>3, <2>5
    <2>7. FloatNumber(rest) = Numeral(rest, rdx) /\ (FloatTaken(rest) <=> IsNumeral(rest, rdx) /\ Numeral(rest, rdx) \in Floats)
      BY <1>13, <2>2 DEF FloatTaken, FloatNumber
    <2>8. CASE IsNumeral(rest, rdx)
      BY <1>10, <2>6, <2>7, <2>8
    <2>9. CASE ~IsNumeral(rest, rdx)
      BY <1>10, <2>6, <2>7, <2>9
    <2> QED
      BY <2>8, <2>9
  <1> QED
    BY <1>12, <1>13
------------------------------------------------------------------------------
(***************************************************************************)
(* The specification.                                                      *)
(***************************************************************************)
ArgInv ==
  /\ TypeOK /\ IntegersExact /\ FloatsSkipSpaces
  /\ result = "none" => dest = Unset

\* What a call leaves, for what Parse returned.
Answers(v) ==
  /\ result' = IF v = <<>> THEN "false" ELSE "true"
  /\ dest' = IF v = <<>> \/ null THEN dest ELSE Value(v[1])
  /\ str' = str /\ type' = type /\ radix' = radix /\ null' = null

\* Before the call nothing is stored, and nothing is claimed.
LEMMA ArgInit == Init => ArgInv
  <1> SUFFICES ASSUME Init PROVE ArgInv
    OBVIOUS
  <1>1. str \in Inputs /\ type \in Types /\ null \in BOOLEAN /\ dest = Unset /\ result = "none"
    BY DEF Init
  <1>2. radix \in Radixes
    BY ArgAssumption DEF Init
  <1>3. TypeOK
    BY <1>1, <1>2 DEF TypeOK
  <1>4. IntegersExact /\ FloatsSkipSpaces
    BY <1>1 DEF IntegersExact, FloatsSkipSpaces
  <1> QED
    BY <1>1, <1>3, <1>4 DEF ArgInv

\* The submatch of a state has bytes.
LEMMA StrIsBytes ==
  ASSUME ArgInv
  PROVE  str \in Seq(Byte) /\ type \in Types /\ radix \in Radixes
  BY ArgAssumption DEF ArgInv, TypeOK, Byte

\* A call leaves everything but its result and the pointee.
LEMMA CallAnswers ==
  ASSUME Call, ArgInv
  PROVE  \E v : v = Parse(str) /\ Answers(v) /\ dest = Unset /\ result = "none"
  BY DEF Call, Answers, ArgInv

\* A call of an integer parser stores exactly the numerals of its type.
LEMMA IntegerCall ==
  ASSUME ArgInv, NEW v, v = Parse(str), Answers(v)
  PROVE  IntegersExact'
  <1> SUFFICES ASSUME type.class \in {"signed", "unsigned"}, RemovableZeros(str)
               PROVE  /\ result' = "true" <=> Storable(str)
                      /\ result' = "true" /\ ~null => dest' = Value(Numeral(str, radix))
    BY DEF IntegersExact, ZerosRemovable, RemovableZeros, Storable, Answers
  <1>1. v = ParseInteger(str)
    BY DEF Parse
  <1>2. v = IF Storable(str) THEN <<Numeral(str, radix)>> ELSE <<>>
    BY <1>1, StrIsBytes, IntegersParsed
  <1>3. CASE Storable(str)
    <2>1. v # <<>> /\ v[1] = Numeral(str, radix)
      BY <1>2, <1>3
    <2> QED
      BY <1>3, <2>1 DEF Answers
  <1>4. CASE ~Storable(str)
    BY <1>2, <1>4 DEF Answers
  <1> QED
    BY <1>3, <1>4

\* A call of a float parser takes the numerals behind the spaces.
LEMMA FloatCall ==
  ASSUME ArgInv, NEW v, v = Parse(str), Answers(v)
  PROVE  FloatsSkipSpaces'
  <1>1. PICK rest : rest = From(str, Prefix(str, Spaces))
    OBVIOUS
  <1> SUFFICES ASSUME type = FloatType, str # <<>>, Len(rest) <= kMaxLength, ~Fractional(rest)
               PROVE  /\ result' = "true" <=> FloatTaken(rest)
                      /\ result' = "true" /\ ~null => dest' = Value(Rounded(FloatNumber(rest)))
    BY <1>1 DEF FloatsSkipSpaces, FloatTaken, FloatNumber, Answers
  <1>2. v = ParseFloat(str)
    BY DEF Parse, FloatType
  <1>3. v = IF FloatTaken(rest) THEN <<Rounded(FloatNumber(rest))>> ELSE <<>>
    BY <1>1, <1>2, StrIsBytes, FloatsParsed
  <1>4. CASE FloatTaken(rest)
    <2>1. v # <<>> /\ v[1] = Rounded(FloatNumber(rest))
      BY <1>3, <1>4
    <2> QED
      BY <1>4, <2>1 DEF Answers
  <1>5. CASE ~FloatTaken(rest)
    BY <1>3, <1>5 DEF Answers
  <1> QED
    BY <1>4, <1>5

\* A call stores a value of the type of its pointee, and nothing without one.
LEMMA TypedCall ==
  ASSUME ArgInv, NEW v, v = Parse(str), Answers(v), dest = Unset
  PROVE  TypeOK'
  <1>1. str' \in Inputs /\ type' \in Types /\ radix' \in Radixes /\ null' \in BOOLEAN
    BY DEF ArgInv, TypeOK, Answers
  <1>2. result' \in {"none", "true", "false"}
    BY DEF Answers
  <1>3. ASSUME dest' # Unset
        PROVE  /\ result' = "true" /\ ~null' /\ type'.class # "void"
               /\ type'.class \in {"signed", "unsigned"} => dest'.value \in ValuesOf(type')
    <2>1. v # <<>> /\ ~null /\ dest' = Value(v[1]) /\ result' = "true"
      BY <1>3 DEF Answers
    <2>2. type.class # "void"
      BY <2>1 DEF Parse
    <2>3. ASSUME type.class \in {"signed", "unsigned"} PROVE dest'.value \in ValuesOf(type)
      <3>1. v = ParseInteger(str)
        BY <2>3 DEF Parse
      <3>2. PICK w \in ValuesOf(type) : v = <<w>>
        BY <2>1, <2>3, <3>1, StrIsBytes, IntegersFit
      <3> QED
        BY <2>1, <3>2 DEF Value
    <2> QED
      BY <2>1, <2>2, <2>3 DEF Answers
  <1> QED
    BY <1>1, <1>2, <1>3 DEF TypeOK

\* Every step keeps the invariant.
LEMMA ArgStep == ArgInv /\ [Next]_vars => ArgInv'
  <1> SUFFICES ASSUME ArgInv, [Next]_vars PROVE ArgInv'
    OBVIOUS
  <1>1. CASE Call
    <2>1. PICK v : v = Parse(str) /\ Answers(v) /\ dest = Unset
      BY <1>1, CallAnswers
    <2>2. TypeOK' /\ IntegersExact' /\ FloatsSkipSpaces'
      BY <2>1, TypedCall, IntegerCall, FloatCall
    <2>3. result' # "none"
      BY <2>1 DEF Answers
    <2> QED
      BY <2>2, <2>3 DEF ArgInv
  <1>2. CASE UNCHANGED vars
    <2>1. TypeOK'
      BY <1>2 DEF ArgInv, TypeOK, vars
    <2>2. IntegersExact'
      BY <1>2 DEF ArgInv, IntegersExact, ZerosRemovable, vars
    <2>3. FloatsSkipSpaces'
      BY <1>2 DEF ArgInv, FloatsSkipSpaces, vars
    <2>4. (result = "none" => dest = Unset)'
      BY <1>2 DEF ArgInv, vars
    <2> QED
      BY <2>1, <2>2, <2>3, <2>4 DEF ArgInv
  <1> QED
    BY <1>1, <1>2 DEF Next

\* The invariant holds in every reachable state.
LEMMA ArgInvariant == Spec => []ArgInv
  BY ArgInit, ArgStep, PTL DEF Spec

\* Whatever a parser stores has the type of the pointee, and it stores nothing through a
\* null pointer, as a void* or when it refuses.
THEOREM TypesAreKept == Spec => []TypeOK
  <1>1. ArgInv => TypeOK
    BY DEF ArgInv
  <1> QED
    BY <1>1, ArgInvariant, PTL

\* The parsers of the integer types accept exactly the numerals that their type holds and
\* store their value, for every sequence of bytes, every width and every size of the
\* buffer that the widest long fits into, and whatever that buffer held before.
THEOREM IntegersAreExact == Spec => []IntegersExact
  <1>1. ArgInv => IntegersExact
    BY DEF ArgInv
  <1> QED
    BY <1>1, ArgInvariant, PTL

\* The parsers of float and double skip leading spaces and store the float nearest to the
\* number behind them, for every sequence of bytes that fits into their buffer.
THEOREM FloatsAreTaken == Spec => []FloatsSkipSpaces
  <1>1. ArgInv => FloatsSkipSpaces
    BY DEF ArgInv
  <1> QED
    BY <1>1, ArgInvariant, PTL
=============================================================================
