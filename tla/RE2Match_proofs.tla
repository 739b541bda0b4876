-------------------------- MODULE RE2Match_proofs --------------------------
(***************************************************************************)
(* What the match engine promises, for every set of patterns, options and  *)
(* texts, and every crate that finds matches inside its haystacks.         *)
(***************************************************************************)
EXTENDS RE2Match, SequenceLemmas, TLAPS
------------------------------------------------------------------------------
(***************************************************************************)
(* Views of a buffer (StringPiece), for every buffer and every view.       *)
(***************************************************************************)
\* Arithmetic in size_t that stays in its range is that of the integers.
LEMMA NoWrap ==
  ASSUME NEW A \in Nat, NEW x \in Nat, x < A
  PROVE  x % A = x
  OBVIOUS

\* A buffer of bytes that fits behind Base, and takes less than half of all the
\* addresses, so that the sum of two sizes does not wrap around.
Buffer == /\ text \in Seq(0..255)
          /\ Base + Len(text) < AddrSpace
          /\ 2 * Len(text) < AddrSpace

TextView(v) == v \in Views /\ InText(v)

\* The numbers of a view of the text.
LEMMA ViewNumbers ==
  ASSUME Buffer, NEW v, TextView(v)
  PROVE  /\ v.data \in Nat /\ v.size \in Nat /\ v.data - Base \in Nat
         /\ v.size <= Len(text) /\ v.data - Base + v.size <= Len(text)
         /\ v.data + v.size < AddrSpace /\ v.data + v.size \in Nat
         /\ v.size < npos /\ npos \in Nat /\ v.data # 0
         /\ Len(text) \in Nat /\ AddrSpace \in Nat /\ Base \in Nat /\ Base # 0
         /\ v = View(v.data, v.size)
  <1>1. v.data \in Nat /\ v.size \in Nat /\ Len(text) \in Nat /\ v = View(v.data, v.size)
    BY WidthAssumption DEF TextView, Views, View, Buffer
  <1>2. v.data >= Base /\ v.data + v.size <= Base + Len(text)
    BY DEF TextView, InText
  <1> QED
    BY <1>1, <1>2, WidthAssumption, SMTT(30) DEF Buffer, npos

\* A view of the text shows as many bytes as its size says, from its address on.
LEMMA BytesShown ==
  ASSUME Buffer, NEW v, TextView(v)
  PROVE  /\ BytesOf(v) = SubSeq(text, v.data - Base + 1, v.data - Base + v.size)
         /\ BytesOf(v) \in Seq(0..255) /\ Len(BytesOf(v)) = v.size
         /\ BytesOf(v) \in SubSeqs(text)
         /\ \A i \in 1..v.size : BytesOf(v)[i] = text[v.data - Base + i]
  <1> DEFINE a == v.data - Base
  <1>1. a \in Nat /\ v.size \in Nat /\ a + v.size <= Len(text) /\ v.data # 0 /\ Len(text) \in Nat
    BY ViewNumbers
  <1>2. v # NullView
    BY <1>1 DEF NullView, View
  <1>3. BytesOf(v) = SubSeq(text, a + 1, a + v.size)
    BY <1>2 DEF BytesOf
  <1> HIDE DEF a
  <1>4. a + v.size \in Nat /\ a <= a + v.size /\ (a + v.size) - a = v.size /\ text \in Seq(0..255)
    BY <1>1 DEF Buffer
  <1>5. /\ SubSeq(text, a + 1, a + v.size) \in Seq(0..255)
        /\ Len(SubSeq(text, a + 1, a + v.size)) = v.size
        /\ \A i \in 1..v.size : SubSeq(text, a + 1, a + v.size)[i] = text[a + i]
    <2> DEFINE b == a + v.size
    <2>1. b \in Nat /\ a <= b /\ b <= Len(text) /\ b - a = v.size
      BY <1>1, <1>4
    <2> HIDE DEF b
    <2>2. /\ SubSeq(text, a + 1, b) \in Seq(0..255)
          /\ Len(SubSeq(text, a + 1, b)) = b - a
          /\ \A i \in 1..b - a : SubSeq(text, a + 1, b)[i] = text[a + i]
      <3>1. PICK B : B = 0..255
        OBVIOUS
      <3>2. text \in Seq(B)
        BY <1>4, <3>1
      <3>3. /\ SubSeq(text, a + 1, b) \in Seq(B)
            /\ Len(SubSeq(text, a + 1, b)) = b - a
            /\ \A i \in 1..b - a : SubSeq(text, a + 1, b)[i] = text[a + i]
        BY <1>1, <2>1, <3>2, Piece
      <3> QED
        BY <3>1, <3>3
    <2> QED
      BY <2>1, <2>2 DEF b
  <1>6. SubSeq(text, a + 1, a + v.size) \in SubSeqs(text)
    <2>1. a \in 0..Len(text) /\ a + v.size \in 0..Len(text)
      BY <1>1, <1>4
    <2> QED
      BY <1>4, <2>1, Pieces
  <1> QED
    BY <1>3, <1>5, <1>6 DEF a

\* Zero has no sign.
LEMMA MinusZero == 0 = -0
  <1>1. \A x \in Int : -x = 0 - x
    OBVIOUS
  <1>2. 0 \in Int /\ 0 - 0 = 0
    OBVIOUS
  <1>3. -0 = 0 - 0
    BY <1>1, <1>2, Zenon
  <1> QED
    BY <1>2, <1>3, Zenon

\* memcmp: the first difference decides, and the other way around the other way.
LEMMA MemcmpSays ==
  ASSUME NEW X, X \subseteq Int, NEW s \in Seq(X), NEW t \in Seq(X), NEW n \in Nat,
         n <= Len(s), n <= Len(t)
  PROVE  /\ Memcmp(s, t, n) \in {-1, 0, 1}
         /\ Memcmp(s, t, n) = 0 <=> \A k \in 1..n : s[k] = t[k]
         /\ Memcmp(t, s, n) = -Memcmp(s, t, n)
  <1> DEFINE D == {k \in 1..n : s[k] # t[k]}
             E == {k \in 1..n : t[k] # s[k]}
  <1>1. D = E
    OBVIOUS
  <1>2. CASE D = {}
    <2>1. Memcmp(s, t, n) = 0 /\ Memcmp(t, s, n) = 0
      BY <1>1, <1>2 DEF Memcmp
    <2>2. \A k \in 1..n : s[k] = t[k]
      BY <1>2
    <2>3. 0 \in {-1, 0, 1} /\ 0 = -0
      BY MinusZero
    <2> QED
      BY <2>1, <2>2, <2>3, Zenon
  <1>3. CASE D # {}
    <2>1. Min(D) \in D
      <3>1. D \in SUBSET Nat
        OBVIOUS
      <3> QED
        BY <1>3, <3>1, NatMin
    <2>2. PICK k : k = Min(D)
      OBVIOUS
    <2>3. k \in 1..n /\ s[k] # t[k] /\ s[k] \in Int /\ t[k] \in Int
      <3>1. k \in 1..n /\ s[k] # t[k]
        BY <2>1, <2>2
      <3>2. k \in 1..Len(s) /\ k \in 1..Len(t)
        BY <3>1
      <3>3. s[k] \in X /\ t[k] \in X
        BY <3>2
      <3> QED
        BY <3>1, <3>3
    <2>4. /\ Memcmp(s, t, n) = IF s[k] < t[k] THEN -1 ELSE 1
          /\ Memcmp(t, s, n) = IF t[k] < s[k] THEN -1 ELSE 1
      BY <1>1, <1>3, <2>2 DEF Memcmp
    <2> HIDE DEF D, E
    <2> QED
      BY <2>3, <2>4
  <1> QED
    BY <1>2, <1>3
------------------------------------------------------------------------------
(***************************************************************************)
(* Narrowing.                                                              *)
(***************************************************************************)

\* substr, asked for a place in the view or for all there is, stays in the view.
LEMMA SubstrStays ==
  ASSUME Buffer, NEW v, TextView(v),
         NEW pos \in 0..v.size + 1 \cup {npos}, NEW n \in 0..v.size + 1 \cup {npos}
  PROVE  LET s == Substr(v, pos, n)
         IN /\ TextView(s)
            /\ s.data >= v.data /\ s.data + s.size <= v.data + v.size
            /\ pos <= v.size => s.data = v.data + pos /\ s.size = SmallerOf(n, v.size - pos)
            /\ pos <= v.size => Copied(v, n, pos) = s.size
  <1> DEFINE from == SmallerOf(pos, v.size)
             m == SmallerOf(n, v.size - from)
  <1>0. /\ v.data \in Nat /\ v.size \in Nat /\ npos \in Nat /\ v.data + v.size < AddrSpace
        /\ AddrSpace \in Nat /\ v.size < npos /\ v.data >= Base /\ v.data + v.size <= Base + Len(text)
        /\ Base \in Nat /\ Len(text) \in Nat
    BY ViewNumbers DEF TextView, InText
  <1>1. pos \in Nat /\ n \in Nat
    BY <1>0
  <1>2. from \in Nat /\ from <= v.size /\ (pos <= v.size => from = pos)
    BY <1>0, <1>1 DEF SmallerOf
  <1> HIDE DEF from
  <1>3. m \in Nat /\ from + m <= v.size
    <2>1. \A i, j, k \in Nat : i <= j => SmallerOf(k, j - i) \in Nat /\ i + SmallerOf(k, j - i) <= j
      BY DEF SmallerOf
    <2> QED
      BY <1>0, <1>1, <1>2, <2>1, Zenon
  <1>4. m = SmallerOf(n, v.size - from)
    OBVIOUS
  <1> HIDE DEF m
  <1>5. Plus(v.data, from) = v.data + from
    <2>1. v.data + from \in Nat /\ v.data + from < AddrSpace
      BY <1>0, <1>2, SMTT(30)
    <2> QED
      BY <1>0, <2>1, NoWrap DEF Plus
  <1>6. Substr(v, pos, n) = View(v.data + from, m)
    BY <1>5 DEF Substr, from, m
  <1>7. /\ TextView(View(v.data + from, m))
        /\ v.data + from >= v.data /\ v.data + from + m <= v.data + v.size
    <2> DEFINE d == v.data + from
    <2>1. d \in Nat /\ d >= v.data /\ d + m <= v.data + v.size
      <3>1. \A i, j, l, k \in Nat :
              j + k <= l => i + j \in Nat /\ i + j >= i /\ i + j + k <= i + l
        OBVIOUS
      <3> QED
        BY <1>0, <1>2, <1>3, <3>1, Zenon
    <2> HIDE DEF d
    <2>2. d \in 0..AddrSpace - 1 /\ m \in 0..AddrSpace - 1 /\ d >= Base /\ d + m <= Base + Len(text)
      BY <1>0, <1>3, <2>1, SMTT(30)
    <2>3. TextView(View(d, m))
      BY <2>2 DEF TextView, InText, Views, View
    <2> QED
      BY <2>1, <2>3 DEF d
  <1>8. ASSUME pos <= v.size
        PROVE  Copied(v, n, pos) = m
    <2>1. Minus(v.size, pos) = v.size - pos
      <3>1. v.size - pos \in Nat /\ v.size - pos < AddrSpace
        BY <1>0, <1>1, <1>8, SMTT(30)
      <3> QED
        BY <1>0, <3>1, NoWrap DEF Minus
    <2> QED
      BY <1>0, <1>1, <1>2, <1>4, <1>8, <2>1 DEF Copied, SmallerOf
  <1> QED
    BY <1>2, <1>4, <1>6, <1>7, <1>8 DEF View

\* substr and copy agree, for every position a caller may pass.
LEMMA SubstrIsWithin ==
  ASSUME Buffer, NEW v, TextView(v)
  PROVE  SubstrWithin(v)
  <1> SUFFICES ASSUME NEW pos \in 0..v.size + 1 \cup {npos}, NEW n \in 0..v.size + 1 \cup {npos}
               PROVE  LET s == Substr(v, pos, n)
                      IN /\ s.data >= v.data /\ s.data + s.size <= v.data + v.size
                         /\ pos <= v.size => Copied(v, n, pos) = s.size
    BY DEF SubstrWithin
  <1> QED
    BY SubstrStays
------------------------------------------------------------------------------
(***************************************************************************)
(* Comparison.                                                             *)
(***************************************************************************)

\* Two views are equal when they show the same bytes.
LEMMA EqualBytes ==
  ASSUME Buffer, NEW x, TextView(x), NEW y, TextView(y)
  PROVE  /\ Equal(x, y) <=> BytesOf(x) = BytesOf(y)
         /\ x.size = y.size => (MemcmpCommon(x, y) = 0 <=> BytesOf(x) = BytesOf(y))
         /\ MemcmpCommon(x, y) \in {-1, 0, 1}
         /\ MemcmpCommon(y, x) = -MemcmpCommon(x, y)
  <1> DEFINE s == BytesOf(x)
             t == BytesOf(y)
             n == SmallerOf(x.size, y.size)
  <1>1. x.size \in Nat /\ y.size \in Nat
    BY ViewNumbers
  <1>2. s \in Seq(0..255) /\ t \in Seq(0..255) /\ Len(s) = x.size /\ Len(t) = y.size
    BY BytesShown
  <1>3. n \in Nat /\ n <= x.size /\ n <= y.size /\ n = SmallerOf(y.size, x.size)
        /\ (x.size = y.size => n = x.size)
    BY <1>1 DEF SmallerOf
  <1>4. MemcmpCommon(x, y) = Memcmp(s, t, n) /\ MemcmpCommon(y, x) = Memcmp(t, s, n)
    BY <1>3 DEF MemcmpCommon
  <1>5. x.data = y.data /\ x.size = y.size => s = t
    <2>1. x = View(x.data, x.size) /\ y = View(y.data, y.size)
      BY ViewNumbers
    <2> QED
      BY <2>1
  <1> HIDE DEF s, t, n
  <1>6. /\ Memcmp(s, t, n) \in {-1, 0, 1}
        /\ Memcmp(s, t, n) = 0 <=> \A k \in 1..n : s[k] = t[k]
        /\ Memcmp(t, s, n) = -Memcmp(s, t, n)
    <2>1. PICK B : B = 0..255
      OBVIOUS
    <2>2. B \subseteq Int /\ s \in Seq(B) /\ t \in Seq(B) /\ n <= Len(s) /\ n <= Len(t)
      BY <1>2, <1>3, <2>1
    <2> QED
      <3>1. n \in Nat /\ n <= Len(s) /\ n <= Len(t)
        BY <1>3, <2>2
      <3> QED
        BY <2>2, <3>1, MemcmpSays, Zenon
  <1>7. x.size = y.size => (Memcmp(s, t, n) = 0 <=> s = t)
    BY <1>2, <1>3, <1>6, SameSequence
  <1>8. s = t => x.size = y.size
    BY <1>2
  <1>9. x.size = 0 /\ x.size = y.size => s = t
    BY <1>2
  <1>10. Equal(x, y) <=> s = t
    BY <1>4, <1>5, <1>7, <1>8, <1>9 DEF Equal
  <1> QED
    BY <1>4, <1>6, <1>7, <1>10 DEF s, t

\* Compare goes by the common bytes, then by the sizes.
LEMMA CompareSays ==
  ASSUME NEW x, NEW y, x.size \in Nat, y.size \in Nat,
         NEW m \in {-1, 0, 1}, MemcmpCommon(x, y) = m
  PROVE  Compare(x, y) = IF m # 0 THEN m ELSE IF x.size < y.size THEN -1
                         ELSE IF x.size > y.size THEN 1 ELSE 0
  <1>1. CASE m # 0
    BY <1>1 DEF Compare
  <1>2. CASE m = 0 /\ x.size < y.size
    BY <1>2 DEF Compare
  <1>3. CASE m = 0 /\ x.size > y.size
    BY <1>3 DEF Compare
  <1>4. CASE m = 0 /\ x.size = y.size
    BY <1>4 DEF Compare
  <1> QED
    BY <1>1, <1>2, <1>3, <1>4

\* The three comparisons are those of one order.
LEMMA OrdersAgree ==
  ASSUME Buffer, NEW x, TextView(x), NEW y, TextView(y)
  PROVE  OrderAgrees(x, y)
  <1>1. x.size \in Nat /\ y.size \in Nat
    BY ViewNumbers
  <1>2. PICK m : m = MemcmpCommon(x, y)
    OBVIOUS
  <1>3. m \in {-1, 0, 1} /\ MemcmpCommon(y, x) = -m
    BY <1>2, EqualBytes
  <1>4. Equal(x, y) <=> (x.size = y.size /\ m = 0)
    <2>1. Equal(x, y) => x.size = y.size
      BY DEF Equal
    <2> QED
      BY <1>2, <2>1, EqualBytes
  <1>5. Compare(x, y) = IF m # 0 THEN m ELSE IF x.size < y.size THEN -1
                        ELSE IF x.size > y.size THEN 1 ELSE 0
    BY <1>1, <1>2, <1>3, CompareSays
  <1>6. Compare(y, x) = IF -m # 0 THEN -m ELSE IF y.size < x.size THEN -1
                        ELSE IF y.size > x.size THEN 1 ELSE 0
    BY <1>1, <1>3, CompareSays
  <1>7. Less(x, y) <=> (m < 0 \/ (m = 0 /\ x.size < y.size))
    BY <1>2 DEF Less
  <1>8. /\ Equal(x, y) <=> Compare(x, y) = 0
        /\ Less(x, y) <=> Compare(x, y) = -1
        /\ Compare(y, x) = -Compare(x, y)
    BY <1>1, <1>3, <1>4, <1>5, <1>6, <1>7
  <1> QED
    BY <1>8, EqualBytes DEF OrderAgrees
------------------------------------------------------------------------------
(***************************************************************************)
(* Searching.                                                              *)
(***************************************************************************)

\* The positions of x in v, from from on.
Places(v, x, from) == Occurrences(BytesOf(v), BytesOf(x), from, v.size)

\* Where there is room for x, the bytes decide; without any bytes x is everywhere.
LEMMA PlacesSay ==
  ASSUME Buffer, NEW v, TextView(v), NEW x, TextView(x), NEW from \in Nat
  PROVE  /\ Places(v, x, from) \in SUBSET Nat
         /\ \A k \in Nat : k \in Places(v, x, from) <=>
              /\ from <= k /\ k + x.size <= v.size
              /\ SubSeq(BytesOf(v), k + 1, k + x.size) = BytesOf(x)
         /\ x.size = 0 => \A k \in Nat : k \in Places(v, x, from) <=> from <= k /\ k <= v.size
  <1>1. x.size \in Nat /\ v.size \in Nat
    BY ViewNumbers
  <1>2. /\ BytesOf(v) \in Seq(0..255) /\ Len(BytesOf(v)) = v.size
        /\ BytesOf(x) \in Seq(0..255) /\ Len(BytesOf(x)) = x.size
    BY BytesShown
  <1>3. Places(v, x, from) = {k \in from..v.size - x.size :
                                SubSeq(BytesOf(v), k + 1, k + x.size) = BytesOf(x)}
    BY <1>2 DEF Places, Occurrences
  <1>4. from..v.size - x.size \subseteq Nat
    BY <1>1
  <1>5. \A k \in Nat : k \in from..v.size - x.size <=> from <= k /\ k + x.size <= v.size
    BY <1>1
  <1>6. /\ Places(v, x, from) \in SUBSET Nat
        /\ \A k \in Nat : k \in Places(v, x, from) <=>
             /\ from <= k /\ k + x.size <= v.size
             /\ SubSeq(BytesOf(v), k + 1, k + x.size) = BytesOf(x)
    BY <1>3, <1>4, <1>5
  <1>7. ASSUME x.size = 0, NEW k \in Nat
        PROVE  SubSeq(BytesOf(v), k + 1, k + x.size) = BytesOf(x) /\ k + x.size = k
    <2>1. BytesOf(x) = <<>>
      BY <1>2, <1>7
    <2>2. k + 1 \in Int /\ k + x.size \in Int /\ k + x.size < k + 1 /\ k + x.size = k
      BY <1>7
    <2>3. SubSeq(BytesOf(v), k + 1, k + x.size) = <<>>
      BY <1>2, <2>2, NoPiece
    <2> QED
      BY <2>1, <2>2, <2>3
  <1> QED
    BY <1>6, <1>7

\* find gives the first place of x from pos on.
LEMMA FindSays ==
  ASSUME Buffer, NEW v, TextView(v), NEW x, TextView(x), NEW pos \in Nat
  PROVE  /\ Find(v, x, pos) = IF Places(v, x, pos) = {} THEN npos ELSE Min(Places(v, x, pos))
         /\ pos = 0 /\ x.size = 1 =>
              FindChar(v, BytesOf(x)[1], pos) = IF Places(v, x, pos) = {} THEN npos
                                                ELSE Min(Places(v, x, pos))
  <1>1. /\ x.size \in Nat /\ v.size \in Nat /\ v.size <= Len(text) /\ x.size <= Len(text)
        /\ Len(text) \in Nat /\ AddrSpace \in Nat /\ 2 * Len(text) < AddrSpace
    BY ViewNumbers DEF Buffer
  <1> DEFINE O == Places(v, x, pos)
             xpos == FirstOr(O, v.size)
  <1>2. O \in SUBSET Nat /\ \A k \in O : pos <= k /\ k + x.size <= v.size
    BY PlacesSay
  <1>3. xpos = IF O = {} THEN v.size ELSE Min(O)
    BY DEF FirstOr
  <1>4. O # {} => Min(O) \in O
    BY <1>2, NatMin
  <1>5. ASSUME x.size = 0, pos <= v.size
        PROVE  O # {}
    <2>1. \A k \in Nat : k \in Places(v, x, pos) <=> pos <= k /\ k <= v.size
      BY <1>5, PlacesSay
    <2>2. pos \in Places(v, x, pos)
      BY <1>5, <2>1
    <2> QED
      BY <2>2
  <1>6. Find(v, x, pos) = IF pos > v.size THEN npos
                          ELSE IF Plus(xpos, x.size) <= v.size THEN xpos ELSE npos
    BY DEF Find, Places
  <1>7. ASSUME x.size = 1, pos = 0
        PROVE  /\ v.size = 0 => O = {}
               /\ FindChar(v, BytesOf(x)[1], pos) =
                    IF v.size = 0 THEN npos ELSE IF xpos # v.size THEN xpos ELSE npos
    <2>1. BytesOf(x) = <<BytesOf(x)[1]>>
      <3>1. BytesOf(x) \in Seq(0..255) /\ Len(BytesOf(x)) = 1
        BY <1>7, BytesShown
      <3> QED
        BY <3>1
    <2>2. FindChar(v, BytesOf(x)[1], pos) =
            IF pos >= v.size THEN npos ELSE IF xpos # v.size THEN xpos ELSE npos
      BY <2>1, Zenon DEF FindChar, Places
    <2>3. \A k \in O : FALSE \/ v.size # 0
      BY <1>1, <1>2, <1>7
    <2> QED
      BY <1>1, <1>7, <2>2, <2>3
  <1> HIDE DEF O, xpos
  <1>8. xpos \in Nat /\ xpos <= v.size
    <2>1. CASE O = {}
      BY <1>1, <1>3, <2>1
    <2>2. CASE O # {}
      <3>1. xpos \in O /\ xpos \in Nat
        BY <1>2, <1>3, <1>4, <2>2
      <3>2. xpos + x.size <= v.size
        BY <1>2, <3>1
      <3> QED
        BY <1>1, <3>1, <3>2
    <2> QED
      BY <2>1, <2>2
  <1>9. Plus(xpos, x.size) = xpos + x.size
    <2>1. xpos + x.size \in Nat /\ xpos + x.size < AddrSpace
      BY <1>1, <1>8
    <2> QED
      BY <1>1, <2>1, NoWrap DEF Plus
  <1>10. Find(v, x, pos) = IF O = {} THEN npos ELSE Min(O)
    <2>1. CASE O = {}
      BY <1>1, <1>3, <1>5, <1>6, <1>9, <2>1
    <2>2. CASE O # {}
      <3>1. xpos \in O /\ xpos = Min(O)
        BY <1>3, <1>4, <2>2
      <3>2. pos <= xpos /\ xpos + x.size <= v.size
        BY <1>2, <3>1
      <3> QED
        BY <1>1, <1>6, <1>8, <1>9, <2>2, <3>1, <3>2
    <2> QED
      BY <2>1, <2>2
  <1>11. ASSUME x.size = 1, pos = 0
         PROVE  FindChar(v, BytesOf(x)[1], pos) = IF O = {} THEN npos ELSE Min(O)
    <2>1. CASE O = {}
      BY <1>3, <1>7, <1>11, <2>1
    <2>2. CASE O # {}
      <3>1. xpos \in O /\ xpos = Min(O)
        BY <1>3, <1>4, <2>2
      <3>2. xpos + 1 <= v.size
        BY <1>2, <1>11, <3>1
      <3>3. v.size # 0 /\ xpos # v.size
        BY <1>1, <1>8, <3>2
      <3> QED
        BY <1>7, <1>11, <2>2, <3>1, <3>3
    <2> QED
      BY <2>1, <2>2
  <1> QED
    BY <1>10, <1>11 DEF O

\* rfind, from the end on, gives the last place of x.
LEMMA RFindSays ==
  ASSUME Buffer, NEW v, TextView(v), NEW x, TextView(x), NEW pos \in Nat, v.size <= pos
  PROVE  /\ RFind(v, x, pos) = IF Places(v, x, 0) = {} THEN npos ELSE Max(Places(v, x, 0))
         /\ Places(v, x, 0) # {} => /\ Max(Places(v, x, 0)) \in Places(v, x, 0)
                                    /\ \A k \in Places(v, x, 0) : k <= Max(Places(v, x, 0))
  <1>1. x.size \in Nat /\ v.size \in Nat
    BY ViewNumbers
  <1> DEFINE O == Places(v, x, 0)
             end == SmallerOf(v.size - x.size, pos) + x.size
  <1>2. O \in SUBSET Nat /\ \A k \in O : k + x.size <= v.size /\ k <= v.size
    <2>1. \A k \in O : k \in Nat /\ k + x.size <= v.size
      BY PlacesSay
    <2> QED
      BY <1>1, <2>1
  <1>3. O # {} => Max(O) \in O /\ \A k \in O : k <= Max(O)
    <2> HIDE DEF O
    <2> QED
      BY <1>1, <1>2, NatMax
  <1>4. v.size < x.size => O = {}
    BY <1>1, <1>2
  <1>5. ~(v.size < x.size) => end = v.size
    BY <1>1 DEF SmallerOf
  <1>6. SmallerOf(v.size, pos) = v.size
    BY <1>1 DEF SmallerOf
  <1>7. ~(v.size < x.size) =>
          RFind(v, x, pos) = IF x.size = 0 THEN v.size
                             ELSE IF LastOr(O, v.size) # v.size THEN LastOr(O, v.size) ELSE npos
    BY <1>5, <1>6 DEF RFind, Places
  <1>8. v.size < x.size => RFind(v, x, pos) = npos
    BY DEF RFind
  <1>9. ASSUME x.size = 0
        PROVE  v.size \in O
    <2>0. 0 \in Nat
      OBVIOUS
    <2>1. \A k \in Nat : k \in Places(v, x, 0) <=> 0 <= k /\ k <= v.size
      BY <1>9, <2>0, PlacesSay, Zenon
    <2>2. v.size \in Places(v, x, 0)
      BY <1>1, <2>1
    <2> QED
      BY <2>2
  <1> HIDE DEF O, end
  <1>10. CASE v.size < x.size
    BY <1>4, <1>8, <1>10 DEF O
  <1>11. CASE ~(v.size < x.size) /\ x.size = 0
    <2>1. O # {} /\ Max(O) = v.size
      <3>1. v.size <= Max(O) /\ Max(O) <= v.size /\ Max(O) \in Nat
        BY <1>2, <1>3, <1>9, <1>11
      <3> QED
        BY <1>1, <1>9, <1>11, <3>1
    <2> QED
      BY <1>3, <1>7, <1>11, <2>1 DEF O
  <1>12. CASE ~(v.size < x.size) /\ x.size # 0 /\ O = {}
    BY <1>7, <1>12 DEF O, LastOr
  <1>13. CASE ~(v.size < x.size) /\ x.size # 0 /\ O # {}
    <2>1. Max(O) # v.size
      <3>1. Max(O) \in Nat /\ Max(O) + x.size <= v.size
        BY <1>2, <1>3, <1>13
      <3> QED
        BY <1>1, <1>13, <3>1
    <2>2. LastOr(O, v.size) = Max(O)
      BY <1>13 DEF LastOr
    <2> QED
      BY <1>3, <1>7, <1>13, <2>1, <2>2 DEF O
  <1> QED
    BY <1>10, <1>11, <1>12, <1>13

\* The part of v that has place k of x is a view of the text, and equal to x.
LEMMA PlaceShows ==
  ASSUME Buffer, NEW v, TextView(v), NEW x, TextView(x), NEW k \in Places(v, x, 0)
  PROVE  Equal(Substr(v, k, x.size), x)
  <1>1. /\ k \in Nat /\ k + x.size <= v.size
        /\ SubSeq(BytesOf(v), k + 1, k + x.size) = BytesOf(x)
    BY PlacesSay
  <1>2. /\ x.size \in Nat /\ v.size \in Nat /\ v.data - Base \in Nat
        /\ v.data - Base + v.size <= Len(text) /\ v.data \in Nat /\ Base \in Nat
        /\ Len(text) \in Nat
    BY ViewNumbers
  <1> DEFINE s == Substr(v, k, x.size)
             a == v.data - Base
  <1>a. \A i, j, n \in Nat : i + j <= n =>
          /\ i <= n /\ i \in 0..n + 1 /\ j \in 0..n + 1 /\ SmallerOf(j, n - i) = j
    BY DEF SmallerOf
  <1>3. /\ k <= v.size /\ k \in 0..v.size + 1 \cup {npos} /\ x.size \in 0..v.size + 1 \cup {npos}
        /\ SmallerOf(x.size, v.size - k) = x.size
    BY <1>1, <1>2, <1>a, Zenon
  <1>4. TextView(s) /\ s.data = v.data + k /\ s.size = SmallerOf(x.size, v.size - k)
    BY <1>3, SubstrStays
  <1>5. s.size = x.size
    BY <1>3, <1>4
  <1> HIDE DEF s
  <1>6. BytesOf(s) = SubSeq(text, (a + k) + 1, a + (k + x.size))
    <2>1. BytesOf(s) = SubSeq(text, s.data - Base + 1, s.data - Base + s.size)
      BY <1>4, BytesShown
    <2>2. s.data - Base + 1 = (a + k) + 1 /\ s.data - Base + s.size = a + (k + x.size)
      <3>1. s.data = v.data + k /\ s.size = x.size
        BY <1>4, <1>5
      <3>2. PICK d \in Nat : d = v.data
        BY <1>2
      <3>3. PICK n \in Nat : n = x.size
        BY <1>2
      <3>4. s.data = d + k /\ s.size = n /\ a = d - Base
        BY <3>1, <3>2, <3>3
      <3>5. PICK b \in Nat : b = Base
        BY <1>2
      <3> HIDE DEF a
      <3> QED
        BY <1>1, <3>3, <3>4, <3>5
    <2> QED
      BY <2>1, <2>2
  <1>7. BytesOf(v) = SubSeq(text, a + 1, a + v.size)
    BY BytesShown
  <1> HIDE DEF a
  <1>8. SubSeq(SubSeq(text, a + 1, a + v.size), k + 1, k + x.size)
          = SubSeq(text, (a + k) + 1, a + (k + x.size))
    <2> DEFINE b == a + v.size
               d == k + x.size
    <2>1. /\ a \in Nat /\ b \in Nat /\ a <= b /\ b <= Len(text) /\ d \in Nat /\ k <= d /\ d <= b - a
      <3>1. PICK c \in Nat, n \in Nat, j \in Nat, l \in Nat :
              c = a /\ n = v.size /\ j = x.size /\ l = Len(text)
        BY <1>2 DEF a
      <3>2. k + j <= n /\ c + n <= l /\ k \in Nat
        <4>1. a + v.size <= Len(text)
          BY <1>2 DEF a
        <4> QED
          BY <1>1, <3>1, <4>1
      <3>3. b = c + n /\ d = k + j
        BY <3>1
      <3> HIDE DEF b, d
      <3> QED
        <4>1. /\ c \in Nat /\ c + n \in Nat /\ c <= c + n /\ c + n <= l
              /\ k + j \in Nat /\ k <= k + j /\ k + j <= (c + n) - c
          BY <3>2
        <4> QED
          BY <3>1, <3>3, <4>1, Zenon
    <2> HIDE DEF b, d
    <2>2. PICK B : B = 0..255
      OBVIOUS
    <2>3. text \in Seq(B)
      BY <2>2 DEF Buffer
    <2>4. SubSeq(SubSeq(text, a + 1, b), k + 1, d) = SubSeq(text, (a + k) + 1, a + d)
      BY <1>1, <2>1, <2>3, PieceOfPiece
    <2> QED
      BY <2>4 DEF b, d
  <1>9. BytesOf(s) = BytesOf(x)
    BY <1>1, <1>6, <1>7, <1>8
  <1>10. Equal(s, x)
    BY <1>4, <1>9, EqualBytes
  <1> QED
    BY <1>10 DEF s

\* starts_with and ends_with see the places at the ends.
LEMMA EndsShow ==
  ASSUME Buffer, NEW v, TextView(v), NEW x, TextView(x)
  PROVE  /\ StartsWith(v, x) <=> 0 \in Places(v, x, 0)
         /\ EndsWith(v, x) <=> v.size - x.size \in Places(v, x, 0)
  <1>1. /\ x.size \in Nat /\ v.size \in Nat /\ v.data \in Nat /\ Base \in Nat /\ Len(text) \in Nat
        /\ v.data - Base \in Nat /\ v.data - Base + v.size <= Len(text)
        /\ v.data + v.size < AddrSpace
    BY ViewNumbers
  <1> DEFINE s == BytesOf(v)
             t == BytesOf(x)
             O == Places(v, x, 0)
  <1>2. s \in Seq(0..255) /\ t \in Seq(0..255) /\ Len(s) = v.size /\ Len(t) = x.size
    BY BytesShown
  <1>3. \A k \in Nat : k \in O <=> k + x.size <= v.size /\ SubSeq(s, k + 1, k + x.size) = t
    BY PlacesSay
  <1>4. ASSUME x.size = 0
        PROVE  0 \in O /\ v.size - x.size \in O
    <2>0. 0 \in Nat
      OBVIOUS
    <2>1. \A k \in Nat : k \in Places(v, x, 0) <=> 0 <= k /\ k <= v.size
      BY <1>4, <2>0, PlacesSay, Zenon
    <2>2. v.size - x.size = v.size
      BY <1>1, <1>4
    <2> QED
      BY <1>1, <2>1, <2>2, SMTT(30)
  <1>5. ASSUME NEW k \in Nat, k + x.size <= v.size
        PROVE  k \in O <=> \A i \in 1..x.size : s[k + i] = t[i]
    <2> DEFINE b == k + x.size
    <2> HIDE DEF s, t, O
    <2>1. b \in Nat /\ k <= b /\ b <= Len(s) /\ b - k = x.size
      <3>1. PICK n \in Nat : n = x.size
        BY <1>1
      <3>2. k + n <= Len(s)
        BY <1>2, <1>5, <3>1
      <3>3. k + n \in Nat /\ k <= k + n /\ (k + n) - k = n
        OBVIOUS
      <3> QED
        BY <3>1, <3>2, <3>3
    <2> HIDE DEF b
    <2>2. PICK B : B = 0..255
      OBVIOUS
    <2>3. s \in Seq(B) /\ t \in Seq(B)
      BY <1>2, <2>2
    <2>4. /\ SubSeq(s, k + 1, b) \in Seq(B) /\ Len(SubSeq(s, k + 1, b)) = b - k
          /\ \A i \in 1..b - k : SubSeq(s, k + 1, b)[i] = s[k + i]
      BY <2>1, <2>3, Piece
    <2>5. SubSeq(s, k + 1, b) = t <=> \A i \in 1..x.size : s[k + i] = t[i]
      <3>1. ASSUME \A i \in 1..x.size : s[k + i] = t[i]
            PROVE  SubSeq(s, k + 1, b) = t
        <4>1. \A i \in 1..Len(SubSeq(s, k + 1, b)) : SubSeq(s, k + 1, b)[i] = t[i]
          BY <2>1, <2>4, <3>1
        <4>2. Len(SubSeq(s, k + 1, b)) = Len(t)
          BY <1>2, <2>1, <2>4
        <4> QED
          BY <2>3, <2>4, <4>1, <4>2, SameSequence
      <3>2. ASSUME SubSeq(s, k + 1, b) = t
            PROVE  \A i \in 1..x.size : s[k + i] = t[i]
        BY <2>1, <2>4, <3>2
      <3> QED
        BY <3>1, <3>2
    <2>6. k \in O <=> SubSeq(s, k + 1, b) = t
      BY <1>3, <1>5 DEF b
    <2> QED
      BY <2>5, <2>6
  <1>6. ASSUME x.size # 0
        PROVE  StartsWith(v, x) <=> 0 \in O
    <2>1. CASE ~(v.size >= x.size)
      <3>1. ~StartsWith(v, x)
        BY <1>6, <2>1 DEF StartsWith
      <3>2. ~(0 + x.size <= v.size) /\ 0 \in Nat
        BY <1>1, <2>1
      <3>3. 0 \notin O
        BY <1>3, <3>2
      <3> QED
        BY <3>1, <3>3
    <2>2. CASE v.size >= x.size
      <3> HIDE DEF O
      <3>1. StartsWith(v, x) <=> Memcmp(s, t, x.size) = 0
        BY <1>6, <2>2 DEF StartsWith
      <3> HIDE DEF s, t
      <3>2. Memcmp(s, t, x.size) = 0 <=> \A i \in 1..x.size : s[i] = t[i]
        <4>1. PICK B : B = 0..255
          OBVIOUS
        <4>2. B \subseteq Int /\ s \in Seq(B) /\ t \in Seq(B) /\ x.size <= Len(s) /\ x.size <= Len(t)
          BY <1>1, <1>2, <2>2, <4>1
        <4> QED
          <5>1. PICK n \in Nat : n = x.size
            BY <1>1
          <5>2. n <= Len(s) /\ n <= Len(t)
            BY <4>2, <5>1
          <5>3. /\ Memcmp(s, t, n) \in {-1, 0, 1}
                /\ Memcmp(s, t, n) = 0 <=> \A i \in 1..n : s[i] = t[i]
                /\ Memcmp(t, s, n) = -Memcmp(s, t, n)
            BY <4>2, <5>2, MemcmpSays, Zenon
          <5> QED
            BY <5>1, <5>3, Zenon
      <3>3. 0 \in Nat /\ 0 + x.size <= v.size /\ \A i \in 1..x.size : 0 + i = i
        BY <1>1, <2>2
      <3>4. 0 \in O <=> \A i \in 1..x.size : s[0 + i] = t[i]
        BY <1>5, <3>3
      <3> QED
        BY <3>1, <3>2, <3>3, <3>4
    <2> QED
      BY <2>1, <2>2
  <1>7. ASSUME x.size # 0
        PROVE  EndsWith(v, x) <=> v.size - x.size \in O
    <2>1. CASE ~(v.size >= x.size)
      <3>1. ~EndsWith(v, x)
        BY <1>7, <2>1 DEF EndsWith
      <3>2. v.size - x.size \notin Nat
        BY <1>1, <2>1
      <3>3. O \in SUBSET Nat
        BY PlacesSay
      <3> QED
        BY <3>1, <3>2, <3>3
    <2>2. CASE v.size >= x.size
      <3> DEFINE w == View(v.data + v.size - x.size, x.size)
                 k == v.size - x.size
      <3> HIDE DEF O
      <3>1. EndsWith(v, x) <=> Memcmp(BytesOf(w), t, x.size) = 0
        BY <1>7, <2>2 DEF EndsWith
      <3>2. /\ TextView(w) /\ w.size = x.size /\ w.data = v.data + v.size - x.size
            /\ k \in Nat /\ k + x.size <= v.size
            /\ w.data - Base = (v.data - Base) + k
        <4>1. PICK d \in Nat, n \in Nat, m \in Nat, c \in Nat, l \in Nat, A \in Nat :
                /\ d = v.data /\ n = v.size /\ m = x.size
                /\ c = Base /\ l = Len(text) /\ A = AddrSpace
          BY <1>1, WidthAssumption
        <4>2. x.size <= v.size /\ v.data >= Base /\ v.data + v.size <= Base + Len(text)
          BY <1>1, <2>2 DEF TextView, InText
        <4>3. m <= n /\ d >= c /\ d + n <= c + l /\ d + n < A
          BY <1>1, <4>1, <4>2
        <4>4. /\ v.data + v.size - x.size \in 0..AddrSpace - 1 /\ x.size \in 0..AddrSpace - 1
              /\ v.data + v.size - x.size >= Base
              /\ v.data + v.size - x.size + x.size <= Base + Len(text)
              /\ k \in Nat /\ k + x.size <= v.size
              /\ (v.data + v.size - x.size) - Base = (v.data - Base) + k
          <5>1. /\ d + n - m \in 0..A - 1 /\ m \in 0..A - 1
                /\ d + n - m >= c /\ d + n - m + m <= c + l
                /\ n - m \in Nat /\ (n - m) + m <= n /\ (d + n - m) - c = (d - c) + (n - m)
            BY <4>3
          <5> QED
            BY <4>1, <5>1
        <4>5. w.data = v.data + v.size - x.size /\ w.size = x.size
          BY DEF View
        <4>6. w \in Views
          BY <4>4 DEF Views, View
        <4> HIDE DEF w
        <4>7. InText(w)
          BY <4>4, <4>5 DEF InText
        <4> QED
          <5>1. TextView(w)
            BY <4>6, <4>7 DEF TextView
          <5>2. w.data - Base = (v.data - Base) + k
            <6>1. (v.data + v.size - x.size) - Base = (v.data - Base) + k
              BY <4>4
            <6>2. PICK e : e = v.data + v.size - x.size
              OBVIOUS
            <6>3. w.data = e
              BY <4>5, <6>2, Zenon
            <6>4. e - Base = (v.data - Base) + k
              BY <6>1, <6>2, Zenon
            <6> QED
              BY <6>3, <6>4, Zenon
          <5> QED
            BY <4>4, <4>5, <5>1, <5>2, Zenon
      <3> HIDE DEF w, k
      <3>3. /\ BytesOf(w) \in Seq(0..255) /\ Len(BytesOf(w)) = x.size
            /\ \A i \in 1..x.size : BytesOf(w)[i] = text[w.data - Base + i]
        BY <3>2, BytesShown
      <3>4. \A i \in 1..x.size : BytesOf(w)[i] = s[k + i]
        <4>1. \A i \in 1..v.size : s[i] = text[v.data - Base + i]
          BY BytesShown
        <4>2. ASSUME NEW i \in 1..x.size
              PROVE  /\ k + i \in 1..v.size
                     /\ w.data - Base + i = v.data - Base + (k + i)
          <5>1. PICK d \in Nat, j \in Nat, n \in Nat, m \in Nat :
                  d = v.data - Base /\ j = k /\ n = v.size /\ m = x.size
            BY <1>1, <3>2
          <5>2. j + m <= n /\ i \in 1..m /\ w.data - Base = d + j
            BY <3>2, <5>1
          <5>3. j + i \in 1..n /\ (d + j) + i = d + (j + i)
            BY <5>2
          <5> QED
            BY <5>1, <5>2, <5>3
        <4> HIDE DEF s
        <4> QED
          BY <3>3, <4>1, <4>2
      <3> HIDE DEF s, t
      <3>5. Memcmp(BytesOf(w), t, x.size) = 0 <=> \A i \in 1..x.size : BytesOf(w)[i] = t[i]
        <4>1. PICK B : B = 0..255
          OBVIOUS
        <4>2. /\ B \subseteq Int /\ BytesOf(w) \in Seq(B) /\ t \in Seq(B)
              /\ x.size <= Len(BytesOf(w)) /\ x.size <= Len(t)
          BY <1>1, <1>2, <3>3, <4>1
        <4> QED
          <5>1. PICK n \in Nat : n = x.size
            BY <1>1
          <5>2. n <= Len(BytesOf(w)) /\ n <= Len(t)
            BY <4>2, <5>1
          <5>3. /\ Memcmp(BytesOf(w), t, n) \in {-1, 0, 1}
                /\ Memcmp(BytesOf(w), t, n) = 0 <=> \A i \in 1..n : BytesOf(w)[i] = t[i]
                /\ Memcmp(t, BytesOf(w), n) = -Memcmp(BytesOf(w), t, n)
            BY <4>2, <5>2, MemcmpSays, Zenon
          <5> QED
            BY <5>1, <5>3, Zenon
      <3>6. k \in O <=> \A i \in 1..x.size : s[k + i] = t[i]
        BY <1>5, <3>2
      <3>7. EndsWith(v, x) <=> k \in O
        BY <3>1, <3>4, <3>5, <3>6
      <3> QED
        BY <3>7 DEF k
    <2> QED
      BY <2>1, <2>2
  <1>8. x.size = 0 => StartsWith(v, x) /\ EndsWith(v, x)
    BY DEF StartsWith, EndsWith
  <1> QED
    BY <1>4, <1>6, <1>7, <1>8

\* The two searches give the first and the last place of x, and see what the ends show.
LEMMA SearchesShow ==
  ASSUME Buffer, NEW v, TextView(v), NEW x, TextView(x)
  PROVE  SearchAgrees(v, x) /\ CharSearchAgrees(v, x)
  <1> DEFINE O == Places(v, x, 0)
             f == Find(v, x, 0)
             r == RFind(v, x, npos)
  <1>1. v.size \in Nat /\ x.size \in Nat /\ npos \in Nat /\ v.size < npos
    BY ViewNumbers
  <1>2. /\ O \in SUBSET Nat
        /\ \A k \in O : k + x.size <= v.size
    BY PlacesSay
  <1>3. O # {} => Min(O) \in O /\ \A k \in O : Min(O) <= k
    <2> HIDE DEF O
    <2> QED
      BY <1>2, NatMin
  <1>4. 0 \in Nat /\ v.size <= npos /\ v.size <= v.size
    BY <1>1
  <1>5. f = IF O = {} THEN npos ELSE Min(O)
    BY <1>4, FindSays
  <1>6. /\ r = IF O = {} THEN npos ELSE Max(O)
        /\ O # {} => Max(O) \in O /\ \A k \in O : k <= Max(O)
    BY <1>1, <1>4, RFindSays
  <1>7. \A k \in O : Equal(Substr(v, k, x.size), x)
    BY PlaceShows
  <1>8. /\ StartsWith(v, x) <=> 0 \in O
        /\ EndsWith(v, x) <=> v.size - x.size \in O
    BY EndsShow
  <1>9. \A k \in O : k \in Nat /\ k <= v.size /\ k < npos
    BY <1>1, <1>2
  <1>10. ASSUME O # {}
         PROVE  Find(v, x, f + 1) = npos <=> (f = r /\ (x.size > 0 \/ f = v.size))
    <2> DEFINE P == Places(v, x, f + 1)
    <2>1. f \in O /\ r \in O /\ \A k \in O : f <= k /\ k <= r
      BY <1>3, <1>5, <1>6, <1>10
    <2>2. f + 1 \in Nat /\ f \in Nat /\ r \in Nat
      BY <1>9, <2>1
    <2>3. \A k \in Nat : k \in P <=> k \in O /\ f + 1 <= k
      <3>1. \A k \in Nat : k \in P <=>
              /\ f + 1 <= k /\ k + x.size <= v.size
              /\ SubSeq(BytesOf(v), k + 1, k + x.size) = BytesOf(x)
        BY <2>2, PlacesSay
      <3>2. \A k \in Nat : k \in O <=>
              /\ 0 <= k /\ k + x.size <= v.size
              /\ SubSeq(BytesOf(v), k + 1, k + x.size) = BytesOf(x)
        BY <1>4, PlacesSay
      <3> HIDE DEF O, P, f
      <3>3. \A k \in Nat : 0 <= k
        OBVIOUS
      <3> QED
        BY <3>1, <3>2, <3>3
    <2>4. P \in SUBSET Nat /\ (P # {} => Min(P) \in P)
      <3>1. P \in SUBSET Nat
        BY <2>2, PlacesSay
      <3> HIDE DEF P
      <3> QED
        BY <3>1, NatMin
    <2>5. Find(v, x, f + 1) = IF P = {} THEN npos ELSE Min(P)
      BY <2>2, FindSays
    <2>6. x.size = 0 => 0 \in O /\ v.size \in O
      <3>1. ASSUME x.size = 0
            PROVE  \A k \in Nat : k \in O <=> 0 <= k /\ k <= v.size
        BY <1>4, <3>1, PlacesSay, Zenon
      <3> QED
        BY <1>1, <3>1
    <2> HIDE DEF O, P, f, r
    <2>7. Find(v, x, f + 1) = npos <=> P = {}
      <3>1. ASSUME P # {}
            PROVE  Min(P) # npos
        <4>1. Min(P) \in O
          BY <2>3, <2>4, <3>1
        <4> QED
          BY <1>1, <1>9, <4>1
      <3> QED
        BY <2>5, <3>1
    <2>8. P = {} <=> f = r
      <3>1. ASSUME P = {}
            PROVE  f = r
        <4>1. ~(f + 1 <= r)
          BY <2>1, <2>2, <2>3, <3>1
        <4>2. f <= r
          BY <2>1
        <4> QED
          BY <2>2, <4>1, <4>2
      <3>2. ASSUME f = r, P # {}
            PROVE  FALSE
        <4>1. PICK k \in P : TRUE
          BY <3>2
        <4>2. k \in Nat /\ k \in O /\ f + 1 <= k
          BY <2>3, <2>4
        <4>3. k <= f
          BY <2>1, <3>2, <4>2
        <4> QED
          BY <2>2, <4>2, <4>3
      <3> QED
        BY <3>1, <3>2
    <2>9. ASSUME x.size = 0, f = r
          PROVE  f = v.size
      <3>1. v.size <= r /\ r <= v.size
        BY <1>9, <2>1, <2>6, <2>9
      <3> QED
        BY <1>1, <2>2, <2>9, <3>1
    <2>10. x.size > 0 \/ x.size = 0
      BY <1>1
    <2> QED
      BY <2>7, <2>8, <2>9, <2>10
  <1>11. /\ f = npos <=> r = npos
         /\ f # npos => O # {}
         /\ O # {} => f \in O /\ r \in O /\ f <= r /\ f # npos
    <2>1. O # {} => f \in O /\ r \in O /\ f <= r
      BY <1>3, <1>5, <1>6
    <2>2. O = {} => f = npos /\ r = npos
      BY <1>5, <1>6
    <2> HIDE DEF O, f, r
    <2> QED
      BY <1>9, <2>1, <2>2
  <1>12. 0 \in O <=> f = 0
    <2>1. f = 0 => f # npos
      <3>1. npos # 0
        BY <1>1
      <3> QED
        BY <3>1
    <2>2. ASSUME 0 \in O
          PROVE  f = 0
      <3>1. O # {} /\ f = Min(O)
        BY <1>5, <2>2
      <3>2. f <= 0 /\ f \in Nat
        BY <1>3, <1>9, <2>2, <3>1
      <3> QED
        BY <3>2
    <2> HIDE DEF f, r, O
    <2> QED
      BY <1>11, <2>1, <2>2
  <1>13. v.size - x.size \in O <=> (f # npos /\ r + x.size = v.size)
    <2> HIDE DEF f, r, O
    <2>1. ASSUME v.size - x.size \in O
          PROVE  f # npos /\ r + x.size = v.size
      <3>1. r \in O /\ f # npos
        BY <1>11, <2>1
      <3>2. v.size - x.size <= r
        BY <1>6, <2>1
      <3>3. r \in Nat /\ r + x.size <= v.size
        BY <1>2, <1>9, <3>1
      <3> QED
        BY <1>1, <3>1, <3>2, <3>3
    <2>2. ASSUME f # npos, r + x.size = v.size
          PROVE  v.size - x.size \in O
      <3>1. r \in O /\ r \in Nat
        BY <1>9, <1>11, <2>2
      <3>2. v.size - x.size = r
        BY <1>1, <2>2, <3>1
      <3> QED
        BY <3>1, <3>2
    <2> QED
      BY <2>1, <2>2
  <1>14. SearchAgrees(v, x)
    <2>1. /\ f = npos <=> r = npos
          /\ f # npos => /\ Equal(Substr(v, f, x.size), x) /\ Equal(Substr(v, r, x.size), x)
                         /\ f <= r
                         /\ Find(v, x, f + 1) = npos <=> (f = r /\ (x.size > 0 \/ f = v.size))
          /\ StartsWith(v, x) <=> f = 0
          /\ EndsWith(v, x) <=> (f # npos /\ r + x.size = v.size)
      <3> HIDE DEF f, r, O
      <3> QED
        BY <1>7, <1>8, <1>10, <1>11, <1>12, <1>13
    <2> QED
      BY <2>1 DEF SearchAgrees
  <1>15. ASSUME x.size = 1
         PROVE  /\ FindChar(v, BytesOf(x)[1], 0) = Find(v, x, 0)
                /\ RFindChar(v, BytesOf(x)[1], v.size) = RFind(v, x, v.size)
    <2>1. FindChar(v, BytesOf(x)[1], 0) = Find(v, x, 0)
      BY <1>4, <1>15, FindSays
    <2> DEFINE s == BytesOf(v)
               c == BytesOf(x)[1]
               Q == {k \in 0..v.size - 1 : s[k + 1] = c}
    <2>2. SmallerOf(Plus(v.size, 1), v.size) = v.size
      <3>1. AddrSpace \in Nat /\ v.size + 1 \in Nat /\ v.size + 1 < AddrSpace
        BY <1>1, WidthAssumption DEF npos
      <3>2. Plus(v.size, 1) = v.size + 1
        BY <3>1, NoWrap DEF Plus
      <3> QED
        BY <1>1, <3>2 DEF SmallerOf
    <2>3. Q = O
      <3>1. /\ s \in Seq(0..255) /\ Len(s) = v.size
            /\ BytesOf(x) \in Seq(0..255) /\ Len(BytesOf(x)) = 1
        BY <1>15, BytesShown
      <3>2. BytesOf(x) = <<c>>
        BY <3>1
      <3>3. \A k \in Nat : k \in O <=> k + 1 <= v.size /\ SubSeq(s, k + 1, k + 1) = <<c>>
        <4>1. \A k \in Nat : k \in O <=>
                /\ 0 <= k /\ k + x.size <= v.size
                /\ SubSeq(s, k + 1, k + x.size) = BytesOf(x)
          BY <1>4, PlacesSay, Zenon
        <4> HIDE DEF O, s, c
        <4>2. \A k \in Nat : 0 <= k
          OBVIOUS
        <4> QED
          BY <1>15, <3>2, <4>1, <4>2
      <3>4. ASSUME NEW k \in Nat, k + 1 <= v.size
            PROVE  SubSeq(s, k + 1, k + 1) = <<c>> <=> s[k + 1] = c
        <4>1. k + 1 \in Nat /\ k <= k + 1 /\ k + 1 <= Len(s) /\ (k + 1) - k = 1
          BY <3>1, <3>4
        <4>2. PICK B : B = 0..255
          OBVIOUS
        <4>3. s \in Seq(B)
          BY <3>1, <4>2
        <4> HIDE DEF s, c
        <4>4. /\ SubSeq(s, k + 1, k + 1) \in Seq(B)
              /\ Len(SubSeq(s, k + 1, k + 1)) = (k + 1) - k
              /\ \A i \in 1..(k + 1) - k : SubSeq(s, k + 1, k + 1)[i] = s[k + i]
          BY <4>1, <4>3, Piece
        <4>5. SubSeq(s, k + 1, k + 1) = <<s[k + 1]>>
          <5>1. PICK q : q = SubSeq(s, k + 1, k + 1)
            OBVIOUS
          <5>2. q \in Seq(B) /\ Len(q) = 1 /\ q[1] = s[k + 1]
            <6>1. 1 \in 1..(k + 1) - k
              OBVIOUS
            <6> QED
              BY <4>1, <4>4, <5>1, <6>1
          <5>3. q = <<s[k + 1]>>
            BY <5>2
          <5> QED
            BY <5>1, <5>3, Zenon
        <4> QED
          BY <4>5
      <3> HIDE DEF O, s, c
      <3>5. \A k \in Nat : k \in 0..v.size - 1 <=> k + 1 <= v.size
        BY <1>1
      <3>6. 0..v.size - 1 \subseteq Nat
        BY <1>1
      <3>7. \A k \in Nat : k \in O <=> k \in Q
        BY <3>3, <3>4, <3>5
      <3> QED
        BY <1>2, <3>6, <3>7
    <2>4. RFindChar(v, c, v.size) = LastOr(Q, npos)
      BY <2>2 DEF RFindChar
    <2>5. RFind(v, x, v.size) = IF O = {} THEN npos ELSE Max(O)
      BY <1>1, <1>4, RFindSays
    <2> HIDE DEF O, Q
    <2> QED
      BY <2>1, <2>3, <2>4, <2>5 DEF LastOr
  <1> QED
    BY <1>14, <1>15 DEF CharSearchAgrees
------------------------------------------------------------------------------
(***************************************************************************)
(* Texts.                                                                  *)
(***************************************************************************)
Anchors == {"UNANCHORED", "ANCHOR_START", "ANCHOR_BOTH"}

\* The texts are buffers.
LEMMA TextsFit == ASSUME text \in Texts PROVE Buffer
  BY ValuesAssumption DEF Buffer
------------------------------------------------------------------------------
(***************************************************************************)
(* RE2 objects.                                                            *)
(***************************************************************************)
IsRE2(r) == \E p \in Patterns, o \in Options : r = NewRE2(p, o)

FindsIn(prog) == \A h \in Haystacks : SpansIn(Captures(prog, h), Len(h))

RE2Fields(r) ==
  /\ r.pattern \in Patterns /\ r.options \in Options
  /\ r.options.latin1 \in BOOLEAN /\ r.options.never_nl \in BOOLEAN
  /\ r.ok \in BOOLEAN /\ (r.ok <=> r.prog # NULL) /\ (r.ok <=> r.ncap \in Nat)

RE2Programs(r) ==
  r.ok => /\ FindsIn(r.prog)
          /\ r.suffix # NULL => FindsIn(r.suffix)
          /\ r.pattern = EmptyPattern => r.ncap = 0 /\ Captures(r.suffix, <<>>) # <<>>
          /\ r.entire # NULL =>
               \A h \in Haystacks : MatchesAll(r.prog, h) => Captures(r.entire, h) # <<>>
          /\ ~r.options.latin1 /\ ~r.options.dot_nl /\ CPattern(r.pattern) = r.pattern =>
               r.suffix = r.prog

\* What RE2::Init leaves: an object is ok when its program is there, and the programs do
\* what the crate is taken to do.
LEMMA RE2Says ==
  ASSUME NEW r, IsRE2(r)
  PROVE  RE2Fields(r) /\ RE2Programs(r)
  <1>1. PICK p \in Patterns, o \in Options : r = NewRE2(p, o)
    BY DEF IsRE2
  <1> DEFINE prog == Compile(CPattern(RureStr(p, o)), CompileFlags(o))
             entire == Compile(CPattern(Whole(RureStr(p, o))), CompileFlags(o))
  <1>2. o.latin1 \in BOOLEAN /\ o.never_nl \in BOOLEAN /\ EmptyPattern \in Patterns
    BY ValuesAssumption
  <1>3. CASE prog = NULL
    <2>1. r = FailedRE2(p, o)
      BY <1>1, <1>3 DEF NewRE2
    <2>2. /\ r.ok = FALSE /\ r.prog = NULL /\ r.ncap = -1 /\ r.options = o
          /\ r.pattern = IF EmptyClassError(p) THEN EmptyPattern ELSE p
      BY <2>1 DEF FailedRE2
    <2>3. ~(-1 \in Nat)
      OBVIOUS
    <2> QED
      BY <1>2, <2>2, <2>3 DEF RE2Fields, RE2Programs
  <1>4. CASE prog # NULL
    <2>1. r = BuiltRE2(p, o)
      BY <1>1, <1>4 DEF NewRE2
    <2>2. /\ r.ok = TRUE /\ r.pattern = p /\ r.options = o /\ r.prog = prog
          /\ r.entire = IF p = EmptyPattern THEN prog ELSE entire
          /\ r.suffix = New(p)
          /\ r.ncap = IF o.never_capture THEN 0 ELSE NumGroups(prog)
      BY <2>1 DEF BuiltRE2
    <2>3. /\ NumGroups(prog) \in Nat
          /\ p = EmptyPattern => NumGroups(prog) = 0
          /\ \A h \in Haystacks : SpansIn(Captures(prog, h), Len(h))
          /\ entire # NULL =>
               \A h \in Haystacks : MatchesAll(prog, h) => Captures(entire, h) # <<>>
      BY <1>4, CrateAssumption
    <2>4. /\ New(p) # NULL => \A h \in Haystacks : SpansIn(Captures(New(p), h), Len(h))
          /\ Captures(New(EmptyPattern), <<>>) # <<>>
      BY CrateAssumption
    <2>5. ~o.latin1 /\ ~o.dot_nl /\ CPattern(p) = p => prog = New(p)
      BY DEF RureStr, CompileFlags, New
    <2> HIDE DEF prog, entire
    <2>6. RE2Fields(r)
      <3>1. r.ncap \in Nat
        BY <2>2, <2>3
      <3>2. r.ok /\ r.prog # NULL /\ r.pattern \in Patterns /\ r.options \in Options
        BY <1>4, <2>2
      <3>3. r.options.latin1 \in BOOLEAN /\ r.options.never_nl \in BOOLEAN
        BY <1>2, <2>2
      <3> QED
        BY <3>1, <3>2, <3>3, <2>2 DEF RE2Fields
    <2>7. /\ FindsIn(r.prog)
          /\ r.suffix # NULL => FindsIn(r.suffix)
      BY <2>2, <2>3, <2>4 DEF FindsIn
    <2>8. r.pattern = EmptyPattern => r.ncap = 0 /\ Captures(r.suffix, <<>>) # <<>>
      BY <2>2, <2>3, <2>4
    <2>9. r.entire # NULL =>
            \A h \in Haystacks : MatchesAll(r.prog, h) => Captures(r.entire, h) # <<>>
      <3>1. CASE p = EmptyPattern
        BY <2>2, <3>1 DEF MatchesAll
      <3>2. CASE p # EmptyPattern
        BY <2>2, <2>3, <3>2
      <3> QED
        BY <3>1, <3>2
    <2>10. ~r.options.latin1 /\ ~r.options.dot_nl /\ CPattern(r.pattern) = r.pattern =>
             r.suffix = r.prog
      BY <2>2, <2>5
    <2> QED
      BY <2>6, <2>7, <2>8, <2>9, <2>10 DEF RE2Programs
  <1> QED
    BY <1>3, <1>4
------------------------------------------------------------------------------
(***************************************************************************)
(* Haystacks.                                                              *)
(***************************************************************************)

\* The part of a string in front of its first NUL is a piece of it, and all of it when
\* there is none.
LEMMA CStringSays ==
  ASSUME NEW X, NEW s \in Seq(X)
  PROVE  /\ \E n \in 0..Len(s) : CString(s) = SubSeq(s, 1, n)
         /\ CString(s) \in SubSeqs(s)
         /\ NUL \notin ToSet(s) => CString(s) = s
  <1> DEFINE I == {i \in DOMAIN s : s[i] = NUL}
  <1>1. I \in SUBSET Nat /\ DOMAIN s = 1..Len(s) /\ Len(s) \in Nat
    OBVIOUS
  <1>2. CASE I = {}
    <2>1. CString(s) = SubSeq(s, 1, (Len(s) + 1) - 1)
      BY <1>2 DEF CString, IndexOf
    <2>2. (Len(s) + 1) - 1 = Len(s) /\ SubSeq(s, 1, Len(s)) = s /\ Len(s) \in 0..Len(s)
          /\ 0 \in 0..Len(s) /\ 0 <= Len(s) /\ 0 + 1 = 1
      OBVIOUS
    <2>3. SubSeq(s, 0 + 1, Len(s)) \in SubSeqs(s)
      BY <2>2, Pieces
    <2> QED
      BY <2>1, <2>2, <2>3
  <1>3. CASE I # {}
    <2>1. PICK k : k = Min(I)
      OBVIOUS
    <2>2. k \in I
      <3> HIDE DEF I
      <3> QED
        BY <1>1, <1>3, <2>1, NatMin
    <2>3. CString(s) = SubSeq(s, 1, k - 1)
      BY <1>3, <2>1 DEF CString, IndexOf
    <2>4. k - 1 \in 0..Len(s) /\ 0 \in 0..Len(s) /\ 0 <= k - 1 /\ 0 + 1 = 1
      BY <1>1, <2>2
    <2>5. SubSeq(s, 0 + 1, k - 1) \in SubSeqs(s)
      BY <2>4, Pieces
    <2>6. NUL \in ToSet(s)
      BY <2>2 DEF ToSet
    <2> QED
      BY <2>3, <2>4, <2>5, <2>6
  <1> QED
    BY <1>2, <1>3

\* Every line of a haystack is a piece of it.
LEMMA LineSays ==
  ASSUME NEW X, NEW s \in Seq(X), NEW end \in LineEnds(s)
  PROVE  Line(s, end) \in SubSeqs(s)
  <1>1. end \in 1..Len(s) + 1 /\ Len(s) \in Nat
    BY DEF LineEnds
  <1> DEFINE N == {0} \cup {i \in 1..end - 1 : s[i] = NL}
             b == end - 1
  <1>2. b \in Nat /\ b <= Len(s)
    BY <1>1
  <1>3. Max(N) \in N
    <2>1. N \in SUBSET Nat /\ N # {} /\ \A y \in N : y <= b
      BY <1>2
    <2> HIDE DEF N
    <2> QED
      BY <1>2, <2>1, NatMax
  <1>4. PICK a : a = Max(N)
    OBVIOUS
  <1>5. a \in Nat /\ a <= b
    BY <1>2, <1>3, <1>4
  <1>6. Line(s, end) = CString(SubSeq(s, a + 1, b))
    BY <1>4 DEF Line
  <1> HIDE DEF b
  <1>7. a \in 0..Len(s) /\ b \in 0..Len(s)
    BY <1>2, <1>5
  <1>8. SubSeq(s, a + 1, b) \in SubSeqs(s)
    BY <1>5, <1>7, Pieces
  <1>9. PICK q : q = SubSeq(s, a + 1, b)
    OBVIOUS
  <1>10. q \in Seq(X) /\ SubSeqs(q) \subseteq SubSeqs(s)
    BY <1>8, <1>9, PiecesOfPiece
  <1>11. CString(q) \in SubSeqs(q)
    BY <1>10, CStringSays
  <1> QED
    BY <1>6, <1>9, <1>10, <1>11

\* The bytes of a text are numbers below 256.
LEMMA BytesAre ==
  ASSUME NEW s \in Seq(0..255)
  PROVE  s \in Seq(Nat) /\ \A i \in 1..Len(s) : s[i] \in 0..255
  <1>1. PICK B : B = 0..255
    OBVIOUS
  <1>2. s \in Seq(B) /\ B \subseteq Nat
    BY <1>1
  <1>3. \A i \in 1..Len(s) : s[i] \in B
    BY <1>2
  <1>4. s \in Seq(Nat)
    <2>1. PICK n \in Nat : n = Len(s)
      BY <1>2
    <2>2. s \in [1..n -> B]
      BY <1>2, <2>1
    <2>3. s \in [1..n -> Nat]
      BY <1>2, <2>2
    <2> QED
      BY <2>3
  <1> QED
    BY <1>1, <1>3, <1>4

\* The text of a Latin-1 haystack: at most two bytes for each byte of the text.
LEMMA ConvertSays ==
  ASSUME NEW s \in Seq(0..255)
  PROVE  /\ ConvertLatin1ToUTF8(s) \in Seq(Nat)
         /\ Len(ConvertLatin1ToUTF8(s)) <= 2 * Len(s)
  <1> DEFINE n == Len(s)
             c == [i \in DOMAIN s |-> RuneToChar(s[i])]
  <1>1. n \in Nat /\ DOMAIN s = 1..n
    OBVIOUS
  <1>2. ASSUME NEW b \in 0..255
        PROVE  RuneToChar(b) \in Seq(Nat) /\ Len(RuneToChar(b)) <= 2
    <2>1. 192 + (b \div 64) \in Nat /\ 128 + (b % 64) \in Nat /\ b \in Nat
      OBVIOUS
    <2>2. \A i, j \in Nat : <<i, j>> \in Seq(Nat) /\ Len(<<i, j>>) <= 2
      OBVIOUS
    <2>3. \A i \in Nat : <<i>> \in Seq(Nat) /\ Len(<<i>>) <= 2
      OBVIOUS
    <2> QED
      BY <2>1, <2>2, <2>3 DEF RuneToChar
  <1>3. \A i \in 1..n : s[i] \in 0..255
    BY BytesAre
  <1>4. /\ DOMAIN c = 1..n
        /\ \A i \in 1..n : c[i] \in Seq(Nat) /\ Len(c[i]) <= 2
    BY <1>1, <1>2, <1>3
  <1>5. c \in [1..n -> Seq(Nat)]
    BY <1>1, <1>4
  <1>6. ConvertLatin1ToUTF8(s) = FlattenSeq(c)
    BY DEF ConvertLatin1ToUTF8
  <1> HIDE DEF n, c
  <1>7. Collects(Nat, c, n, FlattenSeq(c))
    BY <1>1, <1>5, Flattened
  <1>8. FlattenSeq(c) \in Seq(Nat) /\ Len(FlattenSeq(c)) <= 2 * n
    BY <1>4, <1>7 DEF Collects
  <1> QED
    BY <1>6, <1>8 DEF n

\* What a view shows, as Match gives it to the crate.
LEMMA EncodedSays ==
  ASSUME text \in Texts, NEW t, TextView(t), NEW r
  PROVE  LET e == Encoded(r, BytesOf(t))
         IN /\ e \in Seq(Nat) /\ Len(e) <= 2 * t.size
            /\ ~r.options.latin1 => e = BytesOf(t) /\ Len(e) = t.size
            /\ SubSeqs(e) \subseteq Haystacks
  <1> DEFINE s == BytesOf(t)
             e == Encoded(r, s)
  <1>1. s \in Seq(0..255) /\ Len(s) = t.size /\ s \in SubSeqs(text) /\ t.size \in Nat
    BY TextsFit, BytesShown, ViewNumbers
  <1> HIDE DEF s
  <1>2. /\ SubSeqs(s) \subseteq Haystacks
        /\ SubSeqs(ConvertLatin1ToUTF8(s)) \subseteq Haystacks
    <2>1. s \in UNION {SubSeqs(u) : u \in Texts}
      BY <1>1
    <2>2. \A h : h \in SubSeqs(s) \cup SubSeqs(ConvertLatin1ToUTF8(s)) => h \in Haystacks
      BY <2>1, Zenon DEF Haystacks
    <2> QED
      BY <2>2
  <1>3. s \in Seq(Nat)
    BY <1>1, BytesAre
  <1>4. CASE r.options.latin1
    <2>1. e = ConvertLatin1ToUTF8(s)
      BY <1>4 DEF Encoded
    <2> QED
      BY <1>1, <1>2, <1>4, <2>1, ConvertSays DEF s
  <1>5. CASE ~r.options.latin1
    <2>1. e = s
      BY <1>5 DEF Encoded
    <2>2. t.size <= 2 * t.size
      BY <1>1
    <2> QED
      BY <1>1, <1>2, <1>3, <2>1, <2>2 DEF s
  <1> QED
    BY <1>4, <1>5

\* The haystack h of Match, if any.
Searches(r, t, h) ==
  /\ h \in Haystacks /\ Len(h) \in Nat
  /\ Len(h) <= 2 * t.size /\ (~r.options.latin1 => Len(h) <= t.size)
  /\ r.options.never_nl => Captures(r.prog, h) # <<>>
  /\ ~r.options.never_nl => h = CString(Encoded(r, BytesOf(t)))

\* Match searches one haystack, as long as the text at most; or, under never_nl only, none.
LEMMA HaystackSays ==
  ASSUME text \in Texts, NEW t, TextView(t), NEW r
  PROVE  \/ r.options.never_nl /\ Haystack(r, t) = <<>>
         \/ \E h \in Haystacks : Haystack(r, t) = <<h>> /\ Searches(r, t, h)
  <1> DEFINE e == Encoded(r, BytesOf(t))
  <1>1. /\ e \in Seq(Nat) /\ Len(e) <= 2 * t.size
        /\ ~r.options.latin1 => Len(e) = t.size
        /\ SubSeqs(e) \subseteq Haystacks
        /\ t.size \in Nat
    BY EncodedSays, TextsFit, ViewNumbers
  <1>2. ASSUME NEW h \in SubSeqs(e)
        PROVE  /\ h \in Haystacks /\ Len(h) \in Nat
               /\ Len(h) <= 2 * t.size /\ (~r.options.latin1 => Len(h) <= t.size)
    <2> HIDE DEF e
    <2>1. h \in Seq(Nat) /\ Len(h) <= Len(e)
      BY <1>1, PiecesOfPiece
    <2>2. Len(h) \in Nat /\ Len(e) \in Nat
      BY <1>1, <2>1
    <2> QED
      BY <1>1, <2>1, <2>2
  <1>3. CASE r.options.never_nl
    <2> DEFINE hits == {i \in LineEnds(e) : Captures(r.prog, Line(e, i)) # <<>>}
    <2>1. Haystack(r, t) = IF hits = {} THEN <<>> ELSE <<Line(e, Min(hits))>>
      BY <1>3 DEF Haystack, FirstLine
    <2>2. CASE hits = {}
      BY <1>3, <2>1, <2>2
    <2>3. CASE hits # {}
      <3>1. hits \in SUBSET Nat
        BY DEF LineEnds
      <3>2. PICK i : i = Min(hits)
        OBVIOUS
      <3>3. i \in hits
        <4> HIDE DEF hits
        <4> QED
          BY <2>3, <3>1, <3>2, NatMin
      <3> HIDE DEF e
      <3>4. Line(e, i) \in SubSeqs(e)
        BY <1>1, <3>3, LineSays
      <3>5. Captures(r.prog, Line(e, i)) # <<>>
        BY <3>3
      <3>6. PICK h : h = Line(e, i)
        OBVIOUS
      <3>7. Searches(r, t, h)
        BY <1>2, <1>3, <3>4, <3>5, <3>6 DEF Searches
      <3>8. Haystack(r, t) = <<h>>
        BY <2>1, <2>3, <3>2, <3>6
      <3> QED
        BY <3>7, <3>8 DEF Searches
    <2> QED
      BY <2>2, <2>3
  <1>4. CASE ~r.options.never_nl
    <2>1. Haystack(r, t) = <<CString(e)>>
      BY <1>4 DEF Haystack
    <2>2. CString(e) \in SubSeqs(e)
      <3> HIDE DEF e
      <3> QED
        BY <1>1, CStringSays
    <2>3. PICK h : h = CString(e)
      OBVIOUS
    <2>4. Searches(r, t, h)
      BY <1>2, <1>4, <2>2, <2>3 DEF Searches
    <2> QED
      BY <2>1, <2>3, <2>4 DEF Searches
  <1> QED
    BY <1>3, <1>4
------------------------------------------------------------------------------
(***************************************************************************)
(* RE2::Match.                                                             *)
(***************************************************************************)

\* The views that a caller can hold, for a UTF-8 regexp.
Kept(r, v) == v \in Views /\ (~r.options.latin1 => Readable(v))

\* The null view is one of them.
LEMMA NullKept == ASSUME NEW r PROVE Kept(r, NullView)
  BY WidthAssumption DEF Kept, Views, NullView, View, Readable

\* Submatch i of a UTF-8 regexp is the span that was matched.
ShowsSpan(r, t, h, m, i) ==
  \E a, b \in 0..Len(h) :
    /\ a <= b /\ m[i] = <<a, b>> /\ b <= t.size
    /\ SubmatchView(r, t, m, i) = View(t.data + a, b - a)

\* A submatch is a view, for a UTF-8 regexp of the span that was matched, in the text.
LEMMA SubmatchSays ==
  ASSUME text \in Texts, NEW t, TextView(t), NEW r, NEW h, Searches(r, t, h),
         NEW m, SpansIn(m, Len(h)), m # <<>>, NEW i
  PROVE  /\ Kept(r, SubmatchView(r, t, m, i))
         /\ (i \notin DOMAIN m \/ m[i] = <<>>) => SubmatchView(r, t, m, i) = NullView
         /\ i \in DOMAIN m /\ m[i] # <<>> /\ ~r.options.latin1 => ShowsSpan(r, t, h, m, i)
  <1>1. CASE i \notin DOMAIN m \/ m[i] = <<>>
    <2>1. SubmatchView(r, t, m, i) = NullView
      BY <1>1 DEF SubmatchView
    <2> QED
      BY <1>1, <2>1, NullKept
  <1>2. CASE i \in DOMAIN m /\ m[i] # <<>>
    <2>1. PICK a, b \in 0..Len(h) : a <= b /\ m[i] = <<a, b>>
      BY <1>2 DEF SpansIn
    <2>2. /\ t.data \in Nat /\ t.size \in Nat /\ AddrSpace \in Nat /\ AddrSpace # 0
          /\ Base \in Nat /\ Len(text) \in Nat
          /\ t.data >= Base /\ t.data + t.size <= Base + Len(text)
          /\ t.data + t.size < AddrSpace
      BY TextsFit, ViewNumbers, WidthAssumption DEF TextView, InText
    <2>3. PICK d \in Nat, n \in Nat, A \in Nat, c \in Nat, l \in Nat, k \in Nat :
            /\ d = t.data /\ n = t.size /\ A = AddrSpace /\ c = Base /\ l = Len(text) /\ k = Len(h)
      BY <2>2 DEF Searches
    <2>4. /\ a \in Nat /\ b \in Nat /\ a <= b /\ b <= k /\ k <= 2 * n /\ A # 0
          /\ d >= c /\ d + n <= c + l /\ d + n < A
          /\ ~r.options.latin1 => k <= n
      BY <2>1, <2>2, <2>3 DEF Searches
    <2> DEFINE len == IF r.options.latin1 THEN (b - a) \div 2 ELSE b - a
    <2>5. SubmatchView(r, t, m, i) = View((t.data + a) % AddrSpace, len)
      <3>1. m[i][1] = a /\ m[i][2] = b
        BY <2>1
      <3> QED
        BY <1>2, <3>1 DEF SubmatchView
    <2>6. (d + a) % A \in 0..A - 1
      BY <2>4
    <2>7. (b - a) \div 2 \in 0..n
      BY <2>4
    <2>8. ~r.options.latin1 => b <= n /\ b - a \in 0..n
      BY <2>4
    <2>9. len \in 0..A - 1
      <3>1. n < A /\ len \in 0..n
        BY <2>4, <2>7, <2>8
      <3> QED
        BY <3>1
    <2>10. View((d + a) % A, len) \in Views
      BY <2>3, <2>6, <2>9 DEF Views, View
    <2>11. ASSUME ~r.options.latin1
           PROVE  /\ SubmatchView(r, t, m, i) = View(t.data + a, b - a)
                  /\ InText(View(t.data + a, b - a))
      <3>1. d + a < A /\ d + a \in Nat /\ d + a >= c /\ d + a + (b - a) <= c + l
        BY <2>4, <2>8, <2>11
      <3>2. (d + a) % A = d + a
        BY <3>1, NoWrap
      <3>3. View(d + a, b - a).data = d + a /\ View(d + a, b - a).size = b - a
        BY DEF View
      <3>4. InText(View(d + a, b - a))
        BY <2>3, <3>1, <3>3 DEF InText
      <3> QED
        BY <2>3, <2>5, <2>11, <3>2, <3>4
    <2>12. Kept(r, SubmatchView(r, t, m, i))
      BY <2>3, <2>5, <2>10, <2>11 DEF Kept, Readable
    <2>13. ~r.options.latin1 => b <= t.size
      BY <2>3, <2>8
    <2> QED
      BY <1>2, <2>1, <2>11, <2>12, <2>13 DEF ShowsSpan
  <1> QED
    BY <1>1, <1>2

\* Match has found a match of the haystack h, and filled in vec.
Found(r, t, anchor, n, h, vec) ==
  /\ Haystack(r, t) = <<h>> /\ Searches(r, t, h)
  /\ AnchorAccepts(anchor, Captures(r.prog, h), h)
  /\ vec = [i \in 1..n |-> SubmatchView(r, t, Captures(r.prog, h), i)]

\* Match finds the empty pattern in an empty text without asking the crate.
TrivialMatch(r, t) == t.size = 0 /\ r.pattern = EmptyPattern

MatchGives(r, t, anchor, n, vec, m) ==
  /\ m.ret \in BOOLEAN /\ m.vec \in [1..n -> Views]
  /\ \A i \in 1..n : m.vec[i] = vec[i] \/ Kept(r, m.vec[i])
  /\ m.ret /\ ~TrivialMatch(r, t) => r.ok
  /\ m.ret /\ InText(t) /\ ~TrivialMatch(r, t) /\ (n # 0 \/ ~r.options.never_nl) =>
       \E h \in Haystacks : Found(r, t, anchor, n, h, m.vec)
  /\ m.ret /\ TrivialMatch(r, t) => m.vec = vec
  /\ ~m.ret => m.vec = vec

\* Match leaves views in the array; for a UTF-8 regexp views of the text, null, or what
\* was there.  When it finds something, the crate has found it in the haystack.
LEMMA MatchSays ==
  ASSUME text \in Texts, NEW t, Readable(t), t \in Views, NEW r, IsRE2(r),
         NEW startpos, NEW endpos, NEW anchor \in Anchors,
         NEW n \in Nat, NEW vec \in [1..n -> Views]
  PROVE  MatchGives(r, t, anchor, n, vec, Match(r, t, startpos, endpos, anchor, vec))
  <1> SUFFICES ASSUME NEW m, m = Match(r, t, startpos, endpos, anchor, vec)
               PROVE  MatchGives(r, t, anchor, n, vec, m)
    OBVIOUS
  <1> USE DEF MatchGives
  <1> DEFINE Ok(a) == /\ a.ret \in BOOLEAN /\ a.vec \in [1..n -> Views]
                    /\ \A i \in 1..n : a.vec[i] = vec[i] \/ Kept(r, a.vec[i])
  <1>1. DOMAIN vec = 1..n /\ (vec = <<>> <=> n = 0)
    OBVIOUS
  <1>2. \A b \in BOOLEAN : /\ Ok(Answer(b, vec))
                           /\ Answer(b, vec).ret = b /\ Answer(b, vec).vec = vec
    BY DEF Answer
  <1>3. CASE TrivialMatch(r, t)
    <2>1. m = Answer(TRUE, vec)
      BY <1>3 DEF Match, TrivialMatch
    <2> QED
      BY <1>2, <1>3, <2>1
  <1>4. CASE ~TrivialMatch(r, t) /\ (~r.ok \/ startpos > endpos \/ endpos > t.size)
    <2>1. m = Answer(FALSE, vec)
      BY <1>4 DEF Match, TrivialMatch
    <2> QED
      BY <1>2, <1>4, <2>1
  <1>5. CASE ~TrivialMatch(r, t) /\ r.ok /\ ~(startpos > endpos \/ endpos > t.size)
    <2>1. CASE t.data = 0
      <3>1. m = Answer(TRUE, [i \in 1..n |-> NullView])
        BY <1>1, <1>5, <2>1 DEF Match, TrivialMatch
      <3>2. ~InText(t)
        BY <2>1, WidthAssumption DEF InText
      <3>3. Ok(Answer(TRUE, [i \in 1..n |-> NullView]))
        BY NullKept DEF Answer, Kept
      <3>4. Answer(TRUE, [i \in 1..n |-> NullView]).ret = TRUE
        BY DEF Answer
      <3> QED
        BY <1>5, <3>1, <3>2, <3>3, <3>4
    <2>2. CASE t.data # 0
      <3>1. TextView(t)
        BY <2>2 DEF Readable, NullView, View, TextView
      <3>2. m = Search(r, t, anchor, vec, Haystack(r, t))
        BY <1>5, <2>2 DEF Match, TrivialMatch
      <3>3. CASE r.options.never_nl /\ Haystack(r, t) = <<>>
        <4>1. m = Answer(FALSE, vec)
          BY <3>2, <3>3 DEF Search
        <4> QED
          BY <1>2, <1>5, <4>1
      <3>4. ASSUME NEW h \in Haystacks, Haystack(r, t) = <<h>>, Searches(r, t, h)
            PROVE  /\ Ok(m) /\ r.ok
                   /\ m.ret /\ (n # 0 \/ ~r.options.never_nl) =>
                        \E g \in Haystacks : Found(r, t, anchor, n, g, m.vec)
                   /\ ~m.ret => m.vec = vec
        <4> DEFINE c == Captures(r.prog, h)
                   sub == [i \in 1..n |-> SubmatchView(r, t, c, i)]
        <4>0. Haystack(r, t) # <<>> /\ Haystack(r, t)[1] = h
          BY <3>4
        <4>1. SpansIn(c, Len(h))
          BY <1>5, RE2Says DEF RE2Programs, FindsIn
        <4>2. \A i \in 1..n : Kept(r, SubmatchView(r, t, c, i))
          <5>1. ASSUME NEW i \in 1..n
                PROVE  Kept(r, SubmatchView(r, t, c, i))
            <6>1. CASE c # <<>>
              BY <3>1, <3>4, <4>1, <6>1, SubmatchSays
            <6>2. CASE c = <<>>
              <7>1. SubmatchView(r, t, c, i) = NullView
                BY <6>2 DEF SubmatchView
              <7> QED
                BY <7>1, NullKept
            <6> QED
              BY <6>1, <6>2
          <5> QED
            BY <5>1
        <4>3. Ok(Answer(TRUE, sub)) /\ Answer(TRUE, sub).ret = TRUE /\ Answer(TRUE, sub).vec = sub
          <5>1. \A i \in 1..n : sub[i] = SubmatchView(r, t, c, i)
            OBVIOUS
          <5>2. sub \in [1..n -> Views]
            BY <4>2 DEF Kept
          <5> HIDE DEF sub, c
          <5> QED
            BY <4>2, <5>1, <5>2 DEF Answer
        <4>4. CASE r.options.never_nl /\ n = 0
          <5>1. m = Answer(TRUE, vec)
            BY <1>1, <3>2, <4>0, <4>4 DEF Search
          <5> QED
            BY <1>2, <1>5, <4>4, <5>1
        <4>5. CASE ~(r.options.never_nl /\ n = 0)
          <5>1. m = Submatches(r, t, anchor, vec, h, c)
            BY <1>1, <3>2, <4>0, <4>5 DEF Search
          <5>2. m = IF AnchorAccepts(anchor, c, h) THEN Answer(TRUE, sub) ELSE Answer(FALSE, vec)
            BY <1>1, <5>1 DEF Submatches
          <5>3. AnchorAccepts(anchor, c, h) => Found(r, t, anchor, n, h, sub)
            BY <3>4 DEF Found
          <5> HIDE DEF c, sub
          <5> QED
            BY <1>2, <1>5, <4>3, <5>2, <5>3
        <4> QED
          BY <4>4, <4>5
      <3>5. \/ r.options.never_nl /\ Haystack(r, t) = <<>>
            \/ \E h \in Haystacks : Haystack(r, t) = <<h>> /\ Searches(r, t, h)
        BY <3>1, HaystackSays
      <3> QED
        BY <1>5, <3>3, <3>4, <3>5
    <2> QED
      BY <2>1, <2>2
  <1> QED
    BY <1>3, <1>4, <1>5
------------------------------------------------------------------------------
(***************************************************************************)
(* RE2::DoMatch.                                                           *)
(***************************************************************************)
NVec(consuming, args) == IF args = <<>> /\ ~consuming THEN 0 ELSE Len(args) + 1
Fresh(n) == [i \in 1..n |-> NullView]

\* The three ways to an answer: suffix_regexp_, entire_regexp_, and Match.
BySuffix(r, t, consuming, args, res) ==
  /\ AsksSuffix(r, consuming, args)
  /\ Captures(r.suffix, BytesOf(t)) # <<>>
  /\ res = Result(TRUE, Captures(r.suffix, BytesOf(t))[1][2], <<>>, 0)

ByEntire(r, t, anchor, args, res) ==
  /\ AsksEntire(r, anchor, args)
  /\ res = Result(Captures(r.entire, BytesOf(t)) # <<>>, 0, <<>>, 0)

ByMatch(r, t, anchor, consuming, args, m, k, res) ==
  /\ SuffixMatch(r, t, consuming, args) = <<>> /\ ~AsksEntire(r, anchor, args)
  /\ m = Match(r, t, 0, t.size, anchor, Fresh(NVec(consuming, args)))
  /\ m.ret
  /\ k \in StoredCounts(args, m.vec)
  /\ res = Result(k = Len(args),
                  IF consuming THEN (m.vec[1].data + m.vec[1].size - t.data) % AddrSpace ELSE 0,
                  m.vec, k)

\* DoMatch refuses, or answers in one of the three ways.
LEMMA DoMatchWays ==
  ASSUME NEW r, NEW t, NEW anchor, NEW consuming, NEW args,
         NEW res \in DoMatch(r, t, anchor, consuming, args)
  PROVE  \/ res = Refused
         \/ /\ r.ok /\ ~(r.ncap < Len(args))
            /\ \/ BySuffix(r, t, consuming, args, res)
               \/ ByEntire(r, t, anchor, args, res)
               \/ \E m, k : ByMatch(r, t, anchor, consuming, args, m, k, res)
  <1>1. CASE ~r.ok \/ r.ncap < Len(args)
    BY <1>1 DEF DoMatch
  <1>2. CASE r.ok /\ ~(r.ncap < Len(args)) /\ SuffixMatch(r, t, consuming, args) # <<>>
    <2>1. res = Result(TRUE, SuffixMatch(r, t, consuming, args)[1][2], <<>>, 0)
      BY <1>2 DEF DoMatch
    <2>2. AsksSuffix(r, consuming, args)
      BY <1>2 DEF SuffixMatch
    <2>3. SuffixMatch(r, t, consuming, args) = Captures(r.suffix, BytesOf(t))
      BY <2>2 DEF SuffixMatch
    <2> QED
      BY <1>2, <2>1, <2>2, <2>3 DEF BySuffix
  <1>3. CASE /\ r.ok /\ ~(r.ncap < Len(args)) /\ SuffixMatch(r, t, consuming, args) = <<>>
             /\ AsksEntire(r, anchor, args)
    BY <1>3 DEF DoMatch, ByEntire
  <1>4. CASE /\ r.ok /\ ~(r.ncap < Len(args)) /\ SuffixMatch(r, t, consuming, args) = <<>>
             /\ ~AsksEntire(r, anchor, args)
    <2> DEFINE m == Match(r, t, 0, t.size, anchor, Fresh(NVec(consuming, args)))
    <2>1. res \in MatchThenParse(r, t, anchor, consuming, args)
      BY <1>4 DEF DoMatch
    <2>2. res \in Parsed(t, consuming, args, m)
      BY <2>1 DEF MatchThenParse, NVec, Fresh
    <2>3. CASE ~m.ret
      BY <2>2, <2>3 DEF Parsed
    <2>4. CASE m.ret
      <3> DEFINE c == IF consuming THEN (m.vec[1].data + m.vec[1].size - t.data) % AddrSpace ELSE 0
      <3>1. res \in {Result(k = Len(args), c, m.vec, k) : k \in StoredCounts(args, m.vec)}
        BY <2>2, <2>4 DEF Parsed
      <3>2. PICK k \in StoredCounts(args, m.vec) : res = Result(k = Len(args), c, m.vec, k)
        BY <3>1
      <3>3. ByMatch(r, t, anchor, consuming, args, m, k, res)
        BY <1>4, <2>4, <3>2 DEF ByMatch
      <3> QED
        BY <1>4, <3>3
    <2> QED
      BY <2>3, <2>4
  <1> QED
    BY <1>1, <1>2, <1>3, <1>4

\* A view that can be read shows a haystack.
LEMMA BytesAreHaystack ==
  ASSUME text \in Texts, NEW t \in Views, Readable(t)
  PROVE  BytesOf(t) \in Haystacks
  <1>1. text \in Seq(0..255) /\ Len(text) \in Nat
    BY TextsFit DEF Buffer
  <1>2. ASSUME NEW s \in SubSeqs(text)
        PROVE  s \in Haystacks
    <2>1. s \in Seq(0..255)
      BY <1>1, PiecesOfPiece
    <2>2. s = SubSeq(s, 0 + 1, Len(s)) /\ 0 \in 0..Len(s) /\ Len(s) \in 0..Len(s) /\ 0 <= Len(s)
      BY <2>1
    <2>3. SubSeq(s, 0 + 1, Len(s)) \in SubSeqs(s)
      BY <2>1, <2>2, Pieces
    <2>4. s \in SubSeqs(s)
      BY <2>2, <2>3, Zenon
    <2>5. s \in UNION {SubSeqs(u) : u \in Texts}
      OBVIOUS
    <2>6. \A h : h \in SubSeqs(s) \cup SubSeqs(ConvertLatin1ToUTF8(s)) => h \in Haystacks
      BY <2>5, Zenon DEF Haystacks
    <2> QED
      BY <2>4, <2>6
  <1>3. CASE t = NullView
    <2>1. BytesOf(t) = <<>>
      BY <1>3 DEF BytesOf
    <2>2. 0 \in 0..Len(text) /\ 0 <= 0
      BY <1>1
    <2>3. SubSeq(text, 0 + 1, 0) \in SubSeqs(text)
      BY <1>1, <2>2, Pieces
    <2>4. SubSeq(text, 0 + 1, 0) = <<>>
      BY <1>1, NoPiece
    <2> QED
      BY <1>2, <2>1, <2>3, <2>4
  <1>4. CASE t # NullView
    <2>1. TextView(t)
      BY <1>4 DEF Readable, TextView
    <2> QED
      BY <1>2, <2>1, TextsFit, BytesShown
  <1> QED
    BY <1>3, <1>4

\* The empty argument list among all.
LEMMA ArgListsSay ==
  ASSUME NEW args \in ArgLists
  PROVE  /\ Len(args) \in 0..MaxArgs /\ args \in Seq({"str", "int"})
         /\ args = <<>> <=> Len(args) = 0
  <1>1. PICK n \in 0..MaxArgs : args \in [1..n -> {"str", "int"}]
    BY DEF ArgLists
  <1>2. MaxArgs \in Nat /\ n \in Nat
    BY ValuesAssumption
  <1>3. args \in Seq({"str", "int"}) /\ Len(args) = n
    BY <1>1, <1>2
  <1> QED
    BY <1>3

DoMatchGives(r, t, args, res) ==
  /\ res.ret \in BOOLEAN /\ res.consumed \in Nat
  /\ res.stored \in 0..Len(args)
  /\ \A i \in 1..res.stored : Kept(r, res.vec[i + 1])

\* DoMatch stores views for as many arguments as it has, and gives a number to consume.
LEMMA DoMatchSays ==
  ASSUME text \in Texts, NEW t \in Views, Readable(t), NEW r, IsRE2(r), NEW anchor \in Anchors,
         NEW consuming \in BOOLEAN, NEW args \in ArgLists,
         AsksSuffix(r, consuming, args) => r.suffix # NULL,
         NEW res \in DoMatch(r, t, anchor, consuming, args)
  PROVE  DoMatchGives(r, t, args, res)
  <1>0. Len(args) \in Nat /\ t.data \in Nat /\ t.size \in Nat /\ AddrSpace \in Nat /\ AddrSpace # 0
    BY ArgListsSay, ValuesAssumption, WidthAssumption DEF Views
  <1>1. CASE res = Refused
    BY <1>0, <1>1 DEF Refused, Result, DoMatchGives
  <1>2. CASE BySuffix(r, t, consuming, args, res) /\ r.ok
    <2> DEFINE c == Captures(r.suffix, BytesOf(t))
    <2>1. c # <<>> /\ res = Result(TRUE, c[1][2], <<>>, 0)
      BY <1>2 DEF BySuffix
    <2>2. SpansIn(c, Len(BytesOf(t)))
      <3>1. r.suffix # NULL
        BY <1>2 DEF BySuffix
      <3> QED
        BY <1>2, <3>1, BytesAreHaystack, RE2Says DEF RE2Programs, FindsIn
    <2>3. \E a, b \in 0..Len(BytesOf(t)) : a <= b /\ c[1] = <<a, b>>
      BY <2>1, <2>2 DEF SpansIn
    <2>4. c[1][2] \in Nat
      BY <2>3
    <2> QED
      BY <1>0, <2>1, <2>4 DEF Result, DoMatchGives
  <1>3. CASE ByEntire(r, t, anchor, args, res)
    BY <1>0, <1>3 DEF ByEntire, Result, DoMatchGives
  <1>4. ASSUME NEW m, NEW k, ByMatch(r, t, anchor, consuming, args, m, k, res)
        PROVE  DoMatchGives(r, t, args, res)
    <2> DEFINE n == NVec(consuming, args)
    <2>1. /\ n \in Nat /\ (consuming => n >= 1) /\ (args # <<>> => n = Len(args) + 1)
      BY <1>0 DEF NVec
    <2>2. Fresh(n) \in [1..n -> Views] /\ \A i \in 1..n : Fresh(n)[i] = NullView
      BY NullKept DEF Fresh, Kept
    <2>3. MatchGives(r, t, anchor, n, Fresh(n), m)
      <3>1. m = Match(r, t, 0, t.size, anchor, Fresh(n))
        BY <1>4 DEF ByMatch
      <3> HIDE DEF n
      <3> QED
        BY <2>1, <2>2, <3>1, MatchSays
    <2>4. /\ k \in 0..Len(args)
          /\ res = Result(k = Len(args),
                     IF consuming THEN (m.vec[1].data + m.vec[1].size - t.data) % AddrSpace ELSE 0,
                     m.vec, k)
      BY <1>4 DEF ByMatch, StoredCounts
    <2> HIDE DEF n
    <2>5. \A i \in 1..n : Kept(r, m.vec[i])
      BY <2>2, <2>3, NullKept DEF MatchGives
    <2>6. ASSUME NEW i \in 1..k
          PROVE  Kept(r, m.vec[i + 1])
      <3>1. args # <<>> /\ i + 1 \in 1..Len(args) + 1
        BY <1>0, <2>4, ArgListsSay
      <3> QED
        BY <2>1, <2>5, <3>1
    <2>7. consuming => (m.vec[1].data + m.vec[1].size - t.data) % AddrSpace \in Nat
      <3>1. ASSUME consuming
            PROVE  m.vec[1].data \in Nat /\ m.vec[1].size \in Nat
        <4>1. 1 \in 1..n
          BY <2>1, <3>1
        <4>2. m.vec[1] \in Views
          BY <2>5, <4>1 DEF Kept
        <4> QED
          BY <1>0, <4>2 DEF Views
      <3>2. ASSUME NEW d \in Nat, NEW s \in Nat, NEW e \in Nat, NEW A \in Nat, A # 0
            PROVE  (d + s - e) % A \in Nat
        <4>1. d + s - e \in Int
          OBVIOUS
        <4> QED
          BY <3>2, <4>1
      <3> QED
        BY <1>0, <3>1, <3>2
    <2>8. /\ res.ret = (k = Len(args)) /\ res.stored = k /\ res.vec = m.vec
          /\ res.consumed = IF consuming THEN (m.vec[1].data + m.vec[1].size - t.data) % AddrSpace
                            ELSE 0
      BY <2>4 DEF Result
    <2> QED
      <3>1. res.ret \in BOOLEAN
        BY <2>8
      <3>2. res.consumed \in Nat
        BY <2>7, <2>8
      <3>3. res.stored \in 0..Len(args)
        BY <2>4, <2>8
      <3>4. \A i \in 1..res.stored : Kept(r, res.vec[i + 1])
        BY <2>6, <2>8
      <3> QED
        BY <3>1, <3>2, <3>3, <3>4 DEF DoMatchGives
  <1> QED
    BY <1>1, <1>2, <1>3, <1>4, DoMatchWays
------------------------------------------------------------------------------
(***************************************************************************)
(* The invariant.                                                          *)
(***************************************************************************)
IndInv == IsRE2(re) /\ TypeOK /\ CapturesInText

Ops == {"none", "FullMatch", "PartialMatch", "Consume", "FindAndConsume", "Match"}

\* The pointees of a call that have been stored, for the theorems about one step.
Stores(res) == [i \in 0..MaxArgs |-> IF i \in 1..res.stored THEN res.vec[i + 1] ELSE Unset]

\* There are views, the unset pointee among them, and there are arguments.
LEMMA Views0 ==
  ASSUME text \in Texts
  PROVE  /\ Unset \in Views /\ NullView \in Views /\ WholeText \in Views /\ <<>> \in ArgLists
         /\ NoOuts \in [0..MaxArgs -> Views] /\ MaxArgs \in Nat
         /\ NoCall \in [op : Ops, args : ArgLists, ret : BOOLEAN]
         /\ AddrSpace \in Nat /\ AddrSpace # 0
  <1>1. /\ AddrSpace \in Nat /\ Base \in Nat /\ Base # 0 /\ Len(text) \in Nat
        /\ Base + Len(text) < AddrSpace /\ MaxArgs \in Nat
    BY TextsFit, WidthAssumption, ValuesAssumption DEF Buffer
  <1>2. \A d, n \in 0..AddrSpace - 1 : View(d, n) \in Views
    BY DEF View, Views
  <1>3. /\ 0 \in 0..AddrSpace - 1 /\ 1 \in 0..AddrSpace - 1
        /\ Base \in 0..AddrSpace - 1 /\ Len(text) \in 0..AddrSpace - 1
    BY <1>1
  <1>4. Unset \in Views /\ NullView \in Views /\ WholeText \in Views
    BY <1>2, <1>3 DEF Unset, NullView, WholeText
  <1>5. <<>> \in ArgLists
    <2>1. <<>> \in [1..0 -> {"str", "int"}] /\ 0 \in 0..MaxArgs
      BY <1>1
    <2> QED
      BY <2>1 DEF ArgLists
  <1> QED
    BY <1>1, <1>4, <1>5 DEF NoOuts, NoCall, Ops

\* The moves of a view give views.
LEMMA MovesGiveViews ==
  ASSUME text \in Texts, NEW v \in Views, NEW n \in Nat
  PROVE  /\ RemovePrefix(v, n) \in Views /\ RemoveSuffix(v, n) \in Views
         /\ \A pos \in Nat : Substr(v, pos, n) \in Views
  <1>1. AddrSpace \in Nat /\ AddrSpace # 0
    BY Views0
  <1>2. v.data \in 0..AddrSpace - 1 /\ v.size \in 0..AddrSpace - 1
    BY DEF Views
  <1>3. \A i, j \in Nat : Plus(i, j) \in 0..AddrSpace - 1
    <2>1. \A i, j \in Nat : (i + j) % AddrSpace \in 0..AddrSpace - 1
      BY <1>1
    <2> QED
      BY <2>1 DEF Plus
  <1>4. \A i, j \in Nat : Minus(i, j) \in 0..AddrSpace - 1
    <2>1. \A i, j \in Nat : (i - j) % AddrSpace \in 0..AddrSpace - 1
      <3>1. ASSUME NEW i \in Nat, NEW j \in Nat
            PROVE  (i - j) % AddrSpace \in 0..AddrSpace - 1
        <4>1. i - j \in Int
          OBVIOUS
        <4> QED
          BY <1>1, <4>1
      <3> QED
        BY <3>1
    <2> QED
      BY <2>1 DEF Minus
  <1>5. v.data \in Nat /\ v.size \in Nat
    BY <1>1, <1>2
  <1>6. \A d, k \in 0..AddrSpace - 1 : View(d, k) \in Views
    BY DEF View, Views
  <1>7. RemovePrefix(v, n) \in Views /\ RemoveSuffix(v, n) \in Views
    BY <1>2, <1>3, <1>4, <1>5, <1>6 DEF RemovePrefix, RemoveSuffix
  <1>8. ASSUME NEW pos \in Nat
        PROVE  Substr(v, pos, n) \in Views
    <2> DEFINE from == SmallerOf(pos, v.size)
               len == SmallerOf(n, v.size - from)
    <2>1. from \in Nat /\ from <= v.size
      BY <1>5 DEF SmallerOf
    <2>2. Substr(v, pos, n) = View(Plus(v.data, from), len)
      BY DEF Substr
    <2> HIDE DEF from
    <2>3. len \in 0..AddrSpace - 1
      BY <1>1, <1>2, <1>5, <2>1 DEF SmallerOf
    <2> HIDE DEF len
    <2>4. Plus(v.data, from) \in 0..AddrSpace - 1
      BY <1>3, <1>5, <2>1
    <2> QED
      BY <1>6, <2>2, <2>3, <2>4
  <1> QED
    BY <1>7, <1>8

\* What one call of the DoMatch family leaves.
LEMMA CallSays ==
  ASSUME IndInv, NEW op \in Ops, NEW anchor \in Anchors, NEW consuming \in BOOLEAN,
         NEW args \in ArgLists, Call(op, anchor, consuming, args)
  PROVE  /\ re' = re /\ text' = text /\ Readable(input)
         /\ AsksSuffix(re, consuming, args) => re.suffix # NULL
         /\ \E res \in DoMatch(re, input, anchor, consuming, args) :
              /\ DoMatchGives(re, input, args, res)
              /\ last' = [op |-> op, args |-> args, ret |-> res.ret]
              /\ outs' = Stores(res)
              /\ input' = IF consuming /\ res.ret THEN RemovePrefix(input, res.consumed) ELSE input
         /\ last' \in [op : Ops, args : ArgLists, ret : BOOLEAN]
         /\ outs' \in [0..MaxArgs -> Views] /\ input' \in Views
         /\ \A i \in 0..MaxArgs : outs'[i] = Unset \/ Kept(re, outs'[i])
  <1>1. /\ text \in Texts /\ input \in Views /\ IsRE2(re)
    BY DEF IndInv, TypeOK
  <1>2. /\ re' = re /\ text' = text /\ Readable(input)
        /\ AsksSuffix(re, consuming, args) => re.suffix # NULL
    BY DEF Call, Defined
  <1>3. PICK res \in DoMatch(re, input, anchor, consuming, args) :
          /\ last' = [op |-> op, args |-> args, ret |-> res.ret]
          /\ outs' = Stores(res)
          /\ input' = IF consuming /\ res.ret THEN RemovePrefix(input, res.consumed) ELSE input
    BY DEF Call, Stores
  <1>4. DoMatchGives(re, input, args, res)
    BY <1>1, <1>2, DoMatchSays
  <1>5. last' \in [op : Ops, args : ArgLists, ret : BOOLEAN]
    BY <1>3, <1>4 DEF DoMatchGives
  <1>6. input' \in Views
    BY <1>1, <1>3, <1>4, MovesGiveViews DEF DoMatchGives
  <1>7. \A i \in 0..MaxArgs : outs'[i] = Unset \/ Kept(re, outs'[i])
    <2>1. ASSUME NEW i \in 0..MaxArgs
          PROVE  outs'[i] = Unset \/ Kept(re, outs'[i])
      <3>1. outs'[i] = IF i \in 1..res.stored THEN res.vec[i + 1] ELSE Unset
        BY <1>3 DEF Stores
      <3> QED
        BY <1>4, <3>1 DEF DoMatchGives
    <2> QED
      BY <2>1
  <1>8. outs' \in [0..MaxArgs -> Views]
    <2>1. \A i \in 0..MaxArgs : outs'[i] \in Views
      BY <1>1, <1>7, Views0 DEF Kept
    <2>2. outs' = [i \in 0..MaxArgs |-> outs'[i]]
      BY <1>3 DEF Stores
    <2> QED
      BY <2>1, <2>2
  <1> QED
    BY <1>2, <1>3, <1>4, <1>5, <1>6, <1>7, <1>8

\* The client starts with an object that RE2::Init has left, and holds nothing.
LEMMA InitInv == Init => IndInv
  <1> SUFFICES ASSUME Init PROVE IndInv
    OBVIOUS
  <1>1. IsRE2(re) /\ text \in Texts
    BY DEF Init, IsRE2
  <1>2. RE2Fields(re)
    BY <1>1, RE2Says
  <1>3. TypeOK
    BY <1>1, <1>2, Views0 DEF Init, TypeOK, RE2Fields, Ops
  <1>4. CapturesInText
    BY DEF Init, CapturesInText, NoOuts
  <1> QED
    BY <1>1, <1>3, <1>4 DEF IndInv

\* What it takes for a step to keep the invariant.
LEMMA InvKept ==
  ASSUME IndInv, re' = re, text' = text,
         input' \in Views, outs' \in [0..MaxArgs -> Views],
         last' \in [op : Ops, args : ArgLists, ret : BOOLEAN],
         scan' \in ArgLists \cup {NoScan},
         \A i \in 0..MaxArgs : outs'[i] = Unset \/ Kept(re, outs'[i]) \/ outs'[i] = outs[i]
  PROVE  IndInv'
  <1>1. IsRE2(re') /\ TypeOK'
    BY DEF IndInv, TypeOK, Ops
  <1>2. CapturesInText'
    <2> SUFFICES ASSUME Utf8Regexp', NEW i \in DOMAIN outs'
                 PROVE  (outs[i] = Unset \/ Readable(outs[i]))'
      BY DEF CapturesInText
    <2>1. i \in 0..MaxArgs /\ i \in DOMAIN outs /\ ~re.options.latin1
      BY DEF Utf8Regexp, IndInv, TypeOK
    <2>2. outs'[i] = Unset \/ Readable(outs'[i])
      BY <2>1 DEF Kept, IndInv, CapturesInText, Utf8Regexp
    <2>3. Readable(outs[i])' <=> Readable(outs'[i])
      BY DEF Readable, InText
    <2> QED
      BY <2>2, <2>3
  <1> QED
    BY <1>1, <1>2 DEF IndInv, IsRE2

\* Each action keeps the invariant.
LEMMA NextInv == IndInv /\ [Next]_vars => IndInv'
  <1> SUFFICES ASSUME IndInv, [Next]_vars PROVE IndInv'
    OBVIOUS
  <1>0. /\ text \in Texts /\ input \in Views /\ outs \in [0..MaxArgs -> Views]
        /\ last \in [op : Ops, args : ArgLists, ret : BOOLEAN]
        /\ scan \in ArgLists \cup {NoScan} /\ IsRE2(re)
    BY DEF IndInv, TypeOK, Ops
  <1>a. /\ NoCall \in [op : Ops, args : ArgLists, ret : BOOLEAN] /\ NoOuts \in [0..MaxArgs -> Views]
        /\ <<>> \in ArgLists /\ MaxArgs \in Nat /\ WholeText \in Views /\ NullView \in Views
    BY <1>0, Views0
  <1>b. ASSUME NEW op \in Ops, NEW anchor \in Anchors, NEW consuming \in BOOLEAN,
               NEW args \in ArgLists, Call(op, anchor, consuming, args),
               scan' \in ArgLists \cup {NoScan}
        PROVE  IndInv'
    BY <1>b, CallSays, InvKept
  <1>c. /\ {"FullMatch", "PartialMatch", "Consume", "FindAndConsume"} \subseteq Ops
        /\ "UNANCHORED" \in Anchors /\ "ANCHOR_START" \in Anchors /\ "ANCHOR_BOTH" \in Anchors
        /\ TRUE \in BOOLEAN /\ FALSE \in BOOLEAN /\ "Match" \in Ops
    BY DEF Ops, Anchors
  <1>1. ASSUME NEW args \in ArgLists, FullMatch(args)
        PROVE  IndInv'
    <2>1. Call("FullMatch", "ANCHOR_BOTH", FALSE, args) /\ scan' = scan
      BY <1>1 DEF FullMatch
    <2> QED
      BY <1>0, <1>b, <1>c, <2>1
  <1>2. ASSUME NEW args \in ArgLists, PartialMatch(args)
        PROVE  IndInv'
    <2>1. Call("PartialMatch", "UNANCHORED", FALSE, args) /\ scan' = scan
      BY <1>2 DEF PartialMatch
    <2> QED
      BY <1>0, <1>b, <1>c, <2>1
  <1>3. ASSUME NEW args \in ArgLists, Consume(args)
        PROVE  IndInv'
    <2>1. Call("Consume", "ANCHOR_START", TRUE, args) /\ scan' = scan
      BY <1>3 DEF Consume
    <2> QED
      BY <1>0, <1>b, <1>c, <2>1
  <1>4. ASSUME NEW args \in ArgLists, FindAndConsume(args)
        PROVE  IndInv'
    <2>1. Call("FindAndConsume", "UNANCHORED", TRUE, args) /\ scan' = scan
      BY <1>4 DEF FindAndConsume
    <2> QED
      BY <1>0, <1>b, <1>c, <2>1
  <1>5. ASSUME NEW startpos, NEW endpos, NEW anchor \in Anchors, NEW n \in 0..MaxArgs + 1,
               MatchInto(startpos, endpos, anchor, n)
        PROVE  IndInv'
    <2> DEFINE vec == [i \in 1..n |-> Unset]
    <2>1. PICK m : m = Match(re, input, startpos, endpos, anchor, vec)
      OBVIOUS
    <2>2. /\ Readable(input)
          /\ last' = [op |-> "Match", args |-> <<>>, ret |-> m.ret]
          /\ outs' = [i \in 0..MaxArgs |-> IF i < n THEN m.vec[i + 1] ELSE Unset]
          /\ re' = re /\ text' = text /\ input' = input /\ scan' = scan
      BY <1>5, <2>1 DEF MatchInto
    <2>3. n \in Nat
      BY <1>a
    <2>4. vec \in [1..n -> Views] /\ \A i \in 1..n : vec[i] = Unset
      BY <1>0, Views0
    <2> HIDE DEF vec
    <2>5. MatchGives(re, input, anchor, n, vec, m)
      BY <1>0, <2>1, <2>2, <2>3, <2>4, MatchSays
    <2>6. last' \in [op : Ops, args : ArgLists, ret : BOOLEAN]
      BY <1>a, <1>c, <2>2, <2>5 DEF MatchGives
    <2>7. \A i \in 0..MaxArgs : outs'[i] \in Views /\ (outs'[i] = Unset \/ Kept(re, outs'[i]))
      <3>1. ASSUME NEW i \in 0..MaxArgs, i < n
            PROVE  m.vec[i + 1] \in Views /\ (m.vec[i + 1] = Unset \/ Kept(re, m.vec[i + 1]))
        <4>1. i + 1 \in 1..n
          BY <2>3, <3>1
        <4> QED
          BY <2>4, <2>5, <4>1 DEF MatchGives
      <3>2. Unset \in Views
        BY <1>0, Views0
      <3> QED
        BY <2>2, <3>1, <3>2
    <2>8. outs' \in [0..MaxArgs -> Views]
      <3>1. outs' = [i \in 0..MaxArgs |-> outs'[i]]
        BY <2>2
      <3> QED
        BY <2>7, <3>1
    <2> QED
      BY <1>0, <2>2, <2>6, <2>7, <2>8, InvKept
  <1>6. ASSUME NEW v \in Views, SetInput(v)
        PROVE  IndInv'
    <2>1. /\ input' = v /\ re' = re /\ text' = text /\ outs' = outs /\ last' = last /\ scan' = scan
      BY <1>6 DEF SetInput
    <2> QED
      BY <1>0, <2>1, InvKept
  <1>7. ASSUME NEW pos \in 0..MaxArgs, NEW n \in {1, npos}, TakeSubstr(pos, n)
        PROVE  IndInv'
    <2>1. pos \in Nat /\ n \in Nat
      <3>1. npos \in Nat
        BY <1>0, Views0 DEF npos
      <3> QED
        BY <1>a, <3>1
    <2>2. Substr(input, pos, n) \in Views
      BY <1>0, <2>1, MovesGiveViews
    <2> QED
      BY <1>6, <1>7, <2>2 DEF TakeSubstr
  <1>8. ASSUME DropSuffix(1)
        PROVE  IndInv'
    <2>1. RemoveSuffix(input, 1) \in Views
      BY <1>0, MovesGiveViews
    <2> QED
      BY <1>6, <1>8, <2>1 DEF DropSuffix
  <1>9. ASSUME Resume
        PROVE  IndInv'
    <2>1. /\ last' = NoCall /\ outs' = NoOuts
          /\ re' = re /\ text' = text /\ input' = input /\ scan' = scan
      BY <1>9 DEF Resume
    <2>2. \A i \in 0..MaxArgs : outs'[i] = Unset
      BY <2>1 DEF NoOuts
    <2> QED
      BY <1>0, <1>a, <2>1, <2>2, InvKept
  <1>10. ASSUME NEW args \in ArgLists, StartScan(args)
         PROVE  IndInv'
    <2>1. /\ scan' = args /\ re' = re /\ text' = text /\ input' = input /\ outs' = outs /\ last' = last
      BY <1>10 DEF StartScan
    <2> QED
      BY <1>0, <2>1, InvKept
  <1>11. ASSUME ScanStep
         PROVE  IndInv'
    <2>1. /\ scan # NoScan /\ Call("FindAndConsume", "UNANCHORED", TRUE, scan)
          /\ (scan' = scan \/ scan' = NoScan)
      BY <1>11 DEF ScanStep
    <2> QED
      BY <1>0, <1>b, <1>c, <2>1
  <1>12. ASSUME UNCHANGED vars
         PROVE  IndInv'
    <2>1. /\ re' = re /\ text' = text /\ input' = input /\ outs' = outs /\ last' = last /\ scan' = scan
      BY <1>12 DEF vars
    <2> QED
      BY <1>0, <2>1, InvKept
  <1>13. CASE Next
    <2>1. \/ \E args \in ArgLists :
               FullMatch(args) \/ PartialMatch(args) \/ Consume(args) \/ FindAndConsume(args)
          \/ \E anchor \in Anchors, n \in 0..MaxArgs + 1,
               offsets \in {<<0, 0>>, <<0, 1>>, <<1, 0>>} : MatchInto(offsets[1], offsets[2], anchor, n)
          \/ \E v \in {WholeText, NullView} : SetInput(v)
          \/ \E pos \in 0..MaxArgs, n \in {1, npos} : TakeSubstr(pos, n)
          \/ DropSuffix(1) \/ Resume
          \/ \E args \in ArgLists : StartScan(args)
          \/ ScanStep
      BY <1>13 DEF Next, Anchors
    <2>2. \A v \in {WholeText, NullView} : v \in Views
      BY <1>a
    <2> QED
      BY <1>1, <1>2, <1>3, <1>4, <1>5, <1>6, <1>7, <1>8, <1>9, <1>10, <1>11, <2>1, <2>2
  <1> QED
    BY <1>12, <1>13

\* The types of the client's state: the RE2 object is one that RE2::Init leaves, and every
\* view, the client's own and those it was given, has an address and a size.
THEOREM TypesHold == Spec => []TypeOK
  <1>1. IndInv => TypeOK
    BY DEF IndInv
  <1> QED
    BY <1>1, InitInv, NextInv, PTL DEF Spec

\* Under UTF-8 every submatch and every pointee lies in the text or is null, whatever calls
\* came before and whatever they returned (re2.cc, Match and DoMatch).
THEOREM CapturesStayInText == Spec => []CapturesInText
  <1>1. IndInv => CapturesInText
    BY DEF IndInv
  <1> QED
    BY <1>1, InitInv, NextInv, PTL DEF Spec
------------------------------------------------------------------------------
(***************************************************************************)
(* Comparing and searching through views.                                  *)
(***************************************************************************)

\* Comparing and searching through views is comparing and searching the bytes they show
\* (stringpiece.h, stringpiece.cc).
THEOREM SearchesAgreeAlways == Spec => []SearchesAgree
  <1>1. ASSUME IndInv
        PROVE  SearchesAgree
    <2> SUFFICES ASSUME InText(input)
                 PROVE  /\ SubstrWithin(input)
                        /\ \A x \in Within(WholeText) :
                             OrderAgrees(input, x) /\ SearchAgrees(input, x) /\ CharSearchAgrees(input, x)
      BY DEF SearchesAgree
    <2>1. text \in Texts /\ Buffer /\ TextView(input)
      BY <1>1, TextsFit DEF IndInv, TypeOK, TextView
    <2>2. ASSUME NEW x \in Within(WholeText)
          PROVE  TextView(x)
      <3>1. /\ Base \in Nat /\ Len(text) \in Nat /\ AddrSpace \in Nat
            /\ Base + Len(text) < AddrSpace /\ Base # 0
        BY <2>1, WidthAssumption DEF Buffer
      <3>2. WholeText.data = Base /\ WholeText.size = Len(text)
        BY DEF WholeText, View
      <3>3. PICK k, n \in 0..Len(text) : x = View(Base + k, n)
        BY <3>2 DEF Within
      <3>4. x.data = Base + k /\ x.size = n
        BY <3>3 DEF View
      <3>5. x.data + x.size <= Base + Len(text)
        BY <3>2 DEF Within
      <3>6. Base + k + n <= Base + Len(text)
        BY <3>4, <3>5
      <3>7. Base + k \in 0..AddrSpace - 1 /\ n \in 0..AddrSpace - 1 /\ Base + k >= Base
        BY <3>1, <3>6
      <3>8. x \in Views
        BY <3>3, <3>7 DEF View, Views
      <3> QED
        BY <3>4, <3>5, <3>7, <3>8 DEF TextView, InText
    <2> QED
      BY <2>1, <2>2, SubstrIsWithin, OrdersAgree, SearchesShow
  <1> QED
    BY <1>1, InitInv, NextInv, PTL DEF Spec
------------------------------------------------------------------------------
(***************************************************************************)
(* What a call consumes.                                                   *)
(***************************************************************************)

\* The position that a call consumes to is where its match ends.
LEMMA EndConsumed ==
  ASSUME text \in Texts, NEW t, TextView(t), NEW r, ~r.options.latin1,
         NEW h, Searches(r, t, h), NEW c, SpansIn(c, Len(h)), c # <<>>
  PROVE  LET v == SubmatchView(r, t, c, 1)
         IN (v.data + v.size - t.data) % AddrSpace = c[1][2] /\ c[1][2] \in 0..t.size
  <1>0. /\ t.size \in Nat /\ t.data \in Nat /\ AddrSpace \in Nat
        /\ t.data + t.size < AddrSpace /\ Len(h) \in Nat
    BY TextsFit, ViewNumbers DEF Searches
  <1>1. 1 \in DOMAIN c /\ c[1] # <<>>
    BY DEF SpansIn
  <1>2. ShowsSpan(r, t, h, c, 1)
    BY <1>1, SubmatchSays
  <1>3. \E a, b \in 0..Len(h) :
          /\ a <= b /\ c[1] = <<a, b>> /\ b <= t.size
          /\ SubmatchView(r, t, c, 1) = View(t.data + a, b - a)
    BY <1>2, Zenon DEF ShowsSpan
  <1>4. PICK a, b \in 0..Len(h) : /\ a <= b /\ c[1] = <<a, b>> /\ b <= t.size
                                  /\ SubmatchView(r, t, c, 1) = View(t.data + a, b - a)
    BY <1>3, Zenon
  <1>5. a \in Nat /\ b \in Nat /\ c[1][2] = b
    BY <1>0, <1>4
  <1>6. PICK v : v = SubmatchView(r, t, c, 1)
    OBVIOUS
  <1>7. v.data = t.data + a /\ v.size = b - a
    BY <1>4, <1>6 DEF View
  <1>8. PICK d \in Nat, n \in Nat, A \in Nat : d = t.data /\ n = t.size /\ A = AddrSpace
    BY <1>0
  <1>9. d + a + (b - a) - d = b /\ b < A /\ b \in 0..n
    BY <1>0, <1>4, <1>5, <1>8
  <1>10. b % A = b
    BY <1>5, <1>9, NoWrap
  <1> QED
    BY <1>5, <1>6, <1>7, <1>8, <1>9, <1>10

\* When the general path of DoMatch answers, with an array of submatches, Match has found
\* something in a haystack.
LEMMA ByMatchFinds ==
  ASSUME text \in Texts, NEW t, TextView(t), NEW r, IsRE2(r), r.ok, NEW anchor \in Anchors,
         NEW consuming \in BOOLEAN, NEW args \in ArgLists, consuming \/ args # <<>>,
         ~(r.ncap < Len(args)), NEW m, NEW k, NEW res,
         ByMatch(r, t, anchor, consuming, args, m, k, res)
  PROVE  /\ Len(args) + 1 \in Nat /\ 1 \in 1..Len(args) + 1
         /\ \E h \in Haystacks : Found(r, t, anchor, Len(args) + 1, h, m.vec)
  <1>0. /\ Readable(t) /\ t \in Views /\ RE2Programs(r)
        /\ t.size \in Nat /\ Len(BytesOf(t)) = t.size /\ BytesOf(t) \in Seq(0..255)
    BY TextsFit, ViewNumbers, BytesShown, RE2Says DEF TextView, Readable
  <1> DEFINE n == Len(args) + 1
  <1>1. /\ m = Match(r, t, 0, t.size, anchor, Fresh(n)) /\ m.ret
        /\ SuffixMatch(r, t, consuming, args) = <<>>
    BY DEF ByMatch, NVec
  <1>2. n \in Nat /\ n # 0 /\ 1 \in 1..n /\ Len(args) \in Nat
    BY ArgListsSay, ValuesAssumption
  <1>3. Fresh(n) \in [1..n -> Views]
    BY NullKept DEF Fresh, Kept
  <1> HIDE DEF n
  <1>4. MatchGives(r, t, anchor, n, Fresh(n), m)
    BY <1>0, <1>1, <1>2, <1>3, MatchSays
  <1>5. ~TrivialMatch(r, t)
    <2> SUFFICES ASSUME TrivialMatch(r, t) PROVE FALSE
      OBVIOUS
    <2>1. r.ncap = 0 /\ Captures(r.suffix, <<>>) # <<>> /\ t.size = 0
      BY <1>0 DEF TrivialMatch, RE2Programs
    <2>2. Len(args) = 0
      BY <1>2, <2>1
    <2>3. args = <<>>
      BY <2>2, ArgListsSay
    <2>4. SuffixMatch(r, t, consuming, args) = Captures(r.suffix, BytesOf(t))
      BY <2>3 DEF SuffixMatch, AsksSuffix
    <2>5. BytesOf(t) = <<>>
      BY <1>0, <2>1
    <2> QED
      BY <1>1, <2>1, <2>4, <2>5
  <1>6. \E h \in Haystacks : Found(r, t, anchor, n, h, m.vec)
    BY <1>1, <1>2, <1>4, <1>5 DEF MatchGives, TextView
  <1> QED
    BY <1>2, <1>6 DEF n

\* For a UTF-8 regexp, a call that consumes takes no more than it has; or nothing was
\* found, and Consume did not notice.
LEMMA ConsumedSays ==
  ASSUME text \in Texts, NEW t, TextView(t), NEW r, IsRE2(r), NEW anchor \in Anchors,
         NEW args \in ArgLists, anchor # "ANCHOR_BOTH", ~r.options.latin1,
         AsksSuffix(r, TRUE, args) => r.suffix # NULL,
         NEW res \in DoMatch(r, t, anchor, TRUE, args), res.ret
  PROVE  \/ res.consumed \in 0..t.size
         \/ anchor = "ANCHOR_START" /\ Captures(r.prog, CString(BytesOf(t))) = <<>>
  <1>0. /\ Readable(t) /\ t \in Views /\ RE2Programs(r)
        /\ t.size \in Nat /\ Len(BytesOf(t)) = t.size
    BY TextsFit, ViewNumbers, BytesShown, RE2Says DEF TextView, Readable
  <1>1. res # Refused
    <2>1. Refused.ret = FALSE
      BY DEF Refused, Result
    <2> QED
      BY <2>1
  <1>2. CASE BySuffix(r, t, TRUE, args, res) /\ r.ok
    <2> DEFINE c == Captures(r.suffix, BytesOf(t))
    <2>1. c # <<>> /\ res.consumed = c[1][2]
      BY <1>2 DEF BySuffix, Result
    <2>2. SpansIn(c, t.size)
      <3>1. r.suffix # NULL
        BY <1>2 DEF BySuffix
      <3> QED
        BY <1>0, <1>2, <3>1, BytesAreHaystack DEF RE2Programs, FindsIn
    <2>3. \E a, b \in 0..t.size : a <= b /\ c[1] = <<a, b>>
      BY <2>1, <2>2 DEF SpansIn
    <2> QED
      BY <2>1, <2>3
  <1>3. CASE ByEntire(r, t, anchor, args, res)
    BY <1>3 DEF ByEntire, AsksEntire
  <1>4. ASSUME NEW m, NEW k, ByMatch(r, t, anchor, TRUE, args, m, k, res), r.ok, ~(r.ncap < Len(args))
        PROVE  \/ res.consumed \in 0..t.size
               \/ anchor = "ANCHOR_START" /\ Captures(r.prog, CString(BytesOf(t))) = <<>>
    <2> DEFINE n == Len(args) + 1
    <2>1. 1 \in 1..n /\ \E h \in Haystacks : Found(r, t, anchor, n, h, m.vec)
      <3>1. TRUE \in BOOLEAN
        OBVIOUS
      <3> QED
        BY <1>4, <3>1, ByMatchFinds
    <2>2. PICK h \in Haystacks : Found(r, t, anchor, n, h, m.vec)
      BY <2>1
    <2>3. res.consumed = (m.vec[1].data + m.vec[1].size - t.data) % AddrSpace
      BY <1>4 DEF ByMatch, Result
    <2> DEFINE c == Captures(r.prog, h)
    <2>4. SpansIn(c, Len(h)) /\ Searches(r, t, h)
      BY <1>0, <1>4, <2>2 DEF RE2Programs, FindsIn, Found
    <2>5. m.vec[1] = SubmatchView(r, t, c, 1)
      BY <2>1, <2>2 DEF Found
    <2>6. CASE c # <<>>
      <3> HIDE DEF c, n
      <3>1. LET v == SubmatchView(r, t, c, 1)
            IN (v.data + v.size - t.data) % AddrSpace = c[1][2] /\ c[1][2] \in 0..t.size
        BY <2>4, <2>6, EndConsumed
      <3> QED
        BY <2>3, <2>5, <3>1
    <2>7. CASE c = <<>>
      <3>1. h = CString(BytesOf(t))
        BY <2>4, <2>7 DEF Searches, Encoded
      <3>2. anchor = "ANCHOR_START"
        BY <2>2, <2>7 DEF Found, AnchorAccepts, Anchors
      <3> QED
        BY <2>7, <3>1, <3>2
    <2> QED
      BY <2>6, <2>7
  <1> QED
    BY <1>1, <1>2, <1>3, <1>4, DoMatchWays

\* The four entries to DoMatch.
IsCall(op, anchor, consuming) ==
  \/ op = "FullMatch" /\ anchor = "ANCHOR_BOTH" /\ consuming = FALSE
  \/ op = "PartialMatch" /\ anchor = "UNANCHORED" /\ consuming = FALSE
  \/ op = "Consume" /\ anchor = "ANCHOR_START" /\ consuming = TRUE
  \/ op = "FindAndConsume" /\ anchor = "UNANCHORED" /\ consuming = TRUE

\* Every step is a call through one of them, a call of Match, or none.
LEMMA StepsSay ==
  ASSUME IndInv, [Next]_vars
  PROVE  \/ UNCHANGED vars
         \/ last'.op = "none"
         \/ /\ last'.op = "Match"
            /\ \E startpos, endpos : \E anchor \in Anchors, n \in 0..MaxArgs + 1 :
                 MatchInto(startpos, endpos, anchor, n)
         \/ \E op \in Ops, anchor \in Anchors, consuming \in BOOLEAN, args \in ArgLists :
              IsCall(op, anchor, consuming) /\ Call(op, anchor, consuming, args)
  <1> DEFINE Calls == \E op \in Ops, anchor \in Anchors, consuming \in BOOLEAN, args \in ArgLists :
                        IsCall(op, anchor, consuming) /\ Call(op, anchor, consuming, args)
  <1>0. /\ {"FullMatch", "PartialMatch", "Consume", "FindAndConsume"} \subseteq Ops
        /\ "UNANCHORED" \in Anchors /\ "ANCHOR_START" \in Anchors /\ "ANCHOR_BOTH" \in Anchors
        /\ TRUE \in BOOLEAN /\ FALSE \in BOOLEAN
        /\ scan \in ArgLists \cup {NoScan} /\ NoCall.op = "none"
    BY DEF Ops, Anchors, IndInv, TypeOK, NoCall
  <1>1. ASSUME NEW args \in ArgLists, FullMatch(args) \/ PartialMatch(args)
        PROVE  Calls
    <2>1. \/ IsCall("FullMatch", "ANCHOR_BOTH", FALSE) /\ Call("FullMatch", "ANCHOR_BOTH", FALSE, args)
          \/ IsCall("PartialMatch", "UNANCHORED", FALSE) /\ Call("PartialMatch", "UNANCHORED", FALSE, args)
      BY <1>1 DEF FullMatch, PartialMatch, IsCall
    <2> QED
      BY <1>0, <2>1
  <1>2. ASSUME NEW args \in ArgLists, Consume(args) \/ FindAndConsume(args)
        PROVE  Calls
    <2>1. \/ IsCall("Consume", "ANCHOR_START", TRUE) /\ Call("Consume", "ANCHOR_START", TRUE, args)
          \/ /\ IsCall("FindAndConsume", "UNANCHORED", TRUE)
             /\ Call("FindAndConsume", "UNANCHORED", TRUE, args)
      BY <1>2 DEF Consume, FindAndConsume, IsCall
    <2> QED
      BY <1>0, <2>1
  <1>3. ASSUME ScanStep
        PROVE  Calls
    <2>1. /\ scan \in ArgLists /\ IsCall("FindAndConsume", "UNANCHORED", TRUE)
          /\ Call("FindAndConsume", "UNANCHORED", TRUE, scan)
      BY <1>0, <1>3 DEF ScanStep, IsCall
    <2> QED
      BY <1>0, <2>1
  <1> DEFINE Matching == \E startpos, endpos : \E anchor \in Anchors, n \in 0..MaxArgs + 1 :
                           MatchInto(startpos, endpos, anchor, n)
  <1>4. ASSUME NEW anchor \in Anchors, NEW n \in 0..MaxArgs + 1,
               NEW offsets \in {<<0, 0>>, <<0, 1>>, <<1, 0>>}, MatchInto(offsets[1], offsets[2], anchor, n)
        PROVE  Matching /\ last'.op = "Match"
    <2>1. Matching
      BY <1>4
    <2>2. last'.op = "Match"
      BY <1>4 DEF MatchInto
    <2> QED
      BY <2>1, <2>2
  <1>5. ASSUME NEW v, SetInput(v)
        PROVE  last'.op = "none"
    BY <1>0, <1>5 DEF SetInput, Idle
  <1>6. ASSUME NEW pos, NEW n, TakeSubstr(pos, n)
        PROVE  last'.op = "none"
    BY <1>5, <1>6 DEF TakeSubstr
  <1>7. ASSUME DropSuffix(1)
        PROVE  last'.op = "none"
    BY <1>5, <1>7 DEF DropSuffix
  <1>8. ASSUME Resume
        PROVE  last'.op = "none"
    BY <1>0, <1>8 DEF Resume
  <1>9. ASSUME NEW args \in ArgLists, StartScan(args)
        PROVE  last'.op = "none"
    BY <1>0, <1>9 DEF StartScan, Idle
  <1> HIDE DEF Calls, Matching
  <1>10. Next => Calls \/ (Matching /\ last'.op = "Match") \/ last'.op = "none"
    BY <1>1, <1>2, <1>3, <1>4, <1>5, <1>6, <1>7, <1>8, <1>9 DEF Next, Anchors
  <1> QED
    BY <1>10 DEF Calls, Matching

\* Taking a prefix off a view leaves a suffix of it.
LEMMA PrefixRemoved ==
  ASSUME text \in Texts, NEW v, TextView(v), NEW n \in 0..v.size
  PROVE  IsSuffixView(RemovePrefix(v, n), v)
  <1>1. /\ v.data \in Nat /\ v.size \in Nat /\ AddrSpace \in Nat /\ v.data + v.size < AddrSpace
    BY TextsFit, ViewNumbers
  <1>2. PICK d \in Nat, k \in Nat, A \in Nat : d = v.data /\ k = v.size /\ A = AddrSpace
    BY <1>1
  <1>3. n \in Nat /\ n <= k /\ d + k < A
    BY <1>1, <1>2
  <1>4. (d + n) % A = d + n /\ (k - n) % A = k - n
    <2>1. d + n \in Nat /\ d + n < A /\ k - n \in Nat /\ k - n < A
      BY <1>3
    <2> QED
      BY <2>1, NoWrap
  <1>5. RemovePrefix(v, n) = View(d + n, k - n)
    BY <1>2, <1>4 DEF RemovePrefix, Plus, Minus
  <1>6. RemovePrefix(v, n).data = d + n /\ RemovePrefix(v, n).size = k - n
    BY <1>5 DEF View
  <1>7. d + n >= d /\ d + n + (k - n) = d + k
    BY <1>3
  <1> QED
    BY <1>2, <1>6, <1>7 DEF IsSuffixView

ConsumesWithin ==
  Utf8Regexp /\ InText(input) /\ last'.op \in {"Consume", "FindAndConsume"}
  => \/ IsSuffixView(input', input)
     \/ /\ last'.op = "Consume" /\ last'.ret
        /\ Captures(re.prog, CString(BytesOf(input))) = <<>>

\* Under UTF-8 a call that consumes leaves the client with a suffix of the view it had, but
\* for a Consume that found nothing and returned true (re2.cc, Consume and FindAndConsume).
THEOREM CallsConsumeWithinText == Spec => ConsumesWithinText
  <1>1. ASSUME IndInv, [Next]_vars
        PROVE  [ConsumesWithin]_vars
    <2> SUFFICES ASSUME Utf8Regexp, InText(input), last'.op \in {"Consume", "FindAndConsume"},
                        ~UNCHANGED vars
                 PROVE  \/ IsSuffixView(input', input)
                        \/ /\ last'.op = "Consume" /\ last'.ret
                           /\ Captures(re.prog, CString(BytesOf(input))) = <<>>
      BY DEF ConsumesWithin
    <2>1. PICK op \in Ops, anchor \in Anchors, consuming \in BOOLEAN, args \in ArgLists :
            IsCall(op, anchor, consuming) /\ Call(op, anchor, consuming, args)
      BY <1>1, StepsSay
    <2>2. PICK res \in DoMatch(re, input, anchor, consuming, args) :
            /\ AsksSuffix(re, consuming, args) => re.suffix # NULL
            /\ last' = [op |-> op, args |-> args, ret |-> res.ret]
            /\ input' = IF consuming /\ res.ret THEN RemovePrefix(input, res.consumed) ELSE input
      BY <1>1, <2>1, CallSays
    <2>3. last'.op = op /\ last'.ret = res.ret
      BY <2>2
    <2>4. consuming = TRUE /\ anchor # "ANCHOR_BOTH" /\ (anchor = "ANCHOR_START" => op = "Consume")
      BY <2>1, <2>3 DEF IsCall
    <2>5. text \in Texts /\ TextView(input) /\ IsRE2(re) /\ ~re.options.latin1
      BY <1>1 DEF IndInv, TypeOK, TextView, Utf8Regexp
    <2>6. CASE res.ret
      <3>1. \/ res.consumed \in 0..input.size
            \/ anchor = "ANCHOR_START" /\ Captures(re.prog, CString(BytesOf(input))) = <<>>
        BY <2>2, <2>4, <2>5, <2>6, ConsumedSays
      <3>2. input' = RemovePrefix(input, res.consumed)
        BY <2>2, <2>4, <2>6
      <3>3. res.consumed \in 0..input.size => IsSuffixView(input', input)
        BY <2>5, <3>2, PrefixRemoved
      <3> QED
        BY <2>3, <2>4, <2>6, <3>1, <3>3
    <2>7. CASE ~res.ret
      <3>1. input' = input
        BY <2>2, <2>7
      <3>2. input.data \in Nat
        BY <2>5, TextsFit, ViewNumbers
      <3> QED
        BY <3>1, <3>2 DEF IsSuffixView
    <2> QED
      BY <2>6, <2>7
  <1> QED
    BY <1>1, InitInv, NextInv, PTL DEF Spec, ConsumesWithinText, ConsumesWithin
------------------------------------------------------------------------------
(***************************************************************************)
(* What a call stores.                                                     *)
(***************************************************************************)

\* A call that stores into a pointee has found a match, one of the whole haystack for
\* FullMatch.
LEMMA StoredSays ==
  ASSUME text \in Texts, NEW t, TextView(t), NEW r, IsRE2(r), NEW anchor \in Anchors,
         anchor # "ANCHOR_START", NEW consuming \in BOOLEAN, NEW args \in ArgLists,
         NEW res \in DoMatch(r, t, anchor, consuming, args), res.stored # 0
  PROVE  LET h == Haystack(r, t)[1]
             m == Captures(r.prog, h)
         IN m # <<>> /\ (anchor = "ANCHOR_BOTH" => m[1] = <<0, Len(h)>>)
  <1>1. res # Refused
    <2>1. Refused.stored = 0
      BY DEF Refused, Result
    <2> QED
      BY <2>1
  <1>2. ~BySuffix(r, t, consuming, args, res) /\ ~ByEntire(r, t, anchor, args, res)
    BY DEF BySuffix, ByEntire, Result
  <1>3. PICK m, k : ByMatch(r, t, anchor, consuming, args, m, k, res) /\ r.ok /\ ~(r.ncap < Len(args))
    BY <1>1, <1>2, DoMatchWays
  <1>4. args # <<>>
    <2>1. res.stored = k /\ k \in 0..Len(args)
      BY <1>3 DEF ByMatch, Result, StoredCounts
    <2>2. k # 0 /\ Len(args) \in Nat
      BY <2>1, ArgListsSay, ValuesAssumption
    <2>3. Len(args) # 0
      BY <2>1, <2>2
    <2> QED
      BY <2>3, ArgListsSay
  <1>5. PICK h \in Haystacks : Found(r, t, anchor, Len(args) + 1, h, m.vec)
    BY <1>3, <1>4, ByMatchFinds
  <1>6. Haystack(r, t)[1] = h /\ AnchorAccepts(anchor, Captures(r.prog, h), h)
    BY <1>5 DEF Found
  <1> QED
    BY <1>6 DEF AnchorAccepts, Anchors

StoresAfterMatch ==
  /\ last'.op \in {"FullMatch", "PartialMatch", "FindAndConsume"}
  /\ InText(input) /\ ~re.options.never_nl
  /\ \E i \in DOMAIN outs' : outs'[i] # Unset
  => LET h == Haystack(re, input)[1]
         m == Captures(re.prog, h)
     IN m # <<>> /\ (last'.op = "FullMatch" => m[1] = <<0, Len(h)>>)

\* Pointees are stored into only when the regexp matches (re2.cc DoMatch; re2.h:71).
THEOREM CallsStoreOnlyAfterMatch == Spec => StoresOnlyAfterMatch
  <1>1. ASSUME IndInv, [Next]_vars
        PROVE  [StoresAfterMatch]_vars
    <2> SUFFICES ASSUME last'.op \in {"FullMatch", "PartialMatch", "FindAndConsume"},
                        InText(input), NEW i \in DOMAIN outs', outs'[i] # Unset,
                        ~UNCHANGED vars
                 PROVE  LET h == Haystack(re, input)[1]
                            m == Captures(re.prog, h)
                        IN m # <<>> /\ (last'.op = "FullMatch" => m[1] = <<0, Len(h)>>)
      BY DEF StoresAfterMatch
    <2>1. PICK op \in Ops, anchor \in Anchors, consuming \in BOOLEAN, args \in ArgLists :
            IsCall(op, anchor, consuming) /\ Call(op, anchor, consuming, args)
      BY <1>1, StepsSay
    <2>2. PICK res \in DoMatch(re, input, anchor, consuming, args) :
            /\ last' = [op |-> op, args |-> args, ret |-> res.ret]
            /\ outs' = Stores(res)
            /\ DoMatchGives(re, input, args, res)
      BY <1>1, <2>1, CallSays
    <2>3. last'.op = op /\ anchor # "ANCHOR_START" /\ (op = "FullMatch" => anchor = "ANCHOR_BOTH")
      BY <2>1, <2>2 DEF IsCall
    <2>4. text \in Texts /\ TextView(input) /\ IsRE2(re)
      BY <1>1 DEF IndInv, TypeOK, TextView
    <2>5. res.stored # 0
      <3>1. outs'[i] = IF i \in 1..res.stored THEN res.vec[i + 1] ELSE Unset
        BY <2>2 DEF Stores
      <3> QED
        BY <3>1
    <2> QED
      BY <2>2, <2>3, <2>4, <2>5, StoredSays
  <1> QED
    BY <1>1, InitInv, NextInv, PTL DEF Spec, StoresOnlyAfterMatch, StoresAfterMatch
------------------------------------------------------------------------------
(***************************************************************************)
(* The shortcuts of DoMatch.                                               *)
(***************************************************************************)

\* Without never_nl, a UTF-8 regexp searches a text without NUL whole.
LEMMA WholeHaystack ==
  ASSUME text \in Texts, NEW t, TextView(t), NEW r, ~r.options.latin1, ~r.options.never_nl,
         NUL \notin ToSet(BytesOf(t))
  PROVE  Haystack(r, t) = <<BytesOf(t)>> /\ Searches(r, t, BytesOf(t))
  <1>1. BytesOf(t) \in Seq(0..255)
    BY TextsFit, BytesShown
  <1>2. CString(BytesOf(t)) = BytesOf(t)
    BY <1>1, CStringSays
  <1>3. Haystack(r, t) = <<BytesOf(t)>>
    BY <1>2 DEF Haystack, Encoded
  <1>4. PICK h \in Haystacks : Haystack(r, t) = <<h>> /\ Searches(r, t, h)
    BY HaystackSays
  <1>5. h = BytesOf(t)
    BY <1>3, <1>4
  <1> QED
    BY <1>3, <1>4, <1>5

\* entire_regexp_ never refuses what the general path accepts.
LEMMA FullFormsAgree ==
  ASSUME IndInv
  PROVE  FullMatchFormsAgree
  <1> SUFFICES ASSUME re.entire # NULL, ~re.options.latin1, ~re.options.never_nl, InText(input),
                      NUL \notin ToSet(BytesOf(input)), NEW args \in ArgLists,
                      NEW r \in DoMatch(re, input, "ANCHOR_BOTH", FALSE, args), r.ret,
                      NEW q \in DoMatch(re, input, "ANCHOR_BOTH", FALSE, <<>>)
               PROVE  q.ret
    BY DEF FullMatchFormsAgree, Utf8Regexp
  <1>0. text \in Texts /\ TextView(input) /\ IsRE2(re) /\ RE2Fields(re) /\ RE2Programs(re)
    BY RE2Says DEF IndInv, TypeOK, TextView
  <1>1. r # Refused
    <2>1. Refused.ret = FALSE
      BY DEF Refused, Result
    <2> QED
      BY <2>1
  <1>2. ~BySuffix(re, input, FALSE, args, r)
    BY DEF BySuffix, AsksSuffix
  <1>3. re.ok /\ re.ncap \in Nat
    BY <1>0, <1>1, DoMatchWays DEF RE2Fields
  <1>4. q = Result(Captures(re.entire, BytesOf(input)) # <<>>, 0, <<>>, 0)
    <2>1. /\ ~(re.ncap < Len(<<>>)) /\ AsksEntire(re, "ANCHOR_BOTH", <<>>)
          /\ SuffixMatch(re, input, FALSE, <<>>) = <<>>
      BY <1>3 DEF AsksEntire, SuffixMatch, AsksSuffix
    <2> QED
      BY <1>3, <2>1 DEF DoMatch
  <1>5. CASE ByEntire(re, input, "ANCHOR_BOTH", args, r)
    BY <1>4, <1>5 DEF ByEntire, Result
  <1>6. ASSUME NEW m, NEW k, ByMatch(re, input, "ANCHOR_BOTH", FALSE, args, m, k, r),
               ~(re.ncap < Len(args))
        PROVE  q.ret
    <2>1. args # <<>>
      BY <1>3, <1>6 DEF ByMatch, AsksEntire
    <2>2. PICK h \in Haystacks : Found(re, input, "ANCHOR_BOTH", Len(args) + 1, h, m.vec)
      <3>1. "ANCHOR_BOTH" \in Anchors /\ FALSE \in BOOLEAN
        BY DEF Anchors
      <3> QED
        BY <1>0, <1>3, <1>6, <2>1, <3>1, ByMatchFinds
    <2>3. h = BytesOf(input)
      <3>1. Haystack(re, input) = <<BytesOf(input)>>
        BY <1>0, WholeHaystack
      <3> QED
        BY <2>2, <3>1 DEF Found
    <2>4. MatchesAll(re.prog, h)
      BY <2>2 DEF Found, AnchorAccepts, MatchesAll
    <2>5. Captures(re.entire, h) # <<>>
      BY <1>0, <1>3, <2>4 DEF RE2Programs
    <2> QED
      BY <1>4, <2>3, <2>5 DEF Result
  <1> QED
    BY <1>1, <1>2, <1>5, <1>6, DoMatchWays

\* The shortcut for FullMatch without arguments never refuses a text that the general path
\* accepts, where entire_regexp_ is there (re2.cc DoMatch).
THEOREM FullMatchFormsAlwaysAgree == Spec => []FullMatchFormsAgree
  BY FullFormsAgree, InitInv, NextInv, PTL DEF Spec

\* What an unanchored call finds: the match c, if any, of all of the text.
Finds(c, consuming, res) ==
  /\ res.ret = (c # <<>>)
  /\ consuming => res.consumed = IF c # <<>> THEN c[1][2] ELSE 0

\* All string arguments are stored.
LEMMA StringsStored ==
  ASSUME NEW args \in ArgLists, Strings(args), NEW vec, NEW k \in StoredCounts(args, vec)
  PROVE  k = Len(args)
  <1>1. Len(args) \in Nat /\ args \in Seq({"str", "int"})
    BY ArgListsSay, ValuesAssumption
  <1>2. k \in 0..Len(args) /\ (k < Len(args) => FALSE \in ParseOutcomes(args[k + 1], vec[k + 2]))
    BY DEF StoredCounts
  <1> SUFFICES ASSUME k < Len(args) PROVE FALSE
    BY <1>1, <1>2
  <1>3. k + 1 \in DOMAIN args
    BY <1>1, <1>2
  <1>4. args[k + 1] = "str"
    BY <1>3 DEF Strings, ToSet
  <1>5. ParseOutcomes(args[k + 1], vec[k + 2]) = {TRUE}
    BY <1>4 DEF ParseOutcomes
  <1> QED
    BY <1>2, <1>5

\* Where suffix_regexp_ is prog_, an unanchored call finds the match of prog_ in the text,
\* whichever path of DoMatch it takes.
LEMMA PlainFind ==
  ASSUME text \in Texts, NEW t, TextView(t), NEW r, IsRE2(r), r.ok, r.suffix = r.prog,
         ~r.options.latin1, ~r.options.never_nl, NUL \notin ToSet(BytesOf(t)),
         NEW consuming \in BOOLEAN, NEW args \in ArgLists, Strings(args), Len(args) <= r.ncap,
         consuming \/ args = <<>>,
         NEW res \in DoMatch(r, t, "UNANCHORED", consuming, args)
  PROVE  Finds(Captures(r.prog, BytesOf(t)), consuming, res)
  <1> DEFINE s == BytesOf(t)
             c == Captures(r.prog, s)
             n == NVec(consuming, args)
             vec == Fresh(n)
             m == Match(r, t, 0, t.size, "UNANCHORED", vec)
  <1>0. /\ RE2Fields(r) /\ RE2Programs(r) /\ Len(args) \in Nat /\ r.ncap \in Nat
        /\ t.size \in Nat /\ t.data # 0 /\ Len(s) = t.size /\ s \in Seq(0..255)
        /\ ~(r.ncap < Len(args)) /\ (args = <<>> <=> Len(args) = 0)
    BY RE2Says, TextsFit, ViewNumbers, BytesShown, ArgListsSay, ValuesAssumption DEF RE2Fields
  <1>1. Haystack(r, t) = <<s>> /\ Searches(r, t, s) /\ SpansIn(c, Len(s))
    <2>1. Haystack(r, t) = <<s>> /\ Searches(r, t, s)
      BY WholeHaystack
    <2>2. SpansIn(c, Len(s))
      BY <1>0, <2>1 DEF Searches, RE2Programs, FindsIn
    <2> QED
      BY <2>1, <2>2
  <1>2. CASE consuming /\ args = <<>> /\ c # <<>>
    <2>1. SuffixMatch(r, t, consuming, args) = c
      BY <1>2 DEF SuffixMatch, AsksSuffix
    <2>2. res = Result(TRUE, c[1][2], <<>>, 0)
      BY <1>0, <1>2, <2>1 DEF DoMatch
    <2> QED
      BY <1>2, <2>2 DEF Finds, Result
  <1>3. CASE ~(consuming /\ args = <<>> /\ c # <<>>)
    <2>1. SuffixMatch(r, t, consuming, args) = <<>>
      BY <1>3 DEF SuffixMatch, AsksSuffix
    <2>2. ~AsksEntire(r, "UNANCHORED", args)
      BY DEF AsksEntire
    <2>3. res \in Parsed(t, consuming, args, m)
      <3>1. res \in MatchThenParse(r, t, "UNANCHORED", consuming, args)
        BY <1>0, <2>1, <2>2 DEF DoMatch
      <3> QED
        BY <3>1 DEF MatchThenParse, NVec, Fresh
    <2>4. ~m.ret => res = Refused
      BY <2>3 DEF Parsed
    <2>5. m.ret => res = Result(TRUE, IF consuming
                                      THEN (m.vec[1].data + m.vec[1].size - t.data) % AddrSpace
                                      ELSE 0, m.vec, Len(args))
      <3> SUFFICES ASSUME m.ret
                   PROVE  res = Result(TRUE, IF consuming
                                             THEN (m.vec[1].data + m.vec[1].size - t.data) % AddrSpace
                                             ELSE 0, m.vec, Len(args))
        OBVIOUS
      <3> HIDE DEF m, n
      <3>1. PICK k \in StoredCounts(args, m.vec) :
              res = Result(k = Len(args), IF consuming
                                          THEN (m.vec[1].data + m.vec[1].size - t.data) % AddrSpace
                                          ELSE 0, m.vec, k)
        BY <2>3 DEF Parsed
      <3>2. k = Len(args)
        BY <3>1, StringsStored
      <3> QED
        BY <3>1, <3>2
    <2>6. CASE TrivialMatch(r, t)
      <3>1. r.ncap = 0 /\ Captures(r.suffix, <<>>) # <<>> /\ s = <<>>
        BY <1>0, <2>6 DEF TrivialMatch, RE2Programs
      <3>2. args = <<>> /\ c # <<>> /\ ~consuming
        BY <1>0, <1>3, <3>1
      <3>3. m.ret
        BY <2>6 DEF Match, TrivialMatch, Answer
      <3>4. res.ret = TRUE
        BY <2>5, <3>3 DEF Result
      <3> HIDE DEF c
      <3>5. Finds(c, consuming, res)
        BY <3>2, <3>4 DEF Finds
      <3> QED
        BY <3>5 DEF c
    <2>7. CASE ~TrivialMatch(r, t)
      <3>1. m = Submatches(r, t, "UNANCHORED", vec, s, c)
        <4>1. m = Search(r, t, "UNANCHORED", vec, <<s>>)
          <5>1. ~(0 > t.size) /\ ~(t.size > t.size) /\ t.data # 0 /\ Haystack(r, t) = <<s>>
            BY <1>0, <1>1
          <5> HIDE DEF n, s
          <5>2. m = Search(r, t, "UNANCHORED", vec, Haystack(r, t))
            BY <2>7, <5>1, Zenon DEF Match, TrivialMatch
          <5> QED
            BY <5>1, <5>2
        <4>2. <<s>> # <<>> /\ <<s>>[1] = s
          OBVIOUS
        <4> HIDE DEF m, n, s
        <4>3. m = Submatches(r, t, "UNANCHORED", vec, s, Captures(r.prog, s))
          BY <4>1, <4>2 DEF Search
        <4> QED
          BY <4>3
      <3>2. m = IF c # <<>> THEN Answer(TRUE, [i \in DOMAIN vec |-> SubmatchView(r, t, c, i)])
                ELSE Answer(FALSE, vec)
        BY <3>1 DEF Submatches, AnchorAccepts
      <3>3. CASE c = <<>>
        <4>1. ~m.ret
          BY <3>2, <3>3 DEF Answer
        <4> QED
          <5>1. res.ret = FALSE /\ res.consumed = 0
            BY <2>4, <4>1 DEF Refused, Result
          <5> HIDE DEF c
          <5>2. Finds(c, consuming, res)
            BY <3>3, <5>1 DEF Finds
          <5> QED
            BY <5>2 DEF c
      <3>4. CASE c # <<>>
        <4>1. m.ret /\ m.vec = [i \in DOMAIN vec |-> SubmatchView(r, t, c, i)]
          BY <3>2, <3>4 DEF Answer
        <4>2. consuming => m.vec[1] = SubmatchView(r, t, c, 1)
          <5>1. consuming => 1 \in DOMAIN vec
            BY <1>0 DEF NVec, Fresh
          <5> QED
            BY <4>1, <5>1
        <4> HIDE DEF m, c, n, vec
        <4>3. LET v == SubmatchView(r, t, c, 1)
              IN (v.data + v.size - t.data) % AddrSpace = c[1][2] /\ c[1][2] \in 0..t.size
          <5> HIDE DEF s
          <5> QED
            BY <1>1, <3>4, EndConsumed
        <4>4. consuming => res.consumed = c[1][2]
          BY <2>5, <4>1, <4>2, <4>3 DEF Result
        <4>5. res.ret = TRUE
          BY <2>5, <4>1 DEF Result
        <4>6. Finds(c, consuming, res)
          BY <3>4, <4>4, <4>5 DEF Finds
        <4> QED
          BY <4>6 DEF c
      <3> QED
        BY <3>3, <3>4
    <2> QED
      BY <2>6, <2>7
  <1> QED
    BY <1>2, <1>3

\* suffix_regexp_ and prog_ find the same.
LEMMA FindsAgree ==
  ASSUME IndInv
  PROVE  FindFormsAgree
  <1> SUFFICES ASSUME ~re.options.latin1, ~re.options.never_nl, ~re.options.dot_nl,
                      CPattern(re.pattern) = re.pattern, InText(input),
                      NUL \notin ToSet(BytesOf(input)),
                      NEW r0 \in DoMatch(re, input, "UNANCHORED", TRUE, <<>>)
               PROVE  /\ \A p \in DoMatch(re, input, "UNANCHORED", FALSE, <<>>) : p.ret = r0.ret
                      /\ \A args \in ArgLists :
                           Strings(args) /\ Len(args) <= re.ncap
                           => \A r \in DoMatch(re, input, "UNANCHORED", TRUE, args) :
                                r.ret = r0.ret /\ r.consumed = r0.consumed
    BY DEF FindFormsAgree, Utf8Regexp
  <1>0. text \in Texts /\ TextView(input) /\ IsRE2(re) /\ RE2Fields(re) /\ RE2Programs(re)
    BY RE2Says DEF IndInv, TypeOK, TextView
  <1>1. CASE ~re.ok
    <2>1. \A consuming, args : DoMatch(re, input, "UNANCHORED", consuming, args) = {Refused}
      BY <1>1 DEF DoMatch
    <2>2. r0 = Refused
      <3>1. DoMatch(re, input, "UNANCHORED", TRUE, <<>>) = {Refused}
        BY <2>1
      <3> QED
        BY <3>1
    <2>3. \A consuming, args : \A r \in DoMatch(re, input, "UNANCHORED", consuming, args) : r = r0
      BY <2>1, <2>2, Zenon
    <2> QED
      BY <2>3, Zenon
  <1>2. CASE re.ok
    <2> DEFINE c == Captures(re.prog, BytesOf(input))
    <2>1. re.suffix = re.prog /\ re.ncap \in Nat
      BY <1>0, <1>2 DEF RE2Programs, RE2Fields
    <2>2. ASSUME NEW consuming \in BOOLEAN, NEW args \in ArgLists, Strings(args),
                 Len(args) <= re.ncap, consuming \/ args = <<>>,
                 NEW res \in DoMatch(re, input, "UNANCHORED", consuming, args)
          PROVE  Finds(c, consuming, res)
      BY <1>0, <1>2, <2>1, <2>2, PlainFind
    <2>3. <<>> \in ArgLists /\ Strings(<<>>) /\ Len(<<>>) <= re.ncap
      BY <1>0, <2>1, Views0 DEF Strings, ToSet
    <2> HIDE DEF c
    <2>4. TRUE \in BOOLEAN /\ FALSE \in BOOLEAN
      OBVIOUS
    <2>5. Finds(c, TRUE, r0)
      BY <2>2, <2>3, <2>4
    <2>6. \A p \in DoMatch(re, input, "UNANCHORED", FALSE, <<>>) : Finds(c, FALSE, p)
      BY <2>2, <2>3, <2>4
    <2>7. \A args \in ArgLists :
            Strings(args) /\ Len(args) <= re.ncap
            => \A r \in DoMatch(re, input, "UNANCHORED", TRUE, args) : Finds(c, TRUE, r)
      BY <2>2, <2>4
    <2> QED
      BY <2>5, <2>6, <2>7 DEF Finds
  <1> QED
    BY <1>1, <1>2

\* FindAndConsume finds and removes the same text through suffix_regexp_ and through prog_,
\* and finds something exactly when PartialMatch does (re2.cc DoMatch).
THEOREM FindFormsAlwaysAgree == Spec => []FindFormsAgree
  BY FindsAgree, InitInv, NextInv, PTL DEF Spec
------------------------------------------------------------------------------
(***************************************************************************)
(* What a submatch shows.                                                  *)
(***************************************************************************)

\* A position among n pairs.
LEMMA Halves ==
  ASSUME NEW n \in Nat, NEW j \in 1..2 * n
  PROVE  \E i \in 1..n : j = 2 * i - 1 \/ j = 2 * i
  <1>1. j % 2 \in 0..1 /\ j = 2 * (j \div 2) + (j % 2)
    OBVIOUS
  <1>2. CASE j % 2 = 0
    <2>1. j \div 2 \in 1..n /\ j = 2 * (j \div 2)
      BY <1>1, <1>2
    <2> QED
      BY <2>1
  <1>3. CASE j % 2 = 1
    <2>1. PICK i : i = (j \div 2) + 1
      OBVIOUS
    <2>2. i \in 1..n /\ j = 2 * i - 1
      BY <1>1, <1>3, <2>1
    <2> QED
      BY <2>2
  <1> QED
    BY <1>1, <1>2, <1>3

\* Latin-1 letters as UTF-8: a byte that leads and one that follows.
LEMMA LettersConverted ==
  ASSUME NEW s \in Seq(0..255), ToSet(s) \subseteq Letters
  PROVE  /\ InPairs(Nat, [i \in 1..Len(s) |-> RuneToChar(s[i])], Len(s), ConvertLatin1ToUTF8(s))
         /\ \A i \in 1..Len(s) : RuneToChar(s[i]) = <<192 + (s[i] \div 64), 128 + (s[i] % 64)>>
  <1> DEFINE n == Len(s)
             c == [i \in 1..n |-> RuneToChar(s[i])]
  <1>1. n \in Nat /\ DOMAIN s = 1..n
    OBVIOUS
  <1>2. ASSUME NEW i \in 1..n
        PROVE  /\ RuneToChar(s[i]) = <<192 + (s[i] \div 64), 128 + (s[i] % 64)>>
               /\ RuneToChar(s[i]) \in Seq(Nat) /\ Len(RuneToChar(s[i])) = 2
    <2>1. s[i] \in 128..255
      BY <1>1 DEF ToSet, Letters
    <2>2. PICK b : b = s[i]
      OBVIOUS
    <2>3. b \in Nat /\ ~(b < 128)
      <3>1. \A x \in 128..255 : x \in Nat /\ ~(x < 128)
        OBVIOUS
      <3> QED
        BY <2>1, <2>2, <3>1, Zenon
    <2>4. RuneToChar(b) = <<192 + (b \div 64), 128 + (b % 64)>>
      BY <2>3 DEF RuneToChar
    <2>5. 192 + (b \div 64) \in Nat /\ 128 + (b % 64) \in Nat
      BY <2>3
    <2>6. \A x, y \in Nat : <<x, y>> \in Seq(Nat) /\ Len(<<x, y>>) = 2
      OBVIOUS
    <2> QED
      BY <2>2, <2>4, <2>5, <2>6
  <1>3. ConvertLatin1ToUTF8(s) = FlattenSeq(c)
    BY <1>1 DEF ConvertLatin1ToUTF8
  <1>4. c \in [1..n -> Seq(Nat)] /\ \A i \in 1..n : Len(c[i]) = 2
    BY <1>2
  <1> HIDE DEF n, c
  <1>5. InPairs(Nat, c, n, FlattenSeq(c))
    BY <1>1, <1>4, PairsFlattened
  <1>6. InPairs(Nat, c, n, ConvertLatin1ToUTF8(s))
    BY <1>3, <1>5, Zenon
  <1> QED
    BY <1>2, <1>6 DEF n, c

\* The letters at the front of a text are the bytes at the front of its haystack.
LEMMA LettersInFront ==
  ASSUME NEW s \in Seq(0..255), ToSet(s) \subseteq Letters, NEW k \in 0..Len(s)
  PROVE  ConvertLatin1ToUTF8(SubSeq(s, 1, k)) = SubSeq(ConvertLatin1ToUTF8(s), 1, 2 * k)
  <1> DEFINE p == SubSeq(s, 1, k)
             e == ConvertLatin1ToUTF8(s)
             f == ConvertLatin1ToUTF8(p)
             Chars(t) == [i \in 1..Len(t) |-> RuneToChar(t[i])]
  <1>1. k \in Nat /\ Len(s) \in Nat /\ k <= Len(s)
    OBVIOUS
  <1>2. p \in Seq(0..255) /\ Len(p) = k /\ \A i \in 1..k : p[i] = s[i]
    <2>1. PICK B : B = 0..255
      OBVIOUS
    <2>2. s \in Seq(B)
      BY <2>1
    <2>3. SubSeq(s, 1, k) \in Seq(B) /\ Len(SubSeq(s, 1, k)) = k
          /\ \A i \in 1..k : SubSeq(s, 1, k)[i] = s[i]
      BY <1>1, <2>2
    <2> QED
      BY <2>1, <2>3
  <1>3. ToSet(p) \subseteq Letters
    <2>1. \A i \in 1..k : i \in 1..Len(s) /\ s[i] \in Letters
      BY <1>1 DEF ToSet
    <2> HIDE DEF p
    <2> QED
      BY <1>2, <2>1 DEF ToSet
  <1>4. InPairs(Nat, Chars(s), Len(s), e)
    BY LettersConverted
  <1>5. InPairs(Nat, Chars(p), k, f)
    <2> HIDE DEF p
    <2> QED
      BY <1>2, <1>3, LettersConverted
  <1>6. ASSUME NEW i \in 1..k
        PROVE  f[2 * i - 1] = e[2 * i - 1] /\ f[2 * i] = e[2 * i]
    <2>1. i \in 1..Len(s) /\ i \in 1..Len(p)
      BY <1>1, <1>2
    <2>2. Chars(p)[i] = Chars(s)[i]
      <3> HIDE DEF p
      <3> QED
        BY <1>2, <2>1
    <2> HIDE DEF Chars, e, f, p
    <2> QED
      BY <1>4, <1>5, <2>1, <2>2 DEF InPairs
  <1>7. e \in Seq(Nat) /\ f \in Seq(Nat) /\ Len(e) = 2 * Len(s) /\ Len(f) = 2 * k
    BY <1>4, <1>5 DEF InPairs
  <1> HIDE DEF Chars, e, f, p
  <1>8. PICK g : g = SubSeq(e, 1, 2 * k)
    OBVIOUS
  <1>9. g \in Seq(Nat) /\ Len(g) = 2 * k /\ \A j \in 1..2 * k : g[j] = e[j]
    <2>1. PICK l \in Nat : l = 2 * k /\ l <= Len(e)
      BY <1>1, <1>7
    <2> QED
      BY <1>7, <1>8, <2>1, SMTT(30)
  <1>10. ASSUME NEW j \in 1..2 * k
         PROVE  f[j] = g[j]
    <2>1. \E i \in 1..k : j = 2 * i - 1 \/ j = 2 * i
      BY <1>1, Halves
    <2> QED
      BY <1>6, <1>9, <2>1
  <1>11. f = g
    BY <1>7, <1>9, <1>10, SameSequence
  <1> QED
    BY <1>8, <1>11 DEF e, f, p

\* The haystack of a text of Latin-1 letters has no NUL.
LEMMA LettersHaveNoNul ==
  ASSUME NEW s \in Seq(0..255), ToSet(s) \subseteq Letters
  PROVE  /\ CString(ConvertLatin1ToUTF8(s)) = ConvertLatin1ToUTF8(s)
         /\ Len(ConvertLatin1ToUTF8(s)) = 2 * Len(s)
  <1> DEFINE e == ConvertLatin1ToUTF8(s)
             n == Len(s)
             c == [i \in 1..n |-> RuneToChar(s[i])]
  <1>1. InPairs(Nat, c, n, e) /\ n \in Nat
    BY LettersConverted
  <1>2. ASSUME NEW i \in 1..n
        PROVE  c[i][1] # 0 /\ c[i][2] # 0
    <2>0. i \in DOMAIN s
      OBVIOUS
    <2>1. s[i] \in 128..255
      BY <2>0 DEF ToSet, Letters
    <2>2. \A x \in 128..255 : 192 + (x \div 64) # 0 /\ 128 + (x % 64) # 0
      OBVIOUS
    <2>3. c[i] = <<192 + (s[i] \div 64), 128 + (s[i] % 64)>>
      BY LettersConverted, ZenonT(30)
    <2>4. PICK x, y : x = 192 + (s[i] \div 64) /\ y = 128 + (s[i] % 64)
      OBVIOUS
    <2>5. x # 0 /\ y # 0
      BY <2>1, <2>2, <2>4, Zenon
    <2> HIDE DEF c
    <2>6. c[i] = <<x, y>>
      BY <2>3, <2>4, Zenon
    <2> QED
      BY <2>5, <2>6
  <1> HIDE DEF e, n, c
  <1>3. e \in Seq(Nat) /\ Len(e) = 2 * n
    BY <1>1 DEF InPairs
  <1>4. ASSUME NEW j \in 1..2 * n
        PROVE  e[j] # 0
    <2>1. \E i \in 1..n : j = 2 * i - 1 \/ j = 2 * i
      BY <1>1, Halves
    <2> QED
      BY <1>1, <1>2, <2>1 DEF InPairs
  <1>5. NUL \notin ToSet(e)
    BY <1>3, <1>4 DEF ToSet, NUL
  <1>6. CString(e) = e
    BY <1>3, <1>5, CStringSays
  <1> QED
    BY <1>3, <1>6 DEF e, n

\* What the view v of group j of the match m in h has to show.
ShownAt(r, h, m, j, v) ==
  IF j \notin DOMAIN m \/ m[j] = <<>> THEN v = NullView
  ELSE ~r.options.latin1 \/ m[j][1] = 0
       => Encoded(r, BytesOf(v)) = SubSeq(h, m[j][1] + 1, m[j][2])

\* A view of a part of a text shows that part of its bytes.
LEMMA PartShown ==
  ASSUME text \in Texts, NEW t, TextView(t), NEW a \in Nat, NEW b \in Nat, a <= b, b <= t.size
  PROVE  BytesOf(View(t.data + a, b - a)) = SubSeq(BytesOf(t), a + 1, b)
  <1>1. /\ t.data \in Nat /\ t.size \in Nat /\ t.data - Base \in Nat
        /\ t.data - Base + t.size <= Len(text) /\ t.data # 0 /\ Base \in Nat /\ Len(text) \in Nat
        /\ BytesOf(t) = SubSeq(text, t.data - Base + 1, t.data - Base + t.size)
        /\ text \in Seq(0..255)
    BY TextsFit, ViewNumbers, BytesShown DEF Buffer
  <1>2. PICK d \in Nat, n \in Nat, o \in Nat : d = t.data /\ n = t.size /\ o = t.data - Base
    BY <1>1
  <1>3. /\ o + n \in Nat /\ o <= o + n /\ o + n <= Len(text) /\ (o + n) - o = n
        /\ d + a # 0 /\ (d + a) - Base = o + a
        /\ (o + a) + (b - a) = o + b
    <2>1. PICK c \in Nat, l \in Nat : c = Base /\ l = Len(text)
      BY <1>1
    <2>2. o = d - c /\ o + n <= l /\ d # 0
      BY <1>1, <1>2, <2>1
    <2>3. /\ o + n \in Nat /\ o <= o + n /\ o + n <= l /\ (o + n) - o = n
          /\ d + a # 0 /\ (d + a) - c = o + a
          /\ (o + a) + (b - a) = o + b
      BY <2>2
    <2> QED
      BY <2>1, <2>3
  <1>4. BytesOf(View(d + a, b - a)) = SubSeq(text, (o + a) + 1, o + b)
    <2>1. View(d + a, b - a).data = d + a /\ View(d + a, b - a).size = b - a
      BY DEF View
    <2>2. View(d + a, b - a) # NullView
      BY <1>3, <2>1 DEF NullView, View
    <2>3. BytesOf(View(d + a, b - a)) = SubSeq(text, ((d + a) - Base) + 1, ((d + a) - Base) + (b - a))
      BY <2>1, <2>2 DEF BytesOf
    <2> QED
      BY <1>3, <2>3
  <1>5. SubSeq(SubSeq(text, o + 1, o + n), a + 1, b) = SubSeq(text, (o + a) + 1, o + b)
    <2>1. PICK l \in Nat : l = o + n
      BY <1>3
    <2>2. o <= l /\ l <= Len(text) /\ b <= l - o
      BY <1>2, <1>3, <2>1
    <2>3. SubSeq(SubSeq(text, o + 1, l), a + 1, b) = SubSeq(text, (o + a) + 1, o + b)
      BY <1>1, <2>2, PieceOfPiece
    <2> QED
      BY <2>1, <2>3
  <1> QED
    BY <1>1, <1>2, <1>4, <1>5

\* A submatch shows what was matched.
LEMMA SubmatchShown ==
  ASSUME LetterSpans, text \in Texts, NEW t, TextView(t), NEW r, IsRE2(r), r.ok, ~r.options.never_nl,
         ~r.options.latin1 \/ ToSet(BytesOf(t)) \subseteq Letters,
         NEW h, Searches(r, t, h), NEW j
  PROVE  ShownAt(r, h, Captures(r.prog, h), j, SubmatchView(r, t, Captures(r.prog, h), j))
  <1> DEFINE m == Captures(r.prog, h)
             s == BytesOf(t)
  <1>0. /\ RE2Fields(r) /\ RE2Programs(r) /\ h \in Haystacks
        /\ s \in Seq(0..255) /\ Len(s) = t.size /\ t.size \in Nat /\ t.data \in Nat
        /\ s \in SubSeqs(text) /\ h = CString(Encoded(r, s)) /\ Len(h) \in Nat
        /\ AddrSpace \in Nat /\ t.data + t.size < AddrSpace
    BY RE2Says, TextsFit, ViewNumbers, BytesShown DEF Searches
  <1>1. CASE j \notin DOMAIN m \/ m[j] = <<>>
    BY <1>1 DEF SubmatchView, ShownAt
  <1>2. CASE j \in DOMAIN m /\ m[j] # <<>>
    <2>1. SpansIn(m, Len(h)) /\ m # <<>>
      BY <1>0, <1>2 DEF RE2Programs, FindsIn
    <2>2. CASE ~r.options.latin1
      <3>1. ShowsSpan(r, t, h, m, j)
        <4> HIDE DEF m
        <4> QED
          BY <1>2, <2>1, <2>2, SubmatchSays
      <3>2. \E a, b \in 0..Len(h) :
              /\ a <= b /\ m[j] = <<a, b>> /\ b <= t.size
              /\ SubmatchView(r, t, m, j) = View(t.data + a, b - a)
        BY <3>1, Zenon DEF ShowsSpan
      <3>3. PICK a, b \in 0..Len(h) : /\ a <= b /\ m[j] = <<a, b>> /\ b <= t.size
                                      /\ SubmatchView(r, t, m, j) = View(t.data + a, b - a)
        BY <3>2, Zenon
      <3> HIDE DEF m, s
      <3>4. a \in Nat /\ b \in Nat /\ m[j][1] = a /\ m[j][2] = b
        BY <1>0, <3>3
      <3>5. BytesOf(View(t.data + a, b - a)) = SubSeq(s, a + 1, b)
        BY <3>3, <3>4, PartShown DEF s
      <3>6. SubSeq(h, a + 1, b) = SubSeq(s, a + 1, b)
        <4>1. h = CString(s)
          BY <1>0, <2>2 DEF Encoded
        <4>2. PICK n \in 0..Len(s) : CString(s) = SubSeq(s, 1, n)
          BY <1>0, CStringSays
        <4>3. n \in Nat /\ n <= Len(s) /\ Len(h) = n
          BY <1>0, <4>1, <4>2
        <4>4. b <= n - 0 /\ 0 <= n /\ 0 + a = a /\ 0 + b = b /\ 0 + 1 = 1
          BY <3>3, <3>4, <4>3
        <4>5. SubSeq(SubSeq(s, 0 + 1, n), a + 1, b) = SubSeq(s, (0 + a) + 1, 0 + b)
          BY <1>0, <3>3, <3>4, <4>3, <4>4, PieceOfPiece
        <4> QED
          BY <4>1, <4>2, <4>4, <4>5
      <3>7. Encoded(r, BytesOf(SubmatchView(r, t, m, j))) = SubSeq(h, m[j][1] + 1, m[j][2])
        BY <2>2, <3>3, <3>4, <3>5, <3>6 DEF Encoded
      <3>8. ShownAt(r, h, m, j, SubmatchView(r, t, m, j))
        BY <1>2, <3>7 DEF ShownAt
      <3> QED
        BY <3>8 DEF m
    <2>3. CASE r.options.latin1 /\ m[j][1] # 0
      BY <1>2, <2>3 DEF ShownAt
    <2>4. CASE r.options.latin1 /\ m[j][1] = 0
      <3>1. ToSet(s) \subseteq Letters /\ Encoded(r, s) = ConvertLatin1ToUTF8(s)
        BY <2>4 DEF Encoded
      <3>2. h = ConvertLatin1ToUTF8(s) /\ Len(h) = 2 * t.size
        <4> HIDE DEF s
        <4> QED
          BY <1>0, <3>1, LettersHaveNoNul
      <3>3. PICK b \in 0..Len(h) : m[j] = <<0, b>>
        <4>1. PICK a, b \in 0..Len(h) : m[j] = <<a, b>>
          BY <1>2, <2>1 DEF SpansIn
        <4> QED
          BY <2>4, <4>1
      <3>4. b % 2 = 0
        <4>1. PICK p \in Patterns, o \in Options : r = NewRE2(p, o)
          BY DEF IsRE2
        <4>2. r.options = o /\ r.prog = Compile(CPattern(RureStr(p, o)), CompileFlags(o))
          BY <4>1 DEF NewRE2, FailedRE2, BuiltRE2
        <4>3. s \in UNION {SubSeqs(u) : u \in Texts}
          BY <1>0
        <4>4. PICK q : q = s
          OBVIOUS
        <4>5. LET c == Captures(Compile(CPattern(RureStr(p, o)), CompileFlags(o)), ConvertLatin1ToUTF8(q))
              IN \A i \in DOMAIN c : c[i] # <<>> /\ c[i][1] = 0 => c[i][2] % 2 = 0
          BY <2>4, <3>1, <4>2, <4>3, <4>4 DEF LetterSpans
        <4>6. m[j][2] % 2 = 0
          BY <1>2, <2>4, <3>2, <4>2, <4>4, <4>5
        <4> QED
          BY <3>3, <4>6
      <3>5. PICK k \in Nat : b = 2 * k /\ b \div 2 = k /\ k <= t.size
        <4>1. b \in Nat /\ b <= 2 * t.size
          BY <1>0, <3>2
        <4>2. b \div 2 \in Nat /\ b = 2 * (b \div 2) /\ b \div 2 <= t.size
          BY <1>0, <3>4, <4>1
        <4> QED
          BY <4>2
      <3> HIDE DEF m, s
      <3>6. SubmatchView(r, t, m, j) = View((t.data + 0) % AddrSpace, (b - 0) \div 2)
        <4>1. m[j][1] = 0 /\ m[j][2] = b
          BY <3>3
        <4> QED
          BY <1>2, <2>4, <4>1 DEF SubmatchView
      <3>7. (t.data + 0) % AddrSpace = t.data + 0 /\ (b - 0) \div 2 = k - 0
        <4>1. t.data + 0 \in Nat /\ t.data + 0 < AddrSpace /\ b - 0 = b
          BY <1>0, <3>5
        <4> QED
          BY <1>0, <3>5, <4>1, NoWrap
      <3>8. SubmatchView(r, t, m, j) = View(t.data + 0, k - 0)
        BY <3>6, <3>7
      <3>9. BytesOf(View(t.data + 0, k - 0)) = SubSeq(s, 0 + 1, k)
        BY <3>5, PartShown DEF s
      <3>10. ConvertLatin1ToUTF8(SubSeq(s, 1, k)) = SubSeq(ConvertLatin1ToUTF8(s), 1, 2 * k)
        <4>1. k \in 0..Len(s)
          BY <1>0, <3>5
        <4> QED
          BY <1>0, <3>1, <4>1, LettersInFront
      <3>11. Encoded(r, BytesOf(SubmatchView(r, t, m, j))) = SubSeq(h, 1, b)
        <4>1. 0 + 1 = 1
          OBVIOUS
        <4> QED
          BY <2>4, <3>2, <3>5, <3>8, <3>9, <3>10, <4>1 DEF Encoded
      <3>12. m[j][1] + 1 = 1 /\ m[j][2] = b
        BY <3>3
      <3>13. ShownAt(r, h, m, j, SubmatchView(r, t, m, j))
        BY <1>2, <3>11, <3>12 DEF ShownAt
      <3> QED
        BY <3>13 DEF m
    <2> QED
      BY <2>2, <2>3, <2>4
  <1> QED
    BY <1>1, <1>2

\* CapturesShowMatch, in the words of ShownAt.
Calm(l, i) == l.op \in {"FullMatch", "PartialMatch", "Match"} /\ InText(i)

PlainText(r, t) ==
  ~r.options.never_nl /\ (~r.options.latin1 \/ ToSet(BytesOf(t)) \subseteq Letters)

AllShown(r, t, o) ==
  \A i \in {k \in DOMAIN o : o[k] # Unset} :
    ShownAt(r, Haystack(r, t)[1], Captures(r.prog, Haystack(r, t)[1]), i + 1, o[i])

\* The two say the same.
LEMMA ShownSays ==
  ASSUME Calm(last, input)
  PROVE  CapturesShowMatch <=> (PlainText(re, input) => AllShown(re, input, outs))
  BY DEF Calm, PlainText, AllShown, CapturesShowMatch, ShownAt, Utf8Regexp

\* A step that leaves the text alone leaves alone what the views show.
LEMMA ShownNext ==
  ASSUME text' = text, re' = re, input' = input, Calm(last', input),
         PlainText(re, input) => AllShown(re, input, outs')
  PROVE  CapturesShowMatch'
  <1>1. ASSUME NEW v
        PROVE  BytesOf(v)' = BytesOf(v)
    BY DEF BytesOf
  <1>2. Calm(last, input)'
    BY DEF Calm, InText
  <1>3. PlainText(re, input)' <=> PlainText(re, input)
    BY DEF PlainText, BytesOf
  <1>4. PICK h : h = Haystack(re, input)
    OBVIOUS
  <1>5. Haystack(re, input)' = h
    BY <1>4 DEF Haystack, Encoded, BytesOf
  <1>6. ASSUME AllShown(re, input, outs'), PlainText(re, input)
        PROVE  AllShown(re, input, outs)'
    <2>1. \A i \in {k \in DOMAIN outs' : outs'[k] # Unset} :
            ShownAt(re, h[1], Captures(re.prog, h[1]), i + 1, outs'[i])
      BY <1>4, <1>6 DEF AllShown
    <2>2. \A i \in {k \in DOMAIN outs' : outs'[k] # Unset} :
            ShownAt(re, h[1], Captures(re.prog, h[1]), i + 1, outs[i])'
      BY <2>1 DEF ShownAt, Encoded, BytesOf
    <2> QED
      BY <1>5, <2>2 DEF AllShown
  <1>7. (PlainText(re, input) => AllShown(re, input, outs))'
    BY <1>3, <1>6
  <1>8. (Calm(last, input) => (CapturesShowMatch <=> (PlainText(re, input) => AllShown(re, input, outs))))'
    BY ShownSays, PTL
  <1> QED
    BY <1>2, <1>7, <1>8

\* The entries that Match has filled in show what was matched.
LEMMA FoundShown ==
  ASSUME LetterSpans, text \in Texts, NEW t, TextView(t), NEW r, IsRE2(r), r.ok, PlainText(r, t),
         NEW anchor, NEW n \in Nat, NEW h, NEW vec, Found(r, t, anchor, n, h, vec), NEW j \in 1..n
  PROVE  ShownAt(r, Haystack(r, t)[1], Captures(r.prog, Haystack(r, t)[1]), j, vec[j])
  <1>1. Haystack(r, t)[1] = h /\ Searches(r, t, h) /\ vec[j] = SubmatchView(r, t, Captures(r.prog, h), j)
    BY DEF Found
  <1>2. ShownAt(r, h, Captures(r.prog, h), j, SubmatchView(r, t, Captures(r.prog, h), j))
    BY <1>1, SubmatchShown DEF PlainText
  <1> QED
    BY <1>1, <1>2, Zenon

\* The pointees of a call do.
LEMMA StoresShown ==
  ASSUME LetterSpans, text \in Texts, NEW t, TextView(t), NEW r, IsRE2(r), PlainText(r, t),
         NEW anchor \in Anchors, NEW consuming \in BOOLEAN, NEW args \in ArgLists,
         NEW res \in DoMatch(r, t, anchor, consuming, args)
  PROVE  AllShown(r, t, Stores(res))
  <1> SUFFICES ASSUME NEW i \in 0..MaxArgs, Stores(res)[i] # Unset
               PROVE  ShownAt(r, Haystack(r, t)[1], Captures(r.prog, Haystack(r, t)[1]), i + 1, Stores(res)[i])
    BY DEF AllShown, Stores
  <1>1. i \in 1..res.stored /\ Stores(res)[i] = res.vec[i + 1]
    BY DEF Stores
  <1>2. res # Refused /\ ~BySuffix(r, t, consuming, args, res) /\ ~ByEntire(r, t, anchor, args, res)
    <2>1. res.stored # 0
      BY <1>1
    <2> QED
      BY <2>1 DEF Refused, BySuffix, ByEntire, Result
  <1>3. PICK m, k : ByMatch(r, t, anchor, consuming, args, m, k, res) /\ r.ok /\ ~(r.ncap < Len(args))
    BY <1>2, DoMatchWays
  <1>4. res.stored = k /\ res.vec = m.vec /\ k \in 0..Len(args)
    BY <1>3 DEF ByMatch, Result, StoredCounts
  <1>5. Len(args) \in Nat /\ (args = <<>> <=> Len(args) = 0) /\ MaxArgs \in Nat
    BY ArgListsSay, ValuesAssumption
  <1>6. args # <<>> /\ i + 1 \in 1..Len(args) + 1
    BY <1>1, <1>4, <1>5
  <1>7. PICK h \in Haystacks : Found(r, t, anchor, Len(args) + 1, h, m.vec)
    BY <1>3, <1>6, ByMatchFinds
  <1>8. PICK n \in Nat, j \in Nat : n = Len(args) + 1 /\ j = i + 1 /\ j \in 1..n
    BY <1>5, <1>6
  <1>9. ShownAt(r, Haystack(r, t)[1], Captures(r.prog, Haystack(r, t)[1]), j, m.vec[j])
    BY <1>3, <1>7, <1>8, FoundShown
  <1> QED
    BY <1>1, <1>4, <1>8, <1>9, Zenon

\* Nothing is stored, or the call was one of the three and its pointees show the match.
LEMMA CapturesShownInv == LetterSpans /\ IndInv /\ CapturesShowMatch /\ [Next]_vars => CapturesShowMatch'
  <1> SUFFICES ASSUME LetterSpans, IndInv, CapturesShowMatch, [Next]_vars
               PROVE  CapturesShowMatch'
    OBVIOUS
  <1>0. text \in Texts /\ input \in Views /\ IsRE2(re) /\ MaxArgs \in Nat
    BY ValuesAssumption DEF IndInv, TypeOK
  <1>1. ASSUME last'.op \notin {"FullMatch", "PartialMatch", "Match"} \/ ~InText(input)'
        PROVE  CapturesShowMatch'
    BY <1>1 DEF CapturesShowMatch
  <1>2. ASSUME NEW op \in Ops, NEW anchor \in Anchors, NEW consuming \in BOOLEAN, NEW args \in ArgLists,
               IsCall(op, anchor, consuming), Call(op, anchor, consuming, args)
        PROVE  CapturesShowMatch'
    <2>1. PICK res \in DoMatch(re, input, anchor, consuming, args) :
            /\ last' = [op |-> op, args |-> args, ret |-> res.ret]
            /\ outs' = Stores(res)
            /\ input' = IF consuming /\ res.ret THEN RemovePrefix(input, res.consumed) ELSE input
      BY <1>2, CallSays
    <2>2. re' = re /\ text' = text
      BY <1>2, CallSays
    <2>3. last'.op = op
      BY <2>1
    <2>4. CASE consuming
      <3>1. op \notin {"FullMatch", "PartialMatch", "Match"}
        BY <1>2, <2>4 DEF IsCall
      <3> QED
        BY <1>1, <2>3, <3>1
    <2>5. CASE ~consuming /\ ~InText(input)'
      BY <1>1, <2>5
    <2>6. CASE ~consuming /\ InText(input)'
      <3>1. input' = input /\ op \in {"FullMatch", "PartialMatch"}
        BY <1>2, <2>1, <2>6 DEF IsCall
      <3>2. InText(input)
        BY <2>2, <2>6, <3>1 DEF InText
      <3>3. Calm(last', input) /\ TextView(input)
        BY <1>0, <2>3, <3>1, <3>2 DEF Calm, TextView
      <3>4. PlainText(re, input) => AllShown(re, input, outs')
        BY <1>0, <2>1, <3>3, StoresShown
      <3> QED
        BY <2>2, <3>1, <3>3, <3>4, ShownNext
    <2> QED
      BY <2>4, <2>5, <2>6
  <1>3. ASSUME NEW startpos, NEW endpos, NEW anchor \in Anchors, NEW n \in 0..MaxArgs + 1,
               MatchInto(startpos, endpos, anchor, n)
        PROVE  CapturesShowMatch'
    <2> DEFINE vec == [i \in 1..n |-> Unset]
    <2>1. PICK m : m = Match(re, input, startpos, endpos, anchor, vec)
      OBVIOUS
    <2>2. /\ Readable(input)
          /\ last' = [op |-> "Match", args |-> <<>>, ret |-> m.ret]
          /\ outs' = [i \in 0..MaxArgs |-> IF i < n THEN m.vec[i + 1] ELSE Unset]
          /\ re' = re /\ text' = text /\ input' = input
      BY <1>3, <2>1 DEF MatchInto
    <2>3. n \in Nat
      BY <1>0
    <2>4. vec \in [1..n -> Views] /\ \A i \in 1..n : vec[i] = Unset
      BY <1>0, Views0
    <2> HIDE DEF vec
    <2>5. MatchGives(re, input, anchor, n, vec, m)
      BY <1>0, <2>1, <2>2, <2>3, <2>4, MatchSays
    <2>6. CASE ~InText(input)'
      BY <1>1, <2>6
    <2>7. CASE InText(input)'
      <3>1. InText(input)
        BY <2>2, <2>7 DEF InText
      <3>2. Calm(last', input) /\ TextView(input)
        BY <1>0, <2>2, <3>1 DEF Calm, TextView
      <3>3. ASSUME PlainText(re, input)
            PROVE  AllShown(re, input, outs')
        <4> SUFFICES ASSUME NEW i \in 0..MaxArgs, outs'[i] # Unset
                     PROVE  ShownAt(re, Haystack(re, input)[1],
                                    Captures(re.prog, Haystack(re, input)[1]), i + 1, outs'[i])
          BY <2>2 DEF AllShown
        <4>1. i < n /\ outs'[i] = m.vec[i + 1]
          BY <2>2
        <4>2. PICK j \in 1..n : j = i + 1
          BY <1>0, <2>3, <4>1
        <4>3. m.vec[j] # Unset /\ vec[j] = Unset /\ n # 0
          BY <2>4, <4>1, <4>2
        <4>4. m.vec # vec
          BY <4>3
        <4>5. m.ret /\ ~TrivialMatch(re, input)
          BY <2>5, <4>4 DEF MatchGives
        <4>6. PICK h \in Haystacks : Found(re, input, anchor, n, h, m.vec)
          BY <2>5, <3>1, <4>3, <4>5 DEF MatchGives
        <4>7. re.ok
          BY <2>5, <4>5 DEF MatchGives
        <4>8. ShownAt(re, Haystack(re, input)[1], Captures(re.prog, Haystack(re, input)[1]), j, m.vec[j])
          BY <1>0, <2>3, <3>2, <3>3, <4>6, <4>7, FoundShown
        <4> QED
          BY <4>1, <4>2, <4>8, Zenon
      <3> QED
        BY <2>2, <3>2, <3>3, ShownNext
    <2> QED
      BY <2>6, <2>7
  <1>4. CASE UNCHANGED vars
    <2>1. re' = re /\ text' = text /\ input' = input /\ outs' = outs /\ last' = last
      BY <1>4 DEF vars
    <2>2. CASE Calm(last, input)
      <3>1. PlainText(re, input) => AllShown(re, input, outs')
        BY <2>1, <2>2, ShownSays
      <3>2. Calm(last', input)
        BY <2>1, <2>2
      <3> QED
        BY <2>1, <3>1, <3>2, ShownNext
    <2>3. CASE ~Calm(last, input)
      BY <1>1, <2>1, <2>3 DEF Calm, InText
    <2> QED
      BY <2>2, <2>3
  <1>5. CASE last'.op = "none"
    BY <1>1, <1>5
  <1> QED
    BY <1>1, <1>2, <1>3, <1>4, <1>5, StepsSay

\* A submatch shows the bytes that the crate matched, in the client's buffer for a UTF-8
\* regexp and recoded for a Latin-1 regexp of a text of letters, whose patterns match
\* characters (re2.cc Match).
THEOREM CapturesAlwaysShowMatch == ASSUME LetterSpans PROVE Spec => []CapturesShowMatch
  <1>1. Init => CapturesShowMatch
    BY DEF Init, NoCall, CapturesShowMatch
  <1>2. LetterSpans /\ IndInv /\ CapturesShowMatch /\ [Next]_vars => CapturesShowMatch'
    BY CapturesShownInv
  <1>3. IndInv /\ CapturesShowMatch /\ [Next]_vars => CapturesShowMatch'
    BY <1>2
  <1> QED
    BY <1>1, <1>3, InitInv, NextInv, PTL DEF Spec
=============================================================================
