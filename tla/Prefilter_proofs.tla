-------------------------- MODULE Prefilter_proofs --------------------------
(***************************************************************************)
(* What the atom compiler promises, for every set of patterns and texts.   *)
(***************************************************************************)
EXTENDS Prefilter, SequenceLemmas, FiniteSetTheorems, FunctionTheorems, TLAPS

(***************************************************************************)
(* How a text falls into parts: what one turn of the loop reads.           *)
(***************************************************************************)
IsOne(t, p, e) == e = p /\ t[p] \notin {"(", "[", "{", "\\"}
IsEscape(t, p, e) == e = p + 1 /\ t[p] = "\\"

IsBraces(t, p, e) == t[p] = "{" /\ t[e] = "}" /\ \A l \in p..e - 1 : t[l] # "}"
IsGroup(t, p, e) ==
  p < e /\ t[p] = "(" /\ t[e] = ")" /\ \A l \in p + 1..e - 1 : t[l] \notin {"(", ")"}
IsClass(t, p, e) ==
  /\ p < e /\ t[p] = "[" /\ t[e] = "]"
  /\ \/ \A l \in p + 1..e - 1 : t[l] \in Alnum
     \/ e = p + 4 /\ {t[p + 1], t[p + 3]} \subseteq Alnum /\ t[p + 2] = "-"

IsPart(t, p, e, quoted) ==
  \/ IsOne(t, p, e) \/ IsEscape(t, p, e)
  \/ ~quoted /\ (IsBraces(t, p, e) \/ IsGroup(t, p, e) \/ IsClass(t, p, e))

\* The parts of t start at the places of S; what is quoted has neither groups nor classes.
PartsAt(t, S, quoted) ==
  /\ S \subseteq 1..Len(t) + 1 /\ {1, Len(t) + 1} \subseteq S
  /\ \A p \in S : p <= Len(t) => \E e \in p..Len(t) : e + 1 \in S /\ IsPart(t, p, e, quoted)

Parted(quoted) == {t \in Seq(Chars) : \E S : PartsAt(t, S, quoted)}

\* A part with something before it or behind it.
LEMMA PartShifted ==
  ASSUME NEW t, NEW u, NEW d \in Nat, NEW p \in Nat \ {0}, NEW e \in Nat, p <= e,
         \A l \in p..e : u[d + l] = t[l], NEW quoted \in BOOLEAN, IsPart(t, p, e, quoted)
  PROVE  IsPart(u, d + p, d + e, quoted)
  <1>1. u[d + p] = t[p] /\ u[d + e] = t[e]
    OBVIOUS
  <1>2. \A m \in d + p..d + e : m - d \in p..e /\ u[m] = t[m - d]
    <2> SUFFICES ASSUME NEW m \in d + p..d + e PROVE m - d \in p..e /\ u[m] = t[m - d]
      OBVIOUS
    <2>1. m - d \in p..e /\ d + (m - d) = m
      OBVIOUS
    <2> QED
      BY <2>1
  <1>3. CASE IsOne(t, p, e)
    BY <1>1, <1>3 DEF IsOne, IsPart
  <1>4. CASE IsEscape(t, p, e)
    BY <1>1, <1>4 DEF IsEscape, IsPart
  <1>5. CASE ~quoted /\ IsBraces(t, p, e)
    <2>1. ASSUME NEW m \in d + p..(d + e) - 1 PROVE u[m] # "}"
      <3>1. m \in d + p..d + e /\ m - d \in p..e - 1
        OBVIOUS
      <3> QED
        BY <3>1, <1>2, <1>5 DEF IsBraces
    <2> QED
      BY <2>1, <1>1, <1>5 DEF IsBraces, IsPart
  <1>6. CASE ~quoted /\ IsGroup(t, p, e)
    <2>1. ASSUME NEW m \in (d + p) + 1..(d + e) - 1 PROVE u[m] \notin {"(", ")"}
      <3>1. m \in d + p..d + e /\ m - d \in p + 1..e - 1
        OBVIOUS
      <3> QED
        BY <3>1, <1>2, <1>6 DEF IsGroup
    <2>2. d + p < d + e
      BY <1>6 DEF IsGroup
    <2> QED
      BY <2>1, <2>2, <1>1, <1>6 DEF IsGroup, IsPart
  <1>7. CASE ~quoted /\ IsClass(t, p, e)
    <2>1. p < e /\ t[p] = "[" /\ t[e] = "]"
      BY <1>7 DEF IsClass
    <2>2. CASE \A l \in p + 1..e - 1 : t[l] \in Alnum
      <3>1. ASSUME NEW m \in (d + p) + 1..(d + e) - 1 PROVE u[m] \in Alnum
        <4>1. m \in d + p..d + e /\ m - d \in p + 1..e - 1
          OBVIOUS
        <4> QED
          BY <4>1, <1>2, <2>2
      <3> QED
        BY <3>1, <2>1, <1>1, <1>7 DEF IsClass, IsPart
    <2>3. CASE e = p + 4 /\ {t[p + 1], t[p + 3]} \subseteq Alnum /\ t[p + 2] = "-"
      <3>1. \A k \in {1, 2, 3} : u[(d + p) + k] = t[p + k]
        <4> SUFFICES ASSUME NEW k \in {1, 2, 3} PROVE u[(d + p) + k] = t[p + k]
          OBVIOUS
        <4>1. p + k \in p..e /\ (d + p) + k = d + (p + k)
          BY <2>3
        <4> QED
          BY <4>1
      <3>2. d + e = (d + p) + 4 /\ d + p < d + e
        BY <2>3
      <3> QED
        BY <3>1, <3>2, <2>1, <2>3, <1>1, <1>7 DEF IsClass, IsPart
    <2> QED
      BY <2>2, <2>3, <1>7 DEF IsClass
  <1> QED
    BY <1>3, <1>4, <1>5, <1>6, <1>7 DEF IsPart

\* The empty text, and a text with another behind it, have their parts.
LEMMA PartedConcat ==
  ASSUME NEW quoted \in BOOLEAN, NEW t \in Parted(quoted), NEW u \in Parted(quoted)
  PROVE  t \o u \in Parted(quoted)
  <1>0. t \in Seq(Chars) /\ u \in Seq(Chars)
    BY DEF Parted
  <1>1. PICK S : PartsAt(t, S, quoted)
    BY DEF Parted
  <1>2. PICK T : PartsAt(u, T, quoted)
    BY DEF Parted
  <1>3. PICK n \in Nat : n = Len(t)
    BY <1>0
  <1>4. PICK m \in Nat : m = Len(u)
    BY <1>0
  <1>a. t \o u \in Seq(Chars)
    BY <1>0
  <1>5. PICK r \in Seq(Chars) : r = t \o u
    BY <1>a, Zenon
  <1>6. /\ Len(r) = n + m
        /\ \A k \in 1..n : r[k] = t[k]
        /\ \A k \in 1..m : r[n + k] = u[k]
    BY <1>0, <1>3, <1>4, <1>5
  <1>7. /\ S \subseteq 1..n + 1 /\ 1 \in S /\ n + 1 \in S
        /\ \A p \in S : p <= n => \E e \in p..n : e + 1 \in S /\ IsPart(t, p, e, quoted)
    BY <1>1, <1>3 DEF PartsAt
  <1>8. /\ T \subseteq 1..m + 1 /\ 1 \in T /\ m + 1 \in T
        /\ \A p \in T : p <= m => \E e \in p..m : e + 1 \in T /\ IsPart(u, p, e, quoted)
    BY <1>2, <1>4 DEF PartsAt
  <1> DEFINE B == {k \in 1..(n + m) + 1 : k \in S \/ (k > n /\ k - n \in T)}
  <1>9. 1 \in B /\ (n + m) + 1 \in B
    <2>1. ((n + m) + 1) - n = m + 1
      OBVIOUS
    <2> QED
      BY <2>1, <1>7, <1>8
  <1>10. ASSUME NEW p \in B, p <= n + m
         PROVE  \E e \in p..(n + m) : e + 1 \in B /\ IsPart(r, p, e, quoted)
    <2>1. CASE p \in S /\ p <= n
      <3>1. PICK e \in p..n : e + 1 \in S /\ IsPart(t, p, e, quoted)
        BY <2>1, <1>7
      <3>2. \A l \in p..e : r[0 + l] = t[l]
        BY <1>6
      <3>3. p \in Nat \ {0} /\ e \in Nat /\ p <= e /\ 0 + p = p /\ 0 + e = e
        OBVIOUS
      <3>4. IsPart(r, 0 + p, 0 + e, quoted)
        BY <3>1, <3>2, <3>3, PartShifted
      <3>5. e \in p..(n + m) /\ e + 1 \in B
        BY <3>1
      <3> QED
        BY <3>3, <3>4, <3>5
    <2>2. CASE p > n /\ p - n \in T
      <3>1. PICK q \in Nat \ {0} : p = n + q /\ q \in T /\ q <= m
        BY <2>2, <1>10
      <3>2. PICK e \in q..m : e + 1 \in T /\ IsPart(u, q, e, quoted)
        BY <3>1, <1>8
      <3>3. \A l \in q..e : r[n + l] = u[l]
        BY <1>6
      <3>4. IsPart(r, n + q, n + e, quoted)
        <4>1. e \in Nat /\ q <= e
          OBVIOUS
        <4> QED
          BY <4>1, <3>2, <3>3, PartShifted
      <3>5. n + e \in p..(n + m) /\ (n + e) + 1 \in 1..(n + m) + 1
        BY <3>1
      <3>6. (n + e) + 1 > n /\ ((n + e) + 1) - n = e + 1
        OBVIOUS
      <3>7. (n + e) + 1 \in B
        BY <3>2, <3>5, <3>6
      <3> QED
        BY <3>1, <3>4, <3>5, <3>7
    <2>3. CASE p \in S /\ p > n
      <3>1. p > n /\ p - n = 1
        BY <2>3, <1>7
      <3> QED
        BY <3>1, <2>2, <1>8
    <2> QED
      BY <2>1, <2>2, <2>3
  <1>11. B \subseteq 1..(n + m) + 1
    OBVIOUS
  <1> HIDE DEF B
  <1>12. PartsAt(r, B, quoted)
    BY <1>6, <1>9, <1>10, <1>11 DEF PartsAt
  <1> QED
    BY <1>5, <1>12 DEF Parted

\* A text of nothing, and one of a single part.
LEMMA FewParts ==
  ASSUME NEW quoted \in BOOLEAN
  PROVE  /\ <<>> \in Parted(quoted)
         /\ \A t \in Seq(Chars) : Len(t) > 0 /\ IsPart(t, 1, Len(t), quoted) => t \in Parted(quoted)
  <1>1. PartsAt(<<>>, {1}, quoted)
    BY DEF PartsAt
  <1>2. ASSUME NEW t \in Seq(Chars), Len(t) > 0, IsPart(t, 1, Len(t), quoted)
        PROVE  PartsAt(t, {1, Len(t) + 1}, quoted)
    <2>1. PICK n \in Nat : n = Len(t)
      OBVIOUS
    <2>2. n \in 1..n /\ 1 \in 1..n + 1
      BY <1>2, <2>1
    <2>3. \A p \in {1, n + 1} : p <= n => p = 1
      OBVIOUS
    <2> QED
      BY <1>2, <2>1, <2>2, <2>3 DEF PartsAt
  <1>3. <<>> \in Seq(Chars)
    OBVIOUS
  <1>4. <<>> \in Parted(quoted)
    BY <1>1, <1>3, Zenon DEF Parted
  <1>5. ASSUME NEW t \in Seq(Chars), Len(t) > 0, IsPart(t, 1, Len(t), quoted)
        PROVE  t \in Parted(quoted)
    BY <1>2, <1>5, Zenon DEF Parted
  <1> QED
    BY <1>4, <1>5

\* The text that is flattened from texts in parts falls into parts.
LEMMA PartedFlattened ==
  ASSUME NEW quoted \in BOOLEAN, NEW n \in Nat, NEW s \in [1..n -> Parted(quoted)]
  PROVE  FlattenSeq(s) \in Parted(quoted)
  <1>1. Parted(quoted) \subseteq Seq(Chars)
    BY DEF Parted
  <1> QED
    BY <1>1, FewParts, PartedConcat, FlattenClosed

\* Lowercase maps no mark to another character and none to a mark.
LEMMA LowerKeepsMarks ==
  ASSUME NEW c \in Chars
  PROVE  /\ \A m \in Marks : LowerChar(c) = m <=> c = m
         /\ c = "-" => LowerChar(c) = "-"
         /\ c \in Alnum => LowerChar(c) \in Alnum
         /\ LowerChar(c) \in Chars
  BY CaseAssumption

\* Lowercase changes the characters only.
LEMMA LowerSays ==
  ASSUME NEW t \in Seq(Chars)
  PROVE  /\ Lower(t) \in Seq(Chars) /\ Len(Lower(t)) = Len(t)
         /\ \A k \in 1..Len(t) : Lower(t)[k] = LowerChar(t[k])
  <1>1. \A k \in 1..Len(t) : LowerChar(t[k]) \in Chars
    BY LowerKeepsMarks
  <1> QED
    BY <1>1 DEF Lower

\* The parts of a text are those of its lowercase.
LEMMA PartedLower ==
  ASSUME NEW quoted \in BOOLEAN, NEW t \in Parted(quoted)
  PROVE  Lower(t) \in Parted(quoted)
  <1>1. t \in Seq(Chars)
    BY DEF Parted
  <1>2. PICK S : PartsAt(t, S, quoted)
    BY DEF Parted
  <1>3. PICK u \in Seq(Chars) : u = Lower(t)
    BY <1>1, LowerSays
  <1>4. Len(u) = Len(t) /\ \A k \in 1..Len(t) : u[k] = LowerChar(t[k])
    BY <1>1, <1>3, LowerSays
  <1>5. \A k \in 1..Len(t) : /\ \A m \in Marks : u[k] = m <=> t[k] = m
                             /\ t[k] = "-" => u[k] = "-"
                             /\ t[k] \in Alnum => u[k] \in Alnum
    <2> SUFFICES ASSUME NEW k \in 1..Len(t)
                 PROVE  /\ \A m \in Marks : u[k] = m <=> t[k] = m
                        /\ t[k] = "-" => u[k] = "-"
                        /\ t[k] \in Alnum => u[k] \in Alnum
      OBVIOUS
    <2>1. t[k] \in Chars /\ u[k] = LowerChar(t[k])
      BY <1>1, <1>4
    <2> QED
      BY <2>1, LowerKeepsMarks
  <1>6. PICK n \in Nat : n = Len(t)
    BY <1>1
  <1>7. ASSUME NEW p \in 1..n, NEW e \in p..n, IsPart(t, p, e, quoted)
        PROVE  IsPart(u, p, e, quoted)
    <2>0. p \in 1..n /\ e \in 1..n /\ \A l \in p..e : l \in 1..n
      BY <1>7
    <2>1. {"(", ")", "[", "]", "{", "}", "\\"} \subseteq Marks
      BY DEF Marks
    <2>2. \A m \in {"(", ")", "[", "]", "{", "}", "\\"} : \A l \in p..e : u[l] = m <=> t[l] = m
      BY <2>0, <2>1, <1>5, <1>6
    <2>3. p \in p..e /\ e \in p..e
      OBVIOUS
    <2>4. \A m \in {"(", ")", "[", "]", "{", "}", "\\"} : (u[p] = m <=> t[p] = m) /\ (u[e] = m <=> t[e] = m)
      BY <2>2, <2>3
    <2>5. CASE IsOne(t, p, e)
      BY <2>4, <2>5 DEF IsOne, IsPart
    <2>6. CASE IsEscape(t, p, e)
      BY <2>4, <2>6 DEF IsEscape, IsPart
    <2>7. CASE ~quoted /\ IsBraces(t, p, e)
      <3>1. ASSUME NEW l \in p..e - 1 PROVE u[l] # "}"
        <4>1. l \in p..e
          OBVIOUS
        <4>2. t[l] # "}"
          BY <2>7, Zenon DEF IsBraces
        <4>3. u[l] = "}" <=> t[l] = "}"
          BY <4>1, <2>2
        <4> QED
          BY <4>2, <4>3
      <3> QED
        BY <3>1, <2>4, <2>7 DEF IsBraces, IsPart
    <2>8. CASE ~quoted /\ IsGroup(t, p, e)
      <3>1. ASSUME NEW l \in p + 1..e - 1 PROVE u[l] \notin {"(", ")"}
        <4>1. l \in p..e /\ t[l] \notin {"(", ")"}
          BY <2>8 DEF IsGroup
        <4> QED
          BY <4>1, <2>2
      <3> QED
        BY <3>1, <2>4, <2>8 DEF IsGroup, IsPart
    <2>9. CASE ~quoted /\ IsClass(t, p, e)
      <3>1. CASE \A l \in p + 1..e - 1 : t[l] \in Alnum
        <4>1. \A l \in p + 1..e - 1 : u[l] \in Alnum
          BY <2>0, <3>1, <1>5, <1>6
        <4> QED
          BY <4>1, <2>4, <2>9 DEF IsClass, IsPart
      <3>2. CASE e = p + 4 /\ {t[p + 1], t[p + 3]} \subseteq Alnum /\ t[p + 2] = "-"
        <4>1. p + 1 \in 1..n /\ p + 2 \in 1..n /\ p + 3 \in 1..n
          BY <2>0, <3>2
        <4>2. u[p + 1] \in Alnum /\ u[p + 3] \in Alnum /\ u[p + 2] = "-"
          BY <4>1, <3>2, <1>5, <1>6
        <4> QED
          BY <4>2, <3>2, <2>4, <2>9 DEF IsClass, IsPart
      <3> QED
        BY <3>1, <3>2, <2>9 DEF IsClass
    <2> QED
      BY <2>5, <2>6, <2>7, <2>8, <2>9, <1>7 DEF IsPart
  <1>8. ASSUME NEW p \in S, p <= n
        PROVE  \E e \in p..n : e + 1 \in S /\ IsPart(u, p, e, quoted)
    <2>1. p \in 1..n
      BY <1>2, <1>6, <1>8 DEF PartsAt
    <2>2. PICK e \in p..n : e + 1 \in S /\ IsPart(t, p, e, quoted)
      BY <1>2, <1>6, <1>8 DEF PartsAt
    <2> QED
      BY <2>1, <2>2, <1>7
  <1>9. PartsAt(u, S, quoted)
    BY <1>2, <1>4, <1>6, <1>8 DEF PartsAt
  <1> QED
    BY <1>3, <1>9 DEF Parted
------------------------------------------------------------------------------
(***************************************************************************)
(* How patterns and quoted texts are written.                              *)
(***************************************************************************)
\* The characters that patterns are written with are characters.
LEMMA CharsThere ==
  /\ Marks \cup {"-", "d", "x", "0", "2", "|", Zero} \subseteq Chars
  /\ Alnum \subseteq Chars /\ {"(", ")"} \cap Alnum = {}
  /\ {"0", "2", "d", "x"} \subseteq Alnum
  /\ \A m \in Marks \cup {"-", Zero} : m \notin Alnum
  BY CharsAssumption DEF Marks, Unquoted

\* The marks without braces, one by one.
LEMMA SpecialChars ==
  /\ "(" \in Chars /\ ")" \in Chars /\ "[" \in Chars /\ "]" \in Chars
  /\ "\\" \in Chars /\ "." \in Chars
  /\ "*" \in Chars /\ "+" \in Chars /\ "?" \in Chars /\ "|" \in Chars
  /\ "-" \in Chars /\ "d" \in Chars /\ "x" \in Chars /\ "0" \in Chars /\ "2" \in Chars
  BY CharsThere DEF Marks

\* A text between two characters.
LEMMA Enclosed ==
  ASSUME NEW x \in Chars, NEW y \in Chars, NEW m \in Seq(Chars),
         NEW t, t = <<x>> \o m \o <<y>>
  PROVE  /\ t \in Seq(Chars) /\ Len(t) = Len(m) + 2 /\ t[1] = x /\ t[Len(t)] = y
         /\ \A l \in 2..Len(t) - 1 : l - 1 \in 1..Len(m) /\ t[l] = m[l - 1]
  <1>1. PICK n \in Nat : n = Len(m)
    OBVIOUS
  <1>2. PICK u : u = <<x>> \o m
    OBVIOUS
  <1>3. /\ u \in Seq(Chars) /\ Len(u) = n + 1 /\ u[1] = x
        /\ \A l \in 2..n + 1 : u[l] = m[l - 1]
    <2>1. <<x>> \in Seq(Chars) /\ Len(<<x>>) = 1
      OBVIOUS
    <2> QED
      BY <2>1, <1>1, <1>2
  <1>4. /\ t \in Seq(Chars) /\ Len(t) = n + 2 /\ t[n + 2] = y
        /\ \A l \in 1..n + 1 : t[l] = u[l]
    <2>1. t = u \o <<y>>
      BY <1>2
    <2>a. <<y>> \in Seq(Chars)
      OBVIOUS
    <2>2. PICK v \in Seq(Chars) : v = <<y>>
      BY <2>a, Zenon
    <2>3. Len(v) = 1 /\ v[1] = y
      BY <2>2
    <2>4. t = u \o v
      BY <2>1, <2>2
    <2>5. PICK w \in Seq(Chars) : w = u \o v
      <3>1. u \o v \in Seq(Chars)
        BY <1>3
      <3> QED
        BY <3>1, Zenon
    <2>6. Len(w) = n + 2 /\ w[n + 2] = y /\ \A l \in 1..n + 1 : w[l] = u[l]
      <3>1. \A b \in Seq(Chars) : Len(b) = n + 1 =>
              /\ Len(b \o v) = n + 2 /\ (b \o v)[n + 2] = v[1]
              /\ \A l \in 1..n + 1 : (b \o v)[l] = b[l]
        <4> SUFFICES ASSUME NEW b \in Seq(Chars), Len(b) = n + 1
                     PROVE  /\ Len(b \o v) = n + 2 /\ (b \o v)[n + 2] = v[1]
                            /\ \A l \in 1..n + 1 : (b \o v)[l] = b[l]
          OBVIOUS
        <4>1. \A c, d \in Seq(Chars) : Len(c \o d) = Len(c) + Len(d) /\ \A l \in 1..Len(c) : (c \o d)[l] = c[l]
          OBVIOUS
        <4>2. \A l \in 1..Len(v) : (b \o v)[Len(b) + l] = v[l]
          OBVIOUS
        <4>3. 1 \in 1..Len(v) /\ Len(b) + 1 = n + 2 /\ Len(b) + Len(v) = n + 2
          BY <2>3
        <4>4. (b \o v)[n + 2] = v[1]
          BY <4>2, <4>3, Zenon
        <4>5. Len(b \o v) = n + 2
          BY <4>1, <4>3, Zenon
        <4>6. \A l \in 1..n + 1 : (b \o v)[l] = b[l]
          BY <4>1, Zenon
        <4> QED
          BY <4>4, <4>5, <4>6
      <3>2. u \in Seq(Chars) /\ Len(u) = n + 1
        BY <1>3
      <3> QED
        BY <3>1, <3>2, <2>3, <2>5, Zenon
    <2> QED
      BY <2>4, <2>5, <2>6, Zenon
  <1> QED
    BY <1>1, <1>3, <1>4

\* What the bars of a group join has no brackets in it.
LEMMA JoinedSays ==
  ASSUME NEW alts \in Seq(Seq(Chars \ Marks))
  PROVE  Joined(alts) \in Seq(Chars \ {"(", ")"})
  <1> DEFINE X == Chars \ {"(", ")"}
             s == [k \in DOMAIN alts |-> IF k = 1 THEN alts[k] ELSE <<"|">> \o alts[k]]
  <1>1. PICK n \in Nat : n = Len(alts) /\ DOMAIN alts = 1..n
    OBVIOUS
  <1>2. "|" \in X /\ Chars \ Marks \subseteq X
    BY CharsThere DEF Marks
  <1> HIDE DEF X
  <1>3. ASSUME NEW k \in 1..n PROVE s[k] \in Seq(X)
    <2>1. PICK a : a = alts[k]
      OBVIOUS
    <2>2. a \in Seq(Chars \ Marks)
      BY <2>1, <1>1
    <2>3. a \in Seq(X)
      BY <2>2, <1>2
    <2>4. <<"|">> \in Seq(X)
      BY <1>2
    <2>5. <<"|">> \o a \in Seq(X)
      BY <2>3, <2>4
    <2> QED
      BY <2>1, <2>3, <2>5, <1>1
  <1>4. s \in [1..n -> Seq(X)]
    BY <1>1, <1>3
  <1>5. FlattenSeq(s) \in Seq(X)
    <2> HIDE DEF s
    <2> QED
      BY <1>4, Flattened DEF Collects
  <1> QED
    BY <1>5 DEF Joined, X

\* The text of a piece is one of characters; a plain piece falls into parts.
LEMMA SingleSays ==
  ASSUME NEW p, IsSingle(p)
  PROVE  /\ p.kind # "rep" /\ UnrepeatedText(p) \in Seq(Chars)
         /\ PlainClass(p) => UnrepeatedText(p) \in Parted(FALSE)
  <1>a. PICK t : t = UnrepeatedText(p)
    OBVIOUS
  <1>0. t \in Seq(Chars) /\ Len(t) > 0 /\ IsPart(t, 1, Len(t), FALSE) => t \in Parted(FALSE)
    BY FewParts
  <1> SUFFICES /\ p.kind # "rep" /\ t \in Seq(Chars)
               /\ PlainClass(p) => t \in Parted(FALSE)
    BY <1>a
  <1>1. CASE p.kind = "lit" /\ p.char \in Chars \ Marks /\ p = Lit(p.char)
    <2>1. t = <<p.char>>
      BY <1>a, <1>1 DEF UnrepeatedText
    <2>2. t \in Seq(Chars) /\ Len(t) = 1 /\ t[1] = p.char
      BY <1>1, <2>1
    <2>3. Len(t) > 0 /\ IsPart(t, 1, Len(t), FALSE)
      <3>1. t[1] \notin {"(", "[", "{", "\\"}
        BY <1>1, <2>2, Zenon DEF Marks
      <3>2. IsPart(t, 1, 1, FALSE)
        BY <3>1, Zenon DEF IsPart, IsOne
      <3>3. Len(t) > 0
        BY <2>2
      <3> QED
        BY <2>2, <3>2, <3>3, Zenon
    <2> QED
      BY <1>0, <1>1, <2>2, <2>3, Zenon
  <1>2. CASE p.kind = "escaped" /\ p.char \in Chars /\ p = Escaped(p.char)
    <2>1. t = <<"\\", p.char>>
      BY <1>a, <1>2 DEF UnrepeatedText
    <2>2. t \in Seq(Chars) /\ Len(t) = 2 /\ t[1] = "\\"
      BY <1>2, <2>1, SpecialChars
    <2>3. Len(t) > 0 /\ IsPart(t, 1, Len(t), FALSE)
      BY <2>2 DEF IsPart, IsEscape
    <2> QED
      BY <1>0, <1>2, <2>2, <2>3, Zenon
  <1>3. CASE p = Dot
    <2>1. t = <<".">> /\ p.kind = "dot"
      BY <1>a, <1>3 DEF UnrepeatedText, Dot
    <2>2. t \in Seq(Chars) /\ Len(t) = 1 /\ t[1] = "."
      BY <2>1, SpecialChars
    <2>3. Len(t) > 0 /\ IsPart(t, 1, Len(t), FALSE)
      BY <2>2 DEF IsPart, IsOne
    <2> QED
      BY <1>0, <2>1, <2>2, <2>3, Zenon
  <1>4. CASE p = Digit
    <2>1. t = <<"\\", "d">> /\ p.kind = "digit"
      BY <1>a, <1>4 DEF UnrepeatedText, Digit
    <2>2. t \in Seq(Chars) /\ Len(t) = 2 /\ t[1] = "\\"
      BY <2>1, SpecialChars
    <2>3. Len(t) > 0 /\ IsPart(t, 1, Len(t), FALSE)
      BY <2>2 DEF IsPart, IsEscape
    <2> QED
      BY <1>0, <2>1, <2>2, <2>3, Zenon
  <1>5. CASE p.kind = "class" /\ p.chars \in Seq(Chars) /\ p = Class(p.chars)
    <2>1. t = <<"[">> \o p.chars \o <<"]">>
      BY <1>a, <1>5 DEF UnrepeatedText
    <2>2. PICK m \in Seq(Chars) : m = p.chars
      BY <1>5
    <2>3. "[" \in Chars /\ "]" \in Chars
      BY SpecialChars
    <2>4. /\ t \in Seq(Chars) /\ Len(t) = Len(m) + 2 /\ t[1] = "[" /\ t[Len(t)] = "]"
          /\ \A l \in 2..Len(t) - 1 : l - 1 \in 1..Len(m) /\ t[l] = m[l - 1]
      BY <2>1, <2>2, <2>3, Enclosed
    <2>5. ASSUME PlainClass(p) PROVE Len(t) > 0 /\ IsPart(t, 1, Len(t), FALSE)
      <3>1. \A l \in 1..Len(m) : m[l] \in Alnum
        BY <1>5, <2>2, <2>5 DEF PlainClass, ToSet
      <3>2. \A l \in 1 + 1..Len(t) - 1 : t[l] \in Alnum
        BY <2>4, <3>1
      <3>3. 1 < Len(t)
        BY <2>4
      <3> QED
        BY <2>4, <3>2, <3>3 DEF IsPart, IsClass
    <2> QED
      BY <1>0, <1>5, <2>4, <2>5, Zenon
  <1>6. CASE p.kind = "range" /\ {p.from, p.to} \subseteq Chars /\ p = CharRange(p.from, p.to)
    <2>1. t = <<"[", p.from, "-", p.to, "]">>
      BY <1>a, <1>6 DEF UnrepeatedText
    <2>2. /\ t \in Seq(Chars) /\ Len(t) = 5 /\ t[1] = "[" /\ t[5] = "]"
          /\ t[2] = p.from /\ t[3] = "-" /\ t[4] = p.to
      BY <2>1, <1>6, SpecialChars
    <2>3. Len(t) > 0 /\ (PlainClass(p) => IsPart(t, 1, Len(t), FALSE))
      <3>1. PlainClass(p) => {t[1 + 1], t[1 + 3]} \subseteq Alnum /\ t[1 + 2] = "-"
        BY <1>6, <2>2 DEF PlainClass
      <3> QED
        BY <2>2, <3>1 DEF IsPart, IsClass
    <2> QED
      BY <1>0, <1>6, <2>2, <2>3, Zenon
  <1>7. CASE p.kind = "group" /\ p.alts \in Seq(Seq(Chars \ Marks)) /\ p = Group(p.alts)
    <2>1. t = <<"(">> \o Joined(p.alts) \o <<")">>
      BY <1>a, <1>7 DEF UnrepeatedText
    <2>2. PICK m \in Seq(Chars \ {"(", ")"}) : m = Joined(p.alts)
      BY <1>7, JoinedSays
    <2>3. "(" \in Chars /\ ")" \in Chars /\ m \in Seq(Chars)
      BY SpecialChars
    <2>4. /\ t \in Seq(Chars) /\ Len(t) = Len(m) + 2 /\ t[1] = "(" /\ t[Len(t)] = ")"
          /\ \A l \in 2..Len(t) - 1 : l - 1 \in 1..Len(m) /\ t[l] = m[l - 1]
      BY <2>1, <2>2, <2>3, Enclosed
    <2>5. \A l \in 1 + 1..Len(t) - 1 : t[l] \notin {"(", ")"}
      BY <2>4
    <2>6. Len(t) > 0 /\ IsPart(t, 1, Len(t), FALSE)
      BY <2>4, <2>5 DEF IsPart, IsGroup
    <2> QED
      BY <1>0, <1>7, <2>4, <2>6, Zenon
  <1> QED
    BY <1>1, <1>2, <1>3, <1>4, <1>5, <1>6, <1>7, <1>a DEF IsSingle

\* The marks that a part begins with are not among the letters, digits and wide characters.
LEMMA PlainStarts ==
  /\ \A c \in Unquoted : c \notin {"(", "[", "{", "\\"}
  /\ \A c \in {"*", "+", "?", ".", "0"} : c \notin {"(", "[", "{", "\\"}
  /\ "{" # "}" /\ "2" # "}" /\ "{" \in Chars /\ "}" \in Chars
  <1>1. \A c \in Alnum \cup Wide : c \notin Marks
    BY CharsAssumption
  <1>2. \A c \in {"(", "[", "{", "\\"} : c \in Marks
    BY Zenon DEF Marks
  <1>3. \A c \in {"(", "[", "{", "\\"} : c \notin {"_", "!", " ", "'", "="}
    BY Zenon
  <1>4. \A c \in Unquoted : c \notin {"(", "[", "{", "\\"}
    BY <1>1, <1>2, <1>3, Zenon DEF Unquoted
  <1>5. "{" \in Marks /\ "}" \in Marks
    BY Zenon DEF Marks
  <1> QED
    BY <1>4, <1>5, CharsThere, Zenon

\* A text of one character, or of one behind a backslash.
LEMMA ShortTexts ==
  ASSUME NEW quoted \in BOOLEAN, NEW c \in Chars
  PROVE  /\ c \notin {"(", "[", "{", "\\"} => <<c>> \in Parted(quoted)
         /\ <<"\\", c>> \in Parted(quoted)
  <1>1. PICK t : t = <<c>>
    OBVIOUS
  <1>2. t \in Seq(Chars) /\ Len(t) = 1 /\ t[1] = c /\ Len(t) > 0
    BY <1>1
  <1>3. c \notin {"(", "[", "{", "\\"} => IsPart(t, 1, Len(t), quoted)
    BY <1>2, Zenon DEF IsPart, IsOne
  <1>4. PICK u : u = <<"\\", c>>
    OBVIOUS
  <1>5. u \in Seq(Chars) /\ Len(u) = 2 /\ u[1] = "\\" /\ Len(u) > 0
    BY <1>4, SpecialChars
  <1>6. IsPart(u, 1, Len(u), quoted)
    BY <1>5 DEF IsPart, IsEscape
  <1>7. t \in Parted(quoted) \/ ~IsPart(t, 1, Len(t), quoted)
    BY <1>2, FewParts, Zenon
  <1>8. u \in Parted(quoted)
    BY <1>5, <1>6, FewParts, Zenon
  <1> QED
    BY <1>1, <1>3, <1>4, <1>7, <1>8, Zenon

\* A number between two other characters.
LEMMA TwoBetween ==
  ASSUME NEW left \in Chars, NEW right \in Chars, left # right, "2" # right,
         NEW t, t = <<left, "2", right>>
  PROVE  /\ t \in Seq(Chars) /\ Len(t) = 3 /\ Len(t) > 0 /\ t[1] = left /\ t[3] = right
         /\ \A l \in 1..3 - 1 : t[l] # right
  <1>1. t \in Seq(Chars) /\ Len(t) = 3 /\ t[1] = left /\ t[2] = "2" /\ t[3] = right
    BY SpecialChars
  <1> QED
    BY <1>1

\* The text of a counted repetition.
LEMMA BracesSay == <<"{", "2", "}">> \in Parted(FALSE)
  <1>1. PICK left \in Chars : left = "{"
    BY PlainStarts, Zenon
  <1>2. PICK right \in Chars : right = "}"
    BY PlainStarts, Zenon
  <1>3. PICK t : t = <<left, "2", right>>
    OBVIOUS
  <1>5. left # right /\ "2" # right
    BY <1>1, <1>2, PlainStarts, Zenon
  <1>4. /\ t \in Seq(Chars) /\ Len(t) = 3 /\ Len(t) > 0 /\ t[1] = left /\ t[3] = right
        /\ \A l \in 1..3 - 1 : t[l] # right
    <2>1. left \in Chars /\ right \in Chars
      BY <1>1, <1>2, Zenon
    <2> QED
      BY <1>3, <1>5, <2>1, TwoBetween
  <1>7. IsBraces(t, 1, 3)
    BY <1>1, <1>2, <1>4, Zenon DEF IsBraces
  <1>8. IsPart(t, 1, Len(t), FALSE)
    BY <1>4, <1>7, Zenon DEF IsPart
  <1>9. t \in Parted(FALSE)
    BY <1>4, <1>8, FewParts, Zenon
  <1> QED
    BY <1>1, <1>2, <1>3, <1>9, Zenon

\* The text of an operator.
LEMMA OpSays ==
  ASSUME NEW op \in {"*", "+", "?", "{2}"}
  PROVE  OpText(op) \in Parted(FALSE)
  <1>1. CASE op = "{2}"
    <2> QED
      BY <1>1, BracesSay, Zenon DEF OpText
  <1>2. CASE op # "{2}"
    <2>1. op \in {"*", "+", "?"} /\ OpText(op) = <<op>>
      BY <1>2, Zenon DEF OpText
    <2>2. op \in Chars
      BY <2>1, SpecialChars
    <2>3. op \notin {"(", "[", "{", "\\"}
      BY <2>1, PlainStarts, Zenon
    <2> QED
      BY <2>1, <2>2, <2>3, ShortTexts, Zenon
  <1> QED
    BY <1>1, <1>2

\* The text of a piece, repeated or not.
LEMMA PieceSays ==
  ASSUME NEW p, IsPiece(p)
  PROVE  /\ PieceText(p) \in Seq(Chars)
         /\ PlainClass(Unrepeated(p)) => PieceText(p) \in Parted(FALSE)
  <1>0. \A q : Parted(q) \subseteq Seq(Chars)
    BY DEF Parted
  <1>1. CASE IsSingle(p)
    <2>1. PICK t : t = UnrepeatedText(p)
      OBVIOUS
    <2>2. p.kind # "rep" /\ t \in Seq(Chars) /\ (PlainClass(p) => t \in Parted(FALSE))
      BY <1>1, <2>1, SingleSays, Zenon
    <2>3. Unrepeated(p) = p /\ PieceText(p) = t \o <<>>
      BY <2>1, <2>2, Zenon DEF PieceText, Unrepeated
    <2>4. t \o <<>> = t
      BY <2>2
    <2> QED
      BY <2>2, <2>3, <2>4, Zenon
  <1>2. CASE p.kind = "rep" /\ IsSingle(p.piece) /\ p.op \in {"*", "+", "?", "{2}"}
    <2>1. PICK t : t = UnrepeatedText(p.piece)
      OBVIOUS
    <2>2. t \in Seq(Chars) /\ (PlainClass(p.piece) => t \in Parted(FALSE))
      BY <1>2, <2>1, SingleSays, Zenon
    <2>3. PICK u : u = OpText(p.op)
      OBVIOUS
    <2>4. u \in Parted(FALSE) /\ u \in Seq(Chars)
      BY <1>2, <2>3, OpSays, <1>0, Zenon
    <2>5. Unrepeated(p) = p.piece /\ PieceText(p) = t \o u
      BY <1>2, <2>1, <2>3, Zenon DEF PieceText, Unrepeated
    <2>6. t \o u \in Seq(Chars)
      BY <2>2, <2>4
    <2>7. PlainClass(p.piece) => t \o u \in Parted(FALSE)
      BY <2>2, <2>4, PartedConcat, Zenon
    <2> QED
      BY <2>5, <2>6, <2>7, Zenon
  <1> QED
    BY <1>1, <1>2, Zenon DEF IsPiece

\* The text of a pattern: one of characters, in parts when its classes are plain.
LEMMA TextSays ==
  ASSUME NEW pieces \in Regexps
  PROVE  /\ Text(pieces) \in Seq(Chars)
         /\ (\A k \in DOMAIN pieces : PlainClass(Unrepeated(pieces[k]))) => Text(pieces) \in Parted(FALSE)
  <1>1. pieces \in Seq(ToSet(pieces)) /\ \A k \in DOMAIN pieces : IsPiece(pieces[k])
    BY InputsAssumption
  <1>2. PICK n \in Nat : DOMAIN pieces = 1..n
    BY <1>1
  <1> DEFINE s == [k \in 1..n |-> PieceText(pieces[k])]
  <1>3. Text(pieces) = FlattenSeq(s)
    BY <1>2 DEF Text
  <1>4. s \in [1..n -> Seq(Chars)]
    <2>1. \A k \in 1..n : PieceText(pieces[k]) \in Seq(Chars)
      BY <1>1, <1>2, PieceSays
    <2> QED
      BY <2>1
  <1>5. ASSUME \A k \in DOMAIN pieces : PlainClass(Unrepeated(pieces[k]))
        PROVE  s \in [1..n -> Parted(FALSE)]
    <2>1. \A k \in 1..n : PieceText(pieces[k]) \in Parted(FALSE)
      BY <1>1, <1>2, <1>5, PieceSays, Zenon
    <2> QED
      BY <2>1
  <1> HIDE DEF s
  <1>6. FlattenSeq(s) \in Seq(Chars)
    BY <1>4, Flattened DEF Collects
  <1>7. s \in [1..n -> Parted(FALSE)] => FlattenSeq(s) \in Parted(FALSE)
    BY PartedFlattened, Zenon
  <1> QED
    BY <1>3, <1>5, <1>6, <1>7, Zenon

\* A quoted text falls into parts.
LEMMA QuoteSays ==
  ASSUME NEW literal \in Seq(Chars)
  PROVE  QuoteMeta(literal) \in Parted(TRUE)
  <1>1. ASSUME NEW c \in Chars PROVE Quote(c) \in Parted(TRUE)
    <2>1. CASE c \in Unquoted
      BY <2>1, PlainStarts, ShortTexts, Zenon DEF Quote
    <2>2. CASE c \notin Unquoted /\ c # Zero
      BY <2>2, ShortTexts, Zenon DEF Quote
    <2>3. CASE c \notin Unquoted /\ c = Zero
      <3>1. PICK t : t = <<"\\", "x">>
        OBVIOUS
      <3>2. PICK u : u = <<"0">>
        OBVIOUS
      <3>3. Quote(c) = (t \o u) \o u
        <4>1. Quote(c) = <<"\\", "x", "0", "0">>
          BY <2>3, Zenon DEF Quote
        <4> QED
          BY <3>1, <3>2, <4>1
      <3>4. t \in Parted(TRUE) /\ u \in Parted(TRUE)
        <4>1. "x" \in Chars /\ "0" \in Chars /\ "0" \notin {"(", "[", "{", "\\"}
          BY SpecialChars, PlainStarts, Zenon
        <4> QED
          BY <3>1, <3>2, <4>1, ShortTexts, Zenon
      <3>5. (t \o u) \o u \in Parted(TRUE)
        BY <3>4, PartedConcat, Zenon
      <3> QED
        BY <3>3, <3>5, Zenon
    <2> QED
      BY <2>1, <2>2, <2>3
  <1>2. PICK n \in Nat : DOMAIN literal = 1..n
    OBVIOUS
  <1> DEFINE s == [k \in 1..n |-> Quote(literal[k])]
  <1>3. QuoteMeta(literal) = FlattenSeq(s)
    BY <1>2 DEF QuoteMeta
  <1>4. s \in [1..n -> Parted(TRUE)]
    <2>1. \A k \in 1..n : literal[k] \in Chars
      BY <1>2
    <2>2. \A k \in 1..n : Quote(literal[k]) \in Parted(TRUE)
      BY <1>1, <2>1, Zenon
    <2> QED
      BY <2>2, Zenon
  <1> HIDE DEF s
  <1>5. FlattenSeq(s) \in Parted(TRUE)
    BY <1>4, PartedFlattened, Zenon
  <1> QED
    BY <1>3, <1>5, Zenon
------------------------------------------------------------------------------
(***************************************************************************)
(* Bytes.                                                                  *)
(***************************************************************************)
\* The bytes of the prefixes of s.
CountsBytes(n, s, f) == f = [k \in 0..n |-> IF k = 0 THEN 0 ELSE f[k - 1] + ByteLen(s[k])]

\* A text has its bytes counted, one character after the other.
LEMMA BytesExist ==
  ASSUME NEW n \in Nat, NEW s \in [1..n -> Chars]
  PROVE  \E f \in [0..n -> Nat] : CountsBytes(n, s, f)
  <1> DEFINE S == {m \in Nat : m <= n => \E f \in [0..m -> Nat] : CountsBytes(m, s, f)}
  <1>0. \A k \in 1..n : ByteLen(s[k]) \in Nat
    BY CaseAssumption
  <1>1. 0 \in S
    <2>1. [k \in 0..0 |-> 0] \in [0..0 -> Nat] /\ CountsBytes(0, s, [k \in 0..0 |-> 0])
      BY DEF CountsBytes
    <2> QED
      BY <2>1
  <1>2. ASSUME NEW m \in Nat, m \in S PROVE m + 1 \in S
    <2>0. CASE ~(m + 1 <= n)
      BY <2>0
    <2>1. CASE m + 1 <= n
      <3>1. PICK f \in [0..m -> Nat] : CountsBytes(m, s, f)
        BY <1>2, <2>1
      <3>2. PICK last \in Nat : last = f[m] + ByteLen(s[m + 1])
        BY <1>0, <2>1
      <3> DEFINE g == [k \in 0..m + 1 |-> IF k = m + 1 THEN last ELSE f[k]]
      <3>3. g \in [0..m + 1 -> Nat]
        OBVIOUS
      <3>4. ASSUME NEW k \in 0..m + 1
            PROVE  g[k] = IF k = 0 THEN 0 ELSE g[k - 1] + ByteLen(s[k])
        <4>1. CASE k = m + 1
          <5>1. k # 0 /\ k - 1 = m /\ m \in 0..m + 1 /\ m # m + 1
            BY <4>1
          <5> QED
            BY <5>1, <4>1, <3>2
        <4>2. CASE k # m + 1
          <5>1. k \in 0..m /\ g[k] = f[k] /\ (k # 0 => k - 1 \in 0..m /\ g[k - 1] = f[k - 1])
            BY <4>2
          <5>2. f[k] = IF k = 0 THEN 0 ELSE f[k - 1] + ByteLen(s[k])
            BY <3>1, <5>1 DEF CountsBytes
          <5> QED
            BY <5>1, <5>2
        <4> QED
          BY <4>1, <4>2
      <3>6. g = [k \in 0..m + 1 |-> g[k]]
        OBVIOUS
      <3>5. CountsBytes(m + 1, s, g)
        <4> HIDE DEF g
        <4> QED
          BY <3>4, <3>6 DEF CountsBytes
      <3> HIDE DEF g
      <3>7. \E h \in [0..m + 1 -> Nat] : CountsBytes(m + 1, s, h)
        BY <3>3, <3>5, Zenon
      <3>8. m + 1 \in Nat
        OBVIOUS
      <3> QED
        BY <3>7, <3>8, Zenon
    <2> QED
      BY <2>0, <2>1
  <1> HIDE DEF S
  <1>3. n \in S
    BY <1>1, <1>2, SetInduction
  <1> QED
    BY <1>3 DEF S

\* A text has as many bytes as characters, or more when some of them are wide.
LEMMA BytesSay ==
  ASSUME NEW s \in Seq(Chars)
  PROVE  /\ Bytes(s) \in Nat
         /\ (\A k \in 1..Len(s) : s[k] \notin Wide) => Bytes(s) = Len(s)
  <1>1. PICK n \in Nat : n = Len(s) /\ s \in [1..n -> Chars]
    OBVIOUS
  <1>2. PICK h : CountsBytes(n, s, h) /\ Bytes(s) = h[n]
    <2> DEFINE h == CHOOSE f : CountsBytes(n, s, f)
    <2>1. Bytes(s) = h[n]
      BY <1>1 DEF Bytes, CountsBytes
    <2>2. CountsBytes(n, s, h)
      BY <1>1, BytesExist
    <2> QED
      BY <2>1, <2>2
  <1>3. \A k \in 0..n : h[k] = IF k = 0 THEN 0 ELSE h[k - 1] + ByteLen(s[k])
    BY <1>2 DEF CountsBytes
  <1> DEFINE S == {k \in 0..n : h[k] \in Nat /\ ((\A l \in 1..n : s[l] \notin Wide) => h[k] = k)}
  <1>4. 0 \in S
    BY <1>3
  <1>5. ASSUME NEW k \in 0..n - 1, k \in S PROVE k + 1 \in S
    <2>1. k + 1 \in 0..n /\ k + 1 # 0 /\ k + 1 \in 1..n /\ (k + 1) - 1 = k
      OBVIOUS
    <2>2. h[k + 1] = h[k] + ByteLen(s[k + 1])
      BY <2>1, <1>3
    <2>3. s[k + 1] \in Chars
      BY <2>1, <1>1
    <2>4. PICK b \in Nat : b = ByteLen(s[k + 1])
      BY <2>3, CaseAssumption
    <2>5. s[k + 1] \notin Wide => b = 1
      BY <2>3, <2>4, CaseAssumption
    <2>6. PICK a \in Nat : a = h[k] /\ ((\A l \in 1..n : s[l] \notin Wide) => a = k)
      BY <1>5
    <2>7. h[k + 1] = a + b
      BY <2>2, <2>4, <2>6
    <2>8. h[k + 1] \in Nat
      BY <2>7
    <2>9. ASSUME \A l \in 1..n : s[l] \notin Wide PROVE h[k + 1] = k + 1
      BY <2>1, <2>5, <2>6, <2>7, <2>9
    <2> QED
      BY <2>1, <2>8, <2>9
  <1> HIDE DEF S
  <1>6. n \in S
    BY <1>4, <1>5, PrefixInduction
  <1> QED
    BY <1>1, <1>2, <1>6 DEF S

\* Where no character is wide, the ends of slices are counts of characters.
LEMMA SliceSays ==
  ASSUME NEW s \in Seq(Chars), \A k \in 1..Len(s) : s[k] \notin Wide
  PROVE  /\ Boundaries(s) = 0..Len(s)
         /\ \A a, b \in 0..Len(s) : Slice(s, a, b) = SubSeq(s, a + 1, b)
  <1>1. ASSUME NEW k \in 0..Len(s) PROVE Bytes(SubSeq(s, 1, k)) = k
    <2>1. PICK p \in Seq(Chars) : p = SubSeq(s, 1, k) /\ Len(p) = k /\ \A l \in 1..k : p[l] = s[l]
      <3>1. /\ SubSeq(s, 1, k) \in Seq(Chars) /\ Len(SubSeq(s, 1, k)) = k
            /\ \A l \in 1..k : SubSeq(s, 1, k)[l] = s[l]
        OBVIOUS
      <3> QED
        BY <3>1
    <2>2. \A l \in 1..Len(p) : p[l] \notin Wide
      BY <2>1
    <2> QED
      BY <2>1, <2>2, BytesSay
  <1>2. Boundaries(s) = 0..Len(s)
    BY <1>1 DEF Boundaries
  <1>3. ASSUME NEW k \in 0..Len(s) PROVE CharsBefore(s, k) = k
    <2>1. \A l \in 0..Len(s) : Bytes(SubSeq(s, 1, l)) = k <=> l = k
      BY <1>1
    <2> QED
      BY <2>1 DEF CharsBefore
  <1> QED
    BY <1>2, <1>3 DEF Slice

\* The pattern of every source, and its lowercase.
LEMMA SourceSays ==
  ASSUME NEW src \in Sources
  PROVE  /\ PatternOf(src) \in Seq(Chars)
         /\ src.quoted \in BOOLEAN
         /\ (src.quoted \/ \A k \in DOMAIN src.pieces : PlainClass(Unrepeated(src.pieces[k])))
            => Lower(PatternOf(src)) \in Parted(src.quoted)
  <1>0. \A q : Parted(q) \subseteq Seq(Chars)
    BY DEF Parted
  <1>1. CASE src \in [quoted : {FALSE}, pieces : Regexps]
    <2>1. src.quoted = FALSE /\ src.pieces \in Regexps
      BY <1>1
    <2>2. PICK t : t = Text(src.pieces)
      OBVIOUS
    <2>3. PatternOf(src) = t
      BY <2>1, <2>2 DEF PatternOf
    <2>4. t \in Seq(Chars) /\ ((\A k \in DOMAIN src.pieces : PlainClass(Unrepeated(src.pieces[k]))) => t \in Parted(FALSE))
      BY <2>1, <2>2, TextSays, Zenon
    <2>5. t \in Parted(FALSE) => Lower(t) \in Parted(FALSE)
      BY PartedLower, Zenon
    <2> QED
      BY <2>1, <2>3, <2>4, <2>5, Zenon
  <1>2. CASE src \in [quoted : {TRUE}, literal : Literals]
    <2>1. src.quoted = TRUE /\ src.literal \in Seq(Chars)
      BY <1>2, InputsAssumption
    <2>2. PICK t : t = QuoteMeta(src.literal)
      OBVIOUS
    <2>3. PatternOf(src) = t
      BY <2>1, <2>2 DEF PatternOf
    <2>4. t \in Parted(TRUE) /\ t \in Seq(Chars)
      BY <2>1, <2>2, QuoteSays, <1>0, Zenon
    <2>5. Lower(t) \in Parted(TRUE)
      BY <2>4, PartedLower, Zenon
    <2> QED
      BY <2>1, <2>3, <2>4, <2>5, Zenon
  <1> QED
    BY <1>1, <1>2 DEF Sources
------------------------------------------------------------------------------
(***************************************************************************)
(* NeverPanics: each turn of the loop reads a part.                        *)
(***************************************************************************)
\* The pattern does not change, the position is one of its part's, and the process goes on.
ReadsParts ==
  /\ source \in Sources /\ str = Lower(PatternOf(source))
  /\ Supported => pc # "panic" /\ \E S : PartsAt(str, S, source.quoted) /\ i \in S

\* A supported pattern is in parts; without quotes it has no wide characters.
LEMMA SupportedParts ==
  ASSUME source \in Sources, str = Lower(PatternOf(source)), Supported
  PROVE  /\ str \in Seq(Chars) /\ source.quoted \in BOOLEAN
         /\ \E S : PartsAt(str, S, source.quoted) /\ 1 \in S
         /\ ~source.quoted => \A k \in 1..Len(str) : str[k] \notin Wide
  <1>1. PICK t : t = PatternOf(source)
    OBVIOUS
  <1>2. t \in Seq(Chars) /\ source.quoted \in BOOLEAN
    BY <1>1, SourceSays, Zenon
  <1>3. str \in Parted(source.quoted)
    BY <1>1, SourceSays, Zenon DEF Supported
  <1>4. \E S : PartsAt(str, S, source.quoted) /\ 1 \in S
    <2>1. PICK S : PartsAt(str, S, source.quoted)
      BY <1>3, Zenon DEF Parted
    <2>2. 1 \in S
      BY <2>1, Zenon DEF PartsAt
    <2> QED
      BY <2>1, <2>2
  <1>5. str = Lower(t)
    BY <1>1
  <1>6. str \in Seq(Chars) /\ Len(str) = Len(t) /\ \A k \in 1..Len(t) : str[k] = LowerChar(t[k])
    BY <1>2, <1>5, LowerSays, Zenon
  <1>7. ASSUME ~source.quoted, NEW k \in 1..Len(str) PROVE str[k] \notin Wide
    <2>1. ToSet(t) \cap Wide = {}
      BY <1>1, <1>7, Zenon DEF Supported, Characters
    <2>2. k \in 1..Len(t) /\ t[k] \in Chars /\ t[k] \in ToSet(t)
      BY <1>2, <1>6 DEF ToSet
    <2> QED
      BY <2>1, <2>2, <1>6, CaseAssumption
  <1> QED
    BY <1>2, <1>4, <1>6, <1>7

\* The first closing bracket is the only one that is first.
LEMMA OneCloses ==
  ASSUME NEW c, i \in Nat, NEW e \in Closing(c)
  PROVE  Closing(c) = {e}
  <1>1. ASSUME NEW k \in Closing(c) PROVE k = e
    <2>1. /\ k \in i..Len(str) /\ str[k] = c /\ \A l \in i..k - 1 : str[l] # c
          /\ e \in i..Len(str) /\ str[e] = c /\ \A l \in i..e - 1 : str[l] # c
      BY <1>1, Zenon DEF Closing
    <2>2. ~(k < e) /\ ~(e < k)
      BY <2>1
    <2> QED
      BY <2>1, <2>2
  <1> QED
    BY <1>1

\* Places are numbers.
LEMMA PlacesAreNat ==
  ASSUME NEW S, NEW t, NEW quoted, PartsAt(t, S, quoted), NEW p \in S
  PROVE  p \in Nat
  BY DEF PartsAt

\* A character that opens nothing is a part of its own.
LEMMA OneFollows ==
  ASSUME NEW S, NEW t, NEW quoted, PartsAt(t, S, quoted), NEW p \in S, p <= Len(t),
         t[p] \notin {"(", "[", "{", "\\"}
  PROVE  p + 1 \in S
  <1>1. PICK e \in p..Len(t) : e + 1 \in S /\ IsPart(t, p, e, quoted)
    BY Zenon DEF PartsAt
  <1>2. e = p
    BY <1>1, Zenon DEF IsPart, IsOne, IsEscape, IsBraces, IsGroup, IsClass
  <1> QED
    BY <1>1, <1>2

\* After a backslash a character is passed.
LEMMA EscapeFollows ==
  ASSUME NEW S, NEW t, NEW quoted, PartsAt(t, S, quoted), NEW p \in S, p <= Len(t),
         t[p] = "\\"
  PROVE  p + 2 \in S
  <1>0. p \in Nat
    BY DEF PartsAt
  <1>1. PICK e \in p..Len(t) : e + 1 \in S /\ IsPart(t, p, e, quoted)
    BY Zenon DEF PartsAt
  <1>2. e = p + 1
    <2>1. "\\" # "(" /\ "\\" # "["
      OBVIOUS
    <2>2. "\\" # "{"
      BY Zenon
    <2> QED
      BY <1>1, <2>1, <2>2, Zenon DEF IsPart, IsOne, IsEscape, IsBraces, IsGroup, IsClass
  <1>3. e + 1 = p + 2
    BY <1>0, <1>2
  <1> QED
    BY <1>1, <1>3

\* An open bracket of a group has its closing one, and the next part begins behind it.
LEMMA GroupFollows ==
  ASSUME NEW S, PartsAt(str, S, source.quoted), i \in S, i <= Len(str), str[i] = "("
  PROVE  /\ ~source.quoted
         /\ \E e \in i..Len(str) : i < e /\ Closing(")") = {e} /\ e + 1 \in S /\ IsGroup(str, i, e)
  <1>0. i \in Nat
    BY DEF PartsAt
  <1>1. PICK e \in i..Len(str) : e + 1 \in S /\ IsPart(str, i, e, source.quoted)
    BY Zenon DEF PartsAt
  <1>2. ~source.quoted /\ IsGroup(str, i, e)
    <2>1. "(" # "\\" /\ "(" # "["
      OBVIOUS
    <2>2. "(" # "{"
      BY Zenon
    <2> QED
      BY <1>1, <2>1, <2>2, Zenon DEF IsPart, IsOne, IsEscape, IsBraces, IsClass
  <1>3. i < e /\ str[e] = ")" /\ \A l \in i..e - 1 : str[l] # ")"
    BY <1>0, <1>2 DEF IsGroup
  <1>4. e \in Closing(")")
    BY <1>3 DEF Closing
  <1>5. Closing(")") = {e}
    BY <1>0, <1>4, OneCloses
  <1> QED
    BY <1>1, <1>2, <1>3, <1>5

\* Braces close.
LEMMA BracesFollow ==
  ASSUME NEW S, PartsAt(str, S, source.quoted), i \in S, i <= Len(str), str[i] = "{"
  PROVE  \E e \in i..Len(str) : Closing("}") = {e} /\ e + 1 \in S
  <1>0. i \in Nat
    BY PlacesAreNat, Zenon
  <1>1. PICK e \in i..Len(str) : e + 1 \in S /\ IsPart(str, i, e, source.quoted)
    BY Zenon DEF PartsAt
  <1>2. IsBraces(str, i, e)
    <2>1. "{" # "\\" /\ "{" # "[" /\ "{" # "("
      BY Zenon
    <2> QED
      BY <1>1, <2>1, Zenon DEF IsPart, IsOne, IsEscape, IsGroup, IsClass
  <1>4. e \in Closing("}")
    BY <1>2, Zenon DEF Closing, IsBraces
  <1>5. Closing("}") = {e}
    BY <1>0, <1>4, OneCloses, Zenon
  <1> QED
    BY <1>1, <1>5, Zenon

\* A class closes.
LEMMA ClassFollows ==
  ASSUME NEW S, PartsAt(str, S, source.quoted), i \in S, i <= Len(str), str[i] = "["
  PROVE  /\ ~source.quoted
         /\ \E e \in i..Len(str) : i < e /\ Closing("]") = {e} /\ e + 1 \in S /\ IsClass(str, i, e)
  <1>0. i \in Nat
    BY DEF PartsAt
  <1>1. PICK e \in i..Len(str) : e + 1 \in S /\ IsPart(str, i, e, source.quoted)
    BY Zenon DEF PartsAt
  <1>2. ~source.quoted /\ IsClass(str, i, e)
    <2>1. "[" # "\\" /\ "(" # "["
      OBVIOUS
    <2>2. "[" # "{"
      BY Zenon
    <2> QED
      BY <1>1, <2>1, <2>2, Zenon DEF IsPart, IsOne, IsEscape, IsBraces, IsGroup
  <1>3. i < e /\ str[e] = "]" /\ \A l \in i..e - 1 : str[l] # "]"
    <2>1. "]" \notin Alnum /\ "-" # "]" /\ "[" # "]"
      BY CharsThere DEF Marks
    <2>2. i < e /\ str[e] = "]"
      BY <1>2 DEF IsClass
    <2>3. CASE \A l \in i + 1..e - 1 : str[l] \in Alnum
      BY <2>1, <2>2, <2>3, <1>0
    <2>4. CASE e = i + 4 /\ {str[i + 1], str[i + 3]} \subseteq Alnum /\ str[i + 2] = "-"
      <3>1. \A l \in i..e - 1 : l = i \/ l = i + 1 \/ l = i + 2 \/ l = i + 3
        BY <2>4, <1>0
      <3>2. str[i] # "]" /\ str[i + 1] # "]" /\ str[i + 2] # "]" /\ str[i + 3] # "]"
        BY <2>1, <2>4
      <3> QED
        BY <2>2, <3>1, <3>2
    <2> QED
      BY <2>3, <2>4, <1>2 DEF IsClass
  <1>4. e \in Closing("]")
    BY <1>3 DEF Closing
  <1>5. Closing("]") = {e}
    BY <1>0, <1>4, OneCloses
  <1> QED
    BY <1>1, <1>2, <1>3, <1>5

\* The places in s that the elements of r are from: r is what s has of A.
OnlyFrom(s, n, A, r, g) ==
  /\ g \in [1..Len(r) -> 1..n]
  /\ \A x \in 1..Len(r) : r[x] = s[g[x]] /\ s[g[x]] \in A
  /\ \A x, y \in 1..Len(r) : x < y => g[x] < g[y]
  /\ \A k \in 1..n : s[k] \in A => \E x \in 1..Len(r) : g[x] = k

\* Only keeps the order, and every element of A.
LEMMA OnlySays ==
  ASSUME NEW X, NEW s \in Seq(X), NEW A
  PROVE  Only(s, A) \in Seq(A) /\ \E g : OnlyFrom(s, Len(s), A, Only(s, A), g)
  <1>1. PICK n \in Nat : n = Len(s) /\ DOMAIN s = 1..n
    OBVIOUS
  <1> DEFINE t == [k \in 1..n |-> IF s[k] \in A THEN <<s[k]>> ELSE <<>>]
  <1>2. Only(s, A) = FlattenSeq(t)
    BY <1>1 DEF Only
  <1>3. \A k \in 1..n : t[k] \in Seq(A) /\ Len(t[k]) <= 1 /\ (Len(t[k]) = 1 <=> s[k] \in A)
                        /\ (s[k] \in A => t[k][1] = s[k])
    <2> SUFFICES ASSUME NEW k \in 1..n
                 PROVE  /\ t[k] \in Seq(A) /\ Len(t[k]) <= 1 /\ (Len(t[k]) = 1 <=> s[k] \in A)
                        /\ (s[k] \in A => t[k][1] = s[k])
      OBVIOUS
    <2>1. CASE s[k] \in A
      BY <2>1
    <2>2. CASE s[k] \notin A
      BY <2>2
    <2> QED
      BY <2>1, <2>2
  <1>4. t \in [1..n -> Seq(A)]
    BY <1>3
  <1> HIDE DEF t
  <1>5. FlattenSeq(t) \in Seq(A) /\ \E g : Origins(t, n, FlattenSeq(t), g)
    BY <1>3, <1>4, OnesFlattened
  <1>6. PICK r : r = FlattenSeq(t)
    OBVIOUS
  <1>7. PICK g : Origins(t, n, r, g)
    BY <1>5, <1>6
  <1>8. OnlyFrom(s, n, A, r, g)
    BY <1>3, <1>7 DEF Origins, OnlyFrom
  <1> QED
    BY <1>1, <1>2, <1>5, <1>6, <1>8

\* A plain class can be sliced and expanded.
LEMMA ClassSays ==
  ASSUME str \in Seq(Chars), \A k \in 1..Len(str) : str[k] \notin Wide,
         i \in 1..Len(str), NEW e \in i..Len(str), IsClass(str, i, e)
  PROVE  ClassReadable(e)
  <1>1. i - 1 \in 0..Len(str) /\ e \in 0..Len(str) /\ (i - 1) + 1 = i
    OBVIOUS
  <1>2. Boundaries(str) = 0..Len(str) /\ Slice(str, i - 1, e) = SubSeq(str, (i - 1) + 1, e)
    BY <1>1, SliceSays
  <1>3. PICK a \in Nat : a = i - 1
    OBVIOUS
  <1>4. PICK s \in Seq(Chars) : s = SubSeq(str, a + 1, e) /\ Len(s) = e - a
                                 /\ \A l \in 1..e - a : s[l] = str[a + l]
    <2>1. a <= e /\ e <= Len(str) /\ e \in Nat
      BY <1>3
    <2>2. /\ SubSeq(str, a + 1, e) \in Seq(Chars) /\ Len(SubSeq(str, a + 1, e)) = e - a
          /\ \A l \in 1..e - a : SubSeq(str, a + 1, e)[l] = str[a + l]
      BY <2>1, Piece
    <2> QED
      BY <2>2, Zenon
  <1>5. Slice(str, i - 1, e) = s
    BY <1>2, <1>3, <1>4
  <1>6. i < e /\ str[i] = "[" /\ str[e] = "]"
    BY DEF IsClass
  <1>7. Expandable(s)
    <2>0. "-" \notin Alnum /\ "[" # "-" /\ "]" # "-"
      BY CharsThere
    <2>1. CASE \A l \in i + 1..e - 1 : str[l] \in Alnum
      <3>1. ASSUME NEW l \in 1..Len(s) PROVE s[l] # "-"
        <4>1. s[l] = str[a + l] /\ a + l \in i..e
          BY <1>3, <1>4
        <4>2. a + l = i \/ a + l = e \/ a + l \in i + 1..e - 1
          BY <4>1
        <4> QED
          BY <2>0, <2>1, <4>1, <4>2, <1>6
      <3> QED
        BY <3>1 DEF Expandable, HasRange, ToSet
    <2>2. CASE e = i + 4 /\ {str[i + 1], str[i + 3]} \subseteq Alnum /\ str[i + 2] = "-"
      <3>1. Len(s) = 5 /\ s[2] = str[i + 1] /\ s[4] = str[i + 3]
        BY <2>2, <1>3, <1>4
      <3>2. s[2] \in Alnum /\ s[4] \in Alnum
        BY <3>1, <2>2
      <3>3. PICK r : r = Only(s, Alnum)
        OBVIOUS
      <3>4. PICK g : OnlyFrom(s, Len(s), Alnum, r, g)
        BY <1>4, <3>3, OnlySays
      <3>5. r \in Seq(Alnum)
        BY <1>4, <3>3, OnlySays
      <3>6. PICK x \in 1..Len(r), y \in 1..Len(r) : g[x] = 2 /\ g[y] = 4
        BY <3>1, <3>2, <3>4 DEF OnlyFrom
      <3>7. x # y
        BY <3>6
      <3>8. Len(r) >= 2
        BY <3>5, <3>6, <3>7
      <3> QED
        BY <3>3, <3>8 DEF Expandable, Listed
    <2> QED
      BY <2>1, <2>2 DEF IsClass
  <1> QED
    BY <1>1, <1>2, <1>5, <1>7 DEF ClassReadable, Sliceable

\* A group can be sliced.
LEMMA GroupSlices ==
  ASSUME str \in Seq(Chars), \A k \in 1..Len(str) : str[k] \notin Wide,
         i \in 1..Len(str), NEW e \in i..Len(str)
  PROVE  Sliceable(e)
  <1>1. i - 1 \in 0..Len(str) /\ e \in 0..Len(str)
    OBVIOUS
  <1>2. Boundaries(str) = 0..Len(str)
    BY SliceSays
  <1> QED
    BY <1>1, <1>2 DEF Sliceable

\* The steps that end the process are never taken.
LEMMA NoPanic ==
  ASSUME ReadsParts, Supported
  PROVE  ~GroupPanics /\ ~ClassPanics /\ ~BracesPanic
  <1>1. str \in Seq(Chars) /\ (~source.quoted => \A k \in 1..Len(str) : str[k] \notin Wide)
    BY SupportedParts DEF ReadsParts
  <1>2. PICK S : PartsAt(str, S, source.quoted) /\ i \in S
    BY DEF ReadsParts
  <1>0. i \in Nat /\ (i <= Len(str) => i \in 1..Len(str))
    BY <1>2 DEF PartsAt
  <1>3. ~GroupPanics
    <2> SUFFICES ASSUME GroupPanics PROVE FALSE
      OBVIOUS
    <2>1. i <= Len(str) /\ str[i] = "(" /\ \A end \in Closing(")") : ~Sliceable(end)
      BY DEF GroupPanics, At
    <2>2. PICK e \in i..Len(str) : ~source.quoted /\ Closing(")") = {e}
      BY <1>2, <2>1, GroupFollows
    <2>3. Sliceable(e)
      BY <1>0, <1>1, <2>1, <2>2, GroupSlices
    <2> QED
      BY <2>1, <2>2, <2>3
  <1>4. ~ClassPanics
    <2> SUFFICES ASSUME ClassPanics PROVE FALSE
      OBVIOUS
    <2>1. i <= Len(str) /\ str[i] = "[" /\ \A end \in Closing("]") : ~ClassReadable(end)
      BY DEF ClassPanics, At
    <2>2. PICK e \in i..Len(str) : ~source.quoted /\ Closing("]") = {e} /\ IsClass(str, i, e)
      BY <1>2, <2>1, ClassFollows
    <2>3. ClassReadable(e)
      BY <1>0, <1>1, <2>1, <2>2, ClassSays
    <2> QED
      BY <2>1, <2>2, <2>3
  <1>5. ~BracesPanic
    <2> SUFFICES ASSUME BracesPanic PROVE FALSE
      OBVIOUS
    <2>1. i <= Len(str) /\ str[i] = "{" /\ Closing("}") = {}
      BY Zenon DEF BracesPanic, At
    <2>2. \E e \in i..Len(str) : Closing("}") = {e}
      BY <1>2, <2>1, BracesFollow, Zenon
    <2> QED
      BY <2>1, <2>2, Zenon
  <1> QED
    BY <1>3, <1>4, <1>5

\* Each turn goes on at the next part, or at the one behind a dot or a plus sign.
LEMMA TurnReads ==
  ASSUME ReadsParts, Supported, pc = "scan", i <= Len(str), Next,
         NEW S, PartsAt(str, S, source.quoted), i \in S
  PROVE  pc' # "panic" /\ i' \in S
  <1>0. i \in Nat
    BY PlacesAreNat, Zenon
  <1>a. ~GroupPanics /\ ~ClassPanics /\ ~BracesPanic
    BY NoPanic
  <1>b. \A p \in S : p \in Nat
    BY PlacesAreNat, Zenon
  <1>c. \A e \in S : \A c : FollowedBy(e - 1, c) => e <= Len(str) /\ str[e] = c
    <2> SUFFICES ASSUME NEW e \in S, NEW c, FollowedBy(e - 1, c) PROVE e <= Len(str) /\ str[e] = c
      OBVIOUS
    <2>1. e \in Nat /\ (e - 1) + 1 = e /\ Len(str) \in Nat
      BY <1>b, SupportedParts DEF ReadsParts
    <2>2. e - 1 < Len(str) /\ str[(e - 1) + 1] = c
      BY Zenon DEF FollowedBy
    <2> QED
      BY <2>1, <2>2
  <1>1. CASE ReadGroup
    <2>1. i <= Len(str) /\ str[i] = "("
      BY <1>1, Zenon DEF ReadGroup, At
    <2>2. PICK e \in i..Len(str) : Closing(")") = {e} /\ e + 1 \in S
      BY <2>1, GroupFollows
    <2>3. pc' = pc /\ (i' = e + 1 \/ (FollowedBy(e, ".") /\ i' = e + 2))
      BY <1>1, <2>2, Zenon DEF ReadGroup, GroupEnds, Continue
    <2>4. (e + 1) - 1 = e /\ (e + 1) + 1 = e + 2
      BY <1>0
    <2>5. ASSUME FollowedBy(e, ".") PROVE e + 2 \in S
      <3>1. FollowedBy((e + 1) - 1, ".")
        BY <2>4, <2>5
      <3>2. e + 1 <= Len(str) /\ str[e + 1] = "."
        BY <2>2, <3>1, <1>c
      <3>3. str[e + 1] \notin {"(", "[", "{", "\\"}
        BY <3>2, PlainStarts, Zenon
      <3>4. (e + 1) + 1 \in S
        BY <2>2, <3>2, <3>3, OneFollows, Zenon
      <3> QED
        BY <3>4, <2>4
    <2> QED
      BY <2>2, <2>3, <2>5
  <1>2. CASE ReadDot
    <2>1. pc' = pc /\ i' = i + 1 /\ str[i] = "."
      BY <1>2, Zenon DEF ReadDot, At, Continue
    <2>2. str[i] \notin {"(", "[", "{", "\\"}
      BY <2>1, PlainStarts, Zenon
    <2> QED
      BY <2>1, <2>2, OneFollows, Zenon
  <1>3. CASE ReadRepeat
    <2>1. pc' = pc /\ i' = i + 1 /\ (str[i] = "*" \/ str[i] = "+")
      BY <1>3, Zenon DEF ReadRepeat, At, Continue
    <2>2. str[i] \notin {"(", "[", "{", "\\"}
      BY <2>1, PlainStarts, Zenon
    <2> QED
      BY <2>1, <2>2, OneFollows, Zenon
  <1>4. CASE SkipClass
    <2>1. str[i] = "["
      BY <1>4, Zenon DEF SkipClass, At
    <2>2. PICK e \in i..Len(str) : Closing("]") = {e} /\ e + 1 \in S
      BY <2>1, ClassFollows
    <2>3. pc' = pc /\ FollowedBy(e, "+") /\ i' = e + 2
      BY <1>4, <2>2, Zenon DEF SkipClass, EndsRun, Continue
    <2>4. (e + 1) - 1 = e /\ (e + 1) + 1 = e + 2
      BY <1>0
    <2>5. FollowedBy((e + 1) - 1, "+")
      BY <2>3, <2>4
    <2>6. e + 1 <= Len(str) /\ str[e + 1] = "+"
      BY <2>2, <2>5, <1>c
    <2>7. str[e + 1] \notin {"(", "[", "{", "\\"}
      BY <2>6, PlainStarts, Zenon
    <2>8. (e + 1) + 1 \in S
      BY <2>2, <2>6, <2>7, OneFollows, Zenon
    <2> QED
      BY <2>3, <2>4, <2>8
  <1>5. CASE ReadClass
    <2>1. str[i] = "["
      BY <1>5, Zenon DEF ReadClass, At
    <2>2. PICK e \in i..Len(str) : Closing("]") = {e} /\ e + 1 \in S
      BY <2>1, ClassFollows
    <2>3. pc' = pc /\ i' = e + 1
      BY <1>5, <2>2, Zenon DEF ReadClass, ClassEnds, Continue
    <2> QED
      BY <2>2, <2>3
  <1>6. CASE SkipBraces
    <2>1. str[i] = "{"
      BY <1>6, Zenon DEF SkipBraces, At
    <2>2. PICK e \in i..Len(str) : Closing("}") = {e} /\ e + 1 \in S
      BY <2>1, BracesFollow, Zenon
    <2>3. pc' = pc /\ i' = e + 1
      BY <1>6, <2>2, Zenon DEF SkipBraces, Continue
    <2> QED
      BY <2>2, <2>3, Zenon
  <1>7. CASE ReadEscape
    <2>1. pc' = pc /\ i' = i + 2 /\ str[i] = "\\"
      BY <1>7, Zenon DEF ReadEscape, At, Continue
    <2>2. i + 2 \in S
      BY <2>1, EscapeFollows
    <2> QED
      BY <2>1, <2>2
  <1>8. CASE ReadLiteral
    <2>1. pc' = pc /\ i' = i + 1 /\ str[i] \notin {"(", "[", "{", "\\"}
      BY <1>8, Zenon DEF ReadLiteral, Continue
    <2> QED
      BY <2>1, OneFollows, Zenon
  <1>9. ~Return
    <2>1. Len(str) \in Nat
      BY SupportedParts DEF ReadsParts
    <2> QED
      BY <1>0, <2>1 DEF Return
  <1> QED
    BY <1>a, <1>1, <1>2, <1>3, <1>4, <1>5, <1>6, <1>7, <1>8, <1>9, Zenon DEF Next

\* The pattern that is read never changes.
LEMMA StaysFixed ==
  ASSUME [Next]_vars
  PROVE  UNCHANGED <<source, min_atoms_len, str>>
  <1>1. CASE UNCHANGED vars
    BY <1>1, Zenon DEF vars
  <1>2. CASE Next
    BY <1>2, Zenon DEF Next, ReadGroup, GroupPanics, ReadDot, ReadRepeat, SkipClass, ReadClass,
      ClassPanics, SkipBraces, BracesPanic, ReadEscape, ReadLiteral, Return, GroupEnds, ClassEnds,
      Panic, Continue, Fixed
  <1> QED
    BY <1>1, <1>2

\* A turn is taken while the compiler scans.
LEMMA NextScans ==
  ASSUME Next
  PROVE  pc = "scan" /\ (i <= Len(str) \/ Return)
  BY Zenon DEF Next, ReadGroup, GroupPanics, ReadDot, ReadRepeat, SkipClass, ReadClass,
    ClassPanics, SkipBraces, BracesPanic, ReadEscape, ReadLiteral, Return, At

\* The compiler starts at the first part of a pattern.
LEMMA ReadsPartsInit ==
  ASSUME Init
  PROVE  ReadsParts
  <1>1. source \in Sources /\ str = Lower(PatternOf(source)) /\ i = 1 /\ pc = "scan"
    BY DEF Init
  <1>2. Supported => \E S : PartsAt(str, S, source.quoted) /\ 1 \in S
    BY <1>1, SupportedParts, Zenon
  <1> QED
    BY <1>1, <1>2 DEF ReadsParts

\* It goes on from part to part.
LEMMA ReadsPartsStep ==
  ASSUME ReadsParts, [Next]_vars
  PROVE  ReadsParts'
  <1>1. source' = source /\ str' = str
    BY StaysFixed
  <1>2. source' \in Sources /\ str' = Lower(PatternOf(source'))
    BY <1>1, Zenon DEF ReadsParts
  <1>3. Supported' <=> Supported
    BY <1>1 DEF Supported, Characters
  <1>4. ASSUME Supported
        PROVE  pc' # "panic" /\ \E S : PartsAt(str', S, source'.quoted) /\ i' \in S
    <2>1. pc # "panic"
      BY <1>4 DEF ReadsParts
    <2>2. PICK S : PartsAt(str, S, source.quoted) /\ i \in S
      BY <1>4 DEF ReadsParts
    <2>3. CASE UNCHANGED vars
      <3>1. pc' = pc /\ i' = i
        BY <2>3, Zenon DEF vars
      <3> QED
        BY <1>1, <2>1, <2>2, <3>1
    <2>4. CASE Next /\ i <= Len(str)
      <3>1. pc = "scan"
        BY <2>4, NextScans, Zenon
      <3>2. pc' # "panic" /\ i' \in S
        BY <1>4, <2>2, <2>4, <3>1, TurnReads, Zenon
      <3> QED
        BY <1>1, <2>2, <3>2
    <2>5. CASE Return
      <3>1. pc' = "done" /\ i' = i
        BY <2>5, Zenon DEF Return
      <3> QED
        BY <1>1, <2>2, <3>1
    <2> QED
      BY <2>3, <2>4, <2>5, NextScans, Zenon
  <1>5. Supported' => pc' # "panic" /\ \E S : PartsAt(str', S, source'.quoted) /\ i' \in S
    BY <1>3, <1>4, Zenon
  <1> QED
    BY <1>2, <1>5, Zenon DEF ReadsParts

\* A pattern that the compiler supports does not end the process: for every pattern of
\* plain classes without wide characters, and for every quoted text, my_compile finds the
\* brackets that close and two ends of each range.
THEOREM PatternsCompile == Spec => []NeverPanics
  <1>1. ReadsParts => NeverPanics
    BY DEF ReadsParts, NeverPanics
  <1>2. Init => ReadsParts
    BY ReadsPartsInit
  <1>3. ReadsParts /\ [Next]_vars => ReadsParts'
    BY ReadsPartsStep
  <1> QED
    BY <1>1, <1>2, <1>3, PTL DEF Spec
------------------------------------------------------------------------------
(***************************************************************************)
(* Sorting by length.                                                      *)
(***************************************************************************)
\* The places of the numbers in b that do not stand behind the k-th when they are sorted.
NotBehind(b, n, k) == {l \in 1..n : b[l] < b[k] \/ (b[l] = b[k] /\ l <= k)}

\* One number stands before another, or that one before it.
LEMMA InFront ==
  ASSUME NEW n \in Nat, NEW b \in [1..n -> Nat], NEW k \in 1..n
  PROVE  /\ IsFiniteSet(NotBehind(b, n, k)) /\ Cardinality(NotBehind(b, n, k)) \in 1..n
         /\ \A l \in 1..n : l \notin NotBehind(b, n, k)
              => Cardinality(NotBehind(b, n, k)) < Cardinality(NotBehind(b, n, l))
  <1>1. IsFiniteSet(1..n) /\ Cardinality(1..n) = n
    BY FS_Interval
  <1>2. \A l \in 1..n : NotBehind(b, n, l) \in SUBSET (1..n)
    BY DEF NotBehind
  <1>3. \A l \in 1..n : IsFiniteSet(NotBehind(b, n, l)) /\ Cardinality(NotBehind(b, n, l)) <= n
    BY <1>1, <1>2, FS_Subset
  <1>4. \A l \in 1..n : Cardinality(NotBehind(b, n, l)) \in Nat
    BY <1>3, FS_CardinalityType
  <1>5. k \in NotBehind(b, n, k)
    BY DEF NotBehind
  <1>6. Cardinality(NotBehind(b, n, k)) # 0
    BY <1>3, <1>5, FS_EmptySet
  <1>7. ASSUME NEW l \in 1..n, l \notin NotBehind(b, n, k)
        PROVE  Cardinality(NotBehind(b, n, k)) < Cardinality(NotBehind(b, n, l))
    <2>1. NotBehind(b, n, k) \in SUBSET NotBehind(b, n, l)
      BY <1>7 DEF NotBehind
    <2>2. NotBehind(b, n, k) # NotBehind(b, n, l)
      BY <1>7 DEF NotBehind
    <2>3. /\ Cardinality(NotBehind(b, n, k)) <= Cardinality(NotBehind(b, n, l))
          /\ Cardinality(NotBehind(b, n, k)) # Cardinality(NotBehind(b, n, l))
      BY <2>1, <2>2, <1>3, FS_Subset
    <2> QED
      BY <2>3, <1>4
  <1>8. Cardinality(NotBehind(b, n, k)) \in 1..n
    BY <1>3, <1>4, <1>6
  <1> QED
    BY <1>3, <1>7, <1>8

\* The places of the numbers of b in their order.
SortsTo(b, n, q) ==
  /\ q \in [1..n -> 1..n]
  /\ \A m, k \in 1..n : Cardinality(NotBehind(b, n, k)) = m <=> q[m] = k
  /\ \A x, y \in 1..n : x < y => b[q[x]] < b[q[y]] \/ (b[q[x]] = b[q[y]] /\ q[x] < q[y])

\* Every number has a place of its own.
LEMMA Ranked ==
  ASSUME NEW n \in Nat, NEW b \in [1..n -> Nat]
  PROVE  \E q : SortsTo(b, n, q)
  <1> DEFINE f == [k \in 1..n |-> Cardinality(NotBehind(b, n, k))]
             q == [m \in 1..n |-> CHOOSE k \in 1..n : f[k] = m]
  <1>1. f \in [1..n -> 1..n] /\ \A k \in 1..n : f[k] = Cardinality(NotBehind(b, n, k))
    BY InFront
  <1>2. \A x, y \in 1..n : x \in NotBehind(b, n, y) /\ y \in NotBehind(b, n, x) => x = y
    BY DEF NotBehind
  <1>3. \A x, y \in 1..n : y \notin NotBehind(b, n, x) => f[x] < f[y]
    BY <1>1, InFront
  <1>4. ASSUME NEW x \in 1..n, NEW y \in 1..n, f[x] = f[y] PROVE x = y
    <2>1. f[x] \in 1..n /\ f[y] \in 1..n
      BY <1>1
    <2>2. y \in NotBehind(b, n, x) /\ x \in NotBehind(b, n, y)
      BY <2>1, <1>3, <1>4
    <2> QED
      BY <2>2, <1>2
  <1> HIDE DEF f
  <1>5. f \in Injection(1..n, 1..n)
    BY <1>1, <1>4, Fun_IsInj
  <1>6. f \in Surjection(1..n, 1..n)
    <2>1. IsFiniteSet(1..n)
      BY FS_Interval
    <2> QED
      BY <1>5, <2>1, FS_Injection
  <1>7. \A m \in 1..n : \E k \in 1..n : f[k] = m
    BY <1>6 DEF Surjection
  <1>8. q \in [1..n -> 1..n] /\ \A m \in 1..n : f[q[m]] = m
    BY <1>7
  <1> HIDE DEF q
  <1>9. \A m, k \in 1..n : f[k] = m <=> q[m] = k
    BY <1>4, <1>8
  <1>10. ASSUME NEW x \in 1..n, NEW y \in 1..n, x < y
         PROVE  b[q[x]] < b[q[y]] \/ (b[q[x]] = b[q[y]] /\ q[x] < q[y])
    <2>1. PICK k \in 1..n, l \in 1..n : k = q[x] /\ l = q[y] /\ f[k] = x /\ f[l] = y
      BY <1>8
    <2>2. k # l
      BY <2>1, <1>10
    <2>3. k \in NotBehind(b, n, l)
      <3>1. k \notin NotBehind(b, n, l) => f[l] < f[k]
        BY <1>3
      <3> QED
        BY <3>1, <2>1, <1>10
    <2>4. b[k] < b[l] \/ (b[k] = b[l] /\ k < l)
      BY <2>2, <2>3 DEF NotBehind
    <2> QED
      BY <2>1, <2>4
  <1>11. \A m, k \in 1..n : Cardinality(NotBehind(b, n, k)) = m <=> q[m] = k
    BY <1>1, <1>9, Zenon
  <1>12. q \in [1..n -> 1..n]
    BY <1>8
  <1> QED
    BY <1>10, <1>11, <1>12, Zenon DEF SortsTo

\* ByLength has every atom, short ones first and those of a length in their order.
LEMMA ByLengthSays ==
  ASSUME NEW n \in Nat, NEW atoms \in [1..n -> Seq(Chars)]
  PROVE  \E q : /\ SortsTo([k \in 1..n |-> Bytes(atoms[k])], n, q)
                /\ ByLength(atoms) = [m \in 1..n |-> atoms[q[m]]]
  <1> DEFINE b == [k \in 1..n |-> Bytes(atoms[k])]
  <1>1. b \in [1..n -> Nat]
    BY BytesSay
  <1>2. PICK q : SortsTo(b, n, q)
    <2> HIDE DEF b
    <2> QED
      BY <1>1, Ranked
  <1>3. ASSUME NEW k \in 1..n
        PROVE  NotBehind(b, n, k) = {l \in 1..n : \/ Bytes(atoms[l]) < Bytes(atoms[k])
                                                  \/ Bytes(atoms[l]) = Bytes(atoms[k]) /\ l <= k}
    BY DEF NotBehind
  <1>4. DOMAIN atoms = 1..n
    OBVIOUS
  <1> DEFINE P(k) == Cardinality({l \in DOMAIN atoms : \/ Bytes(atoms[l]) < Bytes(atoms[k])
                                                       \/ Bytes(atoms[l]) = Bytes(atoms[k]) /\ l <= k})
  <1>5. \A k \in 1..n : P(k) = Cardinality(NotBehind(b, n, k))
    BY <1>3, <1>4
  <1>6. ByLength(atoms) = [m \in DOMAIN atoms |-> atoms[CHOOSE k \in DOMAIN atoms : P(k) = m]]
    BY DEF ByLength
  <1> HIDE DEF P, b
  <1>7. ASSUME NEW m \in 1..n PROVE (CHOOSE k \in DOMAIN atoms : P(k) = m) = q[m]
    <2>1. q[m] \in 1..n /\ \A k \in 1..n : P(k) = m <=> q[m] = k
      BY <1>2, <1>5 DEF SortsTo
    <2> QED
      BY <2>1, <1>4
  <1>8. ByLength(atoms) = [m \in 1..n |-> atoms[q[m]]]
    BY <1>4, <1>6, <1>7
  <1> QED
    BY <1>2, <1>8 DEF b
------------------------------------------------------------------------------
(***************************************************************************)
(* TypeOK: what the helpers make of sequences of characters.               *)
(***************************************************************************)
\* What is cut out of a sequence has only its elements.
LEMMA CutSays ==
  ASSUME NEW X, NEW s \in Seq(X), NEW a \in Nat, NEW b \in Nat, b <= Len(s)
  PROVE  SubSeq(s, a + 1, b) \in Seq(X)
  <1>1. CASE a <= b
    BY <1>1, Piece
  <1>2. CASE ~(a <= b)
    <2>1. SubSeq(s, a + 1, b) = <<>>
      BY <1>2, NoPiece
    <2> QED
      BY <2>1
  <1> QED
    BY <1>1, <1>2

\* A sequence is one of its elements.
LEMMA OfItsElements ==
  ASSUME NEW X, NEW s \in Seq(X)
  PROVE  s \in Seq(ToSet(s)) /\ ToSet(s) \subseteq X
  BY DEF ToSet

\* A slice between characters.
LEMMA SliceIn ==
  ASSUME NEW s \in Seq(Chars), NEW a \in Boundaries(s), NEW b \in Boundaries(s)
  PROVE  Slice(s, a, b) \in Seq(ToSet(s))
  <1>1. \A o \in Boundaries(s) : CharsBefore(s, o) \in 0..Len(s)
    BY DEF Boundaries, CharsBefore
  <1>2. PICK x \in 0..Len(s), y \in 0..Len(s) : Slice(s, a, b) = SubSeq(s, x + 1, y)
    BY <1>1 DEF Slice
  <1>3. s \in Seq(ToSet(s))
    BY OfItsElements
  <1>4. x \in Nat /\ y \in Nat /\ y <= Len(s)
    OBVIOUS
  <1>5. SubSeq(s, x + 1, y) \in Seq(ToSet(s))
    BY <1>3, <1>4, CutSays
  <1> QED
    BY <1>2, <1>5

\* Only gives elements of the sequence, and of the set.
LEMMA OnlyIn ==
  ASSUME NEW X, NEW s \in Seq(X), NEW A
  PROVE  Only(s, A) \in Seq(X)
  <1>1. PICK r : r = Only(s, A)
    OBVIOUS
  <1>2. PICK g : r \in Seq(A) /\ OnlyFrom(s, Len(s), A, r, g)
    BY <1>1, OnlySays
  <1>3. \A x \in 1..Len(r) : r[x] \in X
    BY <1>2 DEF OnlyFrom
  <1> QED
    BY <1>1, <1>2, <1>3

\* A class gives its letters and digits, or those of its range.
LEMMA ClassCharsIn ==
  ASSUME NEW X, NEW s \in Seq(X), Expandable(s)
  PROVE  ClassChars(s) \in Seq(X \cup Ranged)
  <1>1. CASE HasRange(s)
    <2>1. PICK r : r = Only(s, Alnum)
      OBVIOUS
    <2>2. r \in Seq(Alnum)
      BY <2>1, OnlySays
    <2>3. Len(r) >= 2
      BY <1>1, <2>1 DEF Expandable, Listed
    <2>4. r[1] \in Alnum /\ r[2] \in Alnum
      BY <2>2, <2>3
    <2>5. CharsFromTo(r[1], r[2]) \in Seq(Ranged)
      BY <2>4, CharsAssumption
    <2>6. PICK t \in Seq(Ranged) : t = CharsFromTo(r[1], r[2])
      BY <2>5
    <2>7. t \in Seq(X \cup Ranged)
      OBVIOUS
    <2> QED
      BY <1>1, <2>1, <2>6, <2>7 DEF ClassChars, Listed
  <1>2. CASE ~HasRange(s)
    <2>1. PICK t \in Seq(X) : t = Only(s, Alnum)
      BY OnlyIn
    <2>2. t \in Seq(X \cup Ranged)
      OBVIOUS
    <2> QED
      BY <1>2, <2>1, <2>2 DEF ClassChars, Listed
  <1> QED
    BY <1>1, <1>2

\* m is the place of the last bar before k, 0 when there is none.
LastBar(s, k, m) ==
  /\ m \in 0..k - 1 /\ (m # 0 => s[m] \in Bars)
  /\ \A l \in m + 1..k - 1 : s[l] \notin Bars

\* Alternatives looks for it.
LEMMA BarSays ==
  ASSUME NEW s, NEW k \in Nat \ {0}, NEW m, m = Max({0} \cup {l \in 1..k - 1 : s[l] \in Bars})
  PROVE  LastBar(s, k, m)
  <1> DEFINE S == {0} \cup {l \in 1..k - 1 : s[l] \in Bars}
  <1>1. S \in SUBSET Nat /\ S # {} /\ k - 1 \in Nat /\ \A y \in S : y <= k - 1
    OBVIOUS
  <1>2. Max(S) \in S /\ \A y \in S : y <= Max(S)
    <2> HIDE DEF S
    <2> QED
      BY <1>1, NatMax
  <1>3. m \in S /\ \A y \in S : y <= m
    BY <1>2
  <1>4. m \in 0..k - 1 /\ (m # 0 => s[m] \in Bars)
    BY <1>1, <1>3
  <1>5. ASSUME NEW l \in m + 1..k - 1 PROVE s[l] \notin Bars
    <2>1. l \in 1..k - 1 /\ ~(l <= m)
      BY <1>4
    <2>2. l \notin S
      BY <2>1, <1>3
    <2> QED
      BY <2>1, <2>2
  <1> QED
    BY <1>4, <1>5 DEF LastBar

\* The alternatives of a group.
LEMMA AlternativesIn ==
  ASSUME NEW X, NEW s \in Seq(X)
  PROVE  Alternatives(s) \in Seq(Seq(X))
  <1>1. PICK n \in Nat : n = Len(s) /\ DOMAIN s = 1..n
    OBVIOUS
  <1> DEFINE First(k) == Max({0} \cup {l \in 1..k - 1 : s[l] \in Bars}) + 1
             Alt(k) == Only(SubSeq(s, First(k), k - 1), Chars \ {"("})
             t == [k \in 1..n |-> IF s[k] \in Bars THEN <<Alt(k)>> ELSE <<>>]
  <1>2. Alternatives(s) = FlattenSeq(t)
    BY <1>1 DEF Alternatives
  <1>3. ASSUME NEW k \in 1..n PROVE Alt(k) \in Seq(X)
    <2>1. PICK m : m = Max({0} \cup {l \in 1..k - 1 : s[l] \in Bars})
      OBVIOUS
    <2>2. LastBar(s, k, m)
      BY <2>1, BarSays
    <2>3. SubSeq(s, m + 1, k - 1) \in Seq(X)
      <3>1. m \in Nat /\ k - 1 \in Nat /\ k - 1 <= Len(s)
        BY <1>1, <2>2 DEF LastBar
      <3> QED
        BY <3>1, CutSays
    <2>4. Only(SubSeq(s, m + 1, k - 1), Chars \ {"("}) \in Seq(X)
      BY <2>3, OnlyIn, Zenon
    <2> QED
      BY <2>1, <2>4
  <1> HIDE DEF Alt
  <1>4. t \in [1..n -> Seq(Seq(X))]
    BY <1>3
  <1> HIDE DEF t
  <1>5. FlattenSeq(t) \in Seq(Seq(X))
    BY <1>4, Flattened DEF Collects
  <1> QED
    BY <1>2, <1>5

\* The long ones of some atoms.
LEMMA LongOnesIn ==
  ASSUME NEW X, NEW atoms \in Seq(Seq(X))
  PROVE  LongOnes(atoms) \in Seq(Seq(X))
  <1>1. PICK n \in Nat : DOMAIN atoms = 1..n
    OBVIOUS
  <1> DEFINE t == [k \in 1..n |-> IfLong(atoms[k])]
  <1>2. LongOnes(atoms) = FlattenSeq(t)
    BY <1>1 DEF LongOnes
  <1>3. \A k \in 1..n : IfLong(atoms[k]) \in Seq(Seq(X))
    <2> SUFFICES ASSUME NEW k \in 1..n PROVE IfLong(atoms[k]) \in Seq(Seq(X))
      OBVIOUS
    <2>1. PICK a \in Seq(X) : a = atoms[k]
      BY <1>1
    <2>2. <<a>> \in Seq(Seq(X)) /\ <<>> \in Seq(Seq(X))
      OBVIOUS
    <2> QED
      BY <2>1, <2>2 DEF IfLong
  <1>4. t \in [1..n -> Seq(Seq(X))]
    BY <1>3
  <1> HIDE DEF t
  <1> QED
    BY <1>2, <1>4, Flattened DEF Collects

\* Sorted atoms.
LEMMA ByLengthIn ==
  ASSUME NEW X \in SUBSET Chars, NEW atoms \in Seq(Seq(X))
  PROVE  ByLength(atoms) \in Seq(Seq(X))
  <1>1. PICK n \in Nat : atoms \in [1..n -> Seq(X)]
    OBVIOUS
  <1>2. Seq(X) \subseteq Seq(Chars)
    OBVIOUS
  <1>3. atoms \in [1..n -> Seq(Chars)]
    BY <1>1, <1>2
  <1>4. PICK q : q \in [1..n -> 1..n] /\ ByLength(atoms) = [m \in 1..n |-> atoms[q[m]]]
    <2>1. PICK q : /\ SortsTo([k \in 1..n |-> Bytes(atoms[k])], n, q)
                   /\ ByLength(atoms) = [m \in 1..n |-> atoms[q[m]]]
      BY <1>3, ByLengthSays, Zenon
    <2> QED
      BY <2>1, Zenon DEF SortsTo
  <1>5. [m \in 1..n |-> atoms[q[m]]] \in [1..n -> Seq(X)]
    BY <1>1, <1>4
  <1> QED
    BY <1>4, <1>5

\* Atoms without some.
LEMMA WithoutSupersIn ==
  ASSUME NEW X, NEW atoms \in Seq(Seq(X))
  PROVE  WithoutSupers(atoms) \in Seq(Seq(X))
  <1>1. PICK n \in Nat : DOMAIN atoms = 1..n
    OBVIOUS
  <1> DEFINE Drops(l) == \E k \in 1..l - 1 : atoms[k] # <<>> /\ OccursIn(atoms[k], atoms[l])
             t == [l \in 1..n |-> IF Drops(l) THEN <<>> ELSE <<atoms[l]>>]
  <1>2. WithoutSupers(atoms) = FlattenSeq(t)
    BY <1>1 DEF WithoutSupers
  <1> HIDE DEF Drops
  <1>3. t \in [1..n -> Seq(Seq(X))]
    <2>1. \A l \in 1..n : <<atoms[l]>> \in Seq(Seq(X)) /\ <<>> \in Seq(Seq(X))
      BY <1>1
    <2> QED
      BY <2>1
  <1> HIDE DEF t
  <1> QED
    BY <1>2, <1>3, Flattened DEF Collects

\* All of one followed by all of another.
LEMMA ProductsIn ==
  ASSUME NEW X, NEW V \in Seq(Seq(X)), NEW W \in Seq(Seq(X))
  PROVE  Products(V, W) \in Seq(Seq(X))
  <1>1. PICK n \in Nat : DOMAIN V = 1..n
    OBVIOUS
  <1>2. PICK m \in Nat : DOMAIN W = 1..m
    OBVIOUS
  <1> DEFINE t == [k \in 1..n |-> [l \in 1..m |-> V[k] \o W[l]]]
  <1>3. Products(V, W) = FlattenSeq(t)
    BY <1>1, <1>2 DEF Products
  <1>4. ASSUME NEW k \in 1..n PROVE [l \in 1..m |-> V[k] \o W[l]] \in Seq(Seq(X))
    <2>1. PICK v \in Seq(X) : v = V[k]
      BY <1>1
    <2>2. ASSUME NEW l \in 1..m PROVE v \o W[l] \in Seq(X)
      <3>1. PICK w \in Seq(X) : w = W[l]
        BY <1>2
      <3>2. v \o w \in Seq(X)
        OBVIOUS
      <3> QED
        BY <3>1, <3>2
    <2>3. [l \in 1..m |-> v \o W[l]] \in [1..m -> Seq(X)]
      BY <2>2
    <2>4. [l \in 1..m |-> v \o W[l]] \in Seq(Seq(X))
      BY <2>3
    <2> QED
      BY <2>1, <2>4
  <1>5. t \in [1..n -> Seq(Seq(X))]
    BY <1>4
  <1> HIDE DEF t
  <1> QED
    BY <1>3, <1>5, Flattened DEF Collects

\* What a class continues.
LEMMA ConnectionIn ==
  ASSUME NEW X, NEW prefix \in Seq(X), NEW con \in Seq(Seq(X)), NEW chars \in Seq(X)
  PROVE  Connection(prefix, con, chars) \in Seq(Seq(X))
  <1> DEFINE ends == [k \in DOMAIN chars |-> <<chars[k]>>]
  <1>1. ends \in Seq(Seq(X))
    <2>1. PICK n \in Nat : DOMAIN chars = 1..n
      OBVIOUS
    <2>2. \A k \in 1..n : <<chars[k]>> \in Seq(X)
      BY <2>1
    <2>3. ends \in [1..n -> Seq(X)]
      BY <2>1, <2>2
    <2> QED
      BY <2>3
  <1>2. <<prefix>> \in Seq(Seq(X))
    OBVIOUS
  <1> HIDE DEF ends
  <1>3. Products(<<prefix>>, ends) \in Seq(Seq(X)) /\ Products(con, ends) \in Seq(Seq(X))
    BY <1>1, <1>2, ProductsIn
  <1>4. Connection(prefix, con, chars) \in {Products(<<prefix>>, ends), ends, Products(con, ends)}
    BY DEF Connection, ends
  <1> QED
    BY <1>1, <1>3, <1>4

\* The characters of atoms.
AtomChars == ToSet(str) \cup Ranged
Typed == TypeOK /\ str = Lower(PatternOf(source))

\* The parts of the state that the turns of the loop read.
LEMMA TypedParts ==
  ASSUME Typed
  PROVE  /\ str \in Seq(Chars) /\ str \in Seq(ToSet(str)) /\ ToSet(str) \subseteq Chars
         /\ i \in 1..Len(str) + 2 /\ i \in Nat /\ Len(str) \in Nat
         /\ held \in Seq(AtomChars) /\ vec_chars_con \in Seq(Seq(AtomChars))
         /\ my_atoms \in Seq(Seq(AtomChars))
         /\ \A k \in 1..Len(str) : str[k] \in AtomChars
  <1>1. PICK t : t = PatternOf(source)
    OBVIOUS
  <1>2. t \in Seq(Chars) /\ str = Lower(t)
    BY <1>1, SourceSays, Zenon DEF Typed, TypeOK
  <1>3. str \in Seq(Chars)
    BY <1>2, LowerSays, Zenon
  <1>4. str \in Seq(ToSet(str)) /\ ToSet(str) \subseteq Chars
    BY <1>3, OfItsElements
  <1>5. /\ i \in 1..Len(str) + 2 /\ held \in Seq(AtomChars) /\ vec_chars_con \in Seq(Seq(AtomChars))
        /\ my_atoms \in Seq(Seq(AtomChars))
    BY Zenon DEF Typed, TypeOK, AtomChars
  <1>6. \A k \in 1..Len(str) : str[k] \in AtomChars
    BY <1>4 DEF AtomChars
  <1> QED
    BY <1>3, <1>4, <1>5, <1>6

\* What goes into the atoms is a sequence of atoms.
LEMMA PushTyped ==
  ASSUME my_atoms \in Seq(Seq(AtomChars)), NEW atoms \in Seq(Seq(AtomChars)), Push(atoms)
  PROVE  my_atoms' \in Seq(Seq(AtomChars))
  BY DEF Push

\* A run that is pushed when it is long.
LEMMA IfLongIn ==
  ASSUME NEW X, NEW s \in Seq(X)
  PROVE  IfLong(s) \in Seq(Seq(X)) /\ <<s>> \in Seq(Seq(X))
  BY DEF IfLong

\* The atoms of a group.
LEMMA GroupTyped ==
  ASSUME Typed, ReadGroup
  PROVE  i' \in 1..Len(str) + 2 /\ my_atoms' \in Seq(Seq(AtomChars))
  <1>0. /\ str \in Seq(Chars) /\ i \in Nat /\ i >= 1 /\ Len(str) \in Nat /\ ToSet(str) \subseteq Chars
        /\ my_atoms \in Seq(Seq(AtomChars))
    BY TypedParts
  <1>1. PICK end \in Closing(")") :
          /\ Sliceable(end)
          /\ \E s \in {Slice(str, i - 1, end)} : \E alternatives \in {Alternatives(s)} :
             \E sorted \in {ByLength(LongOnes(alternatives))} :
             \E atoms \in {WithoutSupers(sorted)} : GroupEnds(end, atoms)
    BY Zenon DEF ReadGroup
  <1>2. PICK s : s = Slice(str, i - 1, end)
    OBVIOUS
  <1>3. PICK alternatives : alternatives = Alternatives(s)
    OBVIOUS
  <1>4. PICK sorted : sorted = ByLength(LongOnes(alternatives))
    OBVIOUS
  <1>5. PICK atoms : atoms = WithoutSupers(sorted)
    OBVIOUS
  <1>6. GroupEnds(end, atoms)
    BY <1>1, <1>2, <1>3, <1>4, <1>5, Zenon
  <1>7. end \in i..Len(str)
    BY DEF Closing
  <1>8. s \in Seq(ToSet(str))
    BY <1>0, <1>1, <1>2, SliceIn DEF Sliceable
  <1>9. alternatives \in Seq(Seq(ToSet(str)))
    BY <1>3, <1>8, AlternativesIn
  <1>10. LongOnes(alternatives) \in Seq(Seq(ToSet(str)))
    BY <1>9, LongOnesIn
  <1>11. sorted \in Seq(Seq(ToSet(str)))
    BY <1>0, <1>4, <1>10, ByLengthIn
  <1>12. atoms \in Seq(Seq(ToSet(str)))
    BY <1>5, <1>11, WithoutSupersIn
  <1>13. Seq(Seq(ToSet(str))) \subseteq Seq(Seq(AtomChars))
    <2>1. Seq(ToSet(str)) \subseteq Seq(AtomChars)
      BY DEF AtomChars
    <2> HIDE DEF AtomChars
    <2> QED
      BY <2>1
  <1>14. atoms \in Seq(Seq(AtomChars)) /\ <<>> \in Seq(Seq(AtomChars))
    BY <1>12, <1>13
  <1>15. my_atoms' \in Seq(Seq(AtomChars))
    <2>1. PICK pushed \in Seq(Seq(AtomChars)) : Push(pushed)
      BY <1>6, <1>14, Zenon DEF GroupEnds
    <2> QED
      BY <2>1, <1>0, PushTyped
  <1>16. i' = end + 1 \/ i' = end + 2
    BY <1>6, Zenon DEF GroupEnds
  <1> QED
    BY <1>0, <1>7, <1>15, <1>16

\* The strings of a class.
LEMMA ClassTyped ==
  ASSUME Typed, ReadClass
  PROVE  /\ i' \in 1..Len(str) + 2 /\ my_atoms' \in Seq(Seq(AtomChars))
         /\ vec_chars_con' \in Seq(Seq(AtomChars))
  <1>0. /\ str \in Seq(Chars) /\ i \in Nat /\ i >= 1 /\ Len(str) \in Nat /\ ToSet(str) \subseteq Chars
        /\ my_atoms \in Seq(Seq(AtomChars)) /\ held \in Seq(AtomChars)
        /\ vec_chars_con \in Seq(Seq(AtomChars))
    BY TypedParts
  <1>1. PICK end \in Closing("]") :
          /\ ClassReadable(end)
          /\ \E s \in {Slice(str, i - 1, end)} : \E chars \in {ClassChars(s)} :
             \E con \in {Connection(Prefix, Joints, chars)} : ClassEnds(end, con)
    BY Zenon DEF ReadClass
  <1>2. PICK s : s = Slice(str, i - 1, end)
    OBVIOUS
  <1>3. PICK chars : chars = ClassChars(s)
    OBVIOUS
  <1>4. PICK con : con = Connection(Prefix, Joints, chars)
    OBVIOUS
  <1>5. ClassEnds(end, con)
    BY <1>1, <1>2, <1>3, <1>4, Zenon
  <1>6. end \in i..Len(str)
    BY DEF Closing
  <1>7. s \in Seq(ToSet(str)) /\ Expandable(s)
    BY <1>0, <1>1, <1>2, SliceIn DEF ClassReadable, Sliceable
  <1>8. chars \in Seq(AtomChars)
    BY <1>3, <1>7, ClassCharsIn DEF AtomChars
  <1>9. Prefix \in Seq(AtomChars)
    BY <1>0 DEF Prefix
  <1>10. Joints \in Seq(Seq(AtomChars))
    <2>1. <<held>> \in Seq(Seq(AtomChars))
      BY <1>0
    <2>2. Products(vec_chars_con, <<held>>) \in Seq(Seq(AtomChars))
      BY <1>0, <2>1, ProductsIn
    <2>a. <<>> \in Seq(Seq(AtomChars))
      OBVIOUS
    <2>b. (IF held = <<>> THEN <<>> ELSE Products(vec_chars_con, <<held>>)) \in Seq(Seq(AtomChars))
      BY <2>2, <2>a, Zenon
    <2>3. PICK p \in Seq(Seq(AtomChars)) : p = IF held = <<>> THEN <<>> ELSE Products(vec_chars_con, <<held>>)
      BY <2>b, Zenon
    <2>4. vec_chars_con \o p \in Seq(Seq(AtomChars))
      BY <1>0
    <2> QED
      BY <2>3, <2>4 DEF Joints
  <1>11. con \in Seq(Seq(AtomChars))
    BY <1>4, <1>8, <1>9, <1>10, ConnectionIn
  <1>12. LongOnes(con) \in Seq(Seq(AtomChars)) /\ <<>> \in Seq(Seq(AtomChars))
    BY <1>11, LongOnesIn
  <1>13. PICK pushed \in Seq(Seq(AtomChars)) : Push(pushed)
    BY <1>5, <1>12, Zenon DEF ClassEnds
  <1>14. my_atoms' \in Seq(Seq(AtomChars))
    BY <1>0, <1>13, PushTyped
  <1>15. i' = end + 1 /\ vec_chars_con' = con
    BY <1>5 DEF ClassEnds
  <1> QED
    BY <1>0, <1>6, <1>11, <1>14, <1>15

\* The atoms that a dot adds.
LEMMA DotTyped ==
  ASSUME Typed, ReadDot
  PROVE  my_atoms' \in Seq(Seq(AtomChars)) /\ vec_chars_con' \in Seq(Seq(AtomChars))
  <1>0. /\ my_atoms \in Seq(Seq(AtomChars)) /\ held \in Seq(AtomChars)
        /\ vec_chars_con \in Seq(Seq(AtomChars))
    BY TypedParts
  <1>1. IfLong(held) \in Seq(Seq(AtomChars)) /\ <<held>> \in Seq(Seq(AtomChars))
    BY <1>0, IfLongIn
  <1>a. <<>> \in Seq(Seq(AtomChars))
    OBVIOUS
  <1>b. Products(vec_chars_con, <<held>>) \in Seq(Seq(AtomChars))
    BY <1>0, <1>1, ProductsIn
  <1>2. Products(vec_chars_con, <<held>>) \in Seq(Seq(AtomChars)) /\ <<>> \in Seq(Seq(AtomChars))
    BY <1>a, <1>b
  <1>3. my_atoms' = my_atoms \/ \E pushed \in Seq(Seq(AtomChars)) : Push(pushed)
    BY <1>1, <1>2, Zenon DEF ReadDot
  <1>4. my_atoms' \in Seq(Seq(AtomChars))
    BY <1>0, <1>3, PushTyped
  <1>5. vec_chars_con' = vec_chars_con \/ vec_chars_con' = <<>>
    BY Zenon DEF ReadDot
  <1> QED
    BY <1>0, <1>2, <1>4, <1>5

\* The atoms that a run of literals adds, ended by a repeated class, an escape or the end.
LEMMA RunTyped ==
  ASSUME Typed, SkipClass \/ ReadEscape \/ ReadLiteral
  PROVE  my_atoms' \in Seq(Seq(AtomChars)) /\ held' \in Seq(AtomChars)
  <1>0. /\ my_atoms \in Seq(Seq(AtomChars)) /\ held \in Seq(AtomChars) /\ i \in 1..Len(str) + 2
        /\ Len(str) \in Nat /\ \A k \in 1..Len(str) : str[k] \in AtomChars
    BY TypedParts
  <1>1. IfLong(held) \in Seq(Seq(AtomChars)) /\ <<held>> \in Seq(Seq(AtomChars)) /\ <<>> \in Seq(AtomChars)
    BY <1>0, IfLongIn
  <1>2. CASE SkipClass
    <2>1. Push(<<held>>) /\ held' = <<>>
      BY <1>2, Zenon DEF SkipClass
    <2> QED
      BY <1>0, <1>1, <2>1, PushTyped
  <1>3. CASE ReadEscape
    <2>1. Push(IfLong(held)) /\ (held' = <<>> \/ held' = held)
      BY <1>3, Zenon DEF ReadEscape
    <2> QED
      BY <1>0, <1>1, <2>1, PushTyped
  <1>4. CASE ReadLiteral
    <2>1. PICK run : /\ run = Append(held, str[i])
                     /\ \/ Push(<<run>>) /\ held' = <<>>
                        \/ held' = run /\ my_atoms' = my_atoms
      BY <1>4, Zenon DEF ReadLiteral
    <2>2. i <= Len(str)
      BY <1>4, Zenon DEF ReadLiteral
    <2>3. run \in Seq(AtomChars)
      BY <1>0, <2>1, <2>2
    <2>4. <<run>> \in Seq(Seq(AtomChars))
      BY <2>3
    <2> QED
      BY <1>0, <1>1, <2>1, <2>3, <2>4, PushTyped
  <1> QED
    BY <1>2, <1>3, <1>4

\* The position stays within the pattern or ends two behind it.
LEMMA PositionTyped ==
  ASSUME Typed, ReadDot \/ ReadRepeat \/ SkipClass \/ SkipBraces \/ ReadEscape \/ ReadLiteral
  PROVE  i' \in 1..Len(str) + 2
  <1>0. i \in Nat /\ i >= 1 /\ Len(str) \in Nat
    BY TypedParts
  <1>1. CASE ReadDot \/ ReadRepeat \/ ReadEscape \/ ReadLiteral
    <2>1. i <= Len(str) /\ (i' = i + 1 \/ i' = i + 2)
      BY <1>1, Zenon DEF ReadDot, ReadRepeat, ReadEscape, ReadLiteral, At
    <2> QED
      BY <1>0, <2>1
  <1>2. CASE SkipClass
    <2>1. PICK end \in Closing("]") : i' = end + 2
      BY <1>2, Zenon DEF SkipClass
    <2>2. end \in i..Len(str)
      BY <2>1 DEF Closing
    <2> QED
      BY <1>0, <2>1, <2>2
  <1>3. CASE SkipBraces
    <2>1. PICK end : end \in i..Len(str) /\ i' = end + 1
      BY <1>3, Zenon DEF SkipBraces, Closing
    <2> QED
      BY <1>0, <2>1
  <1> QED
    BY <1>1, <1>2, <1>3

\* Which parts of the state each turn leaves alone.
LEMMA LeftAlone ==
  ASSUME Next
  PROVE  /\ ~(ReadClass \/ ReadDot) => vec_chars_con' = vec_chars_con
         /\ ~(ReadGroup \/ ReadClass \/ ReadDot \/ SkipClass \/ ReadEscape \/ ReadLiteral) => my_atoms' = my_atoms
         /\ ~(SkipClass \/ ReadEscape \/ ReadLiteral) => held' = held \/ held' = <<>>
         /\ GroupPanics \/ ClassPanics \/ BracesPanic \/ Return => i' = i
         /\ pc' \in {"done", "panic"} \/ pc' = pc
  BY Zenon DEF Next, ReadGroup, GroupPanics, ReadDot, ReadRepeat, SkipClass, ReadClass,
    ClassPanics, SkipBraces, BracesPanic, ReadEscape, ReadLiteral, Return, GroupEnds, ClassEnds,
    Panic, Continue

\* At the start nothing is held.
LEMMA TypedInit ==
  ASSUME Init
  PROVE  Typed
  <1>1. /\ source \in Sources /\ min_atoms_len \in MinAtomLens /\ str = Lower(PatternOf(source))
        /\ i = 1 /\ held = <<>> /\ vec_chars_con = <<>> /\ my_atoms = <<>> /\ pc = "scan"
    BY DEF Init
  <1>2. PICK t : t = PatternOf(source)
    OBVIOUS
  <1>3. t \in Seq(Chars) /\ str = Lower(t)
    BY <1>1, <1>2, SourceSays, Zenon
  <1>4. Len(str) \in Nat
    BY <1>3, LowerSays
  <1>5. i \in 1..Len(str) + 2
    BY <1>1, <1>4
  <1>6. held \in Seq(AtomChars) /\ vec_chars_con \in Seq(Seq(AtomChars)) /\ my_atoms \in Seq(Seq(AtomChars))
    BY <1>1
  <1> QED
    BY <1>1, <1>5, <1>6, Zenon DEF Typed, TypeOK, AtomChars

\* Every turn keeps to the types.
LEMMA TypedStep ==
  ASSUME Typed, [Next]_vars
  PROVE  Typed'
  <1>1. source' = source /\ min_atoms_len' = min_atoms_len /\ str' = str
    BY StaysFixed
  <1>2. AtomChars' = AtomChars
    BY <1>1 DEF AtomChars
  <1>0. /\ source \in Sources /\ min_atoms_len \in MinAtomLens /\ str = Lower(PatternOf(source))
        /\ pc \in {"scan", "done", "panic"}
    BY DEF Typed, TypeOK
  <1>a. /\ i \in 1..Len(str) + 2 /\ held \in Seq(AtomChars) /\ vec_chars_con \in Seq(Seq(AtomChars))
        /\ my_atoms \in Seq(Seq(AtomChars))
    BY TypedParts
  <1>b. <<>> \in Seq(AtomChars)
    OBVIOUS
  <1>3. CASE UNCHANGED vars
    BY <1>0, <1>1, <1>3, Zenon DEF vars, Typed, TypeOK
  <1>4. CASE Next
    <2>1. i' \in 1..Len(str) + 2
      BY <1>4, <1>a, GroupTyped, ClassTyped, PositionTyped, LeftAlone, Zenon DEF Next
    <2>2. held' \in Seq(AtomChars)
      BY <1>4, <1>a, <1>b, RunTyped, LeftAlone, Zenon
    <2>3. vec_chars_con' \in Seq(Seq(AtomChars))
      BY <1>4, <1>a, ClassTyped, DotTyped, LeftAlone, Zenon
    <2>4. my_atoms' \in Seq(Seq(AtomChars))
      BY <1>4, <1>a, GroupTyped, ClassTyped, DotTyped, RunTyped, LeftAlone, Zenon
    <2>5. pc' \in {"scan", "done", "panic"}
      BY <1>0, <1>4, LeftAlone
    <2>6. /\ source' \in Sources /\ min_atoms_len' \in MinAtomLens /\ str' = Lower(PatternOf(source'))
          /\ i' \in 1..Len(str') + 2
      BY <1>0, <1>1, <2>1, Zenon
    <2>7. /\ held' \in Seq(ToSet(str') \cup Ranged)
          /\ {vec_chars_con', my_atoms'} \subseteq Seq(Seq(ToSet(str') \cup Ranged))
      BY <1>1, <2>2, <2>3, <2>4, Zenon DEF AtomChars
    <2> QED
      BY <2>5, <2>6, <2>7, Zenon DEF Typed, TypeOK
  <1> QED
    BY <1>3, <1>4

\* The state keeps its types: for every pattern, supported or not, my_compile makes atoms of
\* the characters of the lowercased pattern and of those between letters and digits.
THEOREM TypeCorrect == Spec => []TypeOK
  <1>1. Typed => TypeOK
    BY DEF Typed
  <1>2. Init => Typed
    BY TypedInit
  <1>3. Typed /\ [Next]_vars => Typed'
    BY TypedStep
  <1> QED
    BY <1>1, <1>2, <1>3, PTL DEF Spec
------------------------------------------------------------------------------
(***************************************************************************)
(* QuotedReadsBack: how the crate reads a quoted text.                     *)
(***************************************************************************)
\* What is read from place k on, when f is what is read behind it.
IsZero(s, k) == k + 3 <= Len(s) /\ SubSeq(s, k + 1, k + 3) = <<"x", "0", "0">>
ReadOne(s, f, k) ==
  IF k > Len(s) THEN <<>>
  ELSE IF s[k] \in Unquoted THEN <<s[k]>> \o f[k + 1]
  ELSE IF s[k] # "\\" THEN ReadError
  ELSE IF IsZero(s, k) THEN <<Zero>> \o f[k + 4]
  ELSE IF k < Len(s) /\ s[k + 1] \in Escapable THEN <<s[k + 1]>> \o f[k + 2]
  ELSE ReadError

\* The function f reads s from its place lo to the end.
ReadsFrom(s, lo, f) == f = [k \in lo..Len(s) + 1 |-> ReadOne(s, f, k)]

\* What is read at a place depends on what is read behind it.
LEMMA ReadsBehind ==
  ASSUME NEW s, NEW n \in Nat, Len(s) = n, NEW k \in Nat, NEW f, NEW g,
         \A l \in k + 1..n + 1 : f[l] = g[l]
  PROVE  ReadOne(s, f, k) = ReadOne(s, g, k)
  <1>1. CASE k > n
    BY <1>1 DEF ReadOne
  <1>2. CASE k <= n
    <2>1. f[k + 1] = g[k + 1]
      BY <1>2
    <2>2. k < n => f[k + 2] = g[k + 2]
      BY <1>2
    <2>3. IsZero(s, k) => f[k + 4] = g[k + 4]
      BY <1>2 DEF IsZero
    <2> QED
      BY <2>1, <2>2, <2>3, Zenon DEF ReadOne
  <1> QED
    BY <1>1, <1>2

\* Every sequence can be read.
LEMMA ReadExists ==
  ASSUME NEW s, NEW n \in Nat, Len(s) = n
  PROVE  \E f : ReadsFrom(s, 1, f)
  <1> DEFINE S == {d \in 0..n + 1 : \E f : ReadsFrom(s, (n + 2) - d, f)}
  <1>1. 0 \in S
    <2>1. ReadsFrom(s, n + 2, <<>>)
      <3>1. (n + 2)..n + 1 = 1..0
        OBVIOUS
      <3>2. <<>> = [k \in 1..0 |-> ReadOne(s, <<>>, k)]
        OBVIOUS
      <3> QED
        BY <3>1, <3>2 DEF ReadsFrom
    <2>2. (n + 2) - 0 = n + 2
      OBVIOUS
    <2> QED
      BY <2>1, <2>2
  <1>2. ASSUME NEW d \in 0..(n + 1) - 1, d \in S PROVE d + 1 \in S
    <2>1. PICK lo \in 2..n + 2 : lo = (n + 2) - d
      OBVIOUS
    <2>2. PICK f : ReadsFrom(s, lo, f)
      BY <1>2, <2>1
    <2> DEFINE g == [k \in lo - 1..n + 1 |-> IF k = lo - 1 THEN ReadOne(s, f, k) ELSE f[k]]
    <2>3. \A k \in lo..n + 1 : g[k] = f[k]
      <3> SUFFICES ASSUME NEW k \in lo..n + 1 PROVE g[k] = f[k]
        OBVIOUS
      <3>1. k \in lo - 1..n + 1 /\ k # lo - 1
        OBVIOUS
      <3> QED
        BY <3>1
    <2>4. lo - 1 \in lo - 1..n + 1
      OBVIOUS
    <2>5. g[lo - 1] = ReadOne(s, f, lo - 1)
      BY <2>4
    <2>6. \A k \in lo..n + 1 : f[k] = ReadOne(s, f, k)
      BY <2>2 DEF ReadsFrom
    <2>7. g = [k \in lo - 1..n + 1 |-> g[k]]
      OBVIOUS
    <2> HIDE DEF g
    <2>8. ASSUME NEW k \in lo - 1..n + 1 PROVE g[k] = ReadOne(s, g, k)
      <3>1. \A l \in k + 1..n + 1 : l \in lo..n + 1
        OBVIOUS
      <3>2. \A l \in k + 1..n + 1 : f[l] = g[l]
        BY <3>1, <2>3
      <3>3. k \in Nat
        OBVIOUS
      <3>4. ReadOne(s, f, k) = ReadOne(s, g, k)
        BY <3>2, <3>3, ReadsBehind
      <3>5. k = lo - 1 \/ k \in lo..n + 1
        OBVIOUS
      <3> QED
        BY <3>4, <3>5, <2>3, <2>5, <2>6
    <2>9. ReadsFrom(s, lo - 1, g)
      BY <2>7, <2>8 DEF ReadsFrom
    <2>10. (n + 2) - (d + 1) = lo - 1 /\ d + 1 \in 0..n + 1
      BY <2>1
    <2> QED
      BY <2>9, <2>10
  <1> HIDE DEF S
  <1>3. n + 1 \in S
    <2>1. n + 1 \in Nat
      OBVIOUS
    <2> QED
      BY <1>1, <1>2, <2>1, PrefixInduction
  <1>4. (n + 2) - (n + 1) = 1
    OBVIOUS
  <1> QED
    BY <1>3, <1>4 DEF S

\* What ReadsAs gives.
LEMMA ReadSays ==
  ASSUME NEW s, NEW n \in Nat, Len(s) = n
  PROVE  \E f : ReadsAs(s) = f[1] /\ \A k \in 1..n + 1 : f[k] = ReadOne(s, f, k)
  <1> DEFINE h == CHOOSE f : ReadsFrom(s, 1, f)
  <1>1. ReadsFrom(s, 1, h)
    BY ReadExists
  <1>2. ReadsAs(s) = h[1]
    BY Zenon DEF ReadsAs, ReadsFrom, ReadOne, IsZero
  <1> HIDE DEF h
  <1>3. \A k \in 1..n + 1 : h[k] = ReadOne(s, h, k)
    BY <1>1 DEF ReadsFrom
  <1> QED
    BY <1>2, <1>3

\* The characters that stand for themselves are not the ones that quoting writes.
LEMMA QuoteChars ==
  "\\" \notin Unquoted /\ Zero \notin Unquoted /\ "x" \in Unquoted
  <1>1. "\\" \in Marks /\ Zero # "_" /\ Zero # "!" /\ Zero # " " /\ Zero # "'" /\ Zero # "="
    BY DEF Marks, Zero
  <1>2. "\\" \notin {"_", "!", " ", "'", "="} /\ Zero \notin {"_", "!", " ", "'", "="}
    BY <1>1
  <1>3. "\\" \notin Alnum \cup Wide /\ Zero \notin Alnum \cup Wide /\ "x" \in Alnum
    BY <1>1, CharsAssumption
  <1> QED
    BY <1>2, <1>3 DEF Unquoted

\* The character that stands quoted, as q, at place k of s.
QuotedAt(s, k, c, q) ==
  /\ c \in Unquoted \cup Escapable \cup {Zero} /\ q = Quote(c)
  /\ (k + Len(q)) - 1 <= Len(s) /\ \A j \in 1..Len(q) : s[(k - 1) + j] = q[j]

\* A quoted character is read back.
LEMMA OneReadsBack ==
  ASSUME NEW s \in Seq(Chars), NEW k \in Nat \ {0}, NEW c, NEW q, QuotedAt(s, k, c, q), NEW f
  PROVE  ReadOne(s, f, k) = <<c>> \o f[k + Len(q)]
  <1>0. PICK n \in Nat : n = Len(s)
    OBVIOUS
  <1>a. /\ c \in Unquoted \cup Escapable \cup {Zero} /\ q = Quote(c)
        /\ (k + Len(q)) - 1 <= n /\ \A j \in 1..Len(q) : s[(k - 1) + j] = q[j]
    BY <1>0 DEF QuotedAt
  <1>1. CASE c \in Unquoted
    <2>1. q = <<c>>
      BY <1>a, <1>1 DEF Quote
    <2>2. Len(q) = 1 /\ s[k] = c /\ k <= n
      <3>1. Len(q) = 1 /\ q[1] = c
        BY <2>1
      <3>2. (k - 1) + 1 = k /\ k <= n
        BY <1>a, <1>0, <3>1
      <3> QED
        BY <1>a, <3>1, <3>2
    <2> QED
      BY <1>0, <1>1, <2>2 DEF ReadOne
  <1>2. CASE c \notin Unquoted /\ c = Zero
    <2>1. q = <<"\\", "x", "0", "0">>
      BY <1>a, <1>2 DEF Quote
    <2>2. Len(q) = 4 /\ q[1] = "\\" /\ q[2] = "x" /\ q[3] = "0" /\ q[4] = "0"
      BY <2>1
    <2>3. s[k] = "\\" /\ s[k + 1] = "x" /\ s[k + 2] = "0" /\ s[k + 3] = "0" /\ k + 3 <= n
      <3>1. /\ (k - 1) + 1 = k /\ (k - 1) + 2 = k + 1 /\ (k - 1) + 3 = k + 2 /\ (k - 1) + 4 = k + 3
            /\ k + 3 <= n
        BY <1>a, <2>2
      <3>2. \A j \in {1, 2, 3, 4} : s[(k - 1) + j] = q[j]
        BY <1>a, <2>2
      <3> QED
        BY <2>2, <3>1, <3>2
    <2>4. SubSeq(s, k + 1, k + 3) = <<"x", "0", "0">>
      <3>1. PICK p : p = SubSeq(s, k + 1, k + 3)
        OBVIOUS
      <3>2. p \in Seq(Chars) /\ Len(p) = 3 /\ p[1] = s[k + 1] /\ p[2] = s[k + 2] /\ p[3] = s[k + 3]
        BY <1>0, <2>3, <3>1
      <3>3. PICK v : v = <<"x", "0", "0">>
        OBVIOUS
      <3>4. v \in Seq(Chars) /\ Len(v) = 3 /\ v[1] = "x" /\ v[2] = "0" /\ v[3] = "0"
        BY <3>3, SpecialChars
      <3>5. \A l \in 1..3 : p[l] = v[l]
        <4>1. \A l \in 1..3 : l = 1 \/ l = 2 \/ l = 3
          OBVIOUS
        <4> QED
          BY <4>1, <2>3, <3>2, <3>4
      <3>a. Len(p) = Len(v) /\ \A l \in 1..Len(p) : p[l] = v[l]
        BY <3>2, <3>4, <3>5
      <3>b. p \in Seq(Chars) /\ v \in Seq(Chars)
        BY <3>2, <3>4
      <3>6. p = v
        BY <3>a, <3>b, SameSequence
      <3> QED
        BY <3>1, <3>3, <3>6
    <2>5. IsZero(s, k)
      BY <1>0, <2>3, <2>4 DEF IsZero
    <2>6. ~(k > Len(s)) /\ s[k] \notin Unquoted
      BY <1>0, <2>3, QuoteChars
    <2>7. ReadOne(s, f, k) = <<c>> \o f[k + 4]
      BY <1>2, <2>3, <2>5, <2>6, Zenon DEF ReadOne
    <2> QED
      BY <2>2, <2>7
  <1>3. CASE c \notin Unquoted /\ c # Zero
    <2>1. q = <<"\\", c>> /\ c \in Escapable
      BY <1>a, <1>3 DEF Quote
    <2>2. Len(q) = 2 /\ q[1] = "\\" /\ q[2] = c
      BY <2>1
    <2>3. s[k] = "\\" /\ s[k + 1] = c /\ k < n
      <3>1. (k - 1) + 1 = k /\ (k - 1) + 2 = k + 1 /\ k < n
        BY <1>a, <2>2
      <3>2. \A j \in {1, 2} : s[(k - 1) + j] = q[j]
        BY <1>a, <2>2
      <3> QED
        BY <2>2, <3>1, <3>2
    <2>4. ~IsZero(s, k)
      <3> SUFFICES ASSUME IsZero(s, k) PROVE FALSE
        OBVIOUS
      <3>0. <<"x", "0", "0">>[1] = "x"
        OBVIOUS
      <3>1. k + 3 <= n /\ SubSeq(s, k + 1, k + 3)[1] = "x"
        BY <1>0, <3>0, Zenon DEF IsZero
      <3>2. SubSeq(s, k + 1, k + 3)[1] = s[k + 1]
        BY <1>0, <3>1
      <3>3. c = "x"
        BY <2>3, <3>1, <3>2
      <3> QED
        BY <1>3, <3>3, QuoteChars
    <2> QED
      BY <1>0, <1>3, <2>1, <2>2, <2>3, <2>4, QuoteChars DEF ReadOne
  <1> QED
    BY <1>1, <1>2, <1>3

\* The first character and what is behind it.
LEMMA FirstAndRest ==
  ASSUME NEW X, NEW s \in Seq(X), NEW m \in 1..Len(s)
  PROVE  <<s[m]>> \o SubSeq(s, m + 1, Len(s)) = SubSeq(s, m, Len(s))
  <1>1. PICK n \in Nat : n = Len(s)
    OBVIOUS
  <1>2. PICK a \in Seq(X) : a = <<s[m]>>
    <2>1. <<s[m]>> \in Seq(X)
      OBVIOUS
    <2> QED
      BY <2>1, Zenon
  <1>3. Len(a) = 1 /\ a[1] = s[m]
    BY <1>2
  <1>4. PICK b \in Seq(X) : b = SubSeq(s, m + 1, n) /\ Len(b) = n - m /\ \A l \in 1..n - m : b[l] = s[m + l]
    <2>1. /\ SubSeq(s, m + 1, n) \in Seq(X) /\ Len(SubSeq(s, m + 1, n)) = n - m
          /\ \A l \in 1..n - m : SubSeq(s, m + 1, n)[l] = s[m + l]
      BY <1>1
    <2> QED
      BY <2>1, Zenon
  <1>5. PICK p \in Seq(X) : p = SubSeq(s, m, n) /\ Len(p) = (n - m) + 1 /\ \A l \in 1..(n - m) + 1 : p[l] = s[(m - 1) + l]
    <2>1. /\ SubSeq(s, m, n) \in Seq(X) /\ Len(SubSeq(s, m, n)) = (n - m) + 1
          /\ \A l \in 1..(n - m) + 1 : SubSeq(s, m, n)[l] = s[(m - 1) + l]
      BY <1>1
    <2> QED
      BY <2>1, Zenon
  <1>a. a \o b \in Seq(X)
    OBVIOUS
  <1>6. PICK r \in Seq(X) : r = a \o b
    BY <1>a, Zenon
  <1>7. /\ Len(r) = (n - m) + 1 /\ r[1] = s[m]
        /\ \A l \in 1..n - m : r[1 + l] = s[m + l]
    <2>1. \A x \in 1..Len(b) : (a \o b)[Len(a) + x] = b[x]
      OBVIOUS
    <2>0. \A x \in 1..Len(a) : (a \o b)[x] = a[x]
      OBVIOUS
    <2>a. 1 \in 1..Len(a)
      BY <1>3
    <2>b. Len(a \o b) = Len(a) + Len(b)
      OBVIOUS
    <2>2. Len(a \o b) = Len(a) + Len(b) /\ (a \o b)[1] = a[1]
      BY <2>0, <2>a, <2>b, Zenon
    <2>3. Len(r) = Len(a) + Len(b) /\ r[1] = a[1] /\ \A x \in 1..Len(b) : r[Len(a) + x] = b[x]
      BY <1>6, <2>1, <2>2, Zenon
    <2>4. Len(r) = (n - m) + 1
      <3>1. n - m \in Nat
        BY <1>1
      <3>2. Len(r) = 1 + (n - m)
        BY <2>3, <1>3, <1>4, Zenon
      <3> QED
        BY <3>1, <3>2
    <2>5. r[1] = s[m]
      BY <2>3, <1>3, Zenon
    <2>6. \A l \in 1..n - m : r[1 + l] = s[m + l]
      <3>1. \A l \in 1..n - m : r[1 + l] = b[l]
        BY <2>3, <1>3, <1>4, Zenon
      <3> QED
        BY <3>1, <1>4, Zenon
    <2> QED
      BY <2>4, <2>5, <2>6, Zenon
  <1>8. \A l \in 1..Len(r) : r[l] = p[l]
    <2> SUFFICES ASSUME NEW l \in 1..(n - m) + 1 PROVE r[l] = p[l]
      BY <1>7
    <2>1. CASE l = 1
      <3>1. (m - 1) + 1 = m
        BY <1>1
      <3> QED
        BY <2>1, <3>1, <1>5, <1>7
    <2>2. CASE l # 1
      <3>1. PICK x \in 1..n - m : l = 1 + x /\ (m - 1) + l = m + x
        <4>1. l - 1 \in 1..n - m /\ l = 1 + (l - 1) /\ (m - 1) + l = m + (l - 1)
          BY <1>1, <2>2
        <4> QED
          BY <4>1, Zenon
      <3> QED
        BY <3>1, <1>5, <1>7
    <2> QED
      BY <2>1, <2>2
  <1>9. r = p
    <2>1. Len(r) = Len(p)
      BY <1>5, <1>7
    <2> QED
      BY <2>1, <1>8, SameSequence
  <1> QED
    BY <1>1, <1>2, <1>4, <1>5, <1>6, <1>9, Zenon

\* A quoted text is read back.
LEMMA QuotedTextReads ==
  ASSUME NEW literal \in Seq(Chars), ToSet(literal) \subseteq Unquoted \cup Escapable \cup {Zero}
  PROVE  ReadsAs(QuoteMeta(literal)) = literal
  <1>1. PICK n \in Nat : n = Len(literal) /\ DOMAIN literal = 1..n
    OBVIOUS
  <1> DEFINE t == [k \in 1..n |-> Quote(literal[k])]
  <1>2. QuoteMeta(literal) = FlattenSeq(t)
    BY <1>1 DEF QuoteMeta
  <1>3. \A c \in Chars : Quote(c) \in Seq(Chars)
    BY SpecialChars DEF Quote
  <1>4. t \in [1..n -> Seq(Chars)] /\ \A k \in 1..n : t[k] = Quote(literal[k])
    BY <1>1, <1>3
  <1> HIDE DEF t
  <1>5. PICK s \in Seq(Chars) : s = FlattenSeq(t)
    BY <1>4, Flattened DEF Collects
  <1>6. PICK len \in Nat : len = Len(s)
    OBVIOUS
  <1>7. PICK off \in [0..n -> Nat] : Laid(t, n, off, s)
    BY <1>4, <1>5, FlattenLaid
  <1>8. PICK f : ReadsAs(s) = f[1] /\ \A k \in 1..len + 1 : f[k] = ReadOne(s, f, k)
    BY <1>6, ReadSays
  <1>9. /\ off[0] = 0 /\ off[n] = len
        /\ \A m \in 1..n : off[m] = off[m - 1] + Len(t[m]) /\ off[m] <= len
        /\ \A m \in 1..n : \A j \in 1..Len(t[m]) : s[off[m - 1] + j] = t[m][j]
    <2>1. \A m \in 1..n : m \in 0..n /\ n \in 0..n /\ m <= n
      OBVIOUS
    <2> QED
      BY <2>1, <1>6, <1>7 DEF Laid
  <1> DEFINE S == {d \in 0..n : f[off[n - d] + 1] = SubSeq(literal, (n - d) + 1, n)}
  <1>10. 0 \in S
    <2>1. f[len + 1] = <<>>
      <3>1. len + 1 \in 1..len + 1 /\ len + 1 > len
        OBVIOUS
      <3> QED
        BY <3>1, <1>6, <1>8 DEF ReadOne
    <2>2. SubSeq(literal, n + 1, n) = <<>>
      BY <1>1, NoPiece
    <2>3. n - 0 = n /\ 0 \in 0..n
      OBVIOUS
    <2> QED
      BY <2>1, <2>2, <2>3, <1>9
  <1>11. ASSUME NEW d \in 0..n - 1, d \in S PROVE d + 1 \in S
    <2>1. PICK m \in 1..n : m = n - d /\ n - (d + 1) = m - 1 /\ d + 1 \in 0..n
      <3>1. n - d \in 1..n /\ n - (d + 1) = (n - d) - 1 /\ d + 1 \in 0..n
        OBVIOUS
      <3> QED
        BY <3>1
    <2>2. f[off[m] + 1] = SubSeq(literal, m + 1, n)
      BY <2>1, <1>11
    <2>3. PICK c \in Chars : c = literal[m] /\ c \in Unquoted \cup Escapable \cup {Zero}
      BY <1>1 DEF ToSet
    <2>4. PICK q \in Seq(Chars) : q = Quote(c) /\ q = t[m]
      BY <1>3, <1>4, <2>3
    <2>5. PICK k \in Nat \ {0} : k = off[m - 1] + 1
      <3>1. m - 1 \in 0..n
        OBVIOUS
      <3>2. off[m - 1] + 1 \in Nat \ {0}
        BY <3>1
      <3> QED
        BY <3>2
    <2>6. off[m - 1] \in Nat /\ off[m] \in Nat /\ Len(q) \in Nat
      <3>1. m - 1 \in 0..n /\ m \in 0..n
        OBVIOUS
      <3> QED
        BY <3>1
    <2>7. off[m] = off[m - 1] + Len(q) /\ off[m] <= len
      BY <1>9, <2>4
    <2>8. k + Len(q) = off[m] + 1 /\ (k + Len(q)) - 1 <= len /\ k - 1 = off[m - 1] /\ k \in 1..len + 1
      <3>1. PICK a \in Nat : a = off[m - 1]
        BY <2>6, Zenon
      <3>2. PICK b \in Nat : b = off[m]
        BY <2>6, Zenon
      <3>3. PICK l \in Nat : l = Len(q)
        BY <2>6, Zenon
      <3>4. b = a + l /\ b <= len /\ k = a + 1
        BY <2>5, <2>7, <3>1, <3>2, <3>3
      <3>5. k + l = b + 1 /\ (k + l) - 1 <= len /\ k - 1 = a /\ k \in 1..len + 1
        BY <3>4
      <3> QED
        BY <3>1, <3>2, <3>3, <3>5
    <2>9. \A j \in 1..Len(q) : s[(k - 1) + j] = q[j]
      <3>1. \A j \in 1..Len(t[m]) : s[off[m - 1] + j] = t[m][j]
        BY <1>9, Zenon
      <3> QED
        BY <3>1, <2>4, <2>8, Zenon
    <2>10. ReadOne(s, f, k) = <<c>> \o f[k + Len(q)]
      <3>1. (k + Len(q)) - 1 <= Len(s) /\ c \in Unquoted \cup Escapable \cup {Zero} /\ q = Quote(c)
        BY <1>6, <2>3, <2>4, <2>8
      <3>2. QuotedAt(s, k, c, q)
        BY <3>1, <2>9, Zenon DEF QuotedAt
      <3> QED
        BY <3>2, OneReadsBack
    <2>11. f[k] = <<c>> \o SubSeq(literal, m + 1, n)
      BY <1>8, <2>2, <2>8, <2>10
    <2>12. <<c>> \o SubSeq(literal, m + 1, n) = SubSeq(literal, m, n)
      BY <1>1, <2>3, FirstAndRest
    <2>13. (m - 1) + 1 = m
      OBVIOUS
    <2> QED
      BY <2>1, <2>5, <2>11, <2>12, <2>13
  <1> HIDE DEF S
  <1>12. n \in S
    BY <1>10, <1>11, PrefixInduction
  <1>13. f[1] = SubSeq(literal, 1, n)
    <2>1. n - n = 0 /\ off[n - n] + 1 = 1 /\ (n - n) + 1 = 1
      BY <1>9
    <2> QED
      BY <2>1, <1>12 DEF S
  <1>14. SubSeq(literal, 1, n) = literal
    BY <1>1
  <1> QED
    BY <1>2, <1>5, <1>8, <1>13, <1>14

\* A quoted text is read back: for every text of characters that stand for themselves, of
\* punctuation the crate reads after a backslash and of NULs, QuoteMeta writes a pattern
\* that the crate reads as that text.
THEOREM QuotedTextsReadBack == Spec => []QuotedReadsBack
  <1>1. Typed => QuotedReadsBack
    <2> SUFFICES ASSUME Typed, source.quoted, 
                        ToSet(source.literal) \subseteq Unquoted \cup Escapable \cup {Zero}
                 PROVE  ReadsAs(QuoteMeta(source.literal)) = source.literal
      BY DEF QuotedReadsBack
    <2>1. source.literal \in Seq(Chars)
      BY InputsAssumption DEF Typed, TypeOK, Sources
    <2> QED
      BY <2>1, QuotedTextReads
  <1>2. Init => Typed
    BY TypedInit
  <1>3. Typed /\ [Next]_vars => Typed'
    BY TypedStep
  <1> QED
    BY <1>1, <1>2, <1>3, PTL DEF Spec
------------------------------------------------------------------------------
(***************************************************************************)
(* PlainRuns: patterns of literals and dots.                               *)
(***************************************************************************)
IsPlain(ps) == \A k \in DOMAIN ps : ps[k].kind \in {"lit", "dot"}

\* How a plain pattern of n pieces reads: t says what its characters are.
ReadsPlainly(ps, n, t) ==
  /\ DOMAIN ps = 1..n /\ Len(ps) = n /\ Len(t) = n
  /\ \A k \in 1..n :
       \/ ps[k].kind = "dot" /\ t[k] = "."
       \/ ps[k].kind = "lit" /\ ps[k].char \in Chars \ Marks /\ t[k] = LowerChar(ps[k].char)

\* A character of a plain pattern is a dot or a letter that is no mark.
LEMMA PlainPieces ==
  ASSUME NEW p, IsPiece(p), p.kind \in {"lit", "dot"}
  PROVE  \/ p.kind = "dot" /\ PieceText(p) = <<".">>
         \/ p.kind = "lit" /\ p.char \in Chars \ Marks /\ PieceText(p) = <<p.char>>
  <1>1. IsSingle(p) /\ Unrepeated(p) = p
    BY Zenon DEF IsPiece, Unrepeated
  <1>2. PieceText(p) = UnrepeatedText(p) \o <<>>
    BY <1>1, Zenon DEF PieceText
  <1>3. CASE p.kind = "dot"
    <2>1. UnrepeatedText(p) = <<".">>
      BY <1>3 DEF UnrepeatedText
    <2>2. <<".">> \o <<>> = <<".">>
      OBVIOUS
    <2> QED
      BY <1>2, <1>3, <2>1, <2>2, Zenon
  <1>4. CASE p.kind = "lit"
    <2>1. UnrepeatedText(p) = <<p.char>>
      BY <1>4 DEF UnrepeatedText
    <2>2. <<p.char>> \o <<>> = <<p.char>>
      OBVIOUS
    <2>3. p.char \in Chars \ Marks
      BY <1>1, <1>4 DEF IsSingle, Lit, Dot, Digit
    <2> QED
      BY <1>2, <1>4, <2>1, <2>2, <2>3, Zenon
  <1> QED
    BY <1>3, <1>4

\* Characters that QuoteMeta leaves alone are no marks.
LEMMA PlainQuotes ==
  ASSUME NEW c \in Chars, Len(Quote(c)) = 1
  PROVE  c \in Chars \ Marks /\ Quote(c) = <<c>>
  <1>1. c \in Unquoted
    BY DEF Quote
  <1>2. Quote(c) = <<c>>
    BY <1>1 DEF Quote
  <1>3. \A m \in Marks : m \notin {"_", "!", " ", "'", "="}
    BY DEF Marks
  <1>4. \A m \in Marks : m \notin Alnum \cup Wide
    BY CharsAssumption
  <1> QED
    BY <1>1, <1>2, <1>3, <1>4, Zenon DEF Unquoted

\* Where all texts have one character, the whole has as many as there are texts.
LEMMA SinglesLowered ==
  ASSUME NEW n \in Nat, NEW s \in [1..n -> Seq(Chars)], NEW c \in [1..n -> Chars],
         \A k \in 1..n : s[k] = <<c[k]>>
  PROVE  /\ Len(Lower(FlattenSeq(s))) = n
         /\ \A k \in 1..n : Lower(FlattenSeq(s))[k] = LowerChar(c[k])
  <1>0. \A x : Len(<<x>>) = 1 /\ <<x>>[1] = x
    OBVIOUS
  <1>1. \A k \in 1..n : Len(s[k]) = 1 /\ s[k][1] = c[k]
    BY <1>0, Zenon
  <1>2. FlattenSeq(s) = [k \in 1..n |-> s[k][1]]
    BY <1>1, SinglesFlattened
  <1>3. PICK t \in Seq(Chars) : t = FlattenSeq(s) /\ Len(t) = n /\ \A k \in 1..n : t[k] = c[k]
    <2>1. [k \in 1..n |-> s[k][1]] = [k \in 1..n |-> c[k]]
      BY <1>1
    <2>2. /\ [k \in 1..n |-> c[k]] \in Seq(Chars) /\ Len([k \in 1..n |-> c[k]]) = n
          /\ \A k \in 1..n : [j \in 1..n |-> c[j]][k] = c[k]
      OBVIOUS
    <2> QED
      BY <1>2, <2>1, <2>2, Zenon
  <1>4. Len(Lower(t)) = n /\ \A k \in 1..n : Lower(t)[k] = LowerChar(t[k])
    BY <1>3, LowerSays
  <1> QED
    BY <1>3, <1>4

\* The text of a plain pattern.
LEMMA PlainText ==
  ASSUME source \in Sources, IsPlain(Regexp)
  PROVE  \E n \in Nat : ReadsPlainly(Regexp, n, Lower(PatternOf(source)))
  <1>1. CASE source \in [quoted : {FALSE}, pieces : Regexps]
    <2>1. PICK ps : ps = source.pieces /\ ps \in Regexps /\ source.quoted = FALSE
      BY <1>1
    <2>2. Regexp = ps /\ PatternOf(source) = Text(ps)
      BY <2>1, Zenon DEF Regexp, PatternOf
    <2>3. ps \in Seq(ToSet(ps)) /\ \A k \in DOMAIN ps : IsPiece(ps[k])
      BY <2>1, InputsAssumption
    <2>4. PICK n \in Nat : DOMAIN ps = 1..n /\ Len(ps) = n
      BY <2>3
    <2> DEFINE s == [k \in 1..n |-> PieceText(ps[k])]
               c == [k \in 1..n |-> IF ps[k].kind = "dot" THEN "." ELSE ps[k].char]
    <2>5. Text(ps) = FlattenSeq(s)
      BY <2>4 DEF Text
    <2>6. ASSUME NEW k \in 1..n
          PROVE  \/ ps[k].kind = "dot" /\ PieceText(ps[k]) = <<".">>
                 \/ /\ ps[k].kind = "lit" /\ ps[k].char \in Chars \ Marks
                    /\ PieceText(ps[k]) = <<ps[k].char>>
      BY <2>2, <2>3, <2>4, PlainPieces DEF IsPlain
    <2>7. c \in [1..n -> Chars]
      <3>1. \A k \in 1..n : (IF ps[k].kind = "dot" THEN "." ELSE ps[k].char) \in Chars
        BY <2>6, SpecialChars
      <3> QED
        BY <3>1
    <2>8. \A k \in 1..n : s[k] = <<c[k]>>
      BY <2>6
    <2>9. s \in [1..n -> Seq(Chars)]
      <3>1. \A k \in 1..n : PieceText(ps[k]) \in Seq(Chars)
        BY <2>3, <2>4, PieceSays, Zenon
      <3> QED
        BY <3>1
    <2>10. \A k \in 1..n : \/ ps[k].kind = "dot" /\ c[k] = "."
                           \/ ps[k].kind = "lit" /\ ps[k].char \in Chars \ Marks /\ c[k] = ps[k].char
      BY <2>6
    <2> HIDE DEF s, c
    <2>11. /\ Len(Lower(Text(ps))) = n
           /\ \A k \in 1..n : Lower(Text(ps))[k] = LowerChar(c[k])
      BY <2>5, <2>7, <2>8, <2>9, SinglesLowered
    <2>12. LowerChar(".") = "."
      BY CaseAssumption, SpecialChars DEF Marks
    <2>13. ReadsPlainly(ps, n, Lower(Text(ps)))
      BY <2>4, <2>10, <2>11, <2>12 DEF ReadsPlainly
    <2> QED
      BY <2>2, <2>13
  <1>2. CASE source \in [quoted : {TRUE}, literal : Literals]
    <2>1. PICK literal \in Seq(Chars) : literal = source.literal /\ source.quoted = TRUE
      BY <1>2, InputsAssumption
    <2>2. PICK n \in Nat : DOMAIN literal = 1..n /\ Len(literal) = n
      OBVIOUS
    <2> DEFINE ps == [k \in 1..n |-> IF Len(Quote(literal[k])) = 1 THEN Lit(literal[k]) ELSE Escaped(literal[k])]
               s == [k \in 1..n |-> Quote(literal[k])]
    <2>3. Regexp = ps /\ PatternOf(source) = QuoteMeta(literal)
      BY <2>1, <2>2 DEF Regexp, PatternOf
    <2>4. QuoteMeta(literal) = FlattenSeq(s)
      BY <2>2 DEF QuoteMeta
    <2>5. DOMAIN ps = 1..n /\ Len(ps) = n
      OBVIOUS
    <2>6. ASSUME NEW k \in 1..n
          PROVE  /\ ps[k].kind = "lit" /\ ps[k].char = literal[k] /\ literal[k] \in Chars \ Marks
                 /\ Quote(literal[k]) = <<literal[k]>>
      <3>1. literal[k] \in Chars
        BY <2>2
      <3>2. ps[k].kind \in {"lit", "dot"}
        BY <2>3, <2>5 DEF IsPlain
      <3>3. Len(Quote(literal[k])) = 1
        BY <3>2 DEF Escaped
      <3>4. ps[k].kind = "lit" /\ ps[k].char = literal[k]
        BY <3>3 DEF Lit
      <3>5. literal[k] \in Chars \ Marks /\ Quote(literal[k]) = <<literal[k]>>
        BY <3>1, <3>3, PlainQuotes
      <3> QED
        BY <3>4, <3>5
    <2>7. s \in [1..n -> Seq(Chars)] /\ \A k \in 1..n : s[k] = <<literal[k]>>
      <3>1. \A k \in 1..n : <<literal[k]>> \in Seq(Chars)
        BY <2>2
      <3>2. \A k \in 1..n : Quote(literal[k]) = <<literal[k]>>
        BY <2>6
      <3>3. \A k \in 1..n : s[k] = <<literal[k]>>
        BY <3>2
      <3>4. \A k \in 1..n : Quote(literal[k]) \in Seq(Chars)
        BY <3>1, <3>2, Zenon
      <3>5. s \in [1..n -> Seq(Chars)]
        BY <3>4
      <3> QED
        BY <3>3, <3>5
    <2>8. literal \in [1..n -> Chars]
      BY <2>2
    <2> HIDE DEF s, ps
    <2>9. /\ Len(Lower(QuoteMeta(literal))) = n
          /\ \A k \in 1..n : Lower(QuoteMeta(literal))[k] = LowerChar(literal[k])
      BY <2>4, <2>7, <2>8, SinglesLowered
    <2>10. ReadsPlainly(ps, n, Lower(QuoteMeta(literal)))
      BY <2>5, <2>6, <2>9 DEF ReadsPlainly
    <2> QED
      BY <2>3, <2>10
  <1> QED
    BY <1>1, <1>2 DEF Sources

\* The literals before a piece: none at the start or behind a dot, one more behind a literal.
LEMMA RunSays ==
  ASSUME NEW ps, NEW n \in Nat, NEW t, ReadsPlainly(ps, n, t)
  PROVE  /\ \A k \in 1..n + 1 : RunBefore(ps, k) \in Seq(Chars)
         /\ RunBefore(ps, 1) = <<>>
         /\ \A k \in 1..n :
              /\ ps[k].kind = "dot" => RunBefore(ps, k + 1) = <<>>
              /\ ps[k].kind = "lit" => RunBefore(ps, k + 1) = Append(RunBefore(ps, k), ps[k].char)
  <1> DEFINE Runs(k) == {m \in 0..k - 1 : \A l \in k - m..k - 1 : ps[l].kind = "lit"}
  <1>1. ASSUME NEW k \in 1..n + 1
        PROVE  /\ RunLength(ps, k) \in Runs(k)
               /\ \A m \in Runs(k) : m <= RunLength(ps, k)
    <2>1. Runs(k) \in SUBSET Nat /\ 0 \in Runs(k) /\ \A m \in Runs(k) : m <= k - 1
      <3>1. Runs(k) \in SUBSET Nat /\ \A m \in Runs(k) : m <= k - 1
        OBVIOUS
      <3>2. 0 \in 0..k - 1 /\ \A l \in k - 0..k - 1 : FALSE
        OBVIOUS
      <3>3. 0 \in Runs(k)
        BY <3>2, Zenon
      <3> QED
        BY <3>1, <3>3, Zenon
    <2>2. k - 1 \in Nat /\ Runs(k) # {}
      <3>1. k - 1 \in Nat
        OBVIOUS
      <3> HIDE DEF Runs
      <3>2. Runs(k) # {}
        BY <2>1, Zenon
      <3> QED
        BY <3>1, <3>2
    <2>3. RunLength(ps, k) = Max(Runs(k))
      BY DEF RunLength
    <2> HIDE DEF Runs
    <2>4. Max(Runs(k)) \in Runs(k) /\ \A m \in Runs(k) : m <= Max(Runs(k))
      BY <2>1, <2>2, NatMax
    <2> QED
      BY <2>3, <2>4
  <1>2. \A k \in 1..n + 1 : RunLength(ps, k) \in 0..k - 1 /\ \A l \in k - RunLength(ps, k)..k - 1 : ps[l].kind = "lit"
    BY <1>1
  <1>3. \A k \in 1..n : ps[k].kind = "lit" => ps[k].char \in Chars
    BY DEF ReadsPlainly
  <1>4. ASSUME NEW k \in 1..n + 1 PROVE RunBefore(ps, k) \in Seq(Chars)
    <2>1. PICK r \in 0..k - 1 : r = RunLength(ps, k)
      BY <1>2
    <2>2. \A l \in k - r..k - 1 : ps[l].char \in Chars
      BY <1>2, <1>3, <2>1
    <2>3. \A m \in 1..r : ps[(k - r) + m - 1].char \in Chars
      <3> SUFFICES ASSUME NEW m \in 1..r PROVE ps[(k - r) + m - 1].char \in Chars
        OBVIOUS
      <3>1. (k - r) + m - 1 \in k - r..k - 1
        OBVIOUS
      <3> QED
        BY <3>1, <2>2
    <2>4. [m \in 1..r |-> ps[(k - r) + m - 1].char] \in Seq(Chars)
      BY <2>3
    <2>5. RunBefore(ps, k) = [m \in 1..r |-> ps[k - r + m - 1].char]
      BY <2>1 DEF RunBefore
    <2> QED
      BY <2>4, <2>5
  <1>5. RunBefore(ps, 1) = <<>>
    <2>1. 1 \in 1..n + 1
      OBVIOUS
    <2>2. RunLength(ps, 1) = 0
      BY <2>1, <1>2
    <2> QED
      BY <2>2 DEF RunBefore
  <1>6. ASSUME NEW k \in 1..n, ps[k].kind = "dot" PROVE RunBefore(ps, k + 1) = <<>>
    <2>1. PICK r \in 0..k : r = RunLength(ps, k + 1) /\ \A l \in (k + 1) - r..k : ps[l].kind = "lit"
      <3>1. k + 1 \in 1..n + 1 /\ (k + 1) - 1 = k
        OBVIOUS
      <3> QED
        BY <3>1, <1>2
    <2>2. r = 0
      <3>1. r # 0 => k \in (k + 1) - r..k
        OBVIOUS
      <3>2. ps[k].kind # "lit"
        BY <1>6
      <3> QED
        BY <3>1, <3>2, <2>1
    <2> QED
      BY <2>1, <2>2 DEF RunBefore
  <1>7. ASSUME NEW k \in 1..n, ps[k].kind = "lit"
        PROVE  RunBefore(ps, k + 1) = Append(RunBefore(ps, k), ps[k].char)
    <2>0. k \in 1..n + 1 /\ k + 1 \in 1..n + 1 /\ (k + 1) - 1 = k
      OBVIOUS
    <2>1. PICK r \in 0..k - 1 : r = RunLength(ps, k) /\ \A l \in k - r..k - 1 : ps[l].kind = "lit"
      BY <2>0, <1>2
    <2>2. PICK q \in 0..k : q = RunLength(ps, k + 1) /\ \A l \in (k + 1) - q..k : ps[l].kind = "lit"
      BY <2>0, <1>2
    <2>3. r + 1 <= q
      <3>1. r + 1 \in Runs(k + 1)
        <4>1. \A l \in (k + 1) - (r + 1)..k : l = k \/ l \in k - r..k - 1
          OBVIOUS
        <4>2. \A l \in (k + 1) - (r + 1)..(k + 1) - 1 : ps[l].kind = "lit"
          BY <2>0, <2>1, <4>1, <1>7
        <4> QED
          BY <4>2
      <3> QED
        BY <3>1, <2>0, <2>2, <1>1
    <2>4. q <= r + 1
      <3> SUFFICES ASSUME q # 0 PROVE q - 1 <= r
        OBVIOUS
      <3>1. q - 1 \in Runs(k)
        <4>1. \A l \in k - (q - 1)..k - 1 : l \in (k + 1) - q..k
          OBVIOUS
        <4> QED
          BY <4>1, <2>2
      <3> QED
        BY <3>1, <2>0, <2>1, <1>1
    <2>5. q = r + 1
      BY <2>3, <2>4
    <2>6. PICK b \in Seq(Chars) : b = RunBefore(ps, k)
      BY <2>0, <1>4
    <2>7. b = [m \in 1..r |-> ps[k - r + m - 1].char]
      BY <2>1, <2>6 DEF RunBefore
    <2>8. RunBefore(ps, k + 1) = [m \in 1..r + 1 |-> ps[(k + 1) - (r + 1) + m - 1].char]
      BY <2>2, <2>5 DEF RunBefore
    <2>9. \A m \in 1..r + 1 : (k + 1) - (r + 1) + m - 1 = k - r + m - 1 /\ (m = r + 1 => k - r + m - 1 = k)
      OBVIOUS
    <2>10. Len(b) = r /\ \A m \in 1..r : b[m] = ps[k - r + m - 1].char
      BY <2>7
    <2>11. Append(b, ps[k].char) = [m \in 1..r + 1 |-> IF m = r + 1 THEN ps[k].char ELSE b[m]]
      BY <2>10
    <2>12. \A m \in 1..r + 1 : ps[(k + 1) - (r + 1) + m - 1].char = IF m = r + 1 THEN ps[k].char ELSE b[m]
      <3> SUFFICES ASSUME NEW m \in 1..r + 1
                   PROVE  ps[(k + 1) - (r + 1) + m - 1].char = IF m = r + 1 THEN ps[k].char ELSE b[m]
        OBVIOUS
      <3>1. CASE m = r + 1
        BY <3>1, <2>9
      <3>2. CASE m # r + 1
        <4>1. m \in 1..r
          BY <3>2
        <4> QED
          BY <3>2, <4>1, <2>9, <2>10
      <3> QED
        BY <3>1, <3>2
    <2> QED
      BY <2>6, <2>8, <2>11, <2>12
  <1> QED
    BY <1>4, <1>5, <1>6, <1>7

\* The atoms that are pushed at place k, and those up to it.
PushAt(ps, min, k) ==
  IF k \in DOMAIN ps /\ ps[k].kind = "lit" THEN <<>>
  ELSE IF Bytes(Lower(RunBefore(ps, k))) >= min THEN <<Lower(RunBefore(ps, k))>> ELSE <<>>
Pushed(ps, min, k) == FlattenSeq([l \in 1..k |-> PushAt(ps, min, l)])

\* What is pushed grows by what is pushed at the next place; behind a last dot that is
\* nothing, since nothing is held.
LEMMA PushedSays ==
  ASSUME NEW ps, NEW n \in Nat, NEW t, ReadsPlainly(ps, n, t), NEW min
  PROVE  /\ Pushed(ps, min, 0) = <<>>
         /\ \A k \in 1..n + 1 : /\ Pushed(ps, min, k - 1) \in Seq(Seq(Chars))
                                /\ Pushed(ps, min, k) = Pushed(ps, min, k - 1) \o PushAt(ps, min, k)
  <1>1. \A k \in 1..n + 1 : Lower(RunBefore(ps, k)) \in Seq(Chars)
    BY RunSays, LowerSays, Zenon
  <1>2. ASSUME NEW k \in 1..n + 1 PROVE PushAt(ps, min, k) \in Seq(Seq(Chars))
    <2>1. PICK r \in Seq(Chars) : r = Lower(RunBefore(ps, k))
      BY <1>1, Zenon
    <2>2. <<r>> \in Seq(Seq(Chars)) /\ <<>> \in Seq(Seq(Chars))
      OBVIOUS
    <2> QED
      BY <2>1, <2>2, Zenon DEF PushAt
  <1>3. ASSUME NEW k \in 1..n + 1
        PROVE  /\ Pushed(ps, min, k - 1) \in Seq(Seq(Chars))
               /\ Pushed(ps, min, k) = Pushed(ps, min, k - 1) \o PushAt(ps, min, k)
    <2> DEFINE u == [l \in 1..k |-> PushAt(ps, min, l)]
               v == [l \in 1..k - 1 |-> PushAt(ps, min, l)]
    <2>1. \A l \in 1..k : l \in 1..n + 1
      OBVIOUS
    <2>2. u \in [1..k -> Seq(Seq(Chars))]
      BY <2>1, <1>2
    <2>3. v \in [1..k - 1 -> Seq(Seq(Chars))] /\ \A l \in 1..k - 1 : v[l] = u[l]
      <3>1. \A l \in 1..k - 1 : l \in 1..k
        OBVIOUS
      <3> QED
        BY <3>1, <2>1, <1>2
    <2>4. u[k] = PushAt(ps, min, k)
      OBVIOUS
    <2>5. Pushed(ps, min, k) = FlattenSeq(u) /\ Pushed(ps, min, k - 1) = FlattenSeq(v)
      BY DEF Pushed
    <2> HIDE DEF u, v
    <2>6. PICK j \in Nat : j = k - 1 /\ j + 1 = k
      <3>1. k - 1 \in Nat /\ (k - 1) + 1 = k
        OBVIOUS
      <3> QED
        BY <3>1
    <2>7. u \in [1..j + 1 -> Seq(Seq(Chars))] /\ v \in [1..j -> Seq(Seq(Chars))] /\ \A l \in 1..j : v[l] = u[l]
      BY <2>2, <2>3, <2>6
    <2>8. FlattenSeq(u) = FlattenSeq(v) \o u[j + 1]
      BY <2>7, FlattenAppended
    <2>9. FlattenSeq(v) \in Seq(Seq(Chars))
      BY <2>7, Flattened DEF Collects
    <2> QED
      BY <2>4, <2>5, <2>6, <2>8, <2>9
  <1>4. Pushed(ps, min, 0) = <<>>
    BY DEF Pushed, FlattenSeq
  <1> QED
    BY <1>3, <1>4

\* A character of a run goes on, or ends it.
LEMMA LowerAppend ==
  ASSUME NEW s \in Seq(Chars), NEW c \in Chars
  PROVE  Lower(Append(s, c)) = Append(Lower(s), LowerChar(c))
  <1>0. Append(s, c) \in Seq(Chars)
    OBVIOUS
  <1>1. PICK u \in Seq(Chars) : u = Append(s, c)
    BY <1>0, Zenon
  <1>2. Len(u) = Len(s) + 1 /\ u[Len(s) + 1] = c /\ \A k \in 1..Len(s) : u[k] = s[k]
    BY <1>1
  <1>3. PICK v \in Seq(Chars) : v = Lower(s)
    BY LowerSays
  <1>4. Len(v) = Len(s) /\ \A k \in 1..Len(s) : v[k] = LowerChar(s[k])
    BY <1>3, LowerSays
  <1>5. PICK w \in Seq(Chars) : w = Lower(u)
    BY LowerSays
  <1>6. Len(w) = Len(u) /\ \A k \in 1..Len(u) : w[k] = LowerChar(u[k])
    BY <1>5, LowerSays
  <1>7. LowerChar(c) \in Chars
    BY CaseAssumption
  <1>8. w = Append(v, LowerChar(c))
    BY <1>2, <1>4, <1>6, <1>7
  <1> QED
    BY <1>1, <1>3, <1>5, <1>8

\* Nothing is shorter than a least length above 0.
LEMMA NothingIsShort ==
  ASSUME NEW min \in Nat, min > 0
  PROVE  Lower(<<>>) = <<>> /\ ~(Bytes(<<>>) >= min)
  <1>0. <<>> \in Seq(Chars) /\ Len(<<>>) = 0
    OBVIOUS
  <1>1. PICK e \in Seq(Chars) : e = <<>> /\ Len(e) = 0
    BY <1>0, Zenon
  <1>a. \A k \in 1..Len(e) : e[k] \notin Wide
    BY <1>1
  <1>2. Bytes(<<>>) = 0
    BY <1>1, <1>a, BytesSay
  <1>3. Lower(<<>>) = <<>>
    BY DEF Lower
  <1> QED
    BY <1>2, <1>3

\* Which turn reads a dot, and which another character without a meaning.
LEMMA PlainTurns ==
  ASSUME Next, ~Return
  PROVE  /\ str[i] = "." => ReadDot
         /\ str[i] \notin Marks => ReadLiteral
  BY Zenon DEF Next, ReadGroup, GroupPanics, ReadDot, ReadRepeat, SkipClass, ReadClass,
    ClassPanics, SkipBraces, BracesPanic, ReadEscape, ReadLiteral, At, Marks

\* Of a plain pattern the runs are pushed up to here; what is held is the run that is read.
RunsRead ==
  IsPlain(Regexp) /\ min_atoms_len > 0 =>
    /\ vec_chars_con = <<>> /\ i \in 1..Len(Regexp) + 1
    /\ pc = "done" => i = Len(Regexp) + 1
    /\ i <= Len(Regexp) => /\ my_atoms = Pushed(Regexp, min_atoms_len, i - 1)
                           /\ held = Lower(RunBefore(Regexp, i))
    /\ i = Len(Regexp) + 1 => my_atoms = Pushed(Regexp, min_atoms_len, i)

\* At the start no run is read.
LEMMA RunsReadInit ==
  ASSUME Init
  PROVE  RunsRead
  <1> SUFFICES ASSUME IsPlain(Regexp), min_atoms_len > 0
               PROVE  /\ vec_chars_con = <<>> /\ i \in 1..Len(Regexp) + 1
                      /\ pc = "done" => i = Len(Regexp) + 1
                      /\ i <= Len(Regexp) => /\ my_atoms = Pushed(Regexp, min_atoms_len, i - 1)
                                             /\ held = Lower(RunBefore(Regexp, i))
                      /\ i = Len(Regexp) + 1 => my_atoms = Pushed(Regexp, min_atoms_len, i)
    BY DEF RunsRead
  <1>1. /\ source \in Sources /\ min_atoms_len \in Nat
        /\ i = 1 /\ held = <<>> /\ vec_chars_con = <<>> /\ my_atoms = <<>> /\ pc = "scan"
    BY InputsAssumption DEF Init
  <1>2. PICK n \in Nat : ReadsPlainly(Regexp, n, Lower(PatternOf(source)))
    BY <1>1, PlainText, Zenon
  <1>3. PICK ps : ps = Regexp
    OBVIOUS
  <1>4. Len(ps) = n /\ DOMAIN ps = 1..n
    BY <1>2, <1>3 DEF ReadsPlainly
  <1>5. RunBefore(ps, 1) = <<>>
    BY <1>2, <1>3, RunSays
  <1>6. Lower(<<>>) = <<>> /\ ~(Bytes(<<>>) >= min_atoms_len)
    BY <1>1, NothingIsShort
  <1>7. Pushed(ps, min_atoms_len, 0) = <<>>
    BY <1>2, <1>3, PushedSays
  <1>8. n = 0 => Pushed(ps, min_atoms_len, 1) = <<>>
    <2> SUFFICES ASSUME n = 0 PROVE Pushed(ps, min_atoms_len, 1) = <<>>
      OBVIOUS
    <2>1. PushAt(ps, min_atoms_len, 1) = <<>>
      <3>1. 1 \notin DOMAIN ps
        BY <1>4
      <3> QED
        BY <3>1, <1>5, <1>6, Zenon DEF PushAt
    <2>2. 1 \in 1..n + 1 /\ 1 - 1 = 0
      OBVIOUS
    <2>3. Pushed(ps, min_atoms_len, 1) = Pushed(ps, min_atoms_len, 0) \o PushAt(ps, min_atoms_len, 1)
      BY <2>2, <1>2, <1>3, PushedSays
    <2> QED
      BY <2>1, <2>3, <1>7
  <1> QED
    BY <1>1, <1>3, <1>4, <1>5, <1>6, <1>7, <1>8

\* Each turn reads a literal or a dot of a plain pattern.
LEMMA RunsReadTurn ==
  ASSUME Typed, RunsRead, IsPlain(Regexp), min_atoms_len > 0, Next, ~Return,
         NEW ps, ps = Regexp, NEW n \in Nat, ReadsPlainly(ps, n, str)
  PROVE  /\ vec_chars_con' = <<>> /\ i' = i + 1 /\ i' \in 1..n + 1 /\ pc' = "scan"
         /\ i' <= n => /\ my_atoms' = Pushed(ps, min_atoms_len, i' - 1)
                       /\ held' = Lower(RunBefore(ps, i'))
         /\ i' = n + 1 => my_atoms' = Pushed(ps, min_atoms_len, i')
  <1>1. pc = "scan" /\ i <= Len(str)
    BY NextScans
  <1>2. Len(str) = n /\ Len(ps) = n /\ DOMAIN ps = 1..n
    BY DEF ReadsPlainly
  <1>3. /\ i \in 1..n /\ vec_chars_con = <<>>
        /\ my_atoms = Pushed(ps, min_atoms_len, i - 1) /\ held = Lower(RunBefore(ps, i))
    BY <1>1, <1>2 DEF RunsRead
  <1>4. min_atoms_len \in Nat
    BY InputsAssumption DEF Typed, TypeOK
  <1>5. Lower(<<>>) = <<>> /\ ~(Bytes(<<>>) >= min_atoms_len)
    BY <1>4, NothingIsShort
  <1>6. \A k \in 1..n + 1 : /\ Pushed(ps, min_atoms_len, k - 1) \in Seq(Seq(Chars))
                            /\ Pushed(ps, min_atoms_len, k) = Pushed(ps, min_atoms_len, k - 1) \o PushAt(ps, min_atoms_len, k)
    BY PushedSays
  <1>7. \A k \in 1..n + 1 : RunBefore(ps, k) \in Seq(Chars)
    BY RunSays
  <1>8. i \in 1..n + 1 /\ i + 1 \in 1..n + 1 /\ (i + 1) - 1 = i /\ i \in Nat
    BY <1>3
  <1>9. my_atoms \in Seq(Seq(Chars))
    BY <1>3, <1>6, <1>8
  <1>10. PICK min \in Nat : min = min_atoms_len /\ min > 0
    BY <1>4
  <1>11. \/ ps[i].kind = "dot" /\ str[i] = "."
         \/ ps[i].kind = "lit" /\ ps[i].char \in Chars \ Marks /\ str[i] = LowerChar(ps[i].char)
    BY <1>3 DEF ReadsPlainly
  <1>12. CASE ps[i].kind = "dot" /\ str[i] = "."
    <2>1. ReadDot
      BY <1>12, PlainTurns
    <2>2. Push(IfLong(held)) /\ vec_chars_con' = vec_chars_con /\ held' = <<>> /\ i' = i + 1 /\ pc' = pc
      BY <2>1, <1>3, Zenon DEF ReadDot, Continue
    <2>3. IfLong(held) = PushAt(ps, min_atoms_len, i)
      <3>1. ~(i \in DOMAIN ps /\ ps[i].kind = "lit")
        BY <1>12
      <3> QED
        BY <3>1, <1>3, Zenon DEF PushAt, IfLong, Long
    <2>4. my_atoms' = Pushed(ps, min_atoms_len, i)
      BY <2>2, <2>3, <1>3, <1>6, <1>8 DEF Push
    <2>5. RunBefore(ps, i + 1) = <<>>
      BY <1>3, <1>12, RunSays
    <2>6. ASSUME i + 1 = n + 1 PROVE my_atoms' = Pushed(ps, min_atoms_len, i + 1)
      <3>1. i + 1 \notin DOMAIN ps
        BY <2>6, <1>2
      <3>2. PushAt(ps, min_atoms_len, i + 1) = <<>>
        BY <3>1, <2>5, <1>5, Zenon DEF PushAt
      <3>3. Pushed(ps, min_atoms_len, i + 1) = Pushed(ps, min_atoms_len, i) \o <<>>
        BY <3>2, <1>6, <1>8
      <3>4. Pushed(ps, min_atoms_len, i) \in Seq(Seq(Chars))
        BY <1>6, <1>8
      <3>5. Pushed(ps, min_atoms_len, i) \o <<>> = Pushed(ps, min_atoms_len, i)
        BY <3>4
      <3> QED
        BY <3>3, <3>5, <2>4, Zenon
    <2> QED
      BY <2>2, <2>4, <2>5, <2>6, <1>1, <1>3, <1>5, <1>8
  <1>13. CASE ps[i].kind = "lit" /\ ps[i].char \in Chars \ Marks /\ str[i] = LowerChar(ps[i].char)
    <2>1. PICK c \in Chars : c = ps[i].char /\ c \notin Marks /\ str[i] = LowerChar(c)
      BY <1>13
    <2>2. str[i] \notin Marks
      BY <2>1, CaseAssumption
    <2>3. ReadLiteral
      BY <2>2, PlainTurns
    <2>4. PICK run : run = Append(held, str[i])
      OBVIOUS
    <2>5. /\ \/ i = Len(str) /\ Long(run) /\ Push(<<run>>)
             \/ ~(i = Len(str) /\ Long(run)) /\ held' = run /\ my_atoms' = my_atoms
          /\ i' = i + 1 /\ vec_chars_con' = vec_chars_con /\ pc' = pc
      BY <2>3, <2>4, Zenon DEF ReadLiteral, Continue
    <2>6. PICK b \in Seq(Chars) : b = RunBefore(ps, i)
      BY <1>7, <1>8
    <2>7. RunBefore(ps, i + 1) = Append(b, c)
      BY <1>3, <1>13, <2>1, <2>6, RunSays
    <2>8. run = Lower(RunBefore(ps, i + 1))
      BY <1>3, <2>1, <2>4, <2>6, <2>7, LowerAppend
    <2>9. Pushed(ps, min_atoms_len, i) = my_atoms
      <3>1. PushAt(ps, min_atoms_len, i) = <<>>
        BY <1>2, <1>3, <1>13, Zenon DEF PushAt
      <3>2. Pushed(ps, min_atoms_len, i) = my_atoms \o <<>>
        BY <3>1, <1>3, <1>6, <1>8
      <3>3. my_atoms \o <<>> = my_atoms
        BY <1>9
      <3> QED
        BY <3>2, <3>3
    <2>10. ASSUME i + 1 = n + 1 PROVE my_atoms' = Pushed(ps, min_atoms_len, i + 1)
      <3>1. i + 1 \notin DOMAIN ps /\ i = Len(str)
        BY <2>10, <1>2, <1>8
      <3>2. PushAt(ps, min_atoms_len, i + 1) = IF Long(run) THEN <<run>> ELSE <<>>
        BY <3>1, <2>8, Zenon DEF PushAt, Long
      <3>3. Pushed(ps, min_atoms_len, i + 1) = my_atoms \o PushAt(ps, min_atoms_len, i + 1)
        BY <2>9, <1>6, <1>8
      <3>4. my_atoms \o <<>> = my_atoms
        BY <1>9
      <3> QED
        BY <3>1, <3>2, <3>3, <3>4, <2>5, Zenon DEF Push
    <2>11. ASSUME i + 1 <= n PROVE my_atoms' = Pushed(ps, min_atoms_len, i) /\ held' = Lower(RunBefore(ps, i + 1))
      <3>1. i # Len(str)
        BY <2>11, <1>2, <1>8
      <3> QED
        BY <3>1, <2>5, <2>8, <2>9
    <2> QED
      BY <2>5, <2>10, <2>11, <1>1, <1>3, <1>8
  <1> QED
    BY <1>11, <1>12, <1>13

\* The runs are pushed one by one.
LEMMA RunsReadStep ==
  ASSUME Typed, RunsRead, [Next]_vars
  PROVE  RunsRead'
  <1>1. source' = source /\ min_atoms_len' = min_atoms_len /\ str' = str
    BY StaysFixed
  <1>2. PICK ps : ps = Regexp
    OBVIOUS
  <1>3. Regexp' = ps
    BY <1>1, <1>2 DEF Regexp
  <1>4. CASE IsPlain(ps) /\ min_atoms_len > 0
    <2>1. source \in Sources /\ str = Lower(PatternOf(source))
      BY DEF Typed, TypeOK
    <2>2. PICK n \in Nat : ReadsPlainly(ps, n, str)
      BY <1>2, <1>4, <2>1, PlainText, Zenon
    <2>3. Len(ps) = n /\ Len(str) = n
      BY <2>2 DEF ReadsPlainly
    <2>4. /\ vec_chars_con = <<>> /\ i \in 1..n + 1
          /\ pc = "done" => i = n + 1
          /\ i <= n => /\ my_atoms = Pushed(ps, min_atoms_len, i - 1)
                       /\ held = Lower(RunBefore(ps, i))
          /\ i = n + 1 => my_atoms = Pushed(ps, min_atoms_len, i)
      BY <1>2, <1>4, <2>3 DEF RunsRead
    <2>5. /\ vec_chars_con' = <<>> /\ i' \in 1..n + 1
          /\ pc' = "done" => i' = n + 1
          /\ i' <= n => /\ my_atoms' = Pushed(ps, min_atoms_len, i' - 1)
                        /\ held' = Lower(RunBefore(ps, i'))
          /\ i' = n + 1 => my_atoms' = Pushed(ps, min_atoms_len, i')
      <3>1. CASE UNCHANGED vars
        <4>1. vec_chars_con' = vec_chars_con /\ i' = i /\ pc' = pc /\ my_atoms' = my_atoms /\ held' = held
          BY <3>1, Zenon DEF vars
        <4> QED
          BY <2>4, <4>1
      <3>2. CASE Return
        <4>1. vec_chars_con' = vec_chars_con /\ i' = i /\ my_atoms' = my_atoms /\ held' = held /\ i > n
          BY <3>2, <2>3, Zenon DEF Return
        <4> QED
          BY <2>4, <4>1
      <3>3. CASE Next /\ ~Return
        <4>1. /\ vec_chars_con' = <<>> /\ i' \in 1..n + 1 /\ pc' = "scan"
              /\ i' <= n => /\ my_atoms' = Pushed(ps, min_atoms_len, i' - 1)
                            /\ held' = Lower(RunBefore(ps, i'))
              /\ i' = n + 1 => my_atoms' = Pushed(ps, min_atoms_len, i')
          BY <1>2, <1>4, <2>2, <3>3, RunsReadTurn
        <4> QED
          BY <4>1
      <3> QED
        BY <3>1, <3>2, <3>3
    <2> QED
      BY <1>1, <1>3, <2>3, <2>5, Zenon DEF RunsRead
  <1>5. CASE ~(IsPlain(ps) /\ min_atoms_len > 0)
    BY <1>1, <1>3, <1>5, Zenon DEF RunsRead
  <1> QED
    BY <1>4, <1>5

\* The atoms of a plain pattern, read to its end.
LEMMA RunsReadMeans ==
  ASSUME Typed, RunsRead
  PROVE  PlainRuns
  <1> SUFFICES ASSUME pc = "done", min_atoms_len > 0, \A k \in DOMAIN Regexp : Regexp[k].kind \in {"lit", "dot"}
               PROVE  my_atoms = FlattenSeq([k \in 1..Len(Regexp) + 1 |->
                        IF k \in DOMAIN Regexp /\ Regexp[k].kind = "lit" THEN <<>>
                        ELSE IfLong(Lower(RunBefore(Regexp, k)))])
    BY Zenon DEF PlainRuns
  <1>1. PICK ps : ps = Regexp
    OBVIOUS
  <1>2. IsPlain(ps)
    BY <1>1 DEF IsPlain
  <1>3. my_atoms = Pushed(ps, min_atoms_len, Len(ps) + 1)
    BY <1>1, <1>2, Zenon DEF RunsRead
  <1>4. \A k : PushAt(ps, min_atoms_len, k) =
          IF k \in DOMAIN ps /\ ps[k].kind = "lit" THEN <<>> ELSE IfLong(Lower(RunBefore(ps, k)))
    BY Zenon DEF PushAt, IfLong, Long
  <1>5. [k \in 1..Len(ps) + 1 |-> PushAt(ps, min_atoms_len, k)] =
          [k \in 1..Len(ps) + 1 |-> IF k \in DOMAIN ps /\ ps[k].kind = "lit" THEN <<>>
                                    ELSE IfLong(Lower(RunBefore(ps, k)))]
    BY <1>4, Zenon
  <1>6. my_atoms = FlattenSeq([k \in 1..Len(ps) + 1 |-> PushAt(ps, min_atoms_len, k)])
    BY <1>3, Zenon DEF Pushed
  <1> QED
    BY <1>1, <1>5, <1>6, Zenon

\* "minimum atom length" (filtered_re2.h:46-51): for every pattern of literals and dots and
\* every least length above 0, the atoms are the lowercased runs of literals that long, all
\* of them and in their order.
THEOREM RunsAreAtoms == Spec => []PlainRuns
  <1>1. Typed /\ RunsRead => PlainRuns
    BY RunsReadMeans
  <1>2. Init => Typed /\ RunsRead
    BY TypedInit, RunsReadInit
  <1>3. Typed /\ RunsRead /\ [Next]_vars => (Typed /\ RunsRead)'
    BY TypedStep, RunsReadStep
  <1> QED
    BY <1>1, <1>2, <1>3, PTL DEF Spec
------------------------------------------------------------------------------
(***************************************************************************)
(* GroupKeepsShortest: the atoms of a group.                               *)
(***************************************************************************)
\* Where the first d elements are not in A and the others are, Only cuts these off.
LEMMA OnlyBehind ==
  ASSUME NEW X, NEW s \in Seq(X), NEW A, NEW d \in 0..Len(s),
         \A k \in 1..Len(s) : s[k] \in A <=> k > d
  PROVE  Only(s, A) = SubSeq(s, d + 1, Len(s))
  <1>1. PICK n \in Nat : n = Len(s) /\ d \in 0..n
    OBVIOUS
  <1>2. PICK r \in Seq(X) : r = Only(s, A)
    BY OnlyIn
  <1>3. PICK g : OnlyFrom(s, n, A, r, g)
    BY <1>1, <1>2, OnlySays
  <1>4. PICK m \in Nat : m = Len(r)
    OBVIOUS
  <1>5. /\ g \in [1..m -> 1..n] /\ \A x \in 1..m : r[x] = s[g[x]] /\ g[x] > d
        /\ \A x, y \in 1..m : x < y => g[x] < g[y]
        /\ \A k \in d + 1..n : \E x \in 1..m : g[x] = k
    BY <1>1, <1>3, <1>4 DEF OnlyFrom
  <1> DEFINE S == {x \in 0..n - d : x <= m /\ \A y \in 1..x : g[y] = d + y}
  <1>6. 0 \in S
    BY <1>1
  <1>7. ASSUME NEW x \in 0..(n - d) - 1, x \in S PROVE x + 1 \in S
    <2>1. PICK z \in 1..m : g[z] = d + (x + 1)
      <3>1. d + (x + 1) \in d + 1..n
        BY <1>1
      <3> QED
        BY <3>1, <1>5
    <2>2. ~(z <= x)
      <3> SUFFICES ASSUME z <= x PROVE FALSE
        OBVIOUS
      <3>1. g[z] = d + z
        BY <1>7
      <3> QED
        BY <3>1, <2>1, <1>1
    <2>3. x + 1 \in 1..m /\ g[x + 1] \in 1..n
      BY <2>2, <1>5
    <2>4. ~(x + 1 < z)
      <3> SUFFICES ASSUME x + 1 < z PROVE FALSE
        OBVIOUS
      <3>1. g[x + 1] < d + (x + 1)
        BY <2>1, <2>3, <1>5
      <3>2. CASE x = 0
        <4>1. g[x + 1] > d
          BY <2>3, <1>5
        <4> QED
          BY <4>1, <3>1, <3>2, <2>3, <1>1
      <3>3. CASE x # 0
        <4>1. x \in 1..x /\ x \in 1..m /\ x < x + 1
          BY <3>3, <2>3
        <4>2. g[x] = d + x
          BY <4>1, <1>7
        <4>3. g[x] < g[x + 1]
          BY <4>1, <2>3, <1>5
        <4> QED
          BY <4>2, <4>3, <3>1, <2>3, <1>1
      <3> QED
        BY <3>2, <3>3
    <2>5. z = x + 1
      BY <2>2, <2>4
    <2>6. \A y \in 1..x + 1 : y \in 1..x \/ y = x + 1
      OBVIOUS
    <2>7. \A y \in 1..x + 1 : g[y] = d + y
      BY <2>1, <2>5, <2>6, <1>7
    <2>8. x + 1 \in 0..n - d /\ x + 1 <= m
      BY <2>3, <1>1
    <2> QED
      BY <2>7, <2>8
  <1> HIDE DEF S
  <1>8. n - d \in S
    <2>1. n - d \in Nat
      BY <1>1
    <2> QED
      BY <2>1, <1>6, <1>7, PrefixInduction
  <1>9. n - d <= m /\ \A y \in 1..n - d : g[y] = d + y
    BY <1>8 DEF S
  <1>10. m = n - d
    <2> SUFFICES ASSUME m > n - d PROVE FALSE
      BY <1>1, <1>9
    <2>1. CASE n = d
      <3>1. 1 \in 1..m /\ g[1] \in 1..n /\ g[1] > d
        BY <2>1, <1>1, <1>5
      <3> QED
        BY <3>1, <2>1, <1>1
    <2>2. CASE n # d
      <3>0. PICK l : l = n - d
        OBVIOUS
      <3>1. l = n - d /\ l \in Nat /\ l \in 1..m /\ l + 1 \in 1..m /\ l \in 1..n - d
        <4>1. l \in Nat /\ l > 0 /\ l < m
          BY <2>2, <1>1, <3>0
        <4> QED
          BY <4>1, <3>0, <1>1
      <3>2. g[l] = n /\ g[l + 1] \in 1..n /\ g[l] < g[l + 1]
        <4>1. g[l] = d + l
          BY <3>1, <1>9
        <4>2. g[l] < g[l + 1] /\ g[l + 1] \in 1..n
          BY <3>1, <1>5
        <4> QED
          BY <4>1, <4>2, <3>1, <1>1
      <3> QED
        BY <3>2, <1>1
    <2> QED
      BY <2>1, <2>2
  <1>11. PICK p \in Seq(X) : p = SubSeq(s, d + 1, n) /\ Len(p) = n - d /\ \A l \in 1..n - d : p[l] = s[d + l]
    <2>1. /\ SubSeq(s, d + 1, n) \in Seq(X) /\ Len(SubSeq(s, d + 1, n)) = n - d
          /\ \A l \in 1..n - d : SubSeq(s, d + 1, n)[l] = s[d + l]
      BY <1>1, Piece
    <2> QED
      BY <2>1, Zenon
  <1>12. \A l \in 1..Len(r) : r[l] = p[l]
    BY <1>4, <1>5, <1>9, <1>10, <1>11
  <1>13. r = p
    BY <1>4, <1>10, <1>11, <1>12, SameSequence
  <1> QED
    BY <1>1, <1>2, <1>11, <1>13

\* An alternative between two bars, or between a bar and a bracket, is found.
LEMMA AlternativeFound ==
  ASSUME NEW s \in Seq(Chars), NEW x \in 2..Len(s) - 1, NEW y \in x..Len(s) - 1,
         s[x - 1] = "|" \/ (s[x - 1] = "(" /\ x = 2), s[y + 1] \in Bars,
         \A l \in x..y : s[l] \notin {"(", ")", "|"}
  PROVE  SubSeq(s, x, y) \in ToSet(Alternatives(s))
  <1>1. PICK n \in Nat : n = Len(s) /\ DOMAIN s = 1..n
    OBVIOUS
  <1> DEFINE First(k) == Max({0} \cup {l \in 1..k - 1 : s[l] \in Bars}) + 1
             Alt(k) == Only(SubSeq(s, First(k), k - 1), Chars \ {"("})
             t == [k \in 1..n |-> IF s[k] \in Bars THEN <<Alt(k)>> ELSE <<>>]
  <1>2. Alternatives(s) = FlattenSeq(t)
    BY <1>1 DEF Alternatives
  <1>3. y + 1 \in Nat \ {0} /\ y + 1 \in 1..n /\ (y + 1) - 1 = y
    BY <1>1
  <1>z. PICK z : z = y + 1
    OBVIOUS
  <1>4. PICK m : m = Max({0} \cup {l \in 1..z - 1 : s[l] \in Bars})
    OBVIOUS
  <1>5. m \in 0..y /\ (m # 0 => s[m] \in Bars) /\ \A l \in m + 1..y : s[l] \notin Bars
    <2>1. z \in Nat \ {0} /\ z - 1 = y
      BY <1>z
    <2>2. LastBar(s, z, m)
      BY <2>1, <1>4, BarSays
    <2> QED
      BY <2>1, <2>2 DEF LastBar
  <1>6. "|" \in Bars /\ \A c \in Bars : c = "|" \/ c = ")"
    BY DEF Bars
  <1>7. Alt(y + 1) = Only(SubSeq(s, m + 1, y), Chars \ {"("})
    BY <1>3, <1>4, <1>z
  <1>8. Alt(y + 1) = SubSeq(s, x, y)
    <2>1. CASE s[x - 1] = "|"
      <3>1. m = x - 1
        <4>1. ~(m < x - 1)
          <5>1. m < x - 1 => x - 1 \in m + 1..y
            BY <1>5
          <5> QED
            BY <5>1, <2>1, <1>5, <1>6
        <4>2. ~(m > x - 1)
          <5>1. m > x - 1 => m \in x..y /\ m # 0
            BY <1>5
          <5> QED
            BY <5>1, <1>5, <1>6
        <4> QED
          BY <4>1, <4>2, <1>5
      <3>2. m + 1 = x
        BY <3>1
      <3>3. PICK p \in Seq(Chars) : p = SubSeq(s, x, y) /\ Len(p) = (y - x) + 1 /\ \A l \in 1..(y - x) + 1 : p[l] = s[(x - 1) + l]
        <4>1. /\ SubSeq(s, x, y) \in Seq(Chars) /\ Len(SubSeq(s, x, y)) = (y - x) + 1
              /\ \A l \in 1..(y - x) + 1 : SubSeq(s, x, y)[l] = s[(x - 1) + l]
          BY <1>1
        <4> QED
          BY <4>1, Zenon
      <3>4. \A k \in 1..Len(p) : p[k] \in Chars \ {"("} <=> k > 0
        <4> SUFFICES ASSUME NEW k \in 1..Len(p) PROVE p[k] \in Chars \ {"("} /\ k > 0
          OBVIOUS
        <4>1. (x - 1) + k \in x..y
          BY <3>3
        <4>2. p[k] # "(" /\ p[k] \in Chars
          BY <4>1, <3>3
        <4> QED
          BY <4>2
      <3>5. Only(p, Chars \ {"("}) = SubSeq(p, 0 + 1, Len(p))
        <4>1. 0 \in 0..Len(p)
          OBVIOUS
        <4> QED
          BY <3>4, <4>1, OnlyBehind
      <3>6. SubSeq(p, 0 + 1, Len(p)) = p
        OBVIOUS
      <3> QED
        BY <1>7, <3>2, <3>3, <3>5, <3>6
    <2>2. CASE s[x - 1] = "(" /\ x = 2
      <3>1. m = 0
        <4> SUFFICES ASSUME m # 0 PROVE FALSE
          OBVIOUS
        <4>1. m = 1 \/ m \in x..y
          BY <1>5, <2>2
        <4>2. s[1] = "("
          BY <2>2
        <4> QED
          BY <4>1, <4>2, <1>5, <1>6
      <3>2. PICK p \in Seq(Chars) : p = SubSeq(s, 1, y) /\ Len(p) = y /\ \A l \in 1..y : p[l] = s[l]
        <4>1. /\ SubSeq(s, 1, y) \in Seq(Chars) /\ Len(SubSeq(s, 1, y)) = y
              /\ \A l \in 1..y : SubSeq(s, 1, y)[l] = s[l]
          BY <1>1
        <4> QED
          BY <4>1, Zenon
      <3>3. \A k \in 1..Len(p) : p[k] \in Chars \ {"("} <=> k > 1
        <4> SUFFICES ASSUME NEW k \in 1..Len(p) PROVE p[k] \in Chars \ {"("} <=> k > 1
          OBVIOUS
        <4>1. k = 1 \/ k \in x..y
          BY <2>2, <3>2
        <4>2. p[1] = "("
          BY <2>2, <3>2
        <4>3. k \in x..y => p[k] # "(" /\ p[k] \in Chars /\ k > 1
          BY <2>2, <3>2
        <4> QED
          BY <4>1, <4>2, <4>3
      <3>4. Only(p, Chars \ {"("}) = SubSeq(p, 1 + 1, Len(p))
        <4>1. 1 \in 0..Len(p)
          BY <3>2
        <4> QED
          BY <3>3, <4>1, OnlyBehind
      <3>5. SubSeq(p, 1 + 1, Len(p)) = SubSeq(s, 2, y)
        <4>1. /\ SubSeq(p, 2, y) \in Seq(Chars) /\ Len(SubSeq(p, 2, y)) = y - 1
              /\ \A l \in 1..y - 1 : SubSeq(p, 2, y)[l] = p[1 + l]
          BY <3>2, <2>2
        <4>2. /\ SubSeq(s, 2, y) \in Seq(Chars) /\ Len(SubSeq(s, 2, y)) = y - 1
              /\ \A l \in 1..y - 1 : SubSeq(s, 2, y)[l] = s[1 + l]
          BY <1>1, <2>2
        <4>3. \A l \in 1..y - 1 : p[1 + l] = s[1 + l]
          BY <3>2
        <4>4. PICK u, v : u = SubSeq(p, 2, y) /\ v = SubSeq(s, 2, y)
          OBVIOUS
        <4>5. u \in Seq(Chars) /\ v \in Seq(Chars) /\ Len(u) = Len(v) /\ \A l \in 1..Len(u) : u[l] = v[l]
          BY <4>1, <4>2, <4>3, <4>4
        <4>6. u = v
          BY <4>5, SameSequence
        <4> QED
          BY <4>4, <4>6, <3>2
      <3>6. SubSeq(s, m + 1, y) = p /\ SubSeq(s, 2, y) = SubSeq(s, x, y)
        BY <2>2, <3>1, <3>2
      <3> QED
        BY <1>7, <3>4, <3>5, <3>6
    <2> QED
      BY <2>1, <2>2
  <1>9. t[y + 1] = <<Alt(y + 1)>>
    BY <1>3
  <1>10. \A k \in 1..n : Alt(k) \in Seq(Chars)
    <2> SUFFICES ASSUME NEW k \in 1..n PROVE Alt(k) \in Seq(Chars)
      OBVIOUS
    <2>1. PICK j : j = Max({0} \cup {l \in 1..k - 1 : s[l] \in Bars})
      OBVIOUS
    <2>2. LastBar(s, k, j)
      BY <2>1, BarSays
    <2>3. SubSeq(s, j + 1, k - 1) \in Seq(Chars)
      <3>1. j \in Nat /\ k - 1 \in Nat /\ k - 1 <= Len(s)
        BY <1>1, <2>2 DEF LastBar
      <3> QED
        BY <3>1, CutSays
    <2>4. Only(SubSeq(s, j + 1, k - 1), Chars \ {"("}) \in Seq(Chars)
      BY <2>3, OnlyIn, Zenon
    <2> QED
      BY <2>1, <2>4
  <1> HIDE DEF Alt
  <1>11. t \in [1..n -> Seq(Seq(Chars))]
    BY <1>10
  <1> HIDE DEF t
  <1>12. ToSet(t[y + 1]) \subseteq ToSet(FlattenSeq(t))
    BY <1>3, <1>11, Flattened DEF Collects
  <1>13. Alt(y + 1) \in ToSet(<<Alt(y + 1)>>)
    BY DEF ToSet
  <1> QED
    BY <1>2, <1>8, <1>9, <1>12, <1>13

\* All the long ones stay, and no others.
LEMMA LongOnesSays ==
  ASSUME NEW X, NEW atoms \in Seq(Seq(X))
  PROVE  /\ \A a \in ToSet(atoms) : Long(a) => a \in ToSet(LongOnes(atoms))
         /\ \A a \in ToSet(LongOnes(atoms)) : Long(a)
  <1>1. PICK n \in Nat : DOMAIN atoms = 1..n
    OBVIOUS
  <1> DEFINE t == [k \in 1..n |-> IfLong(atoms[k])]
  <1>2. LongOnes(atoms) = FlattenSeq(t)
    BY <1>1 DEF LongOnes
  <1>3. t \in [1..n -> Seq(Seq(X))] /\ \A k \in 1..n : t[k] = IfLong(atoms[k])
    <2>1. \A k \in 1..n : IfLong(atoms[k]) \in Seq(Seq(X))
      <3> SUFFICES ASSUME NEW k \in 1..n PROVE IfLong(atoms[k]) \in Seq(Seq(X))
        OBVIOUS
      <3>1. atoms[k] \in Seq(X)
        BY <1>1
      <3> QED
        BY <3>1, IfLongIn
    <2> QED
      BY <2>1
  <1> HIDE DEF t
  <1>4. /\ \A k \in 1..n : ToSet(t[k]) \subseteq ToSet(FlattenSeq(t))
        /\ \A a \in ToSet(FlattenSeq(t)) : \E k \in 1..n : a \in ToSet(t[k])
    BY <1>3, Flattened DEF Collects
  <1>5. \A x : ToSet(<<x>>) = {x} /\ ToSet(<<>>) = {}
    BY DEF ToSet
  <1>6. \A k \in 1..n : ToSet(t[k]) = IF Long(atoms[k]) THEN {atoms[k]} ELSE {}
    BY <1>3, <1>5, Zenon DEF IfLong
  <1>7. ASSUME NEW a \in ToSet(atoms), Long(a) PROVE a \in ToSet(FlattenSeq(t))
    <2>1. PICK k \in 1..n : a = atoms[k]
      BY <1>1 DEF ToSet
    <2>2. a \in ToSet(t[k])
      BY <2>1, <1>6, <1>7
    <2> QED
      BY <2>1, <2>2, <1>4
  <1>8. ASSUME NEW a \in ToSet(FlattenSeq(t)) PROVE Long(a)
    <2>1. PICK k \in 1..n : a \in ToSet(t[k])
      BY <1>4
    <2>2. a = atoms[k] /\ Long(atoms[k])
      BY <2>1, <1>6
    <2> QED
      BY <2>2
  <1> QED
    BY <1>2, <1>7, <1>8

\* Sorting keeps all atoms and no others, and puts none behind a longer one.
LEMMA SortedSays ==
  ASSUME NEW atoms \in Seq(Seq(Chars))
  PROVE  /\ ToSet(ByLength(atoms)) = ToSet(atoms)
         /\ \A x, y \in 1..Len(ByLength(atoms)) :
              x < y => Bytes(ByLength(atoms)[x]) <= Bytes(ByLength(atoms)[y])
  <1>1. PICK n \in Nat : atoms \in [1..n -> Seq(Chars)] /\ DOMAIN atoms = 1..n
    OBVIOUS
  <1> DEFINE b == [k \in 1..n |-> Bytes(atoms[k])]
  <1>2. PICK q : SortsTo(b, n, q) /\ ByLength(atoms) = [m \in 1..n |-> atoms[q[m]]]
    BY <1>1, ByLengthSays, Zenon
  <1>3. b \in [1..n -> Nat] /\ \A k \in 1..n : b[k] = Bytes(atoms[k])
    BY <1>1, BytesSay
  <1> HIDE DEF b
  <1>4. PICK r : r = ByLength(atoms)
    OBVIOUS
  <1>5. Len(r) = n /\ DOMAIN r = 1..n /\ \A m \in 1..n : r[m] = atoms[q[m]]
    BY <1>2, <1>4
  <1>6. /\ q \in [1..n -> 1..n]
        /\ \A m, k \in 1..n : Cardinality(NotBehind(b, n, k)) = m => q[m] = k
        /\ \A x, y \in 1..n : x < y => b[q[x]] < b[q[y]] \/ (b[q[x]] = b[q[y]] /\ q[x] < q[y])
    BY <1>2, Zenon DEF SortsTo
  <1>7. \A k \in 1..n : \E m \in 1..n : q[m] = k
    <2>1. \A k \in 1..n : Cardinality(NotBehind(b, n, k)) \in 1..n
      BY <1>3, InFront
    <2> QED
      BY <2>1, <1>6
  <1>8. ToSet(r) = ToSet(atoms)
    <2>1. ToSet(r) = {r[m] : m \in 1..n} /\ ToSet(atoms) = {atoms[k] : k \in 1..n}
      BY <1>1, <1>5, Zenon DEF ToSet
    <2>2. \A m \in 1..n : q[m] \in 1..n /\ r[m] = atoms[q[m]]
      BY <1>5, <1>6
    <2>3. ASSUME NEW k \in 1..n PROVE \E m \in 1..n : r[m] = atoms[k]
      <3>1. PICK m \in 1..n : q[m] = k
        BY <1>7
      <3>2. r[m] = atoms[k]
        BY <3>1, <2>2, Zenon
      <3> QED
        BY <3>2, Zenon
    <2>4. {r[m] : m \in 1..n} \subseteq {atoms[k] : k \in 1..n}
      <3> SUFFICES ASSUME NEW m \in 1..n PROVE r[m] \in {atoms[k] : k \in 1..n}
        BY Zenon
      <3> QED
        BY <2>2, Zenon
    <2>5. {atoms[k] : k \in 1..n} \subseteq {r[m] : m \in 1..n}
      BY <2>3, Zenon
    <2> QED
      BY <2>1, <2>4, <2>5, Zenon
  <1>9. ASSUME NEW x \in 1..n, NEW y \in 1..n, x < y PROVE Bytes(r[x]) <= Bytes(r[y])
    <2>1. PICK k \in 1..n, l \in 1..n : k = q[x] /\ l = q[y]
      BY <1>6
    <2>2. b[k] < b[l] \/ b[k] = b[l]
      BY <2>1, <1>6, <1>9
    <2>3. b[k] \in Nat /\ b[l] \in Nat /\ Bytes(r[x]) = b[k] /\ Bytes(r[y]) = b[l]
      BY <2>1, <1>3, <1>5
    <2> QED
      BY <2>2, <2>3
  <1> QED
    BY <1>4, <1>5, <1>8, <1>9

\* A sequence occurs in itself, and what occurs in it and is as long is it.
LEMMA ItselfOccurs ==
  ASSUME NEW X, NEW s \in Seq(X)
  PROVE  /\ OccursIn(s, s)
         /\ \A p : OccursIn(p, s) => p \in Seq(X) /\ Len(p) <= Len(s)
         /\ \A p, q : OccursIn(p, s) /\ OccursIn(q, p) => OccursIn(q, s)
         /\ \A p : OccursIn(p, s) /\ Len(p) = Len(s) => p = s
  <1>1. PICK n \in Nat : n = Len(s)
    OBVIOUS
  <1>2. s = SubSeq(s, 0 + 1, n)
    BY <1>1
  <1>3. OccursIn(s, s)
    <2>1. 0 \in 0..n /\ n \in 0..n /\ 0 <= n
      BY <1>1
    <2>2. SubSeq(s, 0 + 1, n) \in SubSeqs(s)
      BY <2>1, <1>1, Pieces
    <2> QED
      BY <2>2, <1>2 DEF OccursIn
  <1>4. ASSUME NEW p, OccursIn(p, s) PROVE p \in Seq(X) /\ Len(p) <= Len(s) /\ SubSeqs(p) \subseteq SubSeqs(s)
    BY <1>4, PiecesOfPiece DEF OccursIn
  <1>5. ASSUME NEW p, OccursIn(p, s), Len(p) = Len(s) PROVE p = s
    <2>1. PICK a, b \in 0..n : a <= b /\ p = SubSeq(s, a + 1, b)
      BY <1>1, <1>5, Pieces DEF OccursIn
    <2>2. Len(p) = b - a
      BY <2>1, <1>1
    <2>3. a = 0 /\ b = n
      BY <2>1, <2>2, <1>1, <1>5
    <2> QED
      BY <2>1, <2>3, <1>2
  <1> QED
    BY <1>3, <1>4, <1>5 DEF OccursIn

\* Of atoms in the order of their lengths, the removal loop leaves none that contains
\* another, and something of each.
LEMMA ShortestKept ==
  ASSUME NEW X, NEW atoms \in Seq(Seq(X)), \A k \in 1..Len(atoms) : atoms[k] # <<>>,
         \A x, y \in 1..Len(atoms) : x < y => Len(atoms[x]) <= Len(atoms[y])
  PROVE  /\ \A x, y \in DOMAIN WithoutSupers(atoms) :
              OccursIn(WithoutSupers(atoms)[x], WithoutSupers(atoms)[y]) => x = y
         /\ \A a \in ToSet(atoms) : \E b \in ToSet(WithoutSupers(atoms)) : OccursIn(b, a)
  <1>1. PICK n \in Nat : n = Len(atoms) /\ DOMAIN atoms = 1..n /\ \A k \in 1..n : atoms[k] \in Seq(X)
    OBVIOUS
  <1> DEFINE Drops(l) == \E k \in 1..l - 1 : atoms[k] # <<>> /\ OccursIn(atoms[k], atoms[l])
             s == [l \in 1..n |-> IF Drops(l) THEN <<>> ELSE <<atoms[l]>>]
  <1>2. WithoutSupers(atoms) = FlattenSeq(s)
    BY <1>1 DEF WithoutSupers
  <1>3. \A l \in 1..n : Drops(l) <=> \E k \in 1..l - 1 : OccursIn(atoms[k], atoms[l])
    <2>1. \A l \in 1..n : \A k \in 1..l - 1 : atoms[k] # <<>>
      BY <1>1
    <2> QED
      BY <2>1, Zenon
  <1> HIDE DEF Drops
  <1>4. \A l \in 1..n : (Drops(l) => s[l] = <<>>) /\ (~Drops(l) => s[l] = <<atoms[l]>>)
    OBVIOUS
  <1> HIDE DEF s
  <1>5. \A l \in 1..n : s[l] \in Seq(Seq(X)) /\ Len(s[l]) <= 1 /\ (Len(s[l]) = 1 <=> ~Drops(l))
    <2> SUFFICES ASSUME NEW l \in 1..n
                 PROVE  s[l] \in Seq(Seq(X)) /\ Len(s[l]) <= 1 /\ (Len(s[l]) = 1 <=> ~Drops(l))
      OBVIOUS
    <2>1. <<>> \in Seq(Seq(X)) /\ Len(<<>>) <= 1 /\ Len(<<>>) # 1
      OBVIOUS
    <2>2. <<atoms[l]>> \in Seq(Seq(X)) /\ Len(<<atoms[l]>>) <= 1 /\ Len(<<atoms[l]>>) = 1
      BY <1>1
    <2>3. CASE Drops(l)
      BY <2>1, <2>3, <1>4, Zenon
    <2>4. CASE ~Drops(l)
      BY <2>2, <2>4, <1>4, Zenon
    <2> QED
      BY <2>3, <2>4
  <1>6. s \in [1..n -> Seq(Seq(X))]
    <2>1. s = [l \in 1..n |-> s[l]]
      BY DEF s
    <2> QED
      BY <2>1, <1>5
  <1>7. PICK r, g : r = FlattenSeq(s) /\ r \in Seq(Seq(X)) /\ Origins(s, n, r, g)
    <2>1. FlattenSeq(s) \in Seq(Seq(X)) /\ \E g : Origins(s, n, FlattenSeq(s), g)
      BY <1>5, <1>6, OnesFlattened
    <2> QED
      BY <2>1, Zenon
  <1>8. PICK m \in Nat : m = Len(r) /\ DOMAIN r = 1..m
    BY <1>7
  <1>9. /\ \A x \in 1..m : g[x] \in 1..n /\ Len(s[g[x]]) = 1 /\ r[x] = s[g[x]][1]
        /\ \A x, y \in 1..m : x < y => g[x] < g[y]
        /\ \A k \in 1..n : Len(s[k]) = 1 => \E x \in 1..m : g[x] = k
    BY <1>7, <1>8 DEF Origins
  <1>10. \A x \in 1..m : g[x] \in 1..n /\ ~Drops(g[x]) /\ r[x] = atoms[g[x]]
    <2> SUFFICES ASSUME NEW x \in 1..m PROVE g[x] \in 1..n /\ ~Drops(g[x]) /\ r[x] = atoms[g[x]]
      OBVIOUS
    <2>1. g[x] \in 1..n /\ ~Drops(g[x])
      BY <1>5, <1>9
    <2>2. s[g[x]] = <<atoms[g[x]]>>
      BY <2>1, <1>4
    <2> QED
      BY <2>1, <2>2, <1>9
  <1>11. ASSUME NEW x \in 1..m, NEW y \in 1..m, OccursIn(r[x], r[y]) PROVE x = y
    <2>1. PICK p \in 1..n, q \in 1..n : p = g[x] /\ q = g[y]
      BY <1>10
    <2>2. OccursIn(atoms[p], atoms[q]) /\ ~Drops(p) /\ ~Drops(q)
      BY <2>1, <1>10, <1>11
    <2>3. atoms[p] \in Seq(X) /\ atoms[q] \in Seq(X)
      BY <1>1
    <2>4. ~(x < y)
      <3> SUFFICES ASSUME x < y PROVE FALSE
        OBVIOUS
      <3>1. p < q
        BY <2>1, <1>9
      <3>2. p \in 1..q - 1
        BY <3>1
      <3> QED
        BY <3>2, <2>2, <1>3
    <2>5. ~(y < x)
      <3> SUFFICES ASSUME y < x PROVE FALSE
        OBVIOUS
      <3>1. q < p
        BY <2>1, <1>9
      <3>2. q \in 1..p - 1
        BY <3>1
      <3>3. Len(atoms[q]) <= Len(atoms[p])
        BY <3>1, <1>1
      <3>4. Len(atoms[p]) <= Len(atoms[q])
        BY <2>2, <2>3, ItselfOccurs
      <3>5. Len(atoms[p]) = Len(atoms[q])
        BY <3>3, <3>4, <2>3
      <3>6. atoms[p] = atoms[q]
        BY <3>5, <2>2, <2>3, ItselfOccurs
      <3>7. OccursIn(atoms[q], atoms[p])
        BY <3>6, <2>2, Zenon
      <3> QED
        BY <3>2, <3>7, <2>2, <1>3
    <2> QED
      BY <2>4, <2>5
  <1>12. ASSUME NEW a \in ToSet(atoms) PROVE \E b \in ToSet(r) : OccursIn(b, a)
    <2>1. PICK k \in 1..n : a = atoms[k]
      BY <1>1 DEF ToSet
    <2>2. PICK M : M = {l \in 1..n : OccursIn(atoms[l], a)}
      OBVIOUS
    <2>3. M \in SUBSET Nat /\ k \in M
      <3>1. OccursIn(atoms[k], atoms[k])
        BY <1>1, ItselfOccurs
      <3> QED
        BY <3>1, <2>1, <2>2
    <2>4. PICK l : l = Min(M)
      OBVIOUS
    <2>5. l \in M /\ \A j \in M : l <= j
      BY <2>3, <2>4, NatMin
    <2>6. l \in 1..n /\ OccursIn(atoms[l], a)
      BY <2>2, <2>5
    <2>7. ~Drops(l)
      <3> SUFFICES ASSUME Drops(l) PROVE FALSE
        OBVIOUS
      <3>1. PICK j \in 1..l - 1 : OccursIn(atoms[j], atoms[l])
        BY <2>6, <1>3
      <3>2. OccursIn(atoms[j], a)
        BY <3>1, <2>1, <2>6, <1>1, ItselfOccurs
      <3>3. j \in 1..n
        BY <2>6
      <3>4. j \in M
        BY <3>2, <3>3, <2>2
      <3> QED
        BY <3>4, <2>5, <2>6
    <2>8. PICK x \in 1..m : g[x] = l
      BY <2>6, <2>7, <1>5, <1>9
    <2>9. r[x] = atoms[l] /\ r[x] \in ToSet(r)
      BY <2>8, <1>8, <1>10 DEF ToSet
    <2> QED
      BY <2>6, <2>9
  <1> QED
    BY <1>2, <1>7, <1>8, <1>11, <1>12

\* What a group of narrow characters contributes.
GroupAtoms(s) == WithoutSupers(ByLength(LongOnes(Alternatives(s))))

\* None of a group's atoms occurs in another, and each long alternative has one in it.
LEMMA GroupSays ==
  ASSUME NEW s \in Seq(Chars \ Wide), min_atoms_len \in Nat, min_atoms_len > 0
  PROVE  /\ GroupAtoms(s) \in Seq(Seq(Chars))
         /\ \A x, y \in DOMAIN GroupAtoms(s) : OccursIn(GroupAtoms(s)[x], GroupAtoms(s)[y]) => x = y
         /\ \A a \in ToSet(Alternatives(s)) :
              Long(a) => \E b \in ToSet(GroupAtoms(s)) : OccursIn(b, a)
  <1>1. PICK X : X = Chars \ Wide
    OBVIOUS
  <1>2. PICK alts \in Seq(Seq(X)) : alts = Alternatives(s)
    BY <1>1, AlternativesIn
  <1>3. PICK long \in Seq(Seq(X)) : long = LongOnes(alts)
    BY LongOnesIn
  <1>4. PICK sorted \in Seq(Seq(X)) : sorted = ByLength(long)
    BY <1>1, ByLengthIn
  <1>5. GroupAtoms(s) = WithoutSupers(sorted)
    BY <1>2, <1>3, <1>4 DEF GroupAtoms
  <1>6. Seq(X) \subseteq Seq(Chars) /\ Seq(Seq(X)) \subseteq Seq(Seq(Chars))
    BY <1>1
  <1>7. ToSet(sorted) = ToSet(long) /\ \A x, y \in 1..Len(sorted) : x < y => Bytes(sorted[x]) <= Bytes(sorted[y])
    BY <1>3, <1>4, <1>6, SortedSays
  <1>8. \A k \in 1..Len(sorted) : sorted[k] \in Seq(X) /\ sorted[k] \in ToSet(sorted)
    BY DEF ToSet
  <1>9. \A a \in Seq(X) : Bytes(a) = Len(a)
    <2> SUFFICES ASSUME NEW a \in Seq(X) PROVE Bytes(a) = Len(a)
      OBVIOUS
    <2>1. a \in Seq(Chars) /\ \A k \in 1..Len(a) : a[k] \notin Wide
      BY <1>1, <1>6
    <2> QED
      BY <2>1, BytesSay
  <1>10. \A k \in 1..Len(sorted) : sorted[k] # <<>>
    <2> SUFFICES ASSUME NEW k \in 1..Len(sorted), sorted[k] = <<>> PROVE FALSE
      OBVIOUS
    <2>1. Long(<<>>)
      BY <1>3, <1>7, <1>8, LongOnesSays
    <2> QED
      BY <2>1, NothingIsShort DEF Long
  <1>11. \A x, y \in 1..Len(sorted) : x < y => Len(sorted[x]) <= Len(sorted[y])
    BY <1>7, <1>8, <1>9
  <1>12. /\ \A x, y \in DOMAIN WithoutSupers(sorted) :
              OccursIn(WithoutSupers(sorted)[x], WithoutSupers(sorted)[y]) => x = y
         /\ \A a \in ToSet(sorted) : \E b \in ToSet(WithoutSupers(sorted)) : OccursIn(b, a)
    BY <1>10, <1>11, ShortestKept
  <1>13. ASSUME NEW a \in ToSet(alts), Long(a) PROVE a \in ToSet(sorted)
    BY <1>3, <1>7, <1>13, LongOnesSays
  <1>14. WithoutSupers(sorted) \in Seq(Seq(Chars))
    BY <1>6, WithoutSupersIn
  <1> QED
    BY <1>2, <1>5, <1>12, <1>13, <1>14

\* What is behind a sequence that another was put behind.
LEMMA PutBehind ==
  ASSUME NEW X, NEW p \in Seq(X), NEW q \in Seq(X)
  PROVE  SubSeq(p \o q, Len(p) + 1, Len(p \o q)) = q
  <1>1. PICK m \in Nat, n \in Nat : m = Len(p) /\ n = Len(q)
    OBVIOUS
  <1>2. PICK r \in Seq(X) : r = p \o q /\ Len(r) = m + n /\ \A l \in 1..n : r[m + l] = q[l]
    <2>1. /\ p \o q \in Seq(X) /\ Len(p \o q) = m + n
          /\ \A l \in 1..n : (p \o q)[m + l] = q[l]
      BY <1>1
    <2> QED
      BY <2>1, Zenon
  <1>3. PICK t \in Seq(X) : t = SubSeq(r, m + 1, m + n) /\ Len(t) = n /\ \A l \in 1..n : t[l] = r[m + l]
    <2>1. /\ SubSeq(r, m + 1, m + n) \in Seq(X) /\ Len(SubSeq(r, m + 1, m + n)) = (m + n) - m
          /\ \A l \in 1..(m + n) - m : SubSeq(r, m + 1, m + n)[l] = r[m + l]
      BY <1>2, Piece
    <2>2. (m + n) - m = n
      OBVIOUS
    <2> QED
      BY <2>1, <2>2, Zenon
  <1>4. t = q
    <2>1. Len(t) = Len(q) /\ \A l \in 1..Len(t) : t[l] = q[l]
      BY <1>1, <1>2, <1>3
    <2> QED
      BY <2>1, SameSequence
  <1> QED
    BY <1>1, <1>2, <1>3, <1>4

\* An alternative of the group at i, as GroupKeepsShortest finds it in the pattern.
IsAlternative(e, x, y) ==
  /\ x \in i + 1..e - 1 /\ y \in i + 1..e - 1
  /\ str[x - 1] \in {"(", "|"} /\ str[y + 1] \in {"|", ")"}
  /\ "|" \notin ToSet(SubSeq(str, x, y))

\* It is one of those that the group is split into.
LEMMA AlternativeOfGroup ==
  ASSUME NEW p \in Seq(Chars), p = str, NEW b \in 1..Len(p), b = i, NEW e \in 1..Len(p), IsGroup(p, b, e),
         NEW s, s = SubSeq(p, (b - 1) + 1, e), NEW x, NEW y, IsAlternative(e, x, y), x <= y
  PROVE  SubSeq(p, x, y) \in ToSet(Alternatives(s))
  <1>1. b < e /\ p[b] = "(" /\ p[e] = ")" /\ \A l \in b + 1..e - 1 : p[l] \notin {"(", ")"}
    BY DEF IsGroup
  <1>2. /\ x \in b + 1..e - 1 /\ y \in b + 1..e - 1
        /\ p[x - 1] \in {"(", "|"} /\ p[y + 1] \in {"|", ")"} /\ "|" \notin ToSet(SubSeq(p, x, y))
    BY DEF IsAlternative
  <1>3. PICK d : d = b - 1
    OBVIOUS
  <1>4. d \in Nat /\ d <= e /\ e <= Len(p) /\ e \in Nat
    BY <1>1, <1>3
  <1>5. s \in Seq(Chars) /\ Len(s) = e - d /\ \A l \in 1..e - d : s[l] = p[d + l]
    BY <1>3, <1>4, Piece
  <1>6. PICK u, v : u = x - d /\ v = y - d
    OBVIOUS
  <1>7. /\ u \in 2..Len(s) - 1 /\ v \in u..Len(s) - 1 /\ x \in Nat /\ y \in Nat
        /\ d + u = x /\ d + v = y /\ d + (u - 1) = x - 1 /\ d + (v + 1) = y + 1
    BY <1>1, <1>2, <1>3, <1>4, <1>5, <1>6
  <1>8. s[u - 1] = p[x - 1] /\ s[v + 1] = p[y + 1]
    <2>1. u - 1 \in 1..e - d /\ v + 1 \in 1..e - d
      BY <1>5, <1>7
    <2> QED
      BY <2>1, <1>5, <1>7
  <1>9. s[u - 1] = "|" \/ (s[u - 1] = "(" /\ u = 2)
    <2> SUFFICES ASSUME p[x - 1] = "(" PROVE u = 2
      BY <1>2, <1>8
    <2>1. ~(x - 1 \in b + 1..e - 1)
      BY <1>1
    <2>2. x - 1 = b
      BY <2>1, <1>2
    <2> QED
      BY <2>2, <1>3, <1>4, <1>6, <1>7
  <1>10. s[v + 1] \in Bars
    BY <1>2, <1>8 DEF Bars
  <1>11. ASSUME NEW l \in u..v PROVE s[l] \notin {"(", ")", "|"}
    <2>1. l \in 1..e - d /\ d + l \in x..y /\ d + l \in b + 1..e - 1
      <3>1. u \in Nat /\ v \in Nat /\ u >= 2 /\ v <= (e - d) - 1
        BY <1>4, <1>5, <1>7
      <3>2. l \in Nat /\ u <= l /\ l <= v
        BY <3>1
      <3>3. l \in 1..e - d
        BY <3>1, <3>2, <1>4
      <3>4. d + l \in x..y
        BY <3>1, <3>2, <1>4, <1>7
      <3>5. x >= b + 1 /\ y <= e - 1
        BY <1>2
      <3> QED
        BY <3>3, <3>4, <3>5, <1>4, <1>7
    <2>2. s[l] = p[d + l] /\ p[d + l] \notin {"(", ")"}
      BY <2>1, <1>1, <1>5
    <2>3. p[d + l] \in ToSet(SubSeq(p, x, y))
      <3>1. /\ DOMAIN SubSeq(p, x, y) = 1..(y - x) + 1
            /\ \A k \in 1..(y - x) + 1 : SubSeq(p, x, y)[k] = p[(x - 1) + k]
        BY <1>2, <1>4
      <3>2. PICK k \in 1..(y - x) + 1 : (x - 1) + k = d + l
        <4>1. PICK k : k = ((d + l) - x) + 1
          OBVIOUS
        <4>2. k \in 1..(y - x) + 1 /\ (x - 1) + k = d + l
          BY <2>1, <4>1, <1>4, <1>7
        <4> QED
          BY <4>2, Zenon
      <3>3. SubSeq(p, x, y)[k] = p[d + l]
        BY <3>1, <3>2
      <3> QED
        BY <3>1, <3>3 DEF ToSet
    <2> QED
      BY <2>2, <2>3, <1>2
  <1>12. SubSeq(s, u, v) \in ToSet(Alternatives(s))
    BY <1>5, <1>7, <1>9, <1>10, <1>11, AlternativeFound
  <1>13. SubSeq(s, u, v) = SubSeq(p, x, y)
    <2>1. PICK c : c = u - 1
      OBVIOUS
    <2>2. c \in Nat /\ v \in Nat /\ c <= v /\ v <= e - d /\ c + 1 = u /\ (d + c) + 1 = x
      BY <2>1, <1>4, <1>5, <1>7
    <2>3. SubSeq(SubSeq(p, d + 1, e), c + 1, v) = SubSeq(p, (d + c) + 1, d + v)
      BY <2>2, <1>4, PieceOfPiece
    <2> QED
      BY <2>2, <2>3, <1>3, <1>7
  <1> QED
    BY <1>12, <1>13

\* What reading a group pushes.
LEMMA GroupPushes ==
  ASSUME Typed, ReadsParts, Supported, ReadGroup
  PROVE  /\ str \in Seq(Chars) /\ \A k \in 1..Len(str) : str[k] \notin Wide
         /\ i \in 1..Len(str)
         /\ \E e \in 1..Len(str) :
              /\ Closing(")") = {e} /\ IsGroup(str, i, e)
              /\ Push(GroupAtoms(SubSeq(str, (i - 1) + 1, e))) \/ Push(<<>>)
  <1>1. i \in 1..Len(str) /\ i \in Nat /\ str[i] = "(" /\ str \in Seq(Chars)
    BY TypedParts DEF ReadGroup, At
  <1>2. PICK S : PartsAt(str, S, source.quoted) /\ i \in S
    BY DEF ReadsParts
  <1>3. ~source.quoted /\ \E e \in i..Len(str) : i < e /\ Closing(")") = {e} /\ e + 1 \in S /\ IsGroup(str, i, e)
    BY <1>1, <1>2, GroupFollows
  <1>4. PICK e \in i..Len(str) : Closing(")") = {e} /\ IsGroup(str, i, e)
    BY <1>3
  <1>5. \A k \in 1..Len(str) : str[k] \notin Wide
    BY <1>3, SupportedParts DEF ReadsParts
  <1>6. Slice(str, i - 1, e) = SubSeq(str, (i - 1) + 1, e)
    <2>1. i - 1 \in 0..Len(str) /\ e \in 0..Len(str)
      BY <1>1
    <2> QED
      BY <2>1, <1>1, <1>5, SliceSays
  <1>7. GroupEnds(e, GroupAtoms(SubSeq(str, (i - 1) + 1, e)))
    BY <1>4, <1>6, Zenon DEF ReadGroup, GroupAtoms
  <1>8. Push(GroupAtoms(SubSeq(str, (i - 1) + 1, e))) \/ Push(<<>>)
    BY <1>7, Zenon DEF GroupEnds
  <1>9. e \in 1..Len(str)
    BY <1>1
  <1> QED
    BY <1>1, <1>4, <1>5, <1>8, <1>9

\* A group's atoms are as GroupKeepsShortest says.
LEMMA GroupKeeps ==
  ASSUME Typed, ReadsParts, ReadGroup
  PROVE  KeepsShortest
  <1> SUFFICES ASSUME Supported, Batch # <<>>, min_atoms_len > 0
               PROVE  /\ \A x, y \in DOMAIN Batch : OccursIn(Batch[x], Batch[y]) => x = y
                      /\ \A n \in Closing(")") : \A x, y \in i + 1..n - 1 :
                           /\ str[x - 1] \in {"(", "|"} /\ str[y + 1] \in {"|", ")"}
                           /\ "|" \notin ToSet(SubSeq(str, x, y))
                           /\ Long(SubSeq(str, x, y))
                           => \E a \in ToSet(Batch) : OccursIn(a, SubSeq(str, x, y))
    BY DEF KeepsShortest
  <1>1. PICK e \in 1..Len(str) :
              /\ Closing(")") = {e} /\ IsGroup(str, i, e)
              /\ Push(GroupAtoms(SubSeq(str, (i - 1) + 1, e))) \/ Push(<<>>)
    BY GroupPushes
  <1>2. str \in Seq(Chars) /\ (\A k \in 1..Len(str) : str[k] \notin Wide) /\ i \in 1..Len(str) /\ i < e
    BY <1>1, GroupPushes DEF IsGroup
  <1>3. min_atoms_len \in Nat
    BY InputsAssumption DEF Typed, TypeOK
  <1>4. PICK s : s = SubSeq(str, (i - 1) + 1, e)
    OBVIOUS
  <1>5. s \in Seq(Chars \ Wide)
    <2>1. str \in Seq(Chars \ Wide) /\ i - 1 \in Nat /\ e \in Nat /\ e <= Len(str)
      BY <1>2
    <2> QED
      BY <2>1, <1>4, CutSays
  <1>6. PICK r : r = GroupAtoms(s)
    OBVIOUS
  <1>7. /\ r \in Seq(Seq(Chars))
        /\ \A x, y \in DOMAIN r : OccursIn(r[x], r[y]) => x = y
        /\ \A a \in ToSet(Alternatives(s)) : Long(a) => \E b \in ToSet(r) : OccursIn(b, a)
    BY <1>3, <1>5, <1>6, GroupSays
  <1>8. my_atoms \in Seq(Seq(AtomChars \cup Chars)) /\ r \in Seq(Seq(AtomChars \cup Chars))
    BY <1>7, TypedParts
  <1>9. Batch = r
    <2>1. ASSUME NEW q \in Seq(Seq(AtomChars \cup Chars)), Push(q) PROVE Batch = q
      BY <2>1, <1>8, PutBehind DEF Batch, Push
    <2>2. <<>> \in Seq(Seq(AtomChars \cup Chars))
      OBVIOUS
    <2> QED
      BY <2>1, <2>2, <1>1, <1>4, <1>6, <1>8
  <1>10. ASSUME NEW n \in Closing(")"), NEW x \in i + 1..n - 1, NEW y \in i + 1..n - 1,
                str[x - 1] \in {"(", "|"}, str[y + 1] \in {"|", ")"},
                "|" \notin ToSet(SubSeq(str, x, y)), Long(SubSeq(str, x, y))
         PROVE  \E a \in ToSet(r) : OccursIn(a, SubSeq(str, x, y))
    <2>1. n = e
      BY <1>1
    <2>2. IsAlternative(e, x, y)
      BY <2>1, <1>10 DEF IsAlternative
    <2>3. x <= y
      <3> SUFFICES ASSUME y < x PROVE FALSE
        BY <1>2, <2>1
      <3>1. SubSeq(str, x, y) = <<>>
        BY <1>2, <2>1, NoPiece
      <3> QED
        BY <3>1, <1>3, <1>10, NothingIsShort DEF Long
    <2>4. SubSeq(str, x, y) \in ToSet(Alternatives(s))
      BY <2>2, <2>3, <1>1, <1>2, <1>4, AlternativeOfGroup
    <2> QED
      BY <2>4, <1>7, <1>10
  <1> QED
    BY <1>7, <1>9, <1>10

\* No other step stands at an opening bracket.
LEMMA OnlyGroupAtBracket ==
  ASSUME ReadsParts, Supported, Next, i \in DOMAIN str, str[i] = "(", str \in Seq(Chars)
  PROVE  ReadGroup
  <1>1. ~GroupPanics /\ ~ClassPanics /\ ~BracesPanic
    BY NoPanic
  <1>2. i <= Len(str) /\ ~Return
    BY DEF Return
  <1> QED
    BY <1>1, <1>2, Zenon DEF Next, ReadDot, ReadRepeat, SkipClass, ReadClass, SkipBraces, ReadEscape, ReadLiteral, At

\* Whatever step it is.
LEMMA StepKeepsShortest ==
  ASSUME Typed, ReadsParts, [Next]_vars
  PROVE  [KeepsShortest]_vars
  <1>1. CASE UNCHANGED vars
    BY <1>1
  <1>2. CASE Next
    <2> SUFFICES ASSUME i \in DOMAIN str, str[i] = "(", Supported PROVE KeepsShortest
      BY DEF KeepsShortest
    <2>1. ReadGroup
      BY <1>2, TypedParts, OnlyGroupAtBracket
    <2> QED
      BY <2>1, GroupKeeps
  <1> QED
    BY <1>1, <1>2

\* Of the alternatives of a group only the shortest are kept, and each long one has an
\* atom in it (group_multiple_selection and its removal loop).
THEOREM GroupsKeepShortest == Spec => GroupKeepsShortest
  <1>1. Init => Typed /\ ReadsParts
    BY TypedInit, ReadsPartsInit
  <1>2. Typed /\ ReadsParts /\ [Next]_vars => (Typed /\ ReadsParts)'
    BY TypedStep, ReadsPartsStep
  <1>3. Typed /\ ReadsParts /\ [Next]_vars => [KeepsShortest]_vars
    BY StepKeepsShortest
  <1> QED
    BY <1>1, <1>2, <1>3, PTL DEF Spec, GroupKeepsShortest
------------------------------------------------------------------------------
(***************************************************************************)
(* The loop.                                                               *)
(***************************************************************************)
\* What closes stands at i or behind it.
LEMMA ClosesBehind ==
  ASSUME i \in Nat, Len(str) \in Nat, NEW c, NEW e \in Closing(c)
  PROVE  e \in Nat /\ e >= i
  BY DEF Closing

\* A turn that neither returns nor panics moves on.
MovesOn == pc' = "scan" => i' > i

\* Each branch of the loop moves i itself.
LEMMA TurnMovesOn ==
  ASSUME Typed, Next
  PROVE  MovesOn
  <1> SUFFICES ASSUME pc' = "scan" PROVE i' > i
    BY DEF MovesOn
  <1>1. i \in Nat /\ Len(str) \in Nat
    BY TypedParts
  <1>2. ~GroupPanics /\ ~ClassPanics /\ ~BracesPanic /\ ~Return
    BY DEF GroupPanics, ClassPanics, BracesPanic, Return, Panic
  <1>3. CASE ReadGroup
    <2>1. PICK e \in Closing(")") : \E atoms : GroupEnds(e, atoms)
      BY <1>3, Zenon DEF ReadGroup
    <2>2. i' = e + 2 \/ i' = e + 1
      BY <2>1, Zenon DEF GroupEnds
    <2>3. e \in Nat /\ e >= i
      BY <1>1, ClosesBehind
    <2> QED
      BY <2>2, <2>3, <1>1
  <1>4. CASE ReadClass
    <2>1. PICK e \in Closing("]") : \E con : ClassEnds(e, con)
      BY <1>4, Zenon DEF ReadClass
    <2>2. i' = e + 1
      BY <2>1, Zenon DEF ClassEnds
    <2>3. e \in Nat /\ e >= i
      BY <1>1, ClosesBehind
    <2> QED
      BY <2>2, <2>3, <1>1
  <1>5. CASE SkipClass
    <2>1. PICK e \in Closing("]") : i' = e + 2
      BY <1>5, Zenon DEF SkipClass
    <2>2. e \in Nat /\ e >= i
      BY <1>1, ClosesBehind
    <2> QED
      BY <2>1, <2>2, <1>1
  <1>6. CASE SkipBraces
    <2>1. PICK c : \E e \in Closing(c) : i' = e + 1
      BY <1>6, Zenon DEF SkipBraces
    <2>0. PICK e \in Closing(c) : i' = e + 1
      BY <2>1
    <2>2. e \in Nat /\ e >= i
      BY <1>1, ClosesBehind
    <2> QED
      BY <2>0, <2>2, <1>1
  <1>7. CASE ReadDot \/ ReadRepeat \/ ReadEscape \/ ReadLiteral
    <2>1. i' = i + 1 \/ i' = i + 2
      BY <1>7, Zenon DEF ReadDot, ReadRepeat, ReadEscape, ReadLiteral
    <2> QED
      BY <2>1, <1>1
  <1> QED
    BY <1>2, <1>3, <1>4, <1>5, <1>6, <1>7, Zenon DEF Next

\* Every turn of my_compile's loop moves on in the pattern, ends it, or panics: with
\* TypeCorrect, which bounds i, the variant that CompileReturns rests on.
THEOREM TurnsMoveOn == Spec => [][MovesOn]_vars
  <1>1. Init => Typed
    BY TypedInit
  <1>2. Typed /\ [Next]_vars => Typed'
    BY TypedStep
  <1>3. Typed /\ [Next]_vars => [MovesOn]_vars
    <2>1. ASSUME Typed, Next PROVE MovesOn
      BY <2>1, TurnMovesOn
    <2> QED
      BY <2>1, Zenon
  <1> QED
    BY <1>1, <1>2, <1>3, PTL DEF Spec
=============================================================================
