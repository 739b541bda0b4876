------------------------- MODULE RE2Rewrite_proofs -------------------------
(***************************************************************************)
(* What Replace, GlobalReplace and Extract promise, for every set of       *)
(* patterns, options, texts and rewrite strings, and every crate that      *)
(* finds and expands as CrateAssumption says.                              *)
(***************************************************************************)
EXTENDS RE2Rewrite, SequenceLemmas

(***************************************************************************)
(* Strings and RE2 objects.                                                *)
(***************************************************************************)

\* The part of a string in front of its first NUL is a piece of it, and all of it when
\* there is none.
LEMMA CStringSays ==
  ASSUME NEW X, NEW s \in Seq(X)
  PROVE  /\ \E n \in 0..Len(s) : CString(s) = SubSeq(s, 1, n)
         /\ NUL \notin ToSet(s) => CString(s) = s
  <1> DEFINE I == {i \in DOMAIN s : s[i] = NUL}
  <1>1. I \in SUBSET Nat /\ DOMAIN s = 1..Len(s) /\ Len(s) \in Nat
    OBVIOUS
  <1>2. CASE I = {}
    <2>1. CString(s) = SubSeq(s, 1, (Len(s) + 1) - 1)
      BY <1>2 DEF CString, E!CString, E!IndexOf, E!NUL, NUL
    <2>2. (Len(s) + 1) - 1 = Len(s) /\ SubSeq(s, 1, Len(s)) = s /\ Len(s) \in 0..Len(s)
      OBVIOUS
    <2> QED
      BY <2>1, <2>2
  <1>3. CASE I # {}
    <2>1. PICK k : k = Min(I)
      OBVIOUS
    <2>2. k \in I
      <3> HIDE DEF I
      <3> QED
        BY <1>1, <1>3, <2>1, NatMin
    <2>3. CString(s) = SubSeq(s, 1, k - 1)
      BY <1>3, <2>1 DEF CString, E!CString, E!IndexOf, E!NUL, NUL, E!Min, Min
    <2>4. k - 1 \in 0..Len(s)
      BY <1>1, <2>2
    <2>5. NUL \in ToSet(s)
      BY <2>2 DEF ToSet
    <2> QED
      BY <2>3, <2>4, <2>5
  <1> QED
    BY <1>2, <1>3

IsRE2(r) == \E p \in Patterns, o \in Options : r = E!NewRE2(p, o)
DefaultRE2(r) == ~r.options.latin1 /\ ~r.options.dot_nl /\ ~r.options.never_nl

\* What RE2::Init leaves: an object without a program has a negative number of groups; with
\* the default options its program is the one that Replace compiles again.
RE2Fields(r) ==
  /\ r.pattern \in Patterns /\ r.options \in Options
  /\ ~r.ok => r.ncap = -1
  /\ r.ok /\ DefaultRE2(r) =>
       /\ r.prog = Default(r.pattern) /\ r.prog # NULL
       /\ r.ncap \in 0..NumGroups(r.prog)
       /\ r.pattern = EmptyPattern => r.ncap = 0

LEMMA RE2Says ==
  ASSUME NEW r, IsRE2(r)
  PROVE  RE2Fields(r)
  <1>1. PICK p \in Patterns, o \in Options : r = E!NewRE2(p, o)
    BY DEF IsRE2
  <1> DEFINE prog == E!Compile(CPattern(E!RureStr(p, o)), E!CompileFlags(o))
  <1>2. EmptyPattern \in Patterns
    BY ValuesAssumption
  <1>3. CASE prog = NULL
    <2>1. r = E!FailedRE2(p, o)
      BY <1>1, <1>3 DEF E!NewRE2
    <2>2. /\ r.ok = FALSE /\ r.ncap = -1 /\ r.options = o
          /\ r.pattern = IF EmptyClassError(p) THEN EmptyPattern ELSE p
      BY <2>1 DEF E!FailedRE2
    <2> QED
      BY <1>2, <2>2 DEF RE2Fields
  <1>4. CASE prog # NULL
    <2>1. r = E!BuiltRE2(p, o)
      BY <1>1, <1>4 DEF E!NewRE2
    <2>2. /\ r.ok = TRUE /\ r.pattern = p /\ r.options = o /\ r.prog = prog
          /\ r.ncap = IF o.never_capture THEN 0 ELSE NumGroups(prog)
      BY <2>1 DEF E!BuiltRE2
    <2>3. ~o.latin1 /\ ~o.dot_nl => prog = Default(p)
      BY DEF E!RureStr, E!CompileFlags, E!New, Default
    <2> HIDE DEF prog
    <2>4. SUFFICES ASSUME DefaultRE2(r)
                   PROVE  /\ r.prog = Default(r.pattern) /\ r.prog # NULL
                          /\ r.ncap \in 0..NumGroups(r.prog)
                          /\ r.pattern = EmptyPattern => r.ncap = 0
      BY <2>2 DEF RE2Fields
    <2>5. prog = Default(p)
      BY <2>2, <2>3, <2>4 DEF DefaultRE2
    <2>6. Default(p) # NULL => NumGroups(Default(p)) \in Nat
      BY CrateAssumption
    <2>7. NumGroups(Default(EmptyPattern)) = 0
      BY CrateAssumption
    <2> QED
      BY <1>4, <2>2, <2>5, <2>6, <2>7
  <1> QED
    BY <1>3, <1>4
------------------------------------------------------------------------------
(***************************************************************************)
(* The escapes of a rewrite string.                                        *)
(***************************************************************************)
EscapeFlags(rw, n, f) ==
  f = [i \in 0..n |-> i > 0 /\ rw[i] = Backslash /\ ~f[i - 1]]

\* The flags of the escapes in the first n positions exist.
LEMMA EscapeFlagsExist ==
  ASSUME NEW rw, NEW n \in Nat
  PROVE  \E f \in [0..n -> BOOLEAN] : EscapeFlags(rw, n, f)
  <1> DEFINE S == {k \in Nat : \E f \in [0..k -> BOOLEAN] : EscapeFlags(rw, k, f)}
  <1>1. 0 \in S
    <2> DEFINE f == [i \in 0..0 |-> FALSE]
    <2>0. \A i \in 0..0 : ~(i > 0)
      OBVIOUS
    <2>1. EscapeFlags(rw, 0, f)
      <3>1. ASSUME NEW i \in 0..0 PROVE FALSE = (i > 0 /\ rw[i] = Backslash /\ ~f[i - 1])
        BY <2>0, Zenon
      <3>2. f = [i \in 0..0 |-> i > 0 /\ rw[i] = Backslash /\ ~f[i - 1]]
        BY <3>1, Zenon
      <3> QED
        BY <3>2, Zenon DEF EscapeFlags
    <2>2. [i \in 0..0 |-> FALSE] \in [0..0 -> BOOLEAN]
      OBVIOUS
    <2> QED
      BY <2>1, <2>2
  <1>2. ASSUME NEW k \in Nat, k \in S
        PROVE  k + 1 \in S
    <2>1. PICK f \in [0..k -> BOOLEAN] : EscapeFlags(rw, k, f)
      BY <1>2
    <2> DEFINE last == rw[k + 1] = Backslash /\ ~f[k]
               g == [i \in 0..k + 1 |-> IF i = k + 1 THEN last ELSE f[i]]
    <2>2. last \in BOOLEAN
      OBVIOUS
    <2>3. g \in [0..k + 1 -> BOOLEAN]
      <3>1. ASSUME NEW i \in 0..k + 1, i # k + 1 PROVE f[i] \in BOOLEAN
        <4>1. i \in 0..k
          BY <3>1
        <4> QED
          BY <2>1, <4>1
      <3> HIDE DEF last
      <3> QED
        BY <2>2, <3>1, Zenon
    <2>4. ASSUME NEW i \in 0..k + 1
          PROVE  g[i] = (i > 0 /\ rw[i] = Backslash /\ ~g[i - 1])
      <3>1. CASE i = k + 1
        <4>1. g[i] = last /\ i > 0 /\ i - 1 = k /\ g[k] = f[k]
          BY <3>1
        <4> QED
          BY <3>1, <4>1, Zenon
      <3>2. CASE i # k + 1
        <4>1. i \in 0..k /\ g[i] = f[i] /\ (i > 0 => g[i - 1] = f[i - 1])
          BY <3>2
        <4>2. f[i] = (i > 0 /\ rw[i] = Backslash /\ ~f[i - 1])
          BY <2>1, <4>1 DEF EscapeFlags
        <4> QED
          BY <4>1, <4>2
      <3> QED
        BY <3>1, <3>2
    <2> HIDE DEF last
    <2>5. EscapeFlags(rw, k + 1, g)
      BY <2>4, Zenon DEF EscapeFlags
    <2> HIDE DEF g
    <2> QED
      BY <2>3, <2>5
  <1> HIDE DEF S
  <1>3. n \in S
    BY <1>1, <1>2, SetInduction
  <1> QED
    BY <1>3 DEF S

\* A backslash is an escape unless the character in front of it is one.
LEMMA EscapesSay ==
  ASSUME NEW X, NEW rw \in Seq(X)
  PROVE  /\ Escapes(rw) \subseteq 1..Len(rw)
         /\ \A i \in 1..Len(rw) : i \in Escapes(rw) <=> rw[i] = Backslash /\ i - 1 \notin Escapes(rw)
  <1> DEFINE n == Len(rw)
             f == CHOOSE h : EscapeFlags(rw, n, h)
  <1>1. n \in Nat
    OBVIOUS
  <1>2. Escapes(rw) = {i \in 1..n : f[i]}
    BY DEF Escapes, EscapeFlags
  <1>3. EscapeFlags(rw, n, f)
    BY <1>1, EscapeFlagsExist
  <1> HIDE DEF f
  <1>4. \A i \in 0..n : f[i] = (i > 0 /\ rw[i] = Backslash /\ ~f[i - 1])
    <2>1. f = [i \in 0..n |-> i > 0 /\ rw[i] = Backslash /\ ~f[i - 1]]
      BY <1>3, Zenon DEF EscapeFlags
    <2> QED
      BY <2>1, Zenon
  <1>5. ASSUME NEW i \in 1..n
        PROVE  i \in Escapes(rw) <=> rw[i] = Backslash /\ i - 1 \notin Escapes(rw)
    <2>1. i \in 0..n /\ i > 0 /\ i - 1 \in 0..n
      BY <1>1
    <2>2. i \in Escapes(rw) <=> rw[i] = Backslash /\ ~f[i - 1]
      BY <1>2, <1>4, <2>1, Zenon
    <2>3. f[i - 1] <=> i - 1 \in Escapes(rw)
      <3>1. CASE i - 1 \in 1..n
        BY <1>2, <3>1, Zenon
      <3>2. CASE i - 1 \notin 1..n
        <4>1. ~(i - 1 > 0)
          BY <1>1, <3>2
        <4>2. f[i - 1] = FALSE
          BY <1>4, <2>1, <4>1, Zenon
        <4> QED
          BY <1>2, <3>2, <4>2, Zenon
      <3> QED
        BY <3>1, <3>2
    <2> QED
      BY <2>2, <2>3, Zenon
  <1> QED
    BY <1>2, <1>5

\* What Substitute flattens.
Parts(rw, subst) ==
  [i \in DOMAIN rw |-> IF i \in Escapes(rw) THEN subst[i]
                       ELSE IF i \in Escaped(rw) THEN <<>> ELSE <<rw[i]>>]

\* Substitute puts together bytes of the rewrite string and of the substitutes.
LEMMA SubstituteSays ==
  ASSUME NEW X, NEW rw \in Seq(X), NEW subst, \A i \in Escapes(rw) : subst[i] \in Seq(X)
  PROVE  /\ Parts(rw, subst) \in [1..Len(rw) -> Seq(X)]
         /\ Substitute(rw, subst) = FlattenSeq(Parts(rw, subst))
         /\ Substitute(rw, subst) \in Seq(X)
         /\ \A a \in ToSet(Substitute(rw, subst)) :
              a \in ToSet(rw) \/ \E i \in Escapes(rw) : a \in ToSet(subst[i])
  <1> DEFINE n == Len(rw)
             s == Parts(rw, subst)
  <1>1. n \in Nat /\ DOMAIN rw = 1..n /\ Escapes(rw) \subseteq 1..n
    BY EscapesSay
  <1>2. ASSUME NEW i \in 1..n
        PROVE  s[i] \in Seq(X) /\ (i \notin Escapes(rw) => ToSet(s[i]) \subseteq ToSet(rw))
    <2>1. rw[i] \in X /\ rw[i] \in ToSet(rw)
      BY DEF ToSet
    <2>2. s[i] = IF i \in Escapes(rw) THEN subst[i]
                 ELSE IF i \in Escaped(rw) THEN <<>> ELSE <<rw[i]>>
      BY <1>1 DEF Parts
    <2>3. \A x \in X : <<x>> \in Seq(X) /\ ToSet(<<x>>) = {x}
      BY DEF ToSet
    <2>4. <<>> \in Seq(X) /\ ToSet(<<>>) = {}
      BY DEF ToSet
    <2>5. CASE i \in Escapes(rw)
      BY <2>2, <2>5
    <2>6. CASE i \notin Escapes(rw) /\ i \in Escaped(rw)
      BY <2>2, <2>4, <2>6
    <2>7. CASE i \notin Escapes(rw) /\ i \notin Escaped(rw)
      BY <2>1, <2>2, <2>3, <2>7
    <2> QED
      BY <2>5, <2>6, <2>7
  <1>3. s \in [1..n -> Seq(X)]
    <2>1. s = [i \in 1..n |-> s[i]]
      BY <1>1 DEF Parts
    <2> HIDE DEF s
    <2> QED
      BY <1>2, <2>1
  <1>4. Substitute(rw, subst) = FlattenSeq(s)
    BY DEF Substitute, Parts
  <1> HIDE DEF n, s
  <1>5. Collects(X, s, n, FlattenSeq(s))
    BY <1>1, <1>3, Flattened
  <1>6. FlattenSeq(s) \in Seq(X)
    BY <1>5 DEF Collects
  <1>7. ASSUME NEW a \in ToSet(FlattenSeq(s))
        PROVE  a \in ToSet(rw) \/ \E i \in Escapes(rw) : a \in ToSet(subst[i])
    <2>1. PICK i \in 1..n : a \in ToSet(s[i])
      BY <1>5 DEF Collects
    <2>2. CASE i \in Escapes(rw)
      <3>1. s[i] = subst[i]
        BY <1>1, <2>1, <2>2 DEF s, Parts
      <3> QED
        BY <2>1, <2>2, <3>1
    <2>3. CASE i \notin Escapes(rw)
      BY <1>2, <2>1, <2>3
    <2> QED
      BY <2>2, <2>3
  <1> QED
    BY <1>3, <1>4, <1>6, <1>7 DEF s, n

\* Substitute asks only for the substitutes of the escapes.
LEMMA SameSubstitutes ==
  ASSUME NEW rw, NEW f, NEW g, \A i \in Escapes(rw) : f[i] = g[i]
  PROVE  Substitute(rw, f) = Substitute(rw, g)
  <1>1. Parts(rw, f) = Parts(rw, g)
    BY Zenon DEF Parts
  <1> QED
    BY <1>1 DEF Substitute, Parts
------------------------------------------------------------------------------
(***************************************************************************)
(* Match, on the client's string.                                          *)
(***************************************************************************)
TextOf(v) == IF v.size = 0 THEN <<>> ELSE E!BytesOf(v)

\* The view of a part of the string shows this part.
LEMMA ViewSays ==
  ASSUME str \in Texts, NEW a \in 0..Len(str), NEW b \in 0..Len(str), a <= b
  PROVE  /\ str \in Seq(0..255) /\ Len(str) \in Nat
         /\ TextOf(E!View((Base + a) % AddrSpace, b - a)) = SubSeq(str, a + 1, b)
  <1>1. /\ str \in Seq(0..255) /\ Base + Len(str) < AddrSpace
        /\ Base \in Nat \ {0} /\ AddrSpace \in Nat \ {0}
    BY ValuesAssumption
  <1>2. Len(str) \in Nat
    BY <1>1
  <1>3. (Base + a) % AddrSpace = Base + a
    <2>1. \A i, j \in Nat : i < j => i % j = i
      OBVIOUS
    <2>2. Base + a \in Nat /\ Base + a < AddrSpace
      BY <1>1, <1>2
    <2> QED
      BY <1>1, <2>1, <2>2
  <1> DEFINE v == E!View(Base + a, b - a)
  <1>4. v.data = Base + a /\ v.size = b - a
    BY DEF E!View
  <1>5. CASE a = b
    <2>1. v.size = 0
      BY <1>2, <1>4, <1>5
    <2>2. SubSeq(str, a + 1, b) = <<>>
      BY <1>1, <1>2, <1>5
    <2> QED
      BY <1>1, <1>2, <1>3, <2>1, <2>2 DEF TextOf
  <1>6. CASE a # b
    <2>0. \A i, j, k \in Nat : j # k => k - j # 0 /\ (i + j) - i + 1 = j + 1 /\ (i + j) - i + (k - j) = k
      OBVIOUS
    <2>1. v.size # 0 /\ v.data - Base + 1 = a + 1 /\ v.data - Base + v.size = b
      <3>1. Base \in Nat /\ a \in Nat /\ b \in Nat
        BY <1>1, <1>2
      <3>2. b - a # 0 /\ (Base + a) - Base + 1 = a + 1 /\ (Base + a) - Base + (b - a) = b
        BY <1>6, <2>0, <3>1
      <3> HIDE DEF v
      <3> QED
        BY <1>4, <3>2
    <2>2. v # E!NullView
      BY <2>1 DEF E!NullView, E!View
    <2>3. E!BytesOf(v) = SubSeq(str, a + 1, b)
      <3> HIDE DEF v
      <3> QED
        BY <2>1, <2>2 DEF E!BytesOf
    <2> HIDE DEF v
    <2>4. TextOf(v) = SubSeq(str, a + 1, b)
      BY <2>1, <2>3 DEF TextOf
    <2> QED
      BY <1>1, <1>2, <1>3, <2>4 DEF v
  <1> QED
    BY <1>5, <1>6

\* The client's string, as the crate sees it.
Ready == IsRE2(re) /\ str \in Texts

LEMMA HayIs ==
  ASSUME str \in Texts
  PROVE  /\ Hay \in Seq(0..255) /\ Len(Hay) \in Nat /\ Len(Hay) <= Len(str)
         /\ \A a, b \in 0..Len(Hay) : a <= b => SubSeq(Hay, a + 1, b) = SubSeq(str, a + 1, b)
         /\ NUL \notin ToSet(str) => Hay = str
  <1>1. str \in Seq(0..255)
    BY ValuesAssumption
  <1>2. PICK B : B = 0..255
    OBVIOUS
  <1>3. str \in Seq(B)
    BY <1>1, <1>2
  <1>4. PICK n \in 0..Len(str) : Hay = SubSeq(str, 1, n)
    BY <1>3, CStringSays DEF Hay
  <1>5. Hay \in Seq(B) /\ Len(Hay) = n /\ n \in Nat /\ n <= Len(str)
    BY <1>3, <1>4
  <1>6. ASSUME NEW a \in 0..n, NEW b \in 0..n, a <= b
        PROVE  SubSeq(Hay, a + 1, b) = SubSeq(str, a + 1, b)
    BY <1>3, <1>4, <1>6
  <1>7. NUL \notin ToSet(str) => Hay = str
    BY <1>3, CStringSays DEF Hay
  <1> QED
    BY <1>2, <1>5, <1>6, <1>7

\* The match that the crate finds in it with the default options.
Found == Captures(re.prog, Hay)

\* A group of a match in the haystack is part of the string.
LEMMA GroupIs ==
  ASSUME str \in Texts, NEW m, m # <<>>, E!SpansIn(m, Len(Hay)), NEW n \in Nat
  PROVE  /\ GroupText(Hay, m, n) \in Seq(0..255)
         /\ ToSet(GroupText(Hay, m, n)) \subseteq ToSet(Hay)
         /\ NUL \notin ToSet(str) => GroupText(str, m, n) = GroupText(Hay, m, n)
  <1>1. Hay \in Seq(0..255) /\ Len(Hay) \in Nat
    BY HayIs
  <1>2. NUL \notin ToSet(str) => Hay = str
    BY HayIs
  <1>3. CASE n + 1 \notin DOMAIN m \/ m[n + 1] = <<>>
    <2>1. GroupText(Hay, m, n) = <<>> /\ <<>> \in Seq(0..255) /\ ToSet(<<>>) = {}
      BY <1>3 DEF GroupText, ToSet
    <2> QED
      BY <1>2, <2>1
  <1>4. CASE n + 1 \in DOMAIN m /\ m[n + 1] # <<>>
    <2>1. PICK a, b \in 0..Len(Hay) : a <= b /\ m[n + 1] = <<a, b>>
      BY <1>4 DEF E!SpansIn
    <2>2. GroupText(Hay, m, n) = SubSeq(Hay, a + 1, b)
      BY <1>4, <2>1 DEF GroupText
    <2>3. PICK B : B = 0..255
      OBVIOUS
    <2>4. SubSeq(Hay, a + 1, b) \in Seq(B)
      <3>1. PICK h : h = Hay
        OBVIOUS
      <3>2. h \in Seq(B)
        BY <1>1, <2>3, <3>1
      <3>3. a \in 0..Len(h) /\ b \in 0..Len(h)
        BY <2>1, <3>1
      <3> QED
        BY <3>1, <3>2, <3>3
    <2>5. ToSet(SubSeq(Hay, a + 1, b)) \subseteq ToSet(Hay)
      <3>1. ASSUME NEW i \in DOMAIN SubSeq(Hay, a + 1, b)
            PROVE  SubSeq(Hay, a + 1, b)[i] \in ToSet(Hay)
        <4>1. i \in 1..b - a /\ a + i \in DOMAIN Hay /\ SubSeq(Hay, a + 1, b)[i] = Hay[a + i]
          BY <1>1, <2>1
        <4> QED
          BY <4>1 DEF ToSet
      <3> QED
        BY <3>1 DEF ToSet
    <2> QED
      BY <1>2, <2>2, <2>3, <2>4, <2>5
  <1> QED
    BY <1>3, <1>4

\* CrateAssumption, for the haystack of Replace.
LEMMA FoundBy ==
  ASSUME str \in Texts, re.pattern \in Patterns, Again # NULL
  PROVE  SearchesIn(Again, Hay) /\ \A x \in ToSet(Spans(Again, Hay)) : MatchIn(Hay, x)
  <1>1. SearchesIn(Again, Hay)
    BY CrateAssumption DEF Again, Hay
  <1> QED
    BY <1>1 DEF SearchesIn

\* With the default options, Replace compiles the program again that Match asks; and
\* what captures and captures_iter find with it.
LEMMA FoundSays ==
  ASSUME Ready, re.ok, DefaultRE2(re)
  PROVE  /\ Again = re.prog /\ Again # NULL
         /\ Spans(Again, Hay) \in Seq(ToSet(Spans(Again, Hay)))
         /\ Spans(Again, Hay) = <<>> <=> Found = <<>>
         /\ Found # <<>> => /\ Spans(Again, Hay)[1] = Found /\ Found \in ToSet(Spans(Again, Hay))
                            /\ E!SpansIn(Found, Len(Hay))
                            /\ DOMAIN Found = 1..NumGroups(re.prog) + 1
         /\ str = <<>> /\ re.pattern = EmptyPattern => Found # <<>>
  <1>1. RE2Fields(re)
    BY RE2Says DEF Ready
  <1>2. re.pattern \in Patterns /\ re.prog = Default(re.pattern) /\ re.prog # NULL
    BY <1>1 DEF RE2Fields
  <1>3. Again = re.prog
    BY <1>2 DEF Again
  <1> DEFINE spans == Spans(re.prog, Hay)
  <1>4. /\ Found # <<>> => DOMAIN Found = 1..NumGroups(re.prog) + 1
        /\ spans \in Seq(ToSet(spans))
        /\ spans = <<>> <=> Found = <<>>
        /\ spans # <<>> => spans[1] = Found
        /\ \A x \in ToSet(spans) : E!SpansIn(x, Len(Hay))
    <2>1. SearchesIn(re.prog, Hay) /\ \A x \in ToSet(spans) : MatchIn(Hay, x)
      BY <1>2, <1>3, FoundBy DEF Ready
    <2> QED
      BY <2>1 DEF Found, SearchesIn, MatchIn
  <1>5. Found # <<>> => Found \in ToSet(spans)
    <2>1. spans # <<>> => 1 \in DOMAIN spans
      <3> HIDE DEF spans
      <3> QED
        BY <1>4
    <2> QED
      BY <1>4, <2>1 DEF ToSet
  <1>6. str = <<>> /\ re.pattern = EmptyPattern => Found # <<>>
    <2>1. NUL \notin ToSet(<<>>)
      BY DEF ToSet
    <2>2. str = <<>> => Hay = <<>>
      BY <2>1, HayIs DEF Ready
    <2> QED
      BY <1>2, <2>2, CrateAssumption DEF Found
  <1> QED
    BY <1>2, <1>3, <1>4, <1>5, <1>6

\* Submatch i, as Match returns it, shows group i of the match.
LEMMA SubmatchSays ==
  ASSUME Ready, re.ok, DefaultRE2(re), Found # <<>>, NEW i \in Nat \ {0}
  PROVE  TextOf(E!SubmatchView(re, WholeString, Found, i)) = GroupText(Hay, Found, i - 1)
  <1>1. (i - 1) + 1 = i
    OBVIOUS
  <1>2. WholeString.data = Base
    BY DEF WholeString, E!View
  <1>3. CASE i \notin DOMAIN Found \/ Found[i] = <<>>
    <2>1. E!SubmatchView(re, WholeString, Found, i) = E!NullView
      BY <1>3 DEF E!SubmatchView
    <2>2. GroupText(Hay, Found, i - 1) = <<>>
      BY <1>1, <1>3 DEF GroupText
    <2>3. TextOf(E!NullView) = <<>>
      BY DEF TextOf, E!NullView, E!View
    <2> QED
      BY <2>1, <2>2, <2>3
  <1>4. CASE i \in DOMAIN Found /\ Found[i] # <<>>
    <2>1. E!SpansIn(Found, Len(Hay))
      BY FoundSays
    <2>2. PICK a, b \in 0..Len(Hay) : a <= b /\ Found[i] = <<a, b>>
      BY <1>4, <2>1 DEF E!SpansIn
    <2>3. Found[i][1] = a /\ Found[i][2] = b
      BY <2>2
    <2>4. E!SubmatchView(re, WholeString, Found, i) = E!View((Base + a) % AddrSpace, b - a)
      BY <1>2, <1>4, <2>3 DEF E!SubmatchView, DefaultRE2
    <2>5. GroupText(Hay, Found, i - 1) = SubSeq(Hay, a + 1, b)
      BY <1>1, <1>4, <2>3 DEF GroupText
    <2>6. str \in Texts
      BY DEF Ready
    <2>7. SubSeq(Hay, a + 1, b) = SubSeq(str, a + 1, b)
      BY <2>2, <2>6, HayIs
    <2>8. a \in 0..Len(str) /\ b \in 0..Len(str)
      <3>1. Len(Hay) \in Nat /\ Len(Hay) <= Len(str)
        BY <2>6, HayIs
      <3>2. Len(str) \in Nat
        BY <2>6, ValuesAssumption
      <3> QED
        BY <3>1, <3>2
    <2>9. TextOf(E!View((Base + a) % AddrSpace, b - a)) = SubSeq(str, a + 1, b)
      BY <2>2, <2>6, <2>8, ViewSays
    <2> QED
      BY <2>4, <2>5, <2>7, <2>9
  <1> QED
    BY <1>3, <1>4

\* With the default options, Match finds what the crate finds, and its groups.
LEMMA MatchSays ==
  ASSUME Ready, re.ok, DefaultRE2(re), NEW nvec \in Nat \ {0}
  PROVE  /\ Matched(nvec).ret = (Found # <<>>)
         /\ Matched(nvec).ret =>
              Groups(Matched(nvec).vec) = [i \in 1..nvec |-> GroupText(Hay, Found, i - 1)]
  <1> DEFINE t == WholeString
             vec == [i \in 1..nvec |-> E!NullView]
             m == Matched(nvec)
  <1>1. str \in Seq(0..255) /\ Len(str) \in Nat /\ Base \in Nat \ {0} /\ str \in Texts
    BY ValuesAssumption DEF Ready
  <1>2. t.data = Base /\ t.size = Len(str)
    BY DEF WholeString, E!View
  <1>3. E!BytesOf(t) = str
    <2>1. t # E!NullView
      BY <1>1, <1>2 DEF E!NullView, E!View
    <2>2. E!BytesOf(t) = SubSeq(str, Base - Base + 1, Base - Base + Len(str))
      BY <1>2, <2>1 DEF E!BytesOf
    <2>3. Base - Base + 1 = 1 /\ Base - Base + Len(str) = Len(str)
      BY <1>1
    <2>4. SubSeq(str, 1, Len(str)) = str
      BY <1>1
    <2> QED
      BY <2>2, <2>3, <2>4
  <1>4. m = E!Match(re, t, 0, Len(str), "UNANCHORED", vec)
    BY DEF Matched
  <1> HIDE DEF m, t
  <1>5. CASE t.size = 0 /\ re.pattern = EmptyPattern
    <2>1. m = E!Answer(TRUE, vec)
      BY <1>4, <1>5 DEF E!Match
    <2>2. m.ret = TRUE /\ m.vec = vec
      BY <2>1 DEF E!Answer
    <2>3. str = <<>> /\ Hay = <<>> /\ Len(Hay) = 0
      <3>0. Len(str) = 0
        BY <1>2, <1>5
      <3>1. str = <<>>
        BY <1>1, <3>0
      <3>2. NUL \notin ToSet(str)
        BY <3>1 DEF ToSet
      <3> QED
        BY <1>1, <3>1, <3>2, HayIs
    <2>4. Found # <<>> /\ E!SpansIn(Found, 0)
      BY <1>5, <2>3, FoundSays
    <2>5. ASSUME NEW i \in 1..nvec PROVE GroupText(Hay, Found, i - 1) = <<>>
      <3>1. (i - 1) + 1 = i
        OBVIOUS
      <3>2. CASE i \notin DOMAIN Found \/ Found[i] = <<>>
        BY <3>1, <3>2 DEF GroupText
      <3>3. CASE i \in DOMAIN Found /\ Found[i] # <<>>
        <4>1. PICK a, b \in 0..0 : Found[i] = <<a, b>>
          BY <2>4, <3>3 DEF E!SpansIn
        <4>2. Found[i][1] = 0 /\ Found[i][2] = 0
          BY <4>1
        <4>3. GroupText(Hay, Found, i - 1) = SubSeq(<<>>, 0 + 1, 0)
          BY <2>3, <3>1, <3>3, <4>2 DEF GroupText
        <4> QED
          BY <4>3
      <3> QED
        BY <3>2, <3>3
    <2>6. Groups(m.vec) = [i \in 1..nvec |-> <<>>]
      <3>1. E!NullView.size = 0
        BY DEF E!NullView, E!View
      <3> QED
        BY <2>2, <3>1 DEF Groups
    <2>7. Groups(m.vec) = [i \in 1..nvec |-> GroupText(Hay, Found, i - 1)]
      BY <2>5, <2>6, Zenon
    <2> QED
      BY <2>2, <2>4, <2>7 DEF m
  <1>6. CASE ~(t.size = 0 /\ re.pattern = EmptyPattern)
    <2>1. m = E!Search(re, t, "UNANCHORED", vec, E!Haystack(re, t))
      <3>1. ~(0 > Len(str)) /\ ~(Len(str) > t.size) /\ t.data # 0
        BY <1>1, <1>2
      <3> QED
        BY <1>4, <1>6, <3>1 DEF E!Match
    <2>2. E!Haystack(re, t) = <<Hay>>
      BY <1>3 DEF E!Haystack, E!Encoded, DefaultRE2, Hay, CString
    <2>3. m = E!Submatches(re, t, "UNANCHORED", vec, Hay, Found)
      <3>1. <<Hay>> # <<>> /\ <<Hay>>[1] = Hay
        OBVIOUS
      <3> QED
        BY <2>1, <2>2, <3>1 DEF E!Search, DefaultRE2, Found
    <2>4. m = IF Found = <<>> THEN E!Answer(FALSE, vec)
              ELSE E!Answer(TRUE, [i \in DOMAIN vec |-> E!SubmatchView(re, t, Found, i)])
      BY <2>3 DEF E!Submatches, E!AnchorAccepts
    <2>5. CASE Found = <<>>
      <3>1. m.ret = FALSE
        BY <2>4, <2>5 DEF E!Answer
      <3> QED
        BY <2>5, <3>1 DEF m
    <2>6. CASE Found # <<>>
      <3>1. m.ret = TRUE /\ m.vec = [i \in 1..nvec |-> E!SubmatchView(re, t, Found, i)]
        BY <2>4, <2>6 DEF E!Answer
      <3>2. \A i \in 1..nvec : TextOf(m.vec[i]) = GroupText(Hay, Found, i - 1)
        BY <2>6, <3>1, SubmatchSays DEF t
      <3>3. Groups(m.vec) = [i \in 1..nvec |-> TextOf(m.vec[i])]
        BY <3>1 DEF Groups, TextOf
      <3>4. Groups(m.vec) = [i \in 1..nvec |-> GroupText(Hay, Found, i - 1)]
        BY <3>2, <3>3, Zenon
      <3> QED
        BY <2>6, <3>1, <3>4 DEF m
    <2> QED
      BY <2>5, <2>6
  <1> QED
    BY <1>5, <1>6
------------------------------------------------------------------------------
(***************************************************************************)
(* The scanners of a rewrite string.                                       *)
(***************************************************************************)

\* The groups that a rewrite string asks for.
Asks(rw) == {DigitAt(rw, i) : i \in {k \in DOMAIN rw :
              /\ IsDigit(rw, k)
              /\ \E j \in 1..k - 1 : IsBackslash(rw, j) /\ \A d \in j..k - 1 : ~IsDigit(rw, d)}}

\* MaxSubmatch is a digit, and none that an escape names is greater.
LEMMA MaxSubmatchSays ==
  ASSUME NEW rw \in Seq(0..255)
  PROVE  /\ MaxSubmatch(rw) \in 0..9
         /\ MaxSubmatch(rw) = 0 \/ MaxSubmatch(rw) \in Asks(rw)
         /\ \A i \in Escapes(rw) : IsDigit(rw, i + 1) => DigitAt(rw, i + 1) <= MaxSubmatch(rw)
  <1>1. MaxSubmatch(rw) = Max({0} \cup Asks(rw))
    BY DEF MaxSubmatch, Asks
  <1>2. ASSUME NEW k, IsDigit(rw, k) PROVE DigitAt(rw, k) \in 0..9
    BY <1>2 DEF IsDigit, DigitAt, Digits
  <1>3. {0} \cup Asks(rw) \subseteq 0..9
    BY <1>2, 0 \in 0..9, Zenon DEF Asks
  <1>4. /\ Max({0} \cup Asks(rw)) \in {0} \cup Asks(rw)
        /\ \A y \in {0} \cup Asks(rw) : y <= Max({0} \cup Asks(rw))
    <2> DEFINE S == {0} \cup Asks(rw)
    <2>1. S \in SUBSET Nat /\ S # {} /\ \A y \in S : y <= 9
      BY <1>3
    <2> HIDE DEF S
    <2>2. Max(S) \in S /\ \A y \in S : y <= Max(S)
      BY <2>1, NatMax
    <2> QED
      BY <2>2, Zenon DEF S
  <1>5. ASSUME NEW i \in Escapes(rw), IsDigit(rw, i + 1)
        PROVE  DigitAt(rw, i + 1) \in Asks(rw)
    <2>1. i \in 1..Len(rw) /\ rw[i] = Backslash /\ i + 1 \in DOMAIN rw /\ DOMAIN rw = 1..Len(rw)
      BY <1>5, EscapesSay DEF IsDigit
    <2>2. IsBackslash(rw, i) /\ ~IsDigit(rw, i)
      BY <2>1 DEF IsBackslash, IsDigit, Backslash, Digits
    <2>3. i \in 1..(i + 1) - 1 /\ \A d \in i..(i + 1) - 1 : d = i
      BY <2>1
    <2> QED
      BY <1>5, <2>1, <2>2, <2>3, Zenon DEF Asks
  <1> QED
    BY <1>1, <1>3, <1>4, <1>5, Zenon

\* Each escape names one of the first n groups.
Refers(rw, n) == \A i \in Escapes(rw) : IsDigit(rw, i + 1) /\ DigitAt(rw, i + 1) < n

\* A plain rewrite string that CheckRewriteString accepts asks for groups that there are.
LEMMA CheckedSays ==
  ASSUME NEW rw \in Seq(0..255), PlainRewrite(rw), NEW ncap \in Nat, CheckRewrite(rw, ncap)
  PROVE  MaxSubmatch(rw) <= ncap /\ Refers(rw, 1 + MaxSubmatch(rw))
  <1>1. ASSUME NEW i \in Escapes(rw)
        PROVE  IsDigit(rw, i + 1) /\ DigitAt(rw, i + 1) <= ncap
    BY DEF PlainRewrite, CheckRewrite
  <1>2. ASSUME NEW j, IsBackslash(rw, j) PROVE j \in Escapes(rw)
    <2>1. j \in 1..Len(rw) /\ rw[j] = Backslash /\ (j - 1) + 1 = j
      BY <1>2 DEF IsBackslash
    <2>2. j - 1 \notin Escapes(rw)
      BY <1>2, <2>1 DEF PlainRewrite
    <2> QED
      BY <2>1, <2>2, EscapesSay
  <1>3. ASSUME NEW d \in Asks(rw) PROVE d <= ncap
    <2>1. PICK k \in DOMAIN rw : /\ IsDigit(rw, k) /\ d = DigitAt(rw, k)
                                /\ \E j \in 1..k - 1 : /\ IsBackslash(rw, j)
                                                       /\ \A e \in j..k - 1 : ~IsDigit(rw, e)
      BY DEF Asks
    <2>2. PICK j \in 1..k - 1 : IsBackslash(rw, j) /\ \A e \in j..k - 1 : ~IsDigit(rw, e)
      BY <2>1
    <2>3. j \in Escapes(rw)
      BY <1>2, <2>2
    <2>4. IsDigit(rw, j + 1) /\ DigitAt(rw, j + 1) <= ncap
      BY <1>1, <2>3
    <2>5. k \in Nat /\ j \in Nat /\ j <= k - 1
      BY <2>1, <2>2
    <2>6. j + 1 = k
      <3>1. j + 1 \notin j..k - 1
        BY <2>2, <2>4
      <3> QED
        BY <2>5, <3>1
    <2> QED
      BY <2>1, <2>4, <2>6
  <1>4. MaxSubmatch(rw) <= ncap
    BY <1>3, MaxSubmatchSays
  <1>5. ASSUME NEW i \in Escapes(rw)
        PROVE  IsDigit(rw, i + 1) /\ DigitAt(rw, i + 1) < 1 + MaxSubmatch(rw)
    <2>1. IsDigit(rw, i + 1)
      BY <1>1
    <2>2. DigitAt(rw, i + 1) <= MaxSubmatch(rw) /\ MaxSubmatch(rw) \in Int
      BY <2>1, MaxSubmatchSays
    <2>3. DigitAt(rw, i + 1) \in Int
      BY <2>1 DEF IsDigit, DigitAt, Digits
    <2> QED
      BY <2>1, <2>2, <2>3
  <1> QED
    BY <1>4, <1>5 DEF Refers

\* What rure_rewrite puts in the place of the escapes.
Given(rw, groups) ==
  [i \in Escapes(rw) |-> IF IsDigit(rw, i + 1) THEN groups[DigitAt(rw, i + 1) + 1] ELSE <<Backslash>>]
Bad(rw, groups) ==
  {i \in Escapes(rw) : /\ ~IsBackslash(rw, i + 1)
                       /\ ~(IsDigit(rw, i + 1) /\ DigitAt(rw, i + 1) < Len(groups))}

\* The cases of rure_rewrite.
LEMMA RewriteCases ==
  ASSUME NEW rw \in Seq(0..255), NEW groups \in Seq(Seq(0..255))
  PROVE  /\ Rewrite(rw, groups).kind \in {"text", "null", "panic"}
         /\ Rewrite(rw, groups).kind = "text" =>
              /\ Bad(rw, groups) = {} /\ NUL \notin ToSet(Substitute(rw, Given(rw, groups)))
              /\ Rewrite(rw, groups).text = Substitute(rw, Given(rw, groups))
              /\ Rewrite(rw, groups).text \in Seq(0..255)
         /\ Rewrite(rw, groups).kind = "null" =>
              Bad(rw, groups) # {} \/ NUL \in ToSet(Substitute(rw, Given(rw, groups)))
         /\ Rewrite(rw, groups).kind = "panic" =>
              ~Utf8(rw) \/ (\E g \in ToSet(groups) : ~Utf8(g)) \/ Bad(rw, groups) = {Len(rw)}
  <1> DEFINE bad == Bad(rw, groups)
             s == Substitute(rw, Given(rw, groups))
             r == Rewrite(rw, groups)
             broken == ~Utf8(rw) \/ \E g \in ToSet(groups) : ~Utf8(g)
  <1>1. r = CASE broken -> Panic
              [] OTHER -> IF bad = {Len(rw)} THEN Panic
                          ELSE IF bad # {} THEN Null
                          ELSE IF NUL \in ToSet(s) THEN Null ELSE Rewritten(s)
    BY DEF Rewrite, Bad, Given
  <1>2. bad = {} => s \in Seq(0..255)
    <2> SUFFICES ASSUME bad = {} PROVE s \in Seq(0..255)
      OBVIOUS
    <2>1. ASSUME NEW i \in Escapes(rw) PROVE Given(rw, groups)[i] \in Seq(0..255)
      <3>1. CASE IsDigit(rw, i + 1)
        <4>1. DigitAt(rw, i + 1) \in 0..9 /\ ~IsBackslash(rw, i + 1)
          BY <3>1 DEF IsDigit, DigitAt, Digits, IsBackslash, Backslash
        <4>2. DigitAt(rw, i + 1) < Len(groups)
          BY <3>1, <4>1 DEF Bad
        <4>3. DigitAt(rw, i + 1) + 1 \in DOMAIN groups
          BY <4>1, <4>2
        <4> QED
          BY <3>1, <4>3 DEF Given
      <3>2. CASE ~IsDigit(rw, i + 1)
        <4>1. Given(rw, groups)[i] = <<Backslash>> /\ Backslash \in 0..255
          BY <3>2 DEF Given, Backslash
        <4> QED
          BY <4>1
      <3> QED
        BY <3>1, <3>2
    <2> QED
      BY <2>1, SubstituteSays
  <1> HIDE DEF bad, s, r, broken
  <1>3. CASE broken
    <2>1. r = Panic
      BY <1>1, <1>3
    <2>2. r.kind = "panic"
      BY <2>1 DEF Panic
    <2> QED
      BY <1>3, <2>2 DEF r, broken
  <1>4. CASE ~broken /\ bad = {Len(rw)}
    <2>1. r = Panic
      BY <1>1, <1>4
    <2>2. r.kind = "panic"
      BY <2>1 DEF Panic
    <2> QED
      BY <1>4, <2>2 DEF r, bad
  <1>5. CASE ~broken /\ bad # {Len(rw)} /\ (bad # {} \/ NUL \in ToSet(s))
    <2>1. r = Null
      BY <1>1, <1>5
    <2>2. r.kind = "null"
      BY <2>1 DEF Null
    <2> QED
      BY <1>5, <2>2 DEF r, bad, s
  <1>6. CASE ~broken /\ bad = {} /\ NUL \notin ToSet(s)
    <2>1. r = Rewritten(s)
      BY <1>1, <1>6
    <2>2. r.kind = "text" /\ r.text = s
      BY <2>1 DEF Rewritten
    <2> QED
      BY <1>2, <1>6, <2>2 DEF r, bad, s
  <1> QED
    BY <1>3, <1>4, <1>5, <1>6
------------------------------------------------------------------------------
(***************************************************************************)
(* Plain rewrite strings.                                                  *)
(***************************************************************************)

\* The groups 0, ..., n - 1 of a match.
GroupTexts(h, m, n) == [i \in 1..n |-> GroupText(h, m, i - 1)]

\* The rewrite string with the text of its group for each escape.
Inserted(rw, h, m) == Substitute(rw, [i \in Escapes(rw) |-> GroupText(h, m, DigitAt(rw, i + 1))])

\* For the groups of the match, rure_rewrite succeeds on a plain rewrite string that refers
\* to them only, and inserts them.
LEMMA PlainRewritten ==
  ASSUME NEW rw \in Seq(0..255), PlainRewrite(rw), NEW n \in Nat, NEW h, NEW m
  PROVE  /\ Bad(rw, GroupTexts(h, m, n)) = {} <=> Refers(rw, n)
         /\ Refers(rw, n) => Substitute(rw, Given(rw, GroupTexts(h, m, n))) = Inserted(rw, h, m)
  <1>0. PICK groups : groups = GroupTexts(h, m, n)
    OBVIOUS
  <1>1. groups = [i \in 1..n |-> GroupText(h, m, i - 1)] /\ Len(groups) = n
    BY <1>0 DEF GroupTexts
  <1>2. Bad(rw, groups) = {} <=> Refers(rw, n)
    BY <1>1 DEF Bad, Refers, PlainRewrite
  <1>3. ASSUME Refers(rw, n), NEW i \in Escapes(rw)
        PROVE  Given(rw, groups)[i] = GroupText(h, m, DigitAt(rw, i + 1))
    <2>1. IsDigit(rw, i + 1) /\ DigitAt(rw, i + 1) < n
      BY <1>3 DEF Refers
    <2>2. PICK d : d = DigitAt(rw, i + 1)
      OBVIOUS
    <2>3. d \in Nat /\ d < n
      <3>1. rw[i + 1] - 48 \in Nat
        BY <2>1 DEF IsDigit, Digits
      <3> QED
        BY <2>1, <2>2, <3>1 DEF DigitAt
    <2>4. d + 1 \in 1..n /\ (d + 1) - 1 = d
      BY <2>3
    <2>5. groups[d + 1] = GroupText(h, m, (d + 1) - 1)
      BY <1>1, <2>4, Zenon
    <2>6. Given(rw, groups)[i] = groups[d + 1]
      BY <2>1, <2>2 DEF Given
    <2> QED
      BY <2>2, <2>4, <2>5, <2>6
  <1>4. Refers(rw, n) => Substitute(rw, Given(rw, groups)) = Inserted(rw, h, m)
    <2> DEFINE g == [i \in Escapes(rw) |-> GroupText(h, m, DigitAt(rw, i + 1))]
    <2>1. \A i \in Escapes(rw) : g[i] = GroupText(h, m, DigitAt(rw, i + 1))
      OBVIOUS
    <2>2. Inserted(rw, h, m) = Substitute(rw, g)
      BY DEF Inserted
    <2> HIDE DEF g
    <2>3. ASSUME Refers(rw, n) PROVE \A i \in Escapes(rw) : Given(rw, groups)[i] = g[i]
      BY <1>3, <2>1, <2>3
    <2> QED
      BY <2>2, <2>3, SameSubstitutes
  <1> QED
    BY <1>0, <1>2, <1>4

\* The crate expands the template of such a rewrite string to the same text.
LEMMA ConvertedExpands ==
  ASSUME str \in Texts, re.pattern \in Patterns, Again # NULL, NEW x \in ToSet(Spans(Again, Hay)),
         NEW rw \in Rewrites, PlainRewrite(rw), NEW k, Refers(rw, k)
  PROVE  Expand(Convert(rw), Hay, x) = Inserted(rw, Hay, x)
  <1> DEFINE n == Len(rw)
             conv == [i \in Escapes(rw) |-> IF IsDigit(rw, i + 1) THEN Reference(rw[i + 1]) ELSE <<>>]
             subst == [i \in Escapes(rw) |-> GroupText(Hay, x, DigitAt(rw, i + 1))]
             items == Parts(rw, conv)
  <1>1. rw \in Seq(0..255) /\ n \in Nat /\ DOMAIN rw = 1..n /\ Escapes(rw) \subseteq 1..n
    <2>1. rw \in Seq(0..255)
      BY ValuesAssumption
    <2> QED
      BY <2>1, EscapesSay
  <1>2. \A i \in 1..n : rw[i] \in ItemBytes /\ rw[i] # Dollar
    <2>1. \A i \in 1..n : rw[i] \in ToSet(rw)
      BY <1>1 DEF ToSet
    <2> QED
      BY <2>1 DEF ItemBytes, PlainRewrite
  <1>3. Convert(rw) = FlattenSeq(items)
    BY DEF Convert, Substitute, Parts
  <1>4. Inserted(rw, Hay, x) = FlattenSeq(Parts(rw, subst))
    BY DEF Inserted, Substitute, Parts
  <1>5. ASSUME NEW i \in Escapes(rw)
        PROVE  /\ conv[i] = Reference(rw[i + 1]) /\ rw[i + 1] \in ItemBytes \cap Digits
               /\ ItemText(conv[i], Hay, x) = subst[i]
    <2>1. IsDigit(rw, i + 1) /\ i + 1 \in 1..n /\ rw[i + 1] \in Digits
      BY <1>1, <1>5 DEF Refers, IsDigit
    <2>2. conv[i] = Reference(rw[i + 1]) /\ rw[i + 1] \in ItemBytes \cap Digits
      BY <1>2, <2>1
    <2>3. /\ Reference(rw[i + 1]) # <<>> /\ Reference(rw[i + 1])[1] = Dollar
          /\ Reference(rw[i + 1])[3] = rw[i + 1]
      BY DEF Reference
    <2>4. ItemText(conv[i], Hay, x) = GroupText(Hay, x, rw[i + 1] - 48)
      BY <2>2, <2>3 DEF ItemText
    <2> QED
      BY <2>2, <2>4 DEF DigitAt
  <1> HIDE DEF conv, subst
  <1>6. ASSUME NEW i \in 1..n
        PROVE  items[i] \in Items /\ ItemText(items[i], Hay, x) = Parts(rw, subst)[i]
    <2>1. /\ items[i] = IF i \in Escapes(rw) THEN conv[i]
                        ELSE IF i \in Escaped(rw) THEN <<>> ELSE <<rw[i]>>
          /\ Parts(rw, subst)[i] = IF i \in Escapes(rw) THEN subst[i]
                                   ELSE IF i \in Escaped(rw) THEN <<>> ELSE <<rw[i]>>
      BY <1>1 DEF Parts
    <2>2. CASE i \in Escapes(rw)
      BY <1>5, <2>1, <2>2, Zenon DEF Items
    <2>3. CASE i \notin Escapes(rw) /\ i \in Escaped(rw)
      <3>1. ItemText(<<>>, Hay, x) = <<>>
        BY DEF ItemText
      <3> QED
        BY <2>1, <2>3, <3>1, Zenon DEF Items
    <2>4. CASE i \notin Escapes(rw) /\ i \notin Escaped(rw)
      <3>1. <<rw[i]>>[1] = rw[i]
        OBVIOUS
      <3>2. ItemText(<<rw[i]>>, Hay, x) = <<rw[i]>>
        BY <1>2, <3>1, Zenon DEF ItemText
      <3> QED
        BY <1>2, <2>1, <2>4, <3>2, Zenon DEF Items
    <2> QED
      BY <2>2, <2>3, <2>4
  <1>7. items \in [1..n -> Items]
    <2>1. items = [i \in 1..n |-> items[i]]
      BY <1>1 DEF Parts
    <2> HIDE DEF items
    <2> QED
      BY <1>6, <2>1, Zenon
  <1>8. [i \in 1..n |-> ItemText(items[i], Hay, x)] = Parts(rw, subst)
    <2>1. Parts(rw, subst) = [i \in 1..n |-> Parts(rw, subst)[i]]
      BY <1>1 DEF Parts
    <2> HIDE DEF items
    <2> QED
      BY <1>6, <2>1, Zenon
  <1> HIDE DEF items
  <1>9. Expand(FlattenSeq(items), Hay, x) = FlattenSeq([i \in 1..n |-> ItemText(items[i], Hay, x)])
    <2>1. MatchIn(Hay, x)
      BY FoundBy
    <2>2. n \in {Len(r) : r \in Rewrites}
      OBVIOUS
    <2> HIDE DEF n
    <2> QED
      BY <1>7, <2>1, <2>2, Zenon DEF MatchIn
  <1> QED
    BY <1>3, <1>4, <1>8, <1>9, Zenon
------------------------------------------------------------------------------
(***************************************************************************)
(* Replacing.                                                              *)
(***************************************************************************)

\* The start and the end of a match lie in the haystack.
LEMMA SpanEnds ==
  ASSUME NEW x, E!SpansIn(x, Len(Hay)), x # <<>>
  PROVE  x[1][1] \in 0..Len(Hay) /\ x[1][2] \in 0..Len(Hay) /\ x[1][1] <= x[1][2]
  <1>1. PICK a, b \in 0..Len(Hay) : a <= b /\ x[1] = <<a, b>>
    BY DEF E!SpansIn
  <1> QED
    BY <1>1

\* The part of the haystack between two offsets.
LEMMA GapIs ==
  ASSUME str \in Texts, NEW a \in 0..Len(Hay), NEW b \in 0..Len(Hay)
  PROVE  SubSeq(Hay, a + 1, b) \in Seq(0..255)
  <1>1. PICK h : h = Hay
    OBVIOUS
  <1>2. PICK B : B = 0..255
    OBVIOUS
  <1>3. h \in Seq(B) /\ Len(h) \in Nat /\ a \in Nat /\ b \in Nat /\ b <= Len(h)
    <2>1. h \in Seq(B) /\ Len(h) \in Nat
      BY <1>1, <1>2, HayIs
    <2> QED
      BY <1>1, <2>1
  <1>4. CASE a <= b
    BY <1>1, <1>2, <1>3, <1>4, Piece
  <1>5. CASE ~(a <= b)
    <2>1. a + 1 \in Int /\ b \in Int /\ b < a + 1
      BY <1>3, <1>5
    <2>2. SubSeq(h, a + 1, b) = <<>>
      BY <1>3, <2>1, NoPiece
    <2>3. <<>> \in Seq(0..255)
      OBVIOUS
    <2> QED
      BY <1>1, <2>2, <2>3, Zenon
  <1> QED
    BY <1>4, <1>5

ReplacedParts(spans, template) ==
  LET n == Len(spans)
      Gap(i) == SubSeq(Hay, (IF i = 1 THEN 0 ELSE spans[i - 1][1][2]) + 1,
                            IF i > n THEN Len(Hay) ELSE spans[i][1][1])
  IN [i \in 1..n + 1 |-> Gap(i) \o IF i > n THEN <<>> ELSE Expand(template, Hay, spans[i])]

\* Replacing gives a string of bytes.
LEMMA ReplacedSays ==
  ASSUME str \in Texts, NEW S, NEW spans \in Seq(S), NEW template,
         \A x \in S : /\ x # <<>> /\ E!SpansIn(x, Len(Hay))
                      /\ Expand(template, Hay, x) \in Seq(0..255)
  PROVE  Replaced(spans, template) \in Seq(0..255)
  <1> DEFINE n == Len(spans)
             s == ReplacedParts(spans, template)
  <1>1. n \in Nat /\ Len(Hay) \in Nat /\ \A i \in 1..n : spans[i] \in S
    BY HayIs
  <1>2. PICK B : B = 0..255
    OBVIOUS
  <1>3. ASSUME NEW i \in 1..n + 1 PROVE s[i] \in Seq(B)
    <2> DEFINE lo == IF i = 1 THEN 0 ELSE spans[i - 1][1][2]
               hi == IF i > n THEN Len(Hay) ELSE spans[i][1][1]
               e == IF i > n THEN <<>> ELSE Expand(template, Hay, spans[i])
    <2>1. s[i] = SubSeq(Hay, lo + 1, hi) \o e
      BY DEF ReplacedParts
    <2>2. \A k \in 1..n : /\ spans[k][1][1] \in 0..Len(Hay) /\ spans[k][1][2] \in 0..Len(Hay)
                          /\ Expand(template, Hay, spans[k]) \in Seq(B)
      BY <1>1, <1>2, SpanEnds
    <2>3. (i # 1 => i - 1 \in 1..n) /\ (~(i > n) => i \in 1..n)
          /\ 0 \in 0..Len(Hay) /\ Len(Hay) \in 0..Len(Hay)
      BY <1>1
    <2>4. lo \in 0..Len(Hay)
      BY <2>2, <2>3, Zenon
    <2>5. hi \in 0..Len(Hay)
      BY <2>2, <2>3, Zenon
    <2>6. e \in Seq(B)
      <3>1. <<>> \in Seq(B)
        OBVIOUS
      <3> QED
        BY <2>2, <2>3, <3>1, Zenon
    <2> HIDE DEF lo, hi, e, s
    <2>7. SubSeq(Hay, lo + 1, hi) \in Seq(B)
      BY <1>2, <2>4, <2>5, GapIs
    <2> QED
      BY <2>1, <2>6, <2>7, Concatenated
  <1>4. s \in [1..n + 1 -> Seq(B)]
    <2>1. s = [i \in 1..n + 1 |-> s[i]]
      BY DEF ReplacedParts
    <2> HIDE DEF s
    <2> QED
      BY <1>3, <2>1, Zenon
  <1>5. Replaced(spans, template) = FlattenSeq(s)
    BY DEF Replaced, ReplacedParts
  <1> HIDE DEF s, n
  <1>6. Collects(B, s, n + 1, FlattenSeq(s))
    <2>1. n + 1 \in Nat
      BY <1>1
    <2> QED
      BY <1>4, <2>1, Flattened
  <1> QED
    BY <1>2, <1>5, <1>6 DEF Collects

\* What replaces one match: the text in front of it, its expansion, and the rest.
LEMMA OneReplacedSays ==
  ASSUME str \in Texts, NEW x, x # <<>>, E!SpansIn(x, Len(Hay)), NEW template,
         Expand(template, Hay, x) \in Seq(0..255)
  PROVE  Replaced(<<x>>, template)
           = SubSeq(Hay, 1, x[1][1]) \o Expand(template, Hay, x) \o SubSeq(Hay, x[1][2] + 1, Len(Hay))
  <1> DEFINE s == ReplacedParts(<<x>>, template)
             e == Expand(template, Hay, x)
  <1>1. Len(<<x>>) = 1 /\ <<x>>[1] = x
    OBVIOUS
  <1>2. /\ DOMAIN s = 1..2
        /\ s[1] = SubSeq(Hay, 0 + 1, x[1][1]) \o e
        /\ s[2] = SubSeq(Hay, x[1][2] + 1, Len(Hay)) \o <<>>
    <2>1. 1 + 1 = 2 /\ 1 \in 1..2 /\ 2 \in 1..2 /\ ~(1 > 1) /\ 2 > 1 /\ 2 # 1 /\ 2 - 1 = 1
      OBVIOUS
    <2> QED
      BY <1>1, <2>1, Zenon DEF ReplacedParts
  <1>3. PICK B : B = 0..255
    OBVIOUS
  <1>4. e \in Seq(B)
    BY <1>3
  <1> HIDE DEF e
  <1>5. x[1][1] \in 0..Len(Hay) /\ x[1][2] \in 0..Len(Hay)
    BY SpanEnds
  <1>6. 0 \in 0..Len(Hay) /\ Len(Hay) \in 0..Len(Hay) /\ 0 + 1 = 1
    BY HayIs
  <1>7. SubSeq(Hay, 1, x[1][1]) \in Seq(B) /\ SubSeq(Hay, x[1][2] + 1, Len(Hay)) \in Seq(B)
    BY <1>3, <1>5, <1>6, GapIs
  <1>8. \A q \in Seq(B) : q \o <<>> = q
    OBVIOUS
  <1>9. /\ s[1] = SubSeq(Hay, 1, x[1][1]) \o e /\ s[1] \in Seq(B)
        /\ s[2] = SubSeq(Hay, x[1][2] + 1, Len(Hay)) /\ s[2] \in Seq(B)
    <2>1. SubSeq(Hay, 1, x[1][1]) \o e \in Seq(B)
      BY <1>4, <1>7, Concatenated
    <2>2. SubSeq(Hay, x[1][2] + 1, Len(Hay)) \o <<>> = SubSeq(Hay, x[1][2] + 1, Len(Hay))
      BY <1>7, <1>8, Zenon
    <2> QED
      BY <1>2, <1>6, <1>7, <2>1, <2>2, Zenon
  <1>10. s \in [1..2 -> Seq(B)]
    <2>1. s = [i \in 1..2 |-> s[i]]
      BY <1>2 DEF ReplacedParts
    <2>2. \A i \in 1..2 : i = 1 \/ i = 2
      OBVIOUS
    <2> HIDE DEF s
    <2>3. \A i \in 1..2 : s[i] \in Seq(B)
      BY <1>9, <2>2
    <2> QED
      BY <2>1, <2>3, Zenon
  <1>11. Replaced(<<x>>, template) = FlattenSeq(s)
    BY DEF Replaced, ReplacedParts
  <1> HIDE DEF s
  <1>12. FlattenSeq(s) = s[1] \o s[2]
    BY <1>10, TwoFlattened
  <1> QED
    BY <1>9, <1>11, <1>12 DEF e
------------------------------------------------------------------------------
(***************************************************************************)
(* Calls with the default options.                                         *)
(***************************************************************************)
FoundGroups(n) == GroupTexts(Hay, Found, n)

\* The groups of the match are sequences of bytes.
LEMMA FoundGroupsAre ==
  ASSUME Ready, re.ok, DefaultRE2(re), Found # <<>>, NEW n \in Nat
  PROVE  /\ FoundGroups(n) \in Seq(Seq(0..255))
         /\ \A i \in Nat : /\ GroupText(Hay, Found, i) \in Seq(0..255)
                           /\ ToSet(GroupText(Hay, Found, i)) \subseteq ToSet(Hay)
  <1>1. str \in Texts /\ E!SpansIn(Found, Len(Hay))
    BY FoundSays DEF Ready
  <1>2. \A i \in Nat : /\ GroupText(Hay, Found, i) \in Seq(0..255)
                      /\ ToSet(GroupText(Hay, Found, i)) \subseteq ToSet(Hay)
    BY <1>1, GroupIs
  <1>3. \A i \in 1..n : i - 1 \in Nat
    OBVIOUS
  <1>4. FoundGroups(n) \in [1..n -> Seq(0..255)]
    BY <1>2, <1>3, Zenon DEF FoundGroups, GroupTexts
  <1> QED
    BY <1>2, <1>4

\* Match is asked when the rewrite string asks for no more groups than there are.
LEMMA AskedSays ==
  ASSUME Ready, DefaultRE2(re), NEW rw \in Rewrites, Utf8(rw), NUL \notin ToSet(rw)
  PROVE  /\ CString(rw) = rw /\ rw \in Seq(0..255)
         /\ Nvec(rw) = 1 + MaxSubmatch(rw) /\ Nvec(rw) \in Nat \ {0}
         /\ Asked(rw) <=> re.ok /\ MaxSubmatch(rw) <= re.ncap
         /\ re.ok => re.ncap \in Nat
  <1>1. rw \in Seq(0..255)
    BY ValuesAssumption
  <1>2. CString(rw) = rw
    BY <1>1, CStringSays
  <1>3. MaxSubmatch(rw) \in 0..9
    BY <1>1, MaxSubmatchSays
  <1>4. Nvec(rw) = 1 + MaxSubmatch(rw)
    BY <1>2 DEF Nvec
  <1>5. (re.ok => re.ncap \in Nat) /\ (~re.ok => re.ncap = -1)
    BY RE2Says DEF Ready, RE2Fields
  <1> DEFINE S == {1 + re.ncap, kVecSize}
  <1>6. S \in SUBSET Nat /\ S # {}
    BY <1>5 DEF kVecSize
  <1>7. Asked(rw) <=> 1 + MaxSubmatch(rw) <= Min(S)
    BY <1>2, <1>4 DEF Asked
  <1>8. Min(S) \in S /\ \A y \in S : Min(S) <= y
    <2> HIDE DEF S
    <2> QED
      BY <1>6, NatMin
  <1>9. Asked(rw) <=> re.ok /\ MaxSubmatch(rw) <= re.ncap
    <2> DEFINE m == MaxSubmatch(rw)
               k == Min(S)
    <2>1. m \in 0..9 /\ (k = 1 + re.ncap \/ k = 17) /\ k <= 1 + re.ncap /\ k <= 17
      BY <1>3, <1>8 DEF kVecSize
    <2>2. Asked(rw) <=> 1 + m <= k
      BY <1>7
    <2> HIDE DEF m, k
    <2>3. CASE re.ok
      BY <1>5, <2>1, <2>2, <2>3 DEF m
    <2>4. CASE ~re.ok
      <3>1. k <= 0 /\ k \in Int
        BY <1>5, <2>1, <2>4
      <3> QED
        BY <2>1, <2>2, <2>4, <3>1
    <2> QED
      BY <2>3, <2>4
  <1> QED
    BY <1>1, <1>2, <1>3, <1>4, <1>5, <1>9

\* What the three calls start with: nothing is rewritten without a match, and with one
\* rure_rewrite is given its groups.
LEMMA FirstSays ==
  ASSUME Ready, DefaultRE2(re), NEW rw \in Rewrites, Utf8(rw), NUL \notin ToSet(rw)
  PROVE  /\ ~Asked(rw) => FirstRewritten(rw) = Null
         /\ Asked(rw) => Matched(Nvec(rw)).ret = (Found # <<>>)
         /\ Asked(rw) /\ Found = <<>> => FirstRewritten(rw) = Null
         /\ Asked(rw) /\ Found # <<>> => FirstRewritten(rw) = Rewrite(rw, FoundGroups(Nvec(rw)))
  <1>1. CString(rw) = rw /\ Nvec(rw) \in Nat \ {0} /\ (Asked(rw) => re.ok)
    BY AskedSays
  <1>2. FirstRewritten(rw) = IF ~Asked(rw) THEN Null ELSE RewrittenFor(rw, Matched(Nvec(rw)))
    BY <1>1 DEF FirstRewritten
  <1>3. ASSUME Asked(rw)
        PROVE  /\ Matched(Nvec(rw)).ret = (Found # <<>>)
               /\ Found # <<>> => Groups(Matched(Nvec(rw)).vec) = FoundGroups(Nvec(rw))
    BY <1>1, <1>3, MatchSays DEF FoundGroups, GroupTexts
  <1> QED
    BY <1>2, <1>3 DEF RewrittenFor

\* On plain rewrite strings: what is rewritten has the groups of the match inserted; and
\* when nothing is, though the regexp matches, CheckRewriteString says no.
LEMMA PlainSays ==
  ASSUME Ready, DefaultRE2(re), NEW rw \in Rewrites, PlainRewrite(rw), NUL \notin ToSet(str)
  PROVE  LET F == FirstRewritten(rw)
         IN /\ F.kind \in {"text", "null", "panic"}
            /\ F.kind = "text" => /\ re.ok /\ Found # <<>> /\ Refers(rw, Nvec(rw))
                                  /\ F.text = Inserted(rw, Hay, Found)
                                  /\ Inserted(rw, Hay, Found) \in Seq(0..255)
            /\ F.kind = "null" => ~re.ok \/ Found = <<>> \/ ~CheckRewrite(rw, re.ncap)
  <1> DEFINE F == FirstRewritten(rw)
             n == Nvec(rw)
             groups == FoundGroups(n)
  <1>1. Utf8(rw) /\ NUL \notin ToSet(rw)
    BY DEF PlainRewrite
  <1>2. /\ rw \in Seq(0..255) /\ n = 1 + MaxSubmatch(rw) /\ n \in Nat
        /\ Asked(rw) <=> re.ok /\ MaxSubmatch(rw) <= re.ncap
        /\ re.ok => re.ncap \in Nat
    BY <1>1, AskedSays
  <1>3. /\ ~Asked(rw) => F = Null
        /\ Asked(rw) /\ Found = <<>> => F = Null
        /\ Asked(rw) /\ Found # <<>> => F = Rewrite(rw, groups)
    BY <1>1, FirstSays
  <1>4. Null.kind = "null"
    BY DEF Null
  <1> HIDE DEF F, n
  <1>5. CASE ~Asked(rw)
    <2>1. F.kind = "null"
      BY <1>3, <1>4, <1>5
    <2>2. re.ok => ~CheckRewrite(rw, re.ncap)
      BY <1>2, <1>5, CheckedSays
    <2> QED
      BY <2>1, <2>2 DEF F
  <1>6. CASE Asked(rw) /\ Found = <<>>
    <2>1. F.kind = "null"
      BY <1>3, <1>4, <1>6
    <2> QED
      BY <1>6, <2>1 DEF F
  <1>7. CASE Asked(rw) /\ Found # <<>>
    <2>1. F = Rewrite(rw, groups) /\ re.ok
      BY <1>2, <1>3, <1>7
    <2>2. groups \in Seq(Seq(0..255))
      BY <1>2, <1>7, <2>1, FoundGroupsAre
    <2>3. /\ Bad(rw, groups) = {} <=> Refers(rw, n)
          /\ Refers(rw, n) => Substitute(rw, Given(rw, groups)) = Inserted(rw, Hay, Found)
      BY <1>2, PlainRewritten DEF FoundGroups
    <2> HIDE DEF groups
    <2>4. /\ F.kind \in {"text", "null", "panic"}
          /\ F.kind = "text" => /\ Bad(rw, groups) = {} /\ F.text \in Seq(0..255)
                                /\ F.text = Substitute(rw, Given(rw, groups))
          /\ F.kind = "null" =>
               Bad(rw, groups) # {} \/ NUL \in ToSet(Substitute(rw, Given(rw, groups)))
      BY <1>2, <2>1, <2>2, RewriteCases
    <2>5. Refers(rw, n) => NUL \notin ToSet(Inserted(rw, Hay, Found))
      <3> SUFFICES ASSUME Refers(rw, n) PROVE NUL \notin ToSet(Inserted(rw, Hay, Found))
        OBVIOUS
      <3> DEFINE subst == [i \in Escapes(rw) |-> GroupText(Hay, Found, DigitAt(rw, i + 1))]
      <3>1. Hay = str
        BY HayIs DEF Ready
      <3>2. ASSUME NEW i \in Escapes(rw)
            PROVE  subst[i] \in Seq(0..255) /\ NUL \notin ToSet(subst[i])
        <4>1. IsDigit(rw, i + 1)
          BY DEF Refers
        <4>2. DigitAt(rw, i + 1) \in Nat
          BY <4>1 DEF IsDigit, DigitAt, Digits
        <4> QED
          BY <1>2, <1>7, <2>1, <3>1, <4>2, FoundGroupsAre
      <3>3. Inserted(rw, Hay, Found) = Substitute(rw, subst)
        BY DEF Inserted
      <3> HIDE DEF subst
      <3>4. \A a \in ToSet(Substitute(rw, subst)) :
              a \in ToSet(rw) \/ \E i \in Escapes(rw) : a \in ToSet(subst[i])
        BY <1>2, <3>2, SubstituteSays
      <3> QED
        BY <1>1, <3>2, <3>3, <3>4
    <2>6. F.kind = "text" => Refers(rw, n) /\ F.text = Inserted(rw, Hay, Found) /\ F.text \in Seq(0..255)
      BY <2>3, <2>4
    <2>7. F.kind = "null" => ~Refers(rw, n)
      BY <2>3, <2>4, <2>5
    <2>8. F.kind = "null" => ~CheckRewrite(rw, re.ncap)
      BY <1>2, <2>1, <2>7, CheckedSays
    <2> QED
      BY <1>7, <2>1, <2>4, <2>6, <2>8 DEF F, n
  <1> QED
    BY <1>5, <1>6, <1>7
------------------------------------------------------------------------------
(***************************************************************************)
(* Types, with all options.                                                *)
(***************************************************************************)

\* A submatch that lies in the string shows bytes.
LEMMA SubmatchTyped ==
  ASSUME str \in Texts, NEW m, NEW l, m # <<>>, E!SpansIn(m, l), NEW i,
         LET v == E!SubmatchView(re, WholeString, m, i) IN v.size = 0 \/ E!InText(v)
  PROVE  TextOf(E!SubmatchView(re, WholeString, m, i)) \in Seq(0..255)
  <1>1. PICK v : v = E!SubmatchView(re, WholeString, m, i)
    OBVIOUS
  <1>2. <<>> \in Seq(0..255)
    OBVIOUS
  <1>3. CASE v.size = 0
    BY <1>1, <1>2, <1>3 DEF TextOf
  <1>4. CASE v.size # 0
    <2>1. i \in DOMAIN m /\ m[i] # <<>>
      <3> SUFFICES ASSUME i \notin DOMAIN m \/ m[i] = <<>> PROVE FALSE
        OBVIOUS
      <3>1. v = E!NullView
        BY <1>1 DEF E!SubmatchView
      <3> QED
        BY <1>4, <3>1 DEF E!NullView, E!View
    <2>2. PICK a, b \in 0..l : a <= b /\ m[i] = <<a, b>>
      BY <2>1 DEF E!SpansIn
    <2>3. m[i][1] = a /\ m[i][2] = b
      BY <2>2
    <2>4. PICK d, n : /\ d = (Base + a) % AddrSpace /\ (n = b - a \/ n = (b - a) \div 2)
                     /\ v = E!View(d, n)
      <3>1. WholeString.data = Base
        BY DEF WholeString, E!View
      <3>2. v = E!View((Base + a) % AddrSpace,
                       IF re.options.latin1 THEN (b - a) \div 2 ELSE b - a)
        BY <1>1, <2>1, <2>3, <3>1 DEF E!SubmatchView
      <3> QED
        BY <3>2
    <2>5. Base \in Nat /\ AddrSpace \in Nat \ {0} /\ a \in Nat /\ b - a \in Nat
      BY <2>2, ValuesAssumption
    <2>6. d \in Nat /\ n \in Nat
      <3>1. \A x \in Nat, y \in Nat \ {0} : x % y \in Nat
        OBVIOUS
      <3>2. \A x \in Nat : x \div 2 \in Nat
        OBVIOUS
      <3>3. Base + a \in Nat
        BY <2>5
      <3> QED
        BY <2>4, <2>5, <3>1, <3>2, <3>3, Zenon
    <2>7. v.data = d /\ v.size = n
      BY <2>4 DEF E!View
    <2>8. d >= Base /\ d + n <= Base + Len(str)
      BY <1>1, <1>4, <2>7 DEF E!InText
    <2>9. str \in Seq(0..255) /\ Len(str) \in Nat
      BY ValuesAssumption
    <2>10. SubSeq(str, d - Base + 1, d - Base + n) \in Seq(0..255)
      <3>1. PICK x, y : x = d - Base /\ y = d - Base + n
        OBVIOUS
      <3>2. x \in Nat /\ y \in Nat /\ x <= y /\ y <= Len(str)
        BY <2>5, <2>6, <2>8, <2>9, <3>1
      <3>3. SubSeq(str, x + 1, y) \in Seq(0..255)
        BY <2>9, <3>2, Piece
      <3> QED
        BY <3>1, <3>3
    <2>11. v # E!NullView
      BY <1>4 DEF E!NullView, E!View
    <2>12. TextOf(v) = SubSeq(str, d - Base + 1, d - Base + n)
      BY <1>4, <2>7, <2>11 DEF TextOf, E!BytesOf
    <2> QED
      BY <1>1, <2>10, <2>12
  <1> QED
    BY <1>3, <1>4

\* What Match is given to search, and where it finds something.
LEMMA SearchedSays ==
  ASSUME Ready, re.ok
  PROVE  /\ E!Haystack(re, WholeString) = Searched(re, str)
         /\ \A h \in ToSet(Searched(re, str)) : E!SpansIn(Captures(re.prog, h), Len(h))
  <1>1. str \in Seq(0..255) /\ Len(str) \in Nat /\ Base \in Nat \ {0} /\ str \in Texts
    BY ValuesAssumption DEF Ready
  <1>2. E!BytesOf(WholeString) = str
    <2>1. WholeString.data = Base /\ WholeString.size = Len(str)
      BY DEF WholeString, E!View
    <2>2. WholeString # E!NullView
      BY <1>1, <2>1 DEF E!NullView, E!View
    <2>3. E!BytesOf(WholeString) = SubSeq(str, Base - Base + 1, Base - Base + Len(str))
      BY <2>1, <2>2 DEF E!BytesOf
    <2>4. Base - Base + 1 = 1 /\ Base - Base + Len(str) = Len(str) /\ SubSeq(str, 1, Len(str)) = str
      BY <1>1
    <2> QED
      BY <2>3, <2>4
  <1>3. E!Haystack(re, WholeString) = Searched(re, str)
    BY <1>2 DEF E!Haystack, Searched, CString
  <1>4. PICK p \in Patterns, o \in Options : re = E!NewRE2(p, o)
    BY DEF Ready, IsRE2
  <1>5. \A h \in ToSet(Searched(re, str)) : E!SpansIn(Captures(re.prog, h), Len(h))
    BY <1>1, <1>4, CrateAssumption
  <1> QED
    BY <1>3, <1>5

\* The groups of a defined call are sequences of bytes.
LEMMA GroupsTyped ==
  ASSUME Ready, NEW n \in Nat \ {0}, Matched(n).ret,
         \A v \in ToSet(Matched(n).vec) : v.size = 0 \/ E!InText(v)
  PROVE  Groups(Matched(n).vec) \in Seq(Seq(0..255))
  <1> DEFINE t == WholeString
             null == [i \in 1..n |-> E!NullView]
             m == Matched(n)
  <1>1. m = E!Match(re, t, 0, Len(str), "UNANCHORED", null)
    BY DEF Matched
  <1>2. ASSUME DOMAIN m.vec = 1..n, \A i \in 1..n : TextOf(m.vec[i]) \in Seq(0..255)
        PROVE  Groups(m.vec) \in Seq(Seq(0..255))
    <2>1. Groups(m.vec) = [i \in 1..n |-> TextOf(m.vec[i])]
      BY <1>2 DEF Groups, TextOf
    <2>2. PICK Run : Run = Seq(0..255)
      OBVIOUS
    <2>3. \A i \in 1..n : TextOf(m.vec[i]) \in Run
      BY <1>2, <2>2
    <2> HIDE DEF m
    <2>4. Groups(m.vec) \in [1..n -> Run]
      BY <2>1, <2>3
    <2>5. Groups(m.vec) \in Seq(Run)
      BY <2>4
    <2> QED
      BY <2>2, <2>5
  <1>3. <<>> \in Seq(0..255)
    OBVIOUS
  <1>4. TextOf(E!NullView) = <<>>
    BY DEF TextOf, E!NullView, E!View
  <1> DEFINE found == Captures(re.prog, Searched(re, str)[1])
  <1>5. \/ m.vec = null
        \/ /\ re.ok /\ Searched(re, str) # <<>> /\ found # <<>>
           /\ m.vec = [i \in 1..n |-> E!SubmatchView(re, t, found, i)]
    <2> HIDE DEF null
    <2>1. DOMAIN null = 1..n /\ null # <<>>
      BY DEF null
    <2>2. CASE t.size = 0 /\ re.pattern = EmptyPattern
      BY <1>1, <2>2 DEF E!Match, E!Answer
    <2>3. CASE ~(t.size = 0 /\ re.pattern = EmptyPattern)
      <3>1. t.data # 0
        BY ValuesAssumption DEF WholeString, E!View
      <3>2. \/ m = E!Answer(FALSE, null)
            \/ re.ok /\ m = E!Search(re, t, "UNANCHORED", null, E!Haystack(re, t))
        BY <1>1, <2>3, <3>1 DEF E!Match
      <3>3. m.ret
        OBVIOUS
      <3>4. m # E!Answer(FALSE, null)
        BY <3>3 DEF E!Answer
      <3>5. re.ok /\ m = E!Search(re, t, "UNANCHORED", null, Searched(re, str))
        BY <3>2, <3>4, SearchedSays
      <3> HIDE DEF m
      <3>6. /\ Searched(re, str) # <<>>
            /\ m = E!Submatches(re, t, "UNANCHORED", null, Searched(re, str)[1], found)
        BY <2>1, <3>4, <3>5 DEF E!Search
      <3>7. /\ found # <<>>
            /\ m = E!Answer(TRUE, [i \in DOMAIN null |-> E!SubmatchView(re, t, found, i)])
        BY <3>4, <3>6 DEF E!Submatches, E!AnchorAccepts
      <3> QED
        BY <2>1, <3>5, <3>6, <3>7 DEF E!Answer
    <2> QED
      BY <2>2, <2>3
  <1>6. CASE m.vec = null
    <2>1. DOMAIN m.vec = 1..n /\ \A i \in 1..n : m.vec[i] = E!NullView
      BY <1>6
    <2> HIDE DEF m
    <2> QED
      BY <1>2, <1>3, <1>4, <2>1 DEF m
  <1>7. CASE /\ re.ok /\ Searched(re, str) # <<>> /\ found # <<>>
             /\ m.vec = [i \in 1..n |-> E!SubmatchView(re, t, found, i)]
    <2>1. DOMAIN m.vec = 1..n /\ \A i \in 1..n : m.vec[i] = E!SubmatchView(re, t, found, i)
      BY <1>7
    <2>2. \A i \in 1..n : m.vec[i] \in ToSet(m.vec)
      BY <2>1 DEF ToSet
    <2>3. Searched(re, str)[1] \in ToSet(Searched(re, str))
      <3>1. PICK s : s = Searched(re, str)
        OBVIOUS
      <3>2. \E h : s = <<h>>
        BY <1>7, <3>1 DEF Searched, E!FirstLine
      <3> QED
        BY <3>1, <3>2 DEF ToSet
    <2>4. E!SpansIn(found, Len(Searched(re, str)[1]))
      BY <1>7, <2>3, SearchedSays
    <2>5. ASSUME NEW i \in 1..n PROVE TextOf(m.vec[i]) \in Seq(0..255)
      <3>1. m.vec[i].size = 0 \/ E!InText(m.vec[i])
        BY <2>2
      <3> HIDE DEF m, found
      <3> QED
        BY <1>7, <2>1, <2>3, <2>4, <3>1, SubmatchTyped DEF Ready
    <2> QED
      BY <1>2, <2>1, <2>5
  <1> QED
    BY <1>5, <1>6, <1>7

\* What the calls start with is of one of three kinds.
LEMMA FirstTyped ==
  ASSUME Ready, NEW rw \in Rewrites, Defined(rw)
  PROVE  /\ FirstRewritten(rw).kind \in {"text", "null", "panic"}
         /\ FirstRewritten(rw).kind = "text" => FirstRewritten(rw).text \in Seq(0..255)
  <1> DEFINE F == FirstRewritten(rw)
             n == Nvec(rw)
             m == Matched(n)
  <1>1. Panic.kind = "panic" /\ Null.kind = "null"
    BY DEF Panic, Null
  <1>2. \/ F = Panic \/ F = Null
        \/ Utf8(CString(rw)) /\ m.ret /\ F = Rewrite(rw, Groups(m.vec))
    BY DEF FirstRewritten, RewrittenFor
  <1>3. CASE F = Panic \/ F = Null
    BY <1>1, <1>3
  <1>4. CASE Utf8(CString(rw)) /\ m.ret /\ F = Rewrite(rw, Groups(m.vec))
    <2>1. rw \in Seq(0..255)
      BY ValuesAssumption
    <2>2. n \in Nat \ {0}
      <3>1. PICK k \in 0..Len(rw) : CString(rw) = SubSeq(rw, 1, k)
        BY <2>1, CStringSays
      <3>2. k \in Nat /\ 0 \in Nat /\ 0 <= k /\ k <= Len(rw) /\ 0 + 1 = 1
        BY <2>1, <3>1
      <3>3. CString(rw) \in Seq(0..255)
        <4>1. SubSeq(rw, 0 + 1, k) \in Seq(0..255)
          BY <2>1, <3>2, Piece
        <4> QED
          BY <3>1, <3>2, <4>1
      <3>4. MaxSubmatch(CString(rw)) \in 0..9
        BY <3>3, MaxSubmatchSays
      <3> QED
        BY <3>4 DEF Nvec
    <2>3. \A v \in ToSet(m.vec) : v.size = 0 \/ E!InText(v)
      BY <1>4 DEF Defined
    <2> HIDE DEF n
    <2>4. Groups(m.vec) \in Seq(Seq(0..255))
      BY <1>4, <2>2, <2>3, GroupsTyped
    <2> HIDE DEF F, m
    <2> QED
      BY <1>4, <2>1, <2>4, RewriteCases DEF F
  <1> QED
    BY <1>2, <1>3, <1>4

\* What Replace and GlobalReplace replace is a string of bytes.
LEMMA ReplacementsTyped ==
  ASSUME Ready, Again # NULL, NEW rw \in Rewrites
  PROVE  LET spans == Spans(Again, Hay)
         IN /\ Replaced(FirstOf(spans), Convert(rw)) \in Seq(0..255)
            /\ Replaced(spans, Convert(rw)) \in Seq(0..255)
            /\ Len(spans) \in Nat
  <1>1. PICK spans : spans = Spans(Again, Hay)
    OBVIOUS
  <1>2. re.pattern \in Patterns /\ str \in Texts
    BY RE2Says DEF Ready, RE2Fields
  <1>3. spans \in Seq(ToSet(spans)) /\ \A x \in ToSet(spans) : MatchIn(Hay, x)
    BY <1>1, <1>2, FoundBy DEF SearchesIn
  <1>4. \A x \in ToSet(spans) : /\ x # <<>> /\ E!SpansIn(x, Len(Hay))
                               /\ Expand(Convert(rw), Hay, x) \in Seq(0..255)
    BY <1>3 DEF MatchIn
  <1>5. Len(spans) \in Nat
    BY <1>3
  <1>6. FirstOf(spans) \in Seq(ToSet(spans))
    <2>1. CASE spans = <<>>
      BY <2>1 DEF FirstOf
    <2>2. CASE spans # <<>>
      <3>1. FirstOf(spans) = SubSeq(spans, 0 + 1, 1) /\ 1 <= Len(spans)
        BY <1>3, <2>2 DEF FirstOf
      <3> QED
        BY <1>3, <3>1, Piece
    <2> QED
      BY <2>1, <2>2
  <1>7. /\ Replaced(FirstOf(spans), Convert(rw)) \in Seq(0..255)
        /\ Replaced(spans, Convert(rw)) \in Seq(0..255)
    BY <1>2, <1>3, <1>4, <1>6, ReplacedSays
  <1> QED
    BY <1>1, <1>5, <1>7

\* The outcomes of Replace and GlobalReplace.
LEMMA OutcomesTyped ==
  ASSUME Ready, str \in Seq(0..255), NEW rw \in Rewrites, Defined(rw)
  PROVE  /\ ReplaceOutcome(rw).str \in Seq(0..255) /\ GlobalReplaceOutcome(rw).str \in Seq(0..255)
         /\ ReplaceOutcome(rw).crashed \in BOOLEAN /\ GlobalReplaceOutcome(rw).crashed \in BOOLEAN
         /\ ReplaceOutcome(rw).ret \in BOOLEAN /\ GlobalReplaceOutcome(rw).ret \in Nat
  <1> DEFINE spans == Spans(Again, Hay)
             one == OneReplaced(rw, spans)
             all == AllReplaced(rw, spans)
             o == ReplaceOutcome(rw)
             g == GlobalReplaceOutcome(rw)
  <1>1. PICK F : F = FirstRewritten(rw)
    OBVIOUS
  <1>2. F.kind \in {"text", "null", "panic"}
    BY <1>1, FirstTyped
  <1>3. /\ o = Crash(FALSE) \/ o = Outcome(FALSE, str) \/ (Again # NULL /\ o = one)
        /\ g = Crash(0) \/ g = Outcome(0, str) \/ (Again # NULL /\ g = all)
    <2>1. o = Ending(F, FALSE, one) /\ g = Ending(F, 0, all)
      BY <1>1 DEF ReplaceOutcome, GlobalReplaceOutcome
    <2> HIDE DEF one, all, o, g
    <2>2. o = Crash(FALSE) \/ o = Outcome(FALSE, str) \/ (Again # NULL /\ o = one)
      BY <1>2, <2>1 DEF Ending
    <2>3. g = Crash(0) \/ g = Outcome(0, str) \/ (Again # NULL /\ g = all)
      BY <1>2, <2>1 DEF Ending
    <2> QED
      BY <2>2, <2>3
  <1>4. ASSUME Again # NULL
        PROVE  /\ one.str \in Seq(0..255) /\ one.crashed = FALSE /\ one.ret = TRUE
               /\ all.str \in Seq(0..255) /\ all.crashed = FALSE /\ all.ret \in Nat
    <2>1. /\ Replaced(FirstOf(spans), Convert(rw)) \in Seq(0..255)
          /\ Replaced(spans, Convert(rw)) \in Seq(0..255)
          /\ Len(spans) \in Nat
      BY <1>4, ReplacementsTyped
    <2>2. one = Outcome(TRUE, Replaced(FirstOf(spans), Convert(rw)))
      BY DEF OneReplaced
    <2>3. \/ all = Outcome(Len(spans), str)
          \/ all = Outcome(Len(spans), Replaced(spans, Convert(rw)))
      BY DEF AllReplaced
    <2> HIDE DEF one, all, spans
    <2>4. one.str \in Seq(0..255) /\ one.crashed = FALSE /\ one.ret = TRUE
      BY <2>1, <2>2 DEF Outcome
    <2>5. all.str \in Seq(0..255) /\ all.crashed = FALSE /\ all.ret \in Nat
      BY <2>1, <2>3 DEF Outcome
    <2> QED
      BY <2>4, <2>5
  <1> HIDE DEF one, all, o, g
  <1>5. o.str \in Seq(0..255) /\ o.crashed \in BOOLEAN /\ o.ret \in BOOLEAN
    <2>1. CASE o = Crash(FALSE)
      BY <2>1 DEF Crash
    <2>2. CASE o = Outcome(FALSE, str)
      BY <2>2 DEF Outcome
    <2>3. CASE Again # NULL /\ o = one
      BY <2>3, <1>4
    <2> QED
      BY <1>3, <2>1, <2>2, <2>3
  <1>6. g.str \in Seq(0..255) /\ g.crashed \in BOOLEAN /\ g.ret \in Nat
    <2>1. CASE g = Crash(0)
      BY <2>1 DEF Crash
    <2>2. CASE g = Outcome(0, str)
      BY <2>2 DEF Outcome
    <2>3. CASE Again # NULL /\ g = all
      BY <2>3, <1>4
    <2> QED
      BY <1>3, <2>1, <2>2, <2>3
  <1> QED
    BY <1>5, <1>6 DEF o, g
------------------------------------------------------------------------------
(***************************************************************************)
(* How plain calls end.                                                    *)
(***************************************************************************)

\* Where the regexp matches, the crate's replacement of the first match gives the documented
\* result: the text that Rust rewrites, in the place of the match.
LEMMA PlainReplaced ==
  ASSUME Ready, NEW rw \in Rewrites, PlainCall(rw), FirstRewritten(rw).kind = "text"
  PROVE  /\ re.ok /\ Again # NULL /\ Utf8(Hay) /\ Hay = str
         /\ Len(Spans(Again, Hay)) \in Nat \ {0}
         /\ Replaced(FirstOf(Spans(Again, Hay)), Convert(rw)) = Documented(rw)
         /\ Len(Spans(Again, Hay)) = 1 => FirstOf(Spans(Again, Hay)) = Spans(Again, Hay)
         /\ Documented(rw) = SubSeq(str, 1, Found[1][1]) \o FirstRewritten(rw).text
                               \o SubSeq(str, Found[1][2] + 1, Len(str))
  <1> DEFINE F == FirstRewritten(rw)
             spans == Spans(Again, Hay)
  <1>1. DefaultRE2(re) /\ Utf8(str) /\ NUL \notin ToSet(str) /\ PlainRewrite(rw)
    BY DEF PlainCall, DefaultOptions, DefaultRE2
  <1>2. Hay = str /\ str \in Texts
    BY <1>1, HayIs DEF Ready
  <1>3. /\ re.ok /\ Found # <<>> /\ Refers(rw, Nvec(rw)) /\ F.text = Inserted(rw, Hay, Found)
        /\ Inserted(rw, Hay, Found) \in Seq(0..255)
    BY <1>1, PlainSays
  <1>4. re.pattern \in Patterns
    BY RE2Says DEF Ready, RE2Fields
  <1>5. /\ Again # NULL /\ spans \in Seq(ToSet(spans)) /\ spans # <<>> /\ spans[1] = Found
        /\ Found \in ToSet(spans) /\ E!SpansIn(Found, Len(Hay))
    BY <1>1, <1>3, FoundSays
  <1>6. Expand(Convert(rw), Hay, Found) = Inserted(rw, Hay, Found)
    BY <1>1, <1>2, <1>3, <1>4, <1>5, ConvertedExpands
  <1>7. Documented(rw) = SubSeq(str, 1, Found[1][1]) \o Inserted(rw, Hay, Found)
                           \o SubSeq(str, Found[1][2] + 1, Len(str))
    BY <1>2 DEF Documented, Found, Inserted
  <1>8. Replaced(<<Found>>, Convert(rw)) = Documented(rw)
    <2>1. Expand(Convert(rw), Hay, Found) \in Seq(0..255)
      BY <1>3, <1>6
    <2>2. Replaced(<<Found>>, Convert(rw))
            = SubSeq(Hay, 1, Found[1][1]) \o Expand(Convert(rw), Hay, Found)
                \o SubSeq(Hay, Found[1][2] + 1, Len(Hay))
      BY <1>2, <1>3, <1>5, <2>1, OneReplacedSays
    <2> QED
      BY <1>2, <1>6, <1>7, <2>2, Zenon
  <1> HIDE DEF spans
  <1>9. Len(spans) \in Nat \ {0} /\ FirstOf(spans) = <<Found>>
    <2>1. PICK S : S = ToSet(spans)
      OBVIOUS
    <2>2. spans \in Seq(S) /\ spans # <<>> /\ spans[1] = Found
      BY <1>5, <2>1
    <2>3. Len(spans) \in Nat \ {0}
      BY <2>2
    <2>4. SubSeq(spans, 1, 1) = <<spans[1]>>
      <3>1. 1 <= Len(spans) /\ 0 \in Nat /\ 1 \in Nat /\ 0 + 1 = 1
        BY <2>3
      <3>2. /\ SubSeq(spans, 1, 1) \in Seq(S) /\ Len(SubSeq(spans, 1, 1)) = 1
            /\ SubSeq(spans, 1, 1)[1] = spans[1]
        BY <2>2, <2>3, <3>1
      <3>3. <<spans[1]>> \in Seq(S)
        BY <2>2, <2>3
      <3>4. Len(<<spans[1]>>) = 1 /\ <<spans[1]>>[1] = spans[1]
        OBVIOUS
      <3>5. \A i \in 1..1 : SubSeq(spans, 1, 1)[i] = <<spans[1]>>[i]
        BY <3>2, <3>4
      <3> QED
        BY <3>2, <3>3, <3>4, <3>5, SameSequence
    <2> QED
      BY <2>2, <2>3, <2>4 DEF FirstOf
  <1>10. Len(spans) = 1 => FirstOf(spans) = spans
    BY <1>5, <1>9
  <1>11. Utf8(Hay)
    BY <1>1, <1>2
  <1> HIDE DEF F
  <1> QED
    BY <1>2, <1>3, <1>5, <1>7, <1>8, <1>9, <1>10, <1>11 DEF spans, F

\* Replace and GlobalReplace on plain rewrite strings.
LEMMA PlainOutcomes ==
  ASSUME Ready, NEW rw \in Rewrites, PlainCall(rw)
  PROVE  LET F == FirstRewritten(rw)
             o == ReplaceOutcome(rw)
             g == GlobalReplaceOutcome(rw)
         IN /\ F.kind \in {"text", "null", "panic"}
            /\ F.kind = "panic" => o.crashed /\ g.crashed
            /\ F.kind = "null" => o.ret = FALSE /\ g.ret = 0
            /\ F.kind = "text" => /\ o.ret = TRUE /\ o.str = Documented(rw)
                                  /\ g.ret \in Nat /\ g.ret > 0
                                  /\ g.ret = 1 => g.str = Documented(rw)
  <1> DEFINE F == FirstRewritten(rw)
             o == ReplaceOutcome(rw)
             g == GlobalReplaceOutcome(rw)
             spans == Spans(Again, Hay)
             one == OneReplaced(rw, spans)
             all == AllReplaced(rw, spans)
  <1>1. F.kind \in {"text", "null", "panic"}
    <2>1. DefaultRE2(re) /\ NUL \notin ToSet(str) /\ PlainRewrite(rw)
      BY DEF PlainCall, DefaultOptions, DefaultRE2
    <2> QED
      BY <2>1, PlainSays
  <1>2. o = Ending(F, FALSE, one) /\ g = Ending(F, 0, all)
    BY DEF ReplaceOutcome, GlobalReplaceOutcome
  <1>3. CASE F.kind = "panic"
    <2> HIDE DEF F, o, g, one, all
    <2>1. o = Crash(FALSE) /\ g = Crash(0)
      BY <1>2, <1>3 DEF Ending
    <2>2. o.crashed = TRUE /\ g.crashed = TRUE
      BY <2>1 DEF Crash
    <2> QED
      BY <1>3, <2>2 DEF F, o, g
  <1>4. CASE F.kind = "null"
    <2> HIDE DEF F, o, g, one, all
    <2>1. o = Outcome(FALSE, str) /\ g = Outcome(0, str)
      BY <1>2, <1>4 DEF Ending
    <2>2. o.ret = FALSE /\ g.ret = 0
      BY <2>1 DEF Outcome
    <2> QED
      BY <1>4, <2>2 DEF F, o, g
  <1>5. CASE F.kind = "text"
    <2>1. /\ Again # NULL /\ Utf8(Hay) /\ Len(spans) \in Nat \ {0}
          /\ Replaced(FirstOf(spans), Convert(rw)) = Documented(rw)
          /\ Len(spans) = 1 => FirstOf(spans) = spans
      BY <1>5, PlainReplaced
    <2>2. o = one /\ g = all
      <3> HIDE DEF F, o, g, one, all
      <3> QED
        BY <1>2, <1>5, <2>1 DEF Ending
    <2>3. spans # <<>>
      <3> HIDE DEF spans
      <3> QED
        BY <2>1
    <2>4. one = Outcome(TRUE, Documented(rw)) /\ all = Outcome(Len(spans), Replaced(spans, Convert(rw)))
      BY <2>1, <2>3 DEF OneReplaced, AllReplaced
    <2> HIDE DEF F, o, g, one, all, spans
    <2>5. o.ret = TRUE /\ o.str = Documented(rw) /\ g.ret = Len(spans)
          /\ g.str = Replaced(spans, Convert(rw))
      BY <2>2, <2>4 DEF Outcome
    <2> QED
      BY <1>5, <2>1, <2>5 DEF F, o, g
  <1> QED
    BY <1>1, <1>3, <1>4, <1>5

------------------------------------------------------------------------------
(***************************************************************************)
(* The inductive invariant, and the theorems.                              *)
(***************************************************************************)
ReplyTyped ==
  \/ reply = NoReply
  \/ reply.call = "GlobalReplace" /\ reply.ret \in Nat
  \/ reply.call \in {"Replace", "Extract", "CheckRewriteString"} /\ reply.ret \in BOOLEAN

\* Between two calls the string is one that the client assigned.
RewriteInv ==
  /\ IsRE2(re)
  /\ str \in Seq(0..255) /\ out \in Seq(0..255)
  /\ ReplyTyped
  /\ crashed \in BOOLEAN
  /\ Idle => str \in Texts

\* The invariant holds at the start.
LEMMA InitInv == Init => RewriteInv
  <1> SUFFICES ASSUME Init PROVE RewriteInv
    OBVIOUS
  <1>1. IsRE2(re) /\ str \in Texts /\ reply = NoReply /\ crashed = FALSE /\ out = OldOut
    BY DEF Init, IsRE2
  <1>2. str \in Seq(0..255)
    BY <1>1, ValuesAssumption
  <1>3. OldOut \in Seq(0..255)
    BY DEF OldOut
  <1> QED
    BY <1>1, <1>2, <1>3 DEF RewriteInv, ReplyTyped

\* The fields of a reply.
LEMMA ReplyFields ==
  /\ \A call, rw, ret : /\ Reply(call, rw, ret).call = call
                        /\ Reply(call, rw, ret).rewrite = rw
                        /\ Reply(call, rw, ret).ret = ret
  /\ NoReply.call = "none"
  BY DEF Reply, NoReply

\* Every step keeps it.
LEMMA NextInv == RewriteInv /\ [Next]_vars => RewriteInv'
  <1> SUFFICES ASSUME RewriteInv, [Next]_vars PROVE RewriteInv'
    OBVIOUS
  <1>1. ASSUME Idle PROVE Ready
    BY <1>1 DEF RewriteInv, Ready
  <1>2. NoReply.call = "none"
    BY ReplyFields
  <1>3. ASSUME NEW rw \in Rewrites, Replace(rw) PROVE RewriteInv'
    <2>1. /\ Idle /\ Defined(rw) /\ re' = re /\ out' = out
          /\ str' = ReplaceOutcome(rw).str /\ crashed' = ReplaceOutcome(rw).crashed
          /\ reply' = Reply("Replace", rw, ReplaceOutcome(rw).ret)
      BY <1>3 DEF Replace
    <2>2. /\ ReplaceOutcome(rw).str \in Seq(0..255) /\ ReplaceOutcome(rw).crashed \in BOOLEAN
          /\ ReplaceOutcome(rw).ret \in BOOLEAN
      BY <1>1, <2>1, OutcomesTyped DEF RewriteInv
    <2>3. reply'.call = "Replace" /\ reply'.ret \in BOOLEAN
      BY <2>1, <2>2, ReplyFields
    <2> QED
      BY <1>2, <2>1, <2>2, <2>3 DEF RewriteInv, ReplyTyped, Idle, IsRE2
  <1>4. ASSUME NEW rw \in Rewrites, GlobalReplace(rw) PROVE RewriteInv'
    <2>1. /\ Idle /\ Defined(rw) /\ re' = re /\ out' = out
          /\ str' = GlobalReplaceOutcome(rw).str /\ crashed' = GlobalReplaceOutcome(rw).crashed
          /\ reply' = Reply("GlobalReplace", rw, GlobalReplaceOutcome(rw).ret)
      BY <1>4 DEF GlobalReplace
    <2>2. /\ GlobalReplaceOutcome(rw).str \in Seq(0..255)
          /\ GlobalReplaceOutcome(rw).crashed \in BOOLEAN
          /\ GlobalReplaceOutcome(rw).ret \in Nat
      BY <1>1, <2>1, OutcomesTyped DEF RewriteInv
    <2>3. reply'.call = "GlobalReplace" /\ reply'.ret \in Nat
      BY <2>1, <2>2, ReplyFields
    <2> QED
      BY <1>2, <2>1, <2>2, <2>3 DEF RewriteInv, ReplyTyped, Idle, IsRE2
  <1>5. ASSUME NEW rw \in Rewrites, Extract(rw) PROVE RewriteInv'
    <2>1. PICK F : F = FirstRewritten(rw)
      OBVIOUS
    <2>2. /\ Idle /\ Defined(rw) /\ re' = re /\ str' = str
          /\ crashed' = (F.kind = "panic") /\ reply' = Reply("Extract", rw, F.kind = "text")
          /\ out' = IF F.kind = "text" THEN F.text
                    ELSE IF Asked(rw) /\ Matched(Nvec(rw)).ret THEN <<>> ELSE out
      BY <1>5, <2>1 DEF Extract
    <2>3. F.kind = "text" => F.text \in Seq(0..255)
      BY <1>1, <2>1, <2>2, FirstTyped
    <2>4. out' \in Seq(0..255)
      <3>1. <<>> \in Seq(0..255)
        OBVIOUS
      <3> QED
        BY <2>2, <2>3, <3>1 DEF RewriteInv
    <2>5. reply'.call = "Extract" /\ reply'.ret \in BOOLEAN
      BY <2>2 DEF Reply
    <2> QED
      BY <1>2, <2>2, <2>4, <2>5 DEF RewriteInv, ReplyTyped, Idle, IsRE2
  <1>6. ASSUME NEW rw \in Rewrites, CheckRewriteString(rw) PROVE RewriteInv'
    <2>1. /\ re' = re /\ str' = str /\ out' = out /\ crashed' \in BOOLEAN
          /\ reply' = Reply("CheckRewriteString", rw,
                            Utf8(CString(rw)) /\ CheckRewrite(CString(rw), re.ncap))
      BY <1>6 DEF CheckRewriteString
    <2>2. reply'.call = "CheckRewriteString" /\ reply'.ret \in BOOLEAN
      BY <2>1 DEF Reply
    <2> QED
      BY <1>2, <2>1, <2>2 DEF RewriteInv, ReplyTyped, Idle, IsRE2
  <1>7. ASSUME Resume PROVE RewriteInv'
    <2>1. /\ reply' = NoReply /\ str' \in Texts /\ out' = OldOut /\ re' = re /\ crashed' = crashed
      BY <1>7 DEF Resume
    <2>2. str' \in Seq(0..255)
      BY <2>1, ValuesAssumption
    <2>3. OldOut \in Seq(0..255)
      BY DEF OldOut
    <2> QED
      BY <2>1, <2>2, <2>3 DEF RewriteInv, ReplyTyped, Idle, IsRE2
  <1>8. CASE UNCHANGED vars
    BY <1>8 DEF vars, RewriteInv, ReplyTyped, Idle, IsRE2
  <1> QED
    BY <1>3, <1>4, <1>5, <1>6, <1>7, <1>8 DEF Next

\* Types: whatever the calls do, the strings stay strings of bytes, GlobalReplace returns a
\* count and the other calls a Boolean.
THEOREM TypesStay == Spec => []TypeOK
  <1>1. RewriteInv => TypeOK
    <2> SUFFICES ASSUME RewriteInv PROVE TypeOK
      OBVIOUS
    <2>1. re.pattern \in Patterns /\ re.options \in Options
      BY RE2Says DEF RewriteInv, RE2Fields
    <2> QED
      BY <2>1 DEF RewriteInv, ReplyTyped, TypeOK, Bytes
  <1> QED
    BY <1>1, InitInv, NextInv, PTL DEF Spec

(***************************************************************************)
(* What a step does that answers a call.                                   *)
(***************************************************************************)
Answers(call, rw) ==
  /\ Ready /\ ~crashed /\ rw \in Rewrites /\ reply'.rewrite = rw
  /\ \/ call = "Replace" /\ Replace(rw)
     \/ call = "GlobalReplace" /\ GlobalReplace(rw)
     \/ call = "Extract" /\ Extract(rw)
     \/ call = "CheckRewriteString" /\ CheckRewriteString(rw)

\* The reply tells which call has been made, and on which rewrite string.
LEMMA StepsSay ==
  ASSUME RewriteInv, Next, reply'.call # "none" \/ crashed'
  PROVE  \E rw \in Rewrites : Answers(reply'.call, rw)
  <1>1. ASSUME Idle PROVE Ready /\ ~crashed
    BY <1>1 DEF RewriteInv, Ready, Idle
  <1>2. ASSUME NEW rw \in Rewrites, Replace(rw) PROVE Answers(reply'.call, rw)
    <2>1. Idle /\ reply' = Reply("Replace", rw, ReplaceOutcome(rw).ret)
      BY <1>2 DEF Replace
    <2>2. reply'.call = "Replace" /\ reply'.rewrite = rw
      BY <2>1 DEF Reply
    <2> QED
      BY <1>1, <1>2, <2>1, <2>2 DEF Answers
  <1>3. ASSUME NEW rw \in Rewrites, GlobalReplace(rw) PROVE Answers(reply'.call, rw)
    <2>1. Idle /\ reply' = Reply("GlobalReplace", rw, GlobalReplaceOutcome(rw).ret)
      BY <1>3 DEF GlobalReplace
    <2>2. reply'.call = "GlobalReplace" /\ reply'.rewrite = rw
      BY <2>1 DEF Reply
    <2> QED
      BY <1>1, <1>3, <2>1, <2>2 DEF Answers
  <1>4. ASSUME NEW rw \in Rewrites, Extract(rw) PROVE Answers(reply'.call, rw)
    <2>1. Idle /\ reply' = Reply("Extract", rw, FirstRewritten(rw).kind = "text")
      BY <1>4 DEF Extract
    <2>2. reply'.call = "Extract" /\ reply'.rewrite = rw
      BY <2>1 DEF Reply
    <2> QED
      BY <1>1, <1>4, <2>1, <2>2 DEF Answers
  <1>5. ASSUME NEW rw \in Rewrites, CheckRewriteString(rw) PROVE Answers(reply'.call, rw)
    <2>1. Idle /\ reply' = Reply("CheckRewriteString", rw,
                                 Utf8(CString(rw)) /\ CheckRewrite(CString(rw), re.ncap))
      BY <1>5 DEF CheckRewriteString
    <2>2. reply'.call = "CheckRewriteString" /\ reply'.rewrite = rw
      BY <2>1 DEF Reply
    <2> QED
      BY <1>1, <1>5, <2>1, <2>2 DEF Answers
  <1>6. ~Resume
    BY ReplyFields DEF Resume
  <1> QED
    BY <1>2, <1>3, <1>4, <1>5, <1>6 DEF Next

ReplacesAsDocumented ==
  reply'.call = "Replace" /\ PlainCall(reply'.rewrite) /\ ~crashed'
  => LET rw == reply'.rewrite
     IN /\ reply'.ret => str' = Documented(rw)
        /\ re.ok /\ Captures(re.prog, str) # <<>> /\ CheckRewrite(rw, re.ncap) => reply'.ret

\* Replace, through a template of the crate and a second compilation of the pattern, leaves
\* the documented result, and succeeds where CheckRewriteString accepts (re2.cc Replace).
THEOREM CallsReplaceAsDocumented == Spec => ReplaceAsDocumented
  <1>1. ASSUME RewriteInv, [Next]_vars
        PROVE  [ReplacesAsDocumented]_vars
    <2> SUFFICES ASSUME reply'.call = "Replace", PlainCall(reply'.rewrite), ~crashed', ~UNCHANGED vars
                 PROVE  /\ reply'.ret => str' = Documented(reply'.rewrite)
                        /\ re.ok /\ Captures(re.prog, str) # <<>>
                             /\ CheckRewrite(reply'.rewrite, re.ncap) => reply'.ret
      BY DEF ReplacesAsDocumented
    <2>1. PICK rw \in Rewrites : Answers("Replace", rw)
      BY <1>1, StepsSay
    <2>2. Ready /\ Replace(rw) /\ reply'.rewrite = rw
      BY <2>1 DEF Answers
    <2>3. /\ str' = ReplaceOutcome(rw).str /\ crashed' = ReplaceOutcome(rw).crashed
          /\ reply' = Reply("Replace", rw, ReplaceOutcome(rw).ret)
      BY <2>2 DEF Replace
    <2>4. reply'.ret = ReplaceOutcome(rw).ret
      BY <2>3 DEF Reply
    <2>5. PlainCall(rw)
      BY <2>2
    <2>6. DefaultRE2(re) /\ PlainRewrite(rw) /\ NUL \notin ToSet(str)
      BY <2>5 DEF PlainCall, DefaultOptions, DefaultRE2
    <2>7. Found = Captures(re.prog, str)
      BY <2>2, <2>6, HayIs DEF Found, Ready
    <2>8. CASE FirstRewritten(rw).kind = "text"
      <3>1. ReplaceOutcome(rw).ret = TRUE /\ ReplaceOutcome(rw).str = Documented(rw)
        BY <2>2, <2>5, <2>8, PlainOutcomes
      <3> QED
        BY <2>2, <2>3, <2>4, <3>1
    <2>9. CASE FirstRewritten(rw).kind = "null"
      <3>1. ReplaceOutcome(rw).ret = FALSE
        BY <2>2, <2>5, <2>9, PlainOutcomes
      <3>2. ~re.ok \/ Found = <<>> \/ ~CheckRewrite(rw, re.ncap)
        BY <2>2, <2>6, <2>9, PlainSays
      <3> QED
        BY <2>2, <2>4, <2>7, <3>1, <3>2
    <2>10. FirstRewritten(rw).kind \in {"text", "null"}
      BY <2>2, <2>3, <2>5, PlainOutcomes
    <2> QED
      BY <2>8, <2>9, <2>10
  <1> QED
    BY <1>1, InitInv, NextInv, PTL DEF Spec, ReplaceAsDocumented, ReplacesAsDocumented

GlobalExtendsReplace ==
  reply'.call = "GlobalReplace" /\ PlainCall(reply'.rewrite) /\ ~crashed'
  => LET o == ReplaceOutcome(reply'.rewrite)
     IN (reply'.ret > 0 <=> o.ret) /\ (reply'.ret = 1 => str' = o.str)

\* GlobalReplace replaces exactly when Replace does, and a single match as Replace does
\* (re2.cc GlobalReplace).
THEOREM GlobalReplaceAlwaysExtends == Spec => GlobalReplaceExtendsReplace
  <1>1. ASSUME RewriteInv, [Next]_vars
        PROVE  [GlobalExtendsReplace]_vars
    <2> SUFFICES ASSUME reply'.call = "GlobalReplace", PlainCall(reply'.rewrite), ~crashed',
                        ~UNCHANGED vars
                 PROVE  /\ reply'.ret > 0 <=> ReplaceOutcome(reply'.rewrite).ret
                        /\ reply'.ret = 1 => str' = ReplaceOutcome(reply'.rewrite).str
      BY DEF GlobalExtendsReplace
    <2>1. PICK rw \in Rewrites : Answers("GlobalReplace", rw)
      BY <1>1, StepsSay
    <2>2. Ready /\ GlobalReplace(rw) /\ reply'.rewrite = rw
      BY <2>1 DEF Answers
    <2>3. /\ str' = GlobalReplaceOutcome(rw).str /\ crashed' = GlobalReplaceOutcome(rw).crashed
          /\ reply' = Reply("GlobalReplace", rw, GlobalReplaceOutcome(rw).ret)
      BY <2>2 DEF GlobalReplace
    <2>4. reply'.ret = GlobalReplaceOutcome(rw).ret
      BY <2>3 DEF Reply
    <2>5. PlainCall(rw)
      BY <2>2
    <2>6. CASE FirstRewritten(rw).kind = "text"
      <3>1. /\ ReplaceOutcome(rw).ret = TRUE /\ ReplaceOutcome(rw).str = Documented(rw)
            /\ GlobalReplaceOutcome(rw).ret > 0
            /\ GlobalReplaceOutcome(rw).ret = 1 => GlobalReplaceOutcome(rw).str = Documented(rw)
        BY <2>2, <2>5, <2>6, PlainOutcomes
      <3> QED
        BY <2>2, <2>3, <2>4, <3>1
    <2>7. CASE FirstRewritten(rw).kind = "null"
      <3>1. ReplaceOutcome(rw).ret = FALSE /\ GlobalReplaceOutcome(rw).ret = 0
        BY <2>2, <2>5, <2>7, PlainOutcomes
      <3> QED
        BY <2>2, <2>4, <3>1
    <2>8. FirstRewritten(rw).kind \in {"text", "null"}
      BY <2>2, <2>3, <2>5, PlainOutcomes
    <2> QED
      BY <2>6, <2>7, <2>8
  <1> QED
    BY <1>1, InitInv, NextInv, PTL DEF Spec, GlobalReplaceExtendsReplace, GlobalExtendsReplace

ExtractLikeReplace ==
  reply'.call = "Extract" /\ PlainCall(reply'.rewrite) /\ ~crashed'
  => LET o == ReplaceOutcome(reply'.rewrite)
         m == Captures(re.prog, str)
     IN /\ reply'.ret = o.ret
        /\ reply'.ret => o.str = SubSeq(str, 1, m[1][1]) \o out' \o SubSeq(str, m[1][2] + 1, Len(str))
        /\ m = <<>> => out' = out

\* Extract, which rewrites in Rust, agrees with Replace, which rewrites through the crate, and
\* leaves *out alone when nothing matches (re2.cc Extract; re2.h:477-482).
THEOREM ExtractAlwaysAgrees == Spec => ExtractAgreesWithReplace
  <1>1. ASSUME RewriteInv, [Next]_vars
        PROVE  [ExtractLikeReplace]_vars
    <2> DEFINE m == Captures(re.prog, str)
    <2> SUFFICES ASSUME reply'.call = "Extract", PlainCall(reply'.rewrite), ~crashed', ~UNCHANGED vars
                 PROVE  /\ reply'.ret = ReplaceOutcome(reply'.rewrite).ret
                        /\ reply'.ret => ReplaceOutcome(reply'.rewrite).str
                             = SubSeq(str, 1, m[1][1]) \o out' \o SubSeq(str, m[1][2] + 1, Len(str))
                        /\ m = <<>> => out' = out
      BY DEF ExtractLikeReplace
    <2>1. PICK rw \in Rewrites : Answers("Extract", rw)
      BY <1>1, StepsSay
    <2>2. Ready /\ Extract(rw) /\ reply'.rewrite = rw
      BY <2>1 DEF Answers
    <2>3. PICK F : F = FirstRewritten(rw)
      OBVIOUS
    <2>4. /\ crashed' = (F.kind = "panic") /\ reply' = Reply("Extract", rw, F.kind = "text")
          /\ out' = IF F.kind = "text" THEN F.text
                    ELSE IF Asked(rw) /\ Matched(Nvec(rw)).ret THEN <<>> ELSE out
      BY <2>2, <2>3 DEF Extract
    <2>5. reply'.ret = (F.kind = "text")
      BY <2>4 DEF Reply
    <2>6. PlainCall(rw)
      BY <2>2
    <2>7. /\ DefaultRE2(re) /\ PlainRewrite(rw) /\ NUL \notin ToSet(str)
          /\ Utf8(rw) /\ NUL \notin ToSet(rw)
      BY <2>6 DEF PlainCall, PlainRewrite, DefaultOptions, DefaultRE2
    <2>8. Found = m
      BY <2>2, <2>7, HayIs DEF Found, Ready
    <2>9. F.kind \in {"text", "null"}
      BY <2>2, <2>3, <2>4, <2>6, PlainOutcomes
    <2> HIDE DEF m
    <2>10. CASE F.kind = "text"
      <3>1. ReplaceOutcome(rw).ret = TRUE /\ ReplaceOutcome(rw).str = Documented(rw)
        BY <2>2, <2>3, <2>6, <2>10, PlainOutcomes
      <3>2. Documented(rw) = SubSeq(str, 1, Found[1][1]) \o F.text \o SubSeq(str, Found[1][2] + 1, Len(str))
        BY <2>2, <2>3, <2>6, <2>10, PlainReplaced
      <3>3. Found # <<>>
        BY <2>2, <2>3, <2>7, <2>10, PlainSays
      <3>4. out' = F.text
        BY <2>4, <2>10
      <3> QED
        BY <2>2, <2>5, <2>8, <2>10, <3>1, <3>2, <3>3, <3>4
    <2>11. CASE F.kind = "null"
      <3>1. ReplaceOutcome(rw).ret = FALSE
        BY <2>2, <2>3, <2>6, <2>11, PlainOutcomes
      <3>2. Asked(rw) => Matched(Nvec(rw)).ret = (Found # <<>>)
        BY <2>2, <2>7, FirstSays
      <3>3. m = <<>> => out' = out
        BY <2>4, <2>8, <2>11, <3>2
      <3> QED
        BY <2>2, <2>5, <2>11, <3>1, <3>3
    <2> QED
      BY <2>9, <2>10, <2>11
  <1> QED
    BY <1>1, InitInv, NextInv, PTL DEF Spec, ExtractAgreesWithReplace, ExtractLikeReplace
------------------------------------------------------------------------------
(***************************************************************************)
(* Panics.                                                                 *)
(***************************************************************************)

\* On UTF-8 strings, a rewrite string that CheckRewriteString accepts makes neither
\* rure_rewrite nor the second compilation panic.
LEMMA CheckedRewritten ==
  ASSUME CharacterSpans, Ready, DefaultRE2(re), Utf8(str), NEW rw \in Rewrites, Utf8(rw),
         NUL \notin ToSet(rw), CheckRewrite(rw, re.ncap)
  PROVE  /\ FirstRewritten(rw).kind \in {"text", "null"}
         /\ FirstRewritten(rw).kind = "text" => Again # NULL /\ Utf8(Hay)
  <1> DEFINE F == FirstRewritten(rw)
             n == Nvec(rw)
             groups == FoundGroups(n)
  <1>1. /\ rw \in Seq(0..255) /\ n \in Nat
        /\ Asked(rw) => re.ok
    BY AskedSays
  <1>2. /\ ~Asked(rw) => F = Null
        /\ Asked(rw) /\ Found = <<>> => F = Null
        /\ Asked(rw) /\ Found # <<>> => F = Rewrite(rw, groups)
    BY FirstSays
  <1>3. Null.kind = "null"
    BY DEF Null
  <1>4. Utf8(Hay)
    BY CrateAssumption DEF Hay, Ready
  <1> HIDE DEF F, n
  <1>5. CASE ~Asked(rw) \/ Found = <<>>
    BY <1>2, <1>3, <1>5 DEF F
  <1>6. CASE Asked(rw) /\ Found # <<>>
    <2>1. F = Rewrite(rw, groups) /\ re.ok
      BY <1>1, <1>2, <1>6
    <2>2. Again = re.prog /\ Again # NULL
      BY <2>1, FoundSays
    <2>3. re.pattern \in Patterns /\ str \in Texts
      BY RE2Says DEF Ready, RE2Fields
    <2>4. ASSUME NEW i \in Nat PROVE Utf8(GroupText(Hay, Found, i))
      <3>1. CASE i + 1 \in DOMAIN Found
        <4>1. Found = Captures(Default(re.pattern), CString(str)) /\ Hay = CString(str)
          BY <2>2 DEF Found, Again, Hay
        <4>2. \A k \in DOMAIN Found : Utf8(GroupText(Hay, Found, k - 1))
          BY <2>2, <2>3, <4>1 DEF CharacterSpans, Again
        <4>3. (i + 1) - 1 = i
          OBVIOUS
        <4> QED
          BY <3>1, <4>2, <4>3
      <3>2. CASE i + 1 \notin DOMAIN Found
        <4>1. GroupText(Hay, Found, i) = <<>>
          BY <3>2 DEF GroupText
        <4> QED
          BY <4>1, CrateAssumption
      <3> QED
        BY <3>1, <3>2
    <2>5. groups \in Seq(Seq(0..255))
      BY <1>1, <1>6, <2>1, FoundGroupsAre
    <2>6. \A g \in ToSet(groups) : Utf8(g)
      <3> SUFFICES ASSUME NEW i \in DOMAIN groups PROVE Utf8(groups[i])
        BY DEF ToSet
      <3>1. DOMAIN groups = 1..n /\ groups[i] = GroupText(Hay, Found, i - 1)
        BY DEF FoundGroups, GroupTexts
      <3>2. i - 1 \in Nat
        BY <1>1, <3>1
      <3> QED
        BY <2>4, <3>1, <3>2
    <2> HIDE DEF groups
    <2>7. Bad(rw, groups) # {Len(rw)}
      <3> SUFFICES ASSUME Len(rw) \in Bad(rw, groups) PROVE FALSE
        OBVIOUS
      <3>1. Len(rw) \in Escapes(rw)
        BY DEF Bad
      <3>2. Len(rw) + 1 \notin DOMAIN rw
        BY <1>1
      <3> QED
        BY <3>1, <3>2 DEF CheckRewrite, IsBackslash, IsDigit
    <2>8. F.kind \in {"text", "null", "panic"} /\ F.kind # "panic"
      BY <1>1, <2>1, <2>5, <2>6, <2>7, RewriteCases
    <2> QED
      BY <1>4, <2>2, <2>8 DEF F
  <1> QED
    BY <1>5, <1>6

Fails(rw) ==
  \/ FirstRewritten(rw).kind = "panic"
  \/ FirstRewritten(rw).kind = "text" /\ ~(Again # NULL /\ Utf8(Hay))

\* When Replace or GlobalReplace ends the process, the string is as it was.
LEMMA CrashSays ==
  ASSUME Ready, NEW rw \in Rewrites, Defined(rw)
  PROVE  /\ ReplaceOutcome(rw).crashed => Fails(rw) /\ ReplaceOutcome(rw).str = str
         /\ GlobalReplaceOutcome(rw).crashed => Fails(rw) /\ GlobalReplaceOutcome(rw).str = str
  <1> DEFINE F == FirstRewritten(rw)
             one == OneReplaced(rw, Spans(Again, Hay))
             all == AllReplaced(rw, Spans(Again, Hay))
             o == ReplaceOutcome(rw)
             g == GlobalReplaceOutcome(rw)
  <1>1. F.kind \in {"text", "null", "panic"}
    BY FirstTyped
  <1>2. o = Ending(F, FALSE, one) /\ g = Ending(F, 0, all)
    BY DEF ReplaceOutcome, GlobalReplaceOutcome
  <1>3. one.crashed = FALSE /\ all.crashed = FALSE
    BY DEF OneReplaced, AllReplaced, Outcome
  <1> HIDE DEF F, one, all, o, g
  <1>4. /\ Crash(FALSE).str = str /\ Crash(0).str = str
        /\ Outcome(FALSE, str).crashed = FALSE /\ Outcome(0, str).crashed = FALSE
    BY DEF Crash, Outcome
  <1>5. o.crashed => Fails(rw) /\ o.str = str
    BY <1>1, <1>2, <1>3, <1>4 DEF Ending, Fails, F
  <1>6. g.crashed => Fails(rw) /\ g.str = str
    BY <1>1, <1>2, <1>3, <1>4 DEF Ending, Fails, F
  <1> QED
    BY <1>5, <1>6 DEF o, g

\* Nor does any of the calls.
LEMMA CheckedStep ==
  ASSUME CharacterSpans, RewriteInv, CheckedNeverPanics, [Next]_vars
  PROVE  CheckedNeverPanics'
  <1> SUFFICES ASSUME ~crashed, crashed', Next, DefaultOptions, Utf8(str'), Utf8(reply'.rewrite),
                      NUL \notin ToSet(reply'.rewrite), CheckRewrite(reply'.rewrite, re.ncap), re' = re
               PROVE  FALSE
    <2>1. ASSUME crashed, Next PROVE FALSE
      BY <2>1 DEF Next, Replace, GlobalReplace, Extract, CheckRewriteString, Resume, Idle
    <2>2. ASSUME Next PROVE re' = re
      BY <2>2 DEF Next, Replace, GlobalReplace, Extract, CheckRewriteString, Resume
    <2>3. CASE UNCHANGED vars
      BY <2>3 DEF vars, CheckedNeverPanics, DefaultOptions
    <2> QED
      BY <2>1, <2>2, <2>3 DEF CheckedNeverPanics, DefaultOptions
  <1>1. PICK rw \in Rewrites : Answers(reply'.call, rw)
    BY StepsSay
  <1>2. Ready /\ reply'.rewrite = rw /\ Utf8(rw) /\ NUL \notin ToSet(rw) /\ CheckRewrite(rw, re.ncap)
    BY <1>1 DEF Answers
  <1>3. DefaultRE2(re)
    BY DEF DefaultOptions, DefaultRE2
  <1>4. Utf8(str) => ~Fails(rw)
    BY <1>2, <1>3, CheckedRewritten DEF Fails
  <1>5. CASE Replace(rw)
    <2>1. Defined(rw) /\ str' = ReplaceOutcome(rw).str /\ crashed' = ReplaceOutcome(rw).crashed
      BY <1>5 DEF Replace
    <2>2. Fails(rw) /\ str' = str
      BY <1>2, <2>1, CrashSays
    <2> QED
      BY <1>4, <2>2
  <1>6. CASE GlobalReplace(rw)
    <2>1. /\ Defined(rw) /\ str' = GlobalReplaceOutcome(rw).str
          /\ crashed' = GlobalReplaceOutcome(rw).crashed
      BY <1>6 DEF GlobalReplace
    <2>2. Fails(rw) /\ str' = str
      BY <1>2, <2>1, CrashSays
    <2> QED
      BY <1>4, <2>2
  <1>7. CASE Extract(rw)
    <2>1. str' = str /\ crashed' = (FirstRewritten(rw).kind = "panic")
      BY <1>7 DEF Extract
    <2>2. Fails(rw)
      BY <2>1 DEF Fails
    <2> QED
      BY <1>4, <2>1, <2>2
  <1>8. CASE CheckRewriteString(rw)
    <2>1. crashed' = ~Utf8(CString(rw))
      BY <1>8 DEF CheckRewriteString
    <2>2. CString(rw) = rw
      BY <1>2, <1>3, AskedSays
    <2> QED
      BY <1>2, <2>1, <2>2
  <1> QED
    BY <1>1, <1>5, <1>6, <1>7, <1>8 DEF Answers

\* With UTF-8 strings and the default options, no call panics on a rewrite string that
\* CheckRewriteString accepts, whatever the pattern of characters (lib_internal.rs).
THEOREM CheckedCallsNeverPanic == ASSUME CharacterSpans PROVE Spec => []CheckedNeverPanics
  <1>1. Init => CheckedNeverPanics
    BY DEF Init, CheckedNeverPanics
  <1>2. CharacterSpans /\ RewriteInv /\ CheckedNeverPanics /\ [Next]_vars => CheckedNeverPanics'
    BY CheckedStep
  <1>3. RewriteInv /\ CheckedNeverPanics /\ [Next]_vars => CheckedNeverPanics'
    BY <1>2
  <1> QED
    BY <1>1, <1>3, InitInv, NextInv, PTL DEF Spec
=============================================================================
