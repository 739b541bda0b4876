---------------------------- MODULE MCPrefilter ----------------------------
(***************************************************************************)
(* Instances of Prefilter: all patterns of up to three pieces, those of    *)
(* four around a class or an escape, and some of the repository's tests,   *)
(* with letters a, b, c, the letter A and a letter of two bytes.           *)
(***************************************************************************)
EXTENDS Prefilter, TLC

Letters == <<"0", "2", "A", "a", "b", "c", "d", "x">>
Place(c) == CHOOSE k \in DOMAIN Letters : Letters[k] = c
MCCharsFromTo(x, y) == SubSeq(Letters, Place(x), Place(y))
MCAlnum == ToSet(Letters)
MCWide == {"<E9>"}
MCEscapable == {"\\", ".", "+", "*", "?", "(", ")", "|", "[", "]", "{", "}", "^", "$"}
MCChars == MCAlnum \cup MCWide \cup MCEscapable \cup {"-", ",", "!", "_", " ", "'", "=", Zero}
MCLowerChar(c) == IF c = "A" THEN "a" ELSE c
MCByteLen(c) == IF c = "<E9>" THEN 2 ELSE 1

LitA == Lit("a")
LitB == Lit("b")
Bracketed == { Class(<<"a", "b">>), CharRange("a", "c"), Rep(Class(<<"b", "c">>), "+"),
               Group(<<<<"a", "b">>, <<"b">>>>), Rep(Group(<<<<"a", "b">>, <<"c", "b">>>>), "{2}") }
Plain == {LitA, Lit("A"), Dot, Digit, Rep(LitB, "+"), Rep(Dot, "*")}
Odd == {Lit("<E9>"), Class(<<"-", "a">>), Class(<<"]", "{">>), Rep(LitA, "?")}

UpTo(n, S) == UNION {[1..k -> S] : k \in 0..n}

MCRegexps ==
  UpTo(3, Bracketed \cup Plain \cup Odd)
    \cup UpTo(5, {LitA, Dot, Class(<<"b", "c">>)})
    \cup [1..5 -> {LitA, LitB, Digit, Dot}]

Punctuation == {".", "|", Zero, "_", ","}
MCLiterals == UpTo(3, {"a", "0"} \cup Punctuation) \cup [1..4 -> {"a", "."}] \cup UpTo(2, {"<E9>", "a", "(", "\\"})
=============================================================================
