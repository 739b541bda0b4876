------------------------------- MODULE Syntax -------------------------------
(***************************************************************************)
(* The part of the regex crate's pattern language that the atom compiler   *)
(* (Prefilter) has branches for: how a pattern is written and which words  *)
(* it matches, the reference against which the atoms are judged.           *)
(*                                                                         *)
(* A pattern is a sequence of pieces, a text a sequence of characters.     *)
(***************************************************************************)
EXTENDS Naturals, Sequences, SequencesExt

CONSTANTS
  Chars,               \* the characters
  CharsFromTo(_, _)    \* those of a range, in order

Other == "other"             \* a character that no pattern is written with

Lit(c) == [kind |-> "lit", char |-> c]
Escaped(c) == [kind |-> "escaped", char |-> c]        \* \. and the like
Dot == [kind |-> "dot"]
Digit == [kind |-> "digit"]                           \* \d
Class(cs) == [kind |-> "class", chars |-> cs]         \* [abc]
CharRange(x, y) == [kind |-> "range", from |-> x, to |-> y]   \* [x-y]
Group(alts) == [kind |-> "group", alts |-> alts]      \* (ab|c)
Rep(p, op) == [kind |-> "rep", piece |-> p, op |-> op]

\* The characters with a meaning of their own, and the pieces that a pattern is made of.
\* A repeated piece is not itself a repetition.
Marks == {"(", ")", "|", "[", "]", "{", "}", ".", "*", "+", "?", "\\"}

IsSingle(p) ==
  \/ p.kind = "lit" /\ p.char \in Chars \ Marks /\ p = Lit(p.char)
  \/ p.kind = "escaped" /\ p.char \in Chars /\ p = Escaped(p.char)
  \/ p \in {Dot, Digit}
  \/ p.kind = "class" /\ p.chars \in Seq(Chars) /\ p = Class(p.chars)
  \/ p.kind = "range" /\ {p.from, p.to} \subseteq Chars /\ p = CharRange(p.from, p.to)
  \/ p.kind = "group" /\ p.alts \in Seq(Seq(Chars \ Marks)) /\ p = Group(p.alts)

IsPiece(p) ==
  \/ IsSingle(p)
  \/ p.kind = "rep" /\ IsSingle(p.piece) /\ p.op \in {"*", "+", "?", "{2}"} /\ p = Rep(p.piece, p.op)

Unrepeated(p) == IF p.kind = "rep" THEN p.piece ELSE p
------------------------------------------------------------------------------
\* How a piece is written.
Joined(alts) == FlattenSeq([k \in DOMAIN alts |-> IF k = 1 THEN alts[k] ELSE <<"|">> \o alts[k]])

UnrepeatedText(p) ==
  CASE p.kind = "lit" -> <<p.char>>
    [] p.kind = "escaped" -> <<"\\", p.char>>
    [] p.kind = "dot" -> <<".">>
    [] p.kind = "digit" -> <<"\\", "d">>
    [] p.kind = "class" -> <<"[">> \o p.chars \o <<"]">>
    [] p.kind = "range" -> <<"[", p.from, "-", p.to, "]">>
    [] p.kind = "group" -> <<"(">> \o Joined(p.alts) \o <<")">>

OpText(op) == IF op = "{2}" THEN <<"{", "2", "}">> ELSE <<op>>
PieceText(p) == UnrepeatedText(Unrepeated(p)) \o IF p.kind = "rep" THEN OpText(p.op) ELSE <<>>
Text(pieces) == FlattenSeq([k \in DOMAIN pieces |-> PieceText(pieces[k])])

\* What a piece matches.  Other stands for the characters a dot or \d matches, and
\* two repetitions for any larger number of them.
UnrepeatedWords(p) ==
  CASE p.kind \in {"lit", "escaped"} -> {<<p.char>>}
    [] p.kind \in {"dot", "digit"} -> {<<Other>>}
    [] p.kind = "class" -> {<<c>> : c \in ToSet(p.chars)}
    [] p.kind = "range" -> {<<c>> : c \in ToSet(CharsFromTo(p.from, p.to))}
    [] p.kind = "group" -> ToSet(p.alts)

Concat(V, W) == {v \o w : v \in V, w \in W}

Repeated(W, op) ==
  CASE op = "*" -> {<<>>} \cup W \cup Concat(W, W)
    [] op = "+" -> W \cup Concat(W, W)
    [] op = "?" -> {<<>>} \cup W
    [] op = "{2}" -> Concat(W, W)

PieceWords(p) ==
  IF p.kind = "rep" THEN Repeated(UnrepeatedWords(p.piece), p.op) ELSE UnrepeatedWords(p)

Words(pieces) == FoldLeft(LAMBDA W, p : Concat(W, PieceWords(p)), {<<>>}, pieces)

OccursIn(s, w) == s \in SubSeqs(w)
=============================================================================
