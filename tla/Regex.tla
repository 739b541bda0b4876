------------------------------- MODULE Regex -------------------------------
(***************************************************************************)
(* The regex crate, as far as re2-rust depends on it (external code).      *)
(*                                                                         *)
(* A compiled program is a sequence of instructions with the flags it was  *)
(* compiled under, executed by backtracking: of the runs that start at the *)
(* leftmost possible offset, the one the pattern prefers wins.  Jumps are  *)
(* relative, so that programs concatenate.  Only model-checking instances  *)
(* use this module: the specifications and their proofs see the crate      *)
(* through CONSTANT operators.                                             *)
(***************************************************************************)
EXTENDS Integers, Sequences, FiniteSetsExt

Byte(c)     == [k |-> "byte", c |-> c]
Any         == [k |-> "any"]                        \* .
Split(x, y) == [k |-> "split", x |-> x, y |-> y]    \* try the jump x, then y
Jump(x)     == [k |-> "jump", x |-> x]
Save(i)     == [k |-> "save", i |-> i]    \* 2g, 2g + 1: group g starts, ends
Bol         == [k |-> "bol"]
Eol         == [k |-> "eol"]
Refused     == [k |-> "refused"]          \* what makes a pattern not compile

Program(code, flags) == [code |-> code, flags |-> flags]
Compiles(code) == \A i \in DOMAIN code : code[i] # Refused

NewLine == 10

\* Length of the UTF-8 character at offset pos of hay (one or two bytes are
\* all that these instances use); 0 when there is none.
CharLen(hay, pos) ==
  CASE pos >= Len(hay) -> 0
    [] pos < Len(hay) /\ hay[pos + 1] < 128 -> 1
    [] pos + 1 < Len(hay) /\ hay[pos + 1] \in 194..223 /\ hay[pos + 2] \in 128..191 -> 2
    [] OTHER -> 0

\* The bytes that instruction "any" takes at offset pos, 0 when it fails.
AnyLen(hay, pos, flags) ==
  IF pos < Len(hay) /\ ("dotnl" \in flags \/ hay[pos + 1] # NewLine)
  THEN IF "unicode" \in flags THEN CharLen(hay, pos) ELSE 1
  ELSE 0

\* Regex::captures_len, less the implicit group 0.
CapturesLen(prog) ==
  Cardinality({g \in 1..Len(prog.code) : Save(2 * g) \in {prog.code[i] : i \in DOMAIN prog.code}})

Fail == <<>>

\* The best run of prog on hay from offset start: where each group, and group 0,
\* starts and ends (slot 2g + 1 and 2g + 2 of the result, -1 if unset), or Fail.
BestFrom(prog, hay, start) ==
  LET code == prog.code
      Run[pc \in 1..Len(code) + 1, pos \in 0..Len(hay)] ==
        IF pc = Len(code) + 1
        THEN [s \in 1..2 * (CapturesLen(prog) + 1) |-> IF s = 1 THEN start ELSE IF s = 2 THEN pos ELSE -1]
        ELSE LET ins == code[pc]
             IN CASE ins.k = "byte" ->
                       IF pos < Len(hay) /\ hay[pos + 1] = ins.c THEN Run[pc + 1, pos + 1] ELSE Fail
                  [] ins.k = "any" ->
                       LET n == AnyLen(hay, pos, prog.flags)
                       IN IF n > 0 THEN Run[pc + 1, pos + n] ELSE Fail
                  [] ins.k = "split" ->
                       LET first == Run[pc + ins.x, pos]
                       IN IF first # Fail THEN first ELSE Run[pc + ins.y, pos]
                  [] ins.k = "jump" -> Run[pc + ins.x, pos]
                  [] ins.k = "save" ->
                       LET rest == Run[pc + 1, pos]
                       IN IF rest # Fail /\ rest[ins.i + 1] = -1
                          THEN [rest EXCEPT ![ins.i + 1] = pos] ELSE rest
                  [] ins.k = "bol" -> IF pos = 0 THEN Run[pc + 1, pos] ELSE Fail
                  [] ins.k = "eol" -> IF pos = Len(hay) THEN Run[pc + 1, pos] ELSE Fail
  IN Run[1, start]

\* Regex::captures_at: <<>> without a match from offset from on; otherwise the
\* span <<start, end>> of the match followed by that of each group (<<>> if it took
\* no part).
FindAt(prog, hay, from) ==
  LET starts == {s \in from..Len(hay) : BestFrom(prog, hay, s) # Fail}
      best == BestFrom(prog, hay, Min(starts))
  IN IF starts = {} THEN <<>>
     ELSE [g \in 1..CapturesLen(prog) + 1 |->
             IF best[2 * g] = -1 THEN <<>> ELSE <<best[2 * g - 1], best[2 * g]>>]

Find(prog, hay) == FindAt(prog, hay, 0)

\* Regex::captures_iter: the successive matches; an empty one moves on by one
\* character and does not count right after another match.
FindIter(prog, hay) ==
  LET Step(e) == e + Max({1, CharLen(hay, e)})
      From[pos \in 0..Len(hay) + 1, last \in -1..Len(hay)] ==
        LET m == IF pos > Len(hay) THEN <<>> ELSE FindAt(prog, hay, pos)
            end == m[1][2]
        IN CASE m = <<>> -> <<>>
             [] m # <<>> /\ m[1][1] < end -> <<m>> \o From[end, end]
             [] m # <<>> /\ m[1][1] = end -> (IF end = last THEN <<>> ELSE <<m>>) \o From[Step(end), end]
  IN From[0, -1]

\* Captures::expand: $n, $name and ${n} stand for groups, $$ for a dollar.
Dollar == 36
Digits == 48..57
WordBytes == Digits \cup (65..90) \cup (97..122) \cup {95}

GroupText(name, hay, m) ==
  LET n == IF Len(name) = 1 /\ name[1] \in Digits THEN name[1] - 48 ELSE Len(m)
  IN IF n >= Len(m) \/ m[n + 1] = <<>> THEN <<>> ELSE SubSeq(hay, m[n + 1][1] + 1, m[n + 1][2])

ExpandTemplate(template, hay, m) ==
  LET n == Len(template)
      At(i, c) == i <= n /\ template[i] = c
      WordEnd(i) == Max({i} \cup {j \in i + 1..n : \A k \in i + 1..j : template[k] \in WordBytes})
      Braces(i) == {j \in i + 2..n : template[j] = 125}
      X[i \in 1..n + 1] ==
        CASE i > n -> <<>>
          [] i <= n /\ ~At(i, Dollar) -> <<template[i]>> \o X[i + 1]
          [] At(i, Dollar) /\ At(i + 1, Dollar) -> <<Dollar>> \o X[i + 2]
          [] At(i, Dollar) /\ At(i + 1, 123) /\ Braces(i) # {} ->
               GroupText(SubSeq(template, i + 2, Min(Braces(i)) - 1), hay, m) \o X[Min(Braces(i)) + 1]
          [] OTHER ->
               IF WordEnd(i) = i THEN <<Dollar>> \o X[i + 1]
               ELSE GroupText(SubSeq(template, i + 1, WordEnd(i)), hay, m) \o X[WordEnd(i) + 1]
  IN X[1]

\* str::from_utf8 succeeds (for characters of one or two bytes).
ValidUtf8(s) ==
  LET Ok[i \in 0..Len(s)] == i = Len(s) \/ (CharLen(s, i) > 0 /\ Ok[i + CharLen(s, i)])
  IN Ok[0]
=============================================================================
