--------------------------- MODULE MCFilteredRE2 ---------------------------
(***************************************************************************)
(* Instances of FilteredRE2: a literal, an alternation, a pattern without  *)
(* atoms (those of the limit 4), a pattern that a NUL cuts to "total", and *)
(* a Latin-1 letter.                                                       *)
(***************************************************************************)
EXTENDS FilteredRE2, TLC

RE(p, latin1) == [pattern |-> p, latin1 |-> latin1]
MCAdditions ==
  {RE("abc", FALSE), RE("(def|abc)", FALSE), RE("total<NUL>", FALSE), RE("<E9>", FALSE),
   RE("<E9>", TRUE)}
PlainAdditions == {RE("abc", FALSE), RE("x", FALSE)}
SharedAdditions == {RE("abc", FALSE), RE("def", FALSE)}
MCTotalKey == "total"
MCTexts == {"abc", "def x <E9>", "abc total<NUL>"}

\* Atoms in a text are the words it is written with here.
Words == [t \in MCTexts |->
            CASE t = "abc" -> {"abc"}
              [] t = "def x <E9>" -> {"def", "x", "<E9>"}
              [] t = "abc total<NUL>" -> {"abc", "total", "total<NUL>"}]
MCOccurs(a, t) == a \in Words[t]

MCUtf8(p) == p # "<E9>"
MCCString(p) == IF p = "total<NUL>" THEN "total" ELSE p
MCOk(p, latin1) == latin1 \/ MCUtf8(p)
MCPanics(s, m) == ~MCUtf8(s)
MCMatches(p, latin1, t) ==
  IF p = "(def|abc)" THEN {"abc", "def"} \cap Words[t] # {} ELSE p \in Words[t]

MCAtoms(p, m) ==
  CASE p = "(def|abc)" -> IF m <= 3 THEN <<"def", "abc">> ELSE <<>>
    [] p = "abc" -> IF m <= 3 THEN <<"abc">> ELSE <<>>
    [] p \in {"def", "total"} -> <<p>>
    [] OTHER -> <<>>
MCLower(s) == s

Symmetry == Permutations(Objs)
=============================================================================
