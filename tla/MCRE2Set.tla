------------------------------ MODULE MCRE2Set ------------------------------
(***************************************************************************)
(* Instances of RE2Set: the patterns a and b, one that does not compile,   *)
(* and one (\pN) that compiles with the flags of Add but not with those of *)
(* Compile; texts with an a, with both, and a view of the first byte of    *)
(* "ab", of which Match sees all.                                          *)
(***************************************************************************)
EXTENDS RE2Set, TLC

MCPatterns == {"a", "b", "(", "\\pN"}
MCAnchors == {"UNANCHORED", "ANCHOR_BOTH"}
MCTexts == {"a", "ab", "a|b"}
MCCText(t) == IF t = "a|b" THEN "ab" ELSE t

MCAccepts(rp) == rp.pattern # "("
MCSetAccepts(rp) == rp.pattern \in {"a", "b"}
MCHits(rp, t) == IF rp.eol THEN t = rp.pattern ELSE rp.pattern = "a" \/ t = "ab"

MCGarbage == {0, 7}
Symmetry == Permutations(Objs) \cup Permutations(Progs)
=============================================================================
