---------------------------- MODULE MCRE2Match ----------------------------
(***************************************************************************)
(* Instances of RE2Match.  A pattern is a name; Code gives the program of  *)
(* every name, and CaptureTable the answers of the engine of Regex for     *)
(* every haystack that can come up.                                        *)
(***************************************************************************)
EXTENDS RE2Match, TLC

R == INSTANCE Regex

MCPatterns == {"", "(", "[^all]", "(a)", "a*", "(a|ab)", "(.)(1)", "(e'+)", "(a)NULb", "(a)|NULb"}
MCEmptyPattern == ""
MCRecode(p) == IF p = "(e'+)" THEN "utf8:(e'+)" ELSE p
MCWhole(p) == "^(" \o p \o ")$"
MCUtf8Pattern(p) == p # "(e'+)"
MCCPattern(p) ==
  CASE p = "(a)NULb" -> "(a)" [] p = MCWhole("(a)NULb") -> "^((a)"
    [] p = "(a)|NULb" -> "(a)|" [] p = MCWhole("(a)|NULb") -> "^((a)|"
    [] OTHER -> p

\* A Latin-1 letter on its own is not UTF-8: (e'+) is compiled only when recoded.
BaseCode ==
  LET Group(g, code) == <<R!Save(2 * g)>> \o code \o <<R!Save(2 * g + 1)>>
      a == <<R!Byte(97)>>
      b == <<R!Byte(98)>>
  IN [p \in (MCPatterns \ {"(e'+)"}) \cup {"utf8:(e'+)", "^((a)", "(a)|", "^((a)|"} |->
       CASE p = "" -> <<>>
         [] p \in {"(", "[^all]", "^((a)", "^((a)|"} -> <<R!Refused>>
         [] p = "(a)" -> Group(1, a)
         [] p = "(a)NULb" -> Group(1, a) \o <<R!Byte(0)>> \o b
         [] p = "(a)|" -> <<R!Split(1, 4)>> \o Group(1, a)
         [] p = "(a)|NULb" -> <<R!Split(1, 5)>> \o Group(1, a) \o <<R!Jump(3), R!Byte(0)>> \o b
         [] p = "a*" -> <<R!Split(1, 3)>> \o a \o <<R!Jump(-2)>>
         [] p = "(a|ab)" -> Group(1, <<R!Split(1, 3)>> \o a \o <<R!Jump(3)>> \o a \o b)
         [] p = "(.)(1)" -> Group(1, <<R!Any>>) \o Group(2, <<R!Byte(49)>>)
         [] p = "utf8:(e'+)" -> Group(1, <<R!Byte(195), R!Byte(169), R!Split(-2, 1)>>)]

Code ==
  [p \in DOMAIN BaseCode \cup {MCWhole(q) : q \in DOMAIN BaseCode} |->
     IF p \in DOMAIN BaseCode THEN BaseCode[p]
     ELSE LET q == CHOOSE q \in DOMAIN BaseCode : p = MCWhole(q)
          IN <<R!Bol>> \o BaseCode[q] \o <<R!Eol>>]

Opts(l, d, n, c) == [latin1 |-> l, dot_nl |-> d, never_nl |-> n, never_capture |-> c]
MCOptions ==
  { Opts(FALSE, FALSE, FALSE, FALSE), Opts(FALSE, TRUE, FALSE, FALSE),
    Opts(FALSE, FALSE, TRUE, FALSE), Opts(FALSE, FALSE, FALSE, TRUE),
    Opts(TRUE, FALSE, FALSE, FALSE) }

\* 97 a, 98 b, 49 '1', 10 newline, 0 NUL, 233 a Latin-1 letter.
MCTexts ==
  { <<>>, <<97>>, <<98, 97>>, <<97, 98>>, <<97, 0, 97>>, <<97, 0, 98>>, <<0, 97>>,
    <<98, 10, 97>>, <<10, 49>>, <<98, 97, 49>>, <<97, 98, 97>>, <<233, 233, 97>> }

MCBuild(p, flags) == IF R!Compiles(Code[p]) THEN [pat |-> p, flags |-> flags] ELSE NULL
MCEmptyClassError(p) == p = "[^all]"

Flags == {CompileFlags(o) : o \in MCOptions}
Hays == Haystacks

\* f @@ <<>> is f: it makes TLC evaluate the table once, and for all.
CaptureTable ==
  [p \in {q \in DOMAIN Code : R!Compiles(Code[q])} |->
    [f \in Flags |-> [h \in Hays |-> R!Find(R!Program(Code[p], f), h)] @@ <<>>] @@ <<>>] @@ <<>>

MCNumGroups(prog) == R!CapturesLen(R!Program(Code[prog.pat], prog.flags))
MCCaptures(prog, hay) == IF prog = NULL THEN <<>> ELSE CaptureTable[prog.pat][prog.flags][hay]

\* The patterns match characters.
ASSUME CharacterPatterns == LetterSpans
=============================================================================
