---------------------------- MODULE MCRE2Rewrite ----------------------------
(***************************************************************************)
(* Instances of RE2Rewrite: all rewrite strings of up to three bytes over  *)
(* backslash, three digits, "$" and a letter, and some with two escapes, a *)
(* NUL, or a byte that is not UTF-8.                                       *)
(***************************************************************************)
EXTENDS RE2Rewrite, TLC

R == INSTANCE Regex

MCPatterns == {"", "(", "(a)|b", "a*", "(.)(1)", "(e')"}
MCEmptyPattern == ""
MCRecode(p) == IF p = "(e')" THEN "utf8:(e')" ELSE p
MCWhole(p) == "^(" \o p \o ")$"
MCUtf8Pattern(p) == p # "(e')"
MCCPattern(p) == p

BaseCode ==
  LET Group(g, code) == <<R!Save(2 * g)>> \o code \o <<R!Save(2 * g + 1)>>
      a == <<R!Byte(97)>>
  IN [p \in (MCPatterns \ {"(e')"}) \cup {"utf8:(e')"} |->
       CASE p = "" -> <<>>
         [] p = "(" -> <<R!Refused>>
         [] p = "(a)|b" -> <<R!Split(1, 5)>> \o Group(1, a) \o <<R!Jump(2), R!Byte(98)>>
         [] p = "a*" -> <<R!Split(1, 3)>> \o a \o <<R!Jump(-2)>>
         [] p = "(.)(1)" -> Group(1, <<R!Any>>) \o Group(2, <<R!Byte(49)>>)
         [] p = "utf8:(e')" -> Group(1, <<R!Byte(195), R!Byte(169)>>)]

Code ==
  [p \in DOMAIN BaseCode \cup {MCWhole(q) : q \in DOMAIN BaseCode} |->
     IF p \in DOMAIN BaseCode THEN BaseCode[p]
     ELSE LET q == CHOOSE q \in DOMAIN BaseCode : p = MCWhole(q)
          IN <<R!Bol>> \o BaseCode[q] \o <<R!Eol>>]

Opts(on) == [latin1 |-> "latin1" \in on, dot_nl |-> "dot_nl" \in on,
             never_nl |-> "never_nl" \in on, never_capture |-> "never_capture" \in on]
MCOptions == {Opts({}), Opts({"dot_nl"}), Opts({"never_nl"}), Opts({"never_capture"}), Opts({"latin1"})}

MCTexts == { <<>>, <<97>>, <<98, 97>>, <<97, 0, 97>>, <<98, 49, 97, 49>>, <<233, 97>>,
             <<195, 169, 49>>, <<10, 49>>, <<195, 169, 10, 49, 49>> }

Alphabet == {92, 48, 49, 50, 36, 97}
MCRewrites ==
  UNION {[1..n -> Alphabet] : n \in 0..3}
    \cup { <<92, 49, 92, 50>>, <<92, 49, 92, 49>>, <<92, 50, 36, 49>>, <<97, 0>>, <<0, 92>>, <<233>> }

MCBuild(p, flags) == IF R!Compiles(Code[p]) THEN [pat |-> p, flags |-> flags] ELSE NULL
MCEmptyClassError(p) == FALSE
MCUtf8(s) == R!ValidUtf8(s)

Flags == {E!CompileFlags(o) : o \in MCOptions} \cup {{"unicode"}}
Hays == LET pieces == UNION {SubSeqs(t) : t \in MCTexts}
        IN pieces \cup {E!ConvertLatin1ToUTF8(s) : s \in pieces}

Progs(p, f) == R!Program(Code[p], f)
CaptureTable ==
  [p \in {q \in DOMAIN Code : R!Compiles(Code[q])} |->
    [f \in Flags |-> [h \in Hays |-> R!Find(Progs(p, f), h)] @@ <<>>] @@ <<>>] @@ <<>>
SpansTable ==
  [p \in {q \in DOMAIN Code : R!Compiles(Code[q])} |->
    [f \in Flags |-> [h \in Hays |-> R!FindIter(Progs(p, f), h)] @@ <<>>] @@ <<>>] @@ <<>>

MCNumGroups(prog) == R!CapturesLen(Progs(prog.pat, prog.flags))
MCCaptures(prog, hay) == IF prog = NULL THEN <<>> ELSE CaptureTable[prog.pat][prog.flags][hay]
MCSpans(prog, hay) == SpansTable[prog.pat][prog.flags][hay]
MCExpand(template, hay, m) == R!ExpandTemplate(template, hay, m)

ASSUME CharacterPatterns == CharacterSpans
=============================================================================
