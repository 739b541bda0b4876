----------------------------- MODULE RE2Rewrite -----------------------------
(***************************************************************************)
(* RE2::Replace, GlobalReplace, Extract and CheckRewriteString             *)
(* (re2/re2.cc), on top of the Match of RE2Match and of the Rust functions *)
(* that read a rewrite string.  Five pieces of code scan that string, each *)
(* in its own way: MaxSubmatch, CheckRewriteString, Rewrite, the           *)
(* conversion to a template of the regex crate, and the crate itself.      *)
(*                                                                         *)
(* A Rust panic, a null regex and a null C string end the process.         *)
(***************************************************************************)
EXTENDS Integers, Sequences, SequencesExt

CONSTANTS
  NULL, Patterns, EmptyPattern, Options, Texts, Build(_, _), Utf8Pattern(_),
  CPattern(_), Recode(_), Whole(_), EmptyClassError(_), NumGroups(_), Captures(_, _),
  AddrSpace, Base, MaxArgs,  \* as in RE2Match
  Rewrites,          \* the rewrite strings, sequences of bytes
  Utf8(_),           \* str::from_utf8 accepts the bytes
  Spans(_, _),       \* Regex::captures_iter: the matches, in order, as Captures gives one
  Expand(_, _, _)    \* the crate's expansion of a template for a match in a haystack

VARIABLES
  re,       \* the RE2 object
  str,      \* the client's string: *str of Replace, the text of Extract
  out,      \* *out of Extract
  reply,    \* what the last call was and returned
  crashed   \* a panic or a null pointer has ended the process

vars == <<re, str, out, reply, crashed>>

ASSUME ValuesAssumption ==
  /\ AddrSpace \in Nat \ {0} /\ Base \in Nat \ {0} /\ EmptyPattern \in Patterns
  /\ \A t \in Texts : t \in Seq(0..255) /\ Base + Len(t) < AddrSpace
  /\ Rewrites \subseteq Seq(0..255)

\* The match engine, on the buffer of the client's string.
E == INSTANCE RE2Match WITH text <- str, input <- str, outs <- out, last <- reply, scan <- reply

NUL == 0
Dollar == 36
Digits == 48..57
Backslash == 92
CString(s) == E!CString(s)
kVecSize == 17
NoReply == [call |-> "none"]
OldOut == <<63>>      \* what *out holds before the call

Init ==
  /\ \E p \in Patterns, o \in Options : re = E!NewRE2(p, o)
  /\ str \in Texts
  /\ out = OldOut
  /\ reply = NoReply
  /\ crashed = FALSE
------------------------------------------------------------------------------
(***************************************************************************)
(* The functions of lib_internal.rs that scan a rewrite string.            *)
(***************************************************************************)

\* The positions of the backslashes that escape the next character.
Escapes(rw) ==
  LET esc[i \in 0..Len(rw)] == i > 0 /\ rw[i] = Backslash /\ ~esc[i - 1]
  IN {i \in 1..Len(rw) : esc[i]}

Escaped(rw) == {i + 1 : i \in Escapes(rw)}
IsDigit(rw, i) == i \in DOMAIN rw /\ rw[i] \in Digits
IsBackslash(rw, i) == i \in DOMAIN rw /\ rw[i] = Backslash
DigitAt(rw, i) == rw[i] - 48

\* rure_max_submatch: its flag stays up from a backslash to the next digit,
\* whatever stands between.
MaxSubmatch(rw) ==
  Max({0} \cup {DigitAt(rw, i) : i \in {k \in DOMAIN rw :
                  /\ IsDigit(rw, k)
                  /\ \E j \in 1..k - 1 : IsBackslash(rw, j) /\ \A d \in j..k - 1 : ~IsDigit(rw, d)}})

\* Bug: a backslash at the end is accepted.
CheckRewriteTrailing(rw, ncap) ==
  \A i \in Escapes(rw) : \/ i = Len(rw)
                         \/ IsBackslash(rw, i + 1)
                         \/ IsDigit(rw, i + 1) /\ DigitAt(rw, i + 1) <= ncap

CheckRewrite(rw, ncap) ==
  \A i \in Escapes(rw) : \/ IsBackslash(rw, i + 1)
                         \/ IsDigit(rw, i + 1) /\ DigitAt(rw, i + 1) <= ncap

\* The characters of rw one after the other, an escape with the character it
\* escapes replaced by subst[i], for the position i of the backslash.
Substitute(rw, subst) ==
  FlattenSeq([i \in DOMAIN rw |-> IF i \in Escapes(rw) THEN subst[i]
                                  ELSE IF i \in Escaped(rw) THEN <<>> ELSE <<rw[i]>>])

\* A group in a template of the crate: its digit in "${" "}".
Reference(d) == <<Dollar, 123, d, 125>>

\* rure_rewrite_str_convert: an escaped character that is no digit disappears.
Convert(rw) ==
  Substitute(rw, [i \in Escapes(rw) |->
                    IF IsDigit(rw, i + 1) THEN Reference(rw[i + 1]) ELSE <<>>])

\* rure_rewrite, for the texts of the submatches: [kind |-> "text", text |-> ...],
\* or "null", or "panic" when the first error is a backslash at the end.
Null == [kind |-> "null"]
Panic == [kind |-> "panic"]
Rewritten(s) == [kind |-> "text", text |-> s]

Rewrite(rw, groups) ==
  LET bad == {i \in Escapes(rw) : /\ ~IsBackslash(rw, i + 1)
                                  /\ ~(IsDigit(rw, i + 1) /\ DigitAt(rw, i + 1) < Len(groups))}
      s == Substitute(rw, [i \in Escapes(rw) |->
                             IF IsDigit(rw, i + 1) THEN groups[DigitAt(rw, i + 1) + 1]
                             ELSE <<Backslash>>])
  IN CASE ~Utf8(rw) \/ \E g \in ToSet(groups) : ~Utf8(g) -> Panic
       [] OTHER -> IF bad = {Len(rw)} THEN Panic
                   ELSE IF bad # {} THEN Null
                   ELSE IF NUL \in ToSet(s) THEN Null ELSE Rewritten(s)
------------------------------------------------------------------------------
(***************************************************************************)
(* What Replace, GlobalReplace and Extract have in common: the check of    *)
(* nvec, Match, and Rewrite of its submatches.                             *)
(***************************************************************************)
WholeString == E!View(Base, Len(str))
Nvec(rw) == 1 + MaxSubmatch(CString(rw))

Matched(nvec) ==
  E!Match(re, WholeString, 0, Len(str), "UNANCHORED", [i \in 1..nvec |-> E!NullView])

\* Latin-1 offsets may lead outside the string; such calls are left out.
Defined(rw) ==
  Utf8(CString(rw)) =>
    \A v \in ToSet(Matched(Nvec(rw)).vec) : v.size = 0 \/ E!InText(v)

Groups(vec) == [i \in DOMAIN vec |-> IF vec[i].size = 0 THEN <<>> ELSE E!BytesOf(vec[i])]

\* Whether Match is asked at all, and what rw becomes for its answer m.
Asked(rw) == Utf8(CString(rw)) /\ Nvec(rw) <= Min({1 + re.ncap, kVecSize})
RewrittenFor(rw, m) == IF m.ret THEN Rewrite(rw, Groups(m.vec)) ELSE Null

FirstRewritten(rw) ==
  IF ~Utf8(CString(rw)) THEN Panic
  ELSE IF ~Asked(rw) THEN Null
  ELSE RewrittenFor(rw, Matched(Nvec(rw)))

Outcome(ret, s) == [ret |-> ret, str |-> s, crashed |-> FALSE]
Crash(ret) == [ret |-> ret, str |-> str, crashed |-> TRUE]
------------------------------------------------------------------------------
(***************************************************************************)
(* Replace and GlobalReplace compile the raw pattern again, with the       *)
(* default flags, and let the crate replace in the string up to its first  *)
(* NUL, whose rest is lost.                                                *)
(***************************************************************************)
Default(p) == E!New(CPattern(p))
Again == Default(re.pattern)
Hay == CString(str)

\* Group n of the match m in h.
GroupText(h, m, n) ==
  IF n + 1 \notin DOMAIN m \/ m[n + 1] = <<>> THEN <<>> ELSE SubSeq(h, m[n + 1][1] + 1, m[n + 1][2])

\* A rewrite string that neither escapes a backslash nor holds a "$" or a NUL.
PlainRewrite(rw) ==
  /\ Utf8(rw) /\ ToSet(rw) \cap {NUL, Dollar} = {}
  /\ \A i \in Escapes(rw) : ~IsBackslash(rw, i + 1)

\* Templates are put together from items: nothing, a byte, or a group; and what the crate
\* puts in the place of an item.
ItemBytes == UNION {ToSet(rw) : rw \in {r \in Rewrites : PlainRewrite(r)}}
Items == {<<>>} \cup {<<c>> : c \in ItemBytes} \cup {Reference(d) : d \in ItemBytes \cap Digits}
ItemText(item, h, m) ==
  IF item # <<>> /\ item[1] = Dollar THEN GroupText(h, m, item[3] - 48) ELSE item

\* A match x in the haystack h has a span in h, and so has each of its groups that took
\* part; a template without other "$" than those of its groups expands item by item.
MatchIn(h, x) ==
  /\ x # <<>> /\ E!SpansIn(x, Len(h))
  /\ \A rw \in Rewrites : Expand(Convert(rw), h, x) \in Seq(0..255)
  /\ \A n \in {Len(rw) : rw \in Rewrites} : \A items \in [1..n -> Items] :
       Expand(FlattenSeq(items), h, x) = FlattenSeq([i \in 1..n |-> ItemText(items[i], h, x)])

\* The match of captures is the first of captures_iter.
SearchesIn(prog, h) ==
  /\ Captures(prog, h) # <<>> => DOMAIN Captures(prog, h) = 1..NumGroups(prog) + 1
  /\ Spans(prog, h) \in Seq(ToSet(Spans(prog, h)))
  /\ Spans(prog, h) = <<>> <=> Captures(prog, h) = <<>>
  /\ Spans(prog, h) # <<>> => Spans(prog, h)[1] = Captures(prog, h)
  /\ \A x \in ToSet(Spans(prog, h)) : MatchIn(h, x)

\* The haystack in which Match searches all of the string t, in a sequence of at most one.
Searched(r, t) ==
  IF r.options.never_nl THEN E!FirstLine(r.prog, E!Encoded(r, t)) ELSE <<CString(E!Encoded(r, t))>>

\* What the code takes for granted of the crate, for the haystacks of the client, and of
\* UTF-8: the spans of a match lie in the haystack, the empty pattern has no groups and
\* matches the empty text, and what is UTF-8 is so up to its first NUL.
ASSUME CrateAssumption ==
  /\ \A p \in Patterns, o \in Options, t \in Texts :
       LET r == E!NewRE2(p, o)
       IN r.ok => \A h \in ToSet(Searched(r, t)) : E!SpansIn(Captures(r.prog, h), Len(h))
  /\ \A p \in Patterns :
       Default(p) # NULL => /\ NumGroups(Default(p)) \in Nat
                           /\ \A t \in Texts : SearchesIn(Default(p), CString(t))
  /\ NumGroups(Default(EmptyPattern)) = 0 /\ Captures(Default(EmptyPattern), <<>>) # <<>>
  /\ Utf8(<<>>) /\ \A t \in Texts : Utf8(t) => Utf8(CString(t))

\* Regex::replace and replace_all: the spans replaced by the expanded template.
Replaced(spans, template) ==
  LET n == Len(spans)
      Gap(i) == SubSeq(Hay, (IF i = 1 THEN 0 ELSE spans[i - 1][1][2]) + 1,
                            IF i > n THEN Len(Hay) ELSE spans[i][1][1])
  IN FlattenSeq([i \in 1..n + 1 |->
                   Gap(i) \o IF i > n THEN <<>> ELSE Expand(template, Hay, spans[i])])

FirstOf(spans) == SubSeq(spans, 1, IF spans = <<>> THEN 0 ELSE 1)

\* How a call ends whose Rewrite gave first: it returns no, or as done says.
Ending(first, no, done) ==
  CASE first.kind = "panic" -> Crash(no)
    [] first.kind = "null" -> Outcome(no, str)
    [] first.kind = "text" -> IF Again = NULL \/ ~Utf8(Hay) THEN Crash(no) ELSE done

\* Bug: all matches replaced.
OneReplacedAll(rw, spans) == Outcome(TRUE, Replaced(spans, Convert(rw)))

OneReplaced(rw, spans) == Outcome(TRUE, Replaced(FirstOf(spans), Convert(rw)))

\* Bugs: the rewrite string passed on without conversion; a count one too small.
AllReplacedRaw(rw, spans) ==
  Outcome(Len(spans), IF spans = <<>> THEN str ELSE Replaced(spans, rw))

AllReplacedLess(rw, spans) == Outcome(Len(spans) - 1, Replaced(spans, Convert(rw)))

AllReplaced(rw, spans) ==
  Outcome(Len(spans), IF spans = <<>> THEN str ELSE Replaced(spans, Convert(rw)))

ReplaceOutcome(rw) ==
  Ending(FirstRewritten(rw), FALSE, OneReplaced(rw, Spans(Again, Hay)))

GlobalReplaceOutcome(rw) ==
  Ending(FirstRewritten(rw), 0, AllReplaced(rw, Spans(Again, Hay)))
------------------------------------------------------------------------------
Idle == reply = NoReply /\ ~crashed
Reply(call, rw, ret) == [call |-> call, rewrite |-> rw, ret |-> ret]

Replace(rw) ==
  /\ Idle /\ Defined(rw)
  /\ \E o \in {ReplaceOutcome(rw)} :
       str' = o.str /\ crashed' = o.crashed /\ reply' = Reply("Replace", rw, o.ret)
  /\ UNCHANGED <<re, out>>

GlobalReplace(rw) ==
  /\ Idle /\ Defined(rw)
  /\ \E o \in {GlobalReplaceOutcome(rw)} :
       str' = o.str /\ crashed' = o.crashed /\ reply' = Reply("GlobalReplace", rw, o.ret)
  /\ UNCHANGED <<re, out>>

\* Bug: *out cleared before Match is asked.
ExtractClears(rw) ==
  /\ Idle /\ Defined(rw)
  /\ \E first \in {FirstRewritten(rw)} :
       /\ crashed' = (first.kind = "panic")
       /\ reply' = Reply("Extract", rw, first.kind = "text")
       /\ out' = IF first.kind = "text" THEN first.text ELSE <<>>
  /\ UNCHANGED <<re, str>>

\* Extract clears *out once the regexp has matched, and then rewrites into it.
Extract(rw) ==
  /\ Idle /\ Defined(rw)
  /\ \E first \in {FirstRewritten(rw)} :
       /\ crashed' = (first.kind = "panic")
       /\ reply' = Reply("Extract", rw, first.kind = "text")
       /\ out' = IF first.kind = "text" THEN first.text
                 ELSE IF Asked(rw) /\ Matched(Nvec(rw)).ret THEN <<>> ELSE out
  /\ UNCHANGED <<re, str>>

CheckRewriteString(rw) ==
  /\ Idle
  /\ crashed' = ~Utf8(CString(rw))
  /\ reply' = Reply("CheckRewriteString", rw, Utf8(CString(rw)) /\ CheckRewrite(CString(rw), re.ncap))
  /\ UNCHANGED <<re, str, out>>

\* The client looks at the results and assigns its strings anew.
Resume ==
  /\ reply # NoReply /\ ~crashed
  /\ reply' = NoReply
  /\ str' \in Texts
  /\ out' = OldOut
  /\ UNCHANGED <<re, crashed>>

Next ==
  \/ \E rw \in Rewrites : Replace(rw) \/ GlobalReplace(rw) \/ Extract(rw) \/ CheckRewriteString(rw)
  \/ Resume

Spec == Init /\ [][Next]_vars
------------------------------------------------------------------------------
(***************************************************************************)
(* Properties.                                                             *)
(***************************************************************************)
Bytes == 0..255
TypeOK ==
  /\ re.pattern \in Patterns /\ re.options \in Options
  /\ str \in Seq(Bytes) /\ out \in Seq(Bytes)
  /\ \/ reply = NoReply
     \/ reply.call = "GlobalReplace" /\ reply.ret \in Nat
     \/ reply.call \in {"Replace", "Extract", "CheckRewriteString"} /\ reply.ret \in BOOLEAN
  /\ crashed \in BOOLEAN

\* A UTF-8 regexp and string without the options that Again ignores, and without
\* NUL; a plain rewrite string.
DefaultOptions == ~re.options.latin1 /\ ~re.options.dot_nl /\ ~re.options.never_nl
PlainCall(rw) == DefaultOptions /\ Utf8(str) /\ NUL \notin ToSet(str) /\ PlainRewrite(rw)

\* The documented result of Replace (re2.h:443-454): the first match of the
\* regexp replaced by the rewrite string, with the group of each \N in its place.
Documented(rw) ==
  LET m == Captures(re.prog, str)
  IN SubSeq(str, 1, m[1][1])
       \o Substitute(rw, [i \in Escapes(rw) |-> GroupText(str, m, DigitAt(rw, i + 1))])
       \o SubSeq(str, m[1][2] + 1, Len(str))

\* Replace, which rewrites through a template of the crate and a second
\* compilation of the pattern, leaves in *str the documented result when it
\* returns true, and returns true whenever CheckRewriteString accepts the rewrite
\* string and the regexp matches.
ReplaceAsDocumented ==
  [][ reply'.call = "Replace" /\ PlainCall(reply'.rewrite) /\ ~crashed'
      => LET rw == reply'.rewrite
         IN /\ reply'.ret => str' = Documented(rw)
            /\ re.ok /\ Captures(re.prog, str) # <<>> /\ CheckRewrite(rw, re.ncap) => reply'.ret ]_vars

\* GlobalReplace makes replacements exactly when Replace makes one, and where it
\* makes one only, the result is that of Replace.
GlobalReplaceExtendsReplace ==
  [][ reply'.call = "GlobalReplace" /\ PlainCall(reply'.rewrite) /\ ~crashed'
      => LET o == ReplaceOutcome(reply'.rewrite)
         IN (reply'.ret > 0 <=> o.ret) /\ (reply'.ret = 1 => str' = o.str) ]_vars

\* Extract, which rewrites the submatches of Match in Rust, succeeds exactly when
\* Replace does, puts into *out what Replace puts in the place of the match, and
\* leaves *out unaffected when nothing matches (re2.h:477-482).
ExtractAgreesWithReplace ==
  [][ reply'.call = "Extract" /\ PlainCall(reply'.rewrite) /\ ~crashed'
      => LET o == ReplaceOutcome(reply'.rewrite)
             m == Captures(re.prog, str)
         IN /\ reply'.ret = o.ret
            /\ reply'.ret => o.str = SubSeq(str, 1, m[1][1]) \o out' \o SubSeq(str, m[1][2] + 1, Len(str))
            /\ m = <<>> => out' = out ]_vars

\* The groups that patterns of characters find in a UTF-8 haystack are UTF-8.  (With
\* (?-u:...) a pattern asks for single bytes, and a group may end inside a character.)
CharacterSpans ==
  \A p \in Patterns, t \in Texts :
    Default(p) # NULL /\ Utf8(t) =>
      LET m == Captures(Default(p), CString(t))
      IN \A i \in DOMAIN m : Utf8(GroupText(CString(t), m, i - 1))

\* A rewrite string that CheckRewriteString accepts (re2.h:574-575) makes none of
\* the calls panic, with UTF-8 strings; except that a NUL in the rewrite string hides
\* from it what follows.  A regexp with dot_nl may, for without the unicode flag its "."
\* takes a byte of a character, and rure_rewrite panics on such a group; so may one with
\* never_nl, whose offsets in a line Match takes for offsets in the text.
CheckedNeverPanics ==
  crashed /\ DefaultOptions /\ Utf8(str) /\ Utf8(reply.rewrite) /\ NUL \notin ToSet(reply.rewrite)
  => ~CheckRewrite(reply.rewrite, re.ncap)

\* "A true return value guarantees that Replace() and Extract() won't fail because
\* of a bad rewrite string" (re2.h:574-575): they succeed on a regexp that matches.
CheckedRewriteWorks ==
  [][ /\ reply'.call \in {"Replace", "Extract"} /\ ~re.options.latin1
      /\ Utf8(str) /\ Utf8(reply'.rewrite) /\ NUL \notin ToSet(str) \cup ToSet(reply'.rewrite)
      /\ re.ok /\ Captures(re.prog, str) # <<>> /\ CheckRewrite(reply'.rewrite, re.ncap)
      => reply'.ret ]_vars
=============================================================================
