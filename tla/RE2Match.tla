----------------------------- MODULE RE2Match -----------------------------
(***************************************************************************)
(* The match engine of re2/re2.cc: how an RE2 object is built on up to     *)
(* three programs of the regex crate, how Match and DoMatch answer on top  *)
(* of them, and a client that matches one RE2 against a text through       *)
(* FullMatch, PartialMatch, Consume, FindAndConsume and Match, or scans    *)
(* the text with the loop of re2.h:136-165.                                *)
(*                                                                         *)
(* The crate is a parameter: Build and Captures.    Texts and submatches   *)
(* are StringPieces, views of the buffer text of module StringPiece.       *)
(***************************************************************************)
EXTENDS Integers, Sequences, SequencesExt, StringPiece

CONSTANTS
  NULL,             \* no program
  Patterns,         \* the patterns a client builds RE2s from
  EmptyPattern,     \* the pattern ""
  Options,          \* records [latin1, dot_nl, never_nl, never_capture]
  Texts,            \* the texts, sequences of bytes
  Build(_, _),      \* the crate's program of a pattern under flags, or NULL
  Utf8Pattern(_),   \* str::from_utf8 accepts the pattern
  CPattern(_),      \* what strlen sees of the pattern: it ends at the first NUL
  Recode(_),        \* the pattern with its Latin-1 bytes as UTF-8
  Whole(_),         \* the pattern "^(" p ")$"
  EmptyClassError(_), \* the compile error is "empty character classes ..."
  NumGroups(_),     \* number of capturing groups of a program
  Captures(_, _),   \* <<span of group 0, 1, ...>> of a program in a haystack,
                    \* <<>> without a match, <<>> for a group that took no part
  MaxArgs           \* bound: pointees a call passes, entries of submatch[], less 1

ASSUME ValuesAssumption ==
  /\ MaxArgs \in Nat
  /\ EmptyPattern \in Patterns
  /\ \A o \in Options : {o.latin1, o.dot_nl, o.never_nl, o.never_capture} \subseteq BOOLEAN
  /\ \A t \in Texts : t \in Seq(0..255) /\ Base + Len(t) < AddrSpace /\ 2 * Len(t) < AddrSpace

VARIABLES
  re,      \* the RE2 object
  input,   \* the client's StringPiece
  outs,    \* what the last call stored: outs[i] is pointee i, or entry i of the
           \* submatch[] array of a call of Match
  last,    \* the last call: [op, args, ret]
  scan     \* the argument list of the scanning loop the client is in, if any

vars == <<re, text, input, outs, last, scan>>

NUL == 0
NL == 10
Unset == View(0, 1)      \* a pointee or an entry that the call has not stored into
NoOuts == [i \in 0..MaxArgs |-> Unset]

\* std::string assignment, int, and so on: the argument types differ in what
\* Parse accepts only.
ArgLists == UNION {[1..n -> {"str", "int"}] : n \in 0..MaxArgs}
NoScan == <<"none">>
NoCall == [op |-> "none", args |-> <<>>, ret |-> FALSE]
------------------------------------------------------------------------------
(***************************************************************************)
(* RE2::Init.                                                              *)
(***************************************************************************)

\* rure_compile and rure_new, on the whole of a pattern.
Compile(p, flags) == IF Utf8Pattern(p) THEN Build(p, flags) ELSE NULL
New(p) == Compile(p, {"unicode"})

\* The dot_nl flag replaces the default flags, Latin-1 adds to them.
CompileFlags(o) ==
  (IF o.dot_nl THEN {"dotnl"} ELSE {"unicode"})
    \cup (IF o.latin1 THEN {"unicode"} ELSE {})

\* The pattern as the crate is given it.
RureStr(p, o) == IF o.latin1 THEN Recode(p) ELSE p

FailedRE2(p, o) ==
  [ok |-> FALSE, pattern |-> IF EmptyClassError(p) THEN EmptyPattern ELSE p,
   options |-> o, prog |-> NULL, entire |-> NULL, suffix |-> NULL, ncap |-> -1]

\* Bug: entire_regexp_ compiled without the options' flags.
BuiltRE2DefaultEntire(p, o) ==
  LET prog == Compile(CPattern(RureStr(p, o)), CompileFlags(o))
  IN [ok |-> TRUE, pattern |-> p, options |-> o, prog |-> prog,
      entire |-> New(CPattern(Whole(RureStr(p, o)))), suffix |-> New(p),
      ncap |-> IF o.never_capture THEN 0 ELSE NumGroups(prog)]

\* prog_ and entire_regexp_ come from the re-encoded pattern, up to its first NUL,
\* under the options' flags; suffix_regexp_ comes from all of the raw pattern and
\* takes no options.
BuiltRE2(p, o) ==
  LET prog == Compile(CPattern(RureStr(p, o)), CompileFlags(o))
  IN [ok |-> TRUE, pattern |-> p, options |-> o, prog |-> prog,
      entire |-> IF p = EmptyPattern THEN prog
                 ELSE Compile(CPattern(Whole(RureStr(p, o))), CompileFlags(o)),
      suffix |-> New(p),
      ncap |-> IF o.never_capture THEN 0 ELSE NumGroups(prog)]

NewRE2(p, o) ==
  IF Compile(CPattern(RureStr(p, o)), CompileFlags(o)) = NULL
  THEN FailedRE2(p, o)
  ELSE BuiltRE2(p, o)
------------------------------------------------------------------------------
(***************************************************************************)
(* Haystacks.                                                              *)
(***************************************************************************)
\* The position of the first c in s, Len(s) + 1 when there is none.
IndexOf(s, c) ==
  LET I == {i \in DOMAIN s : s[i] = c} IN IF I = {} THEN Len(s) + 1 ELSE Min(I)

\* What strlen sees of a std::string.
CString(s) == SubSeq(s, 1, IndexOf(s, NUL) - 1)

RuneToChar(c) == IF c < 128 THEN <<c>> ELSE <<192 + (c \div 64), 128 + (c % 64)>>
ConvertLatin1ToUTF8(s) == FlattenSeq([i \in DOMAIN s |-> RuneToChar(s[i])])

\* The never_nl loop cuts lines off haystack + '\n'.  After its first cut it keeps
\* at most strlen(haystack) + 1 bytes, so that a NUL may hide later lines.
LineEnds(h) ==
  LET nls == {i \in 1..Len(h) + 1 : Append(h, NL)[i] = NL}
  IN {i \in nls : i = Min(nls) \/ i <= Min(nls) + 1 + Len(CString(h))}

Line(h, end) ==
  CString(SubSeq(h, Max({0} \cup {i \in 1..end - 1 : h[i] = NL}) + 1, end - 1))

\* The first line of h with a match, as a sequence of at most one.
FirstLine(prog, h) ==
  LET hits == {i \in LineEnds(h) : Captures(prog, Line(h, i)) # <<>>}
  IN IF hits = {} THEN <<>> ELSE <<Line(h, Min(hits))>>

Encoded(r, s) == IF r.options.latin1 THEN ConvertLatin1ToUTF8(s) ELSE s

\* The haystack that Match searches, likewise: the text up to its first NUL, or with
\* never_nl the first of its lines with a match.
Haystack(r, t) ==
  IF r.options.never_nl THEN FirstLine(r.prog, Encoded(r, BytesOf(t)))
  ELSE <<CString(Encoded(r, BytesOf(t)))>>

\* Whatever can come up as a haystack, for any view of any text.
Haystacks ==
  LET pieces == UNION {SubSeqs(t) : t \in Texts}
  IN UNION {SubSeqs(s) \cup SubSeqs(ConvertLatin1ToUTF8(s)) : s \in pieces}

\* A match in a haystack of n bytes has a group 0, and its spans lie in the haystack.
SpansIn(m, n) ==
  m # <<>> => /\ 1 \in DOMAIN m /\ m[1] # <<>>
              /\ \A i \in DOMAIN m : m[i] = <<>> \/ \E a, b \in 0..n : a <= b /\ m[i] = <<a, b>>

\* The match of prog in h is all of h.
MatchesAll(prog, h) == Captures(prog, h) # <<>> /\ Captures(prog, h)[1] = <<0, Len(h)>>

\* What the code takes for granted of the crate: the spans of a match lie in the
\* haystack; the empty pattern has no groups and matches the empty text; and
\* "^(" p ")$" finds a match wherever p matches all of the haystack.
ASSUME CrateAssumption ==
  /\ \A p \in Patterns, o \in Options :
       LET prog == Compile(CPattern(RureStr(p, o)), CompileFlags(o))
           entire == Compile(CPattern(Whole(RureStr(p, o))), CompileFlags(o))
       IN prog # NULL =>
            /\ NumGroups(prog) \in Nat
            /\ p = EmptyPattern => NumGroups(prog) = 0
            /\ \A h \in Haystacks : SpansIn(Captures(prog, h), Len(h))
            /\ entire # NULL => \A h \in Haystacks : MatchesAll(prog, h) => Captures(entire, h) # <<>>
  /\ \A p \in Patterns :
       New(p) # NULL => \A h \in Haystacks : SpansIn(Captures(New(p), h), Len(h))
  /\ Captures(New(EmptyPattern), <<>>) # <<>>
------------------------------------------------------------------------------
(***************************************************************************)
(* RE2::Match, for the caller's array of submatches vec.                   *)
(***************************************************************************)
Answer(ret, vec) == [ret |-> ret, vec |-> vec]

\* Bug: a submatch that is as long as its end offset.
SubmatchViewToEnd(r, t, m, i) ==
  IF i \notin DOMAIN m \/ m[i] = <<>> THEN NullView
  ELSE View((t.data + m[i][1]) % AddrSpace, m[i][2])

\* Bug: a Latin-1 length that is left in UTF-8 bytes.
SubmatchViewUnhalved(r, t, m, i) ==
  IF i \notin DOMAIN m \/ m[i] = <<>> THEN NullView
  ELSE View((t.data + m[i][1]) % AddrSpace, m[i][2] - m[i][1])

\* Submatch i as a view of the text: offsets and lengths are those of the
\* haystack, except that a Latin-1 length is halved.
SubmatchView(r, t, m, i) ==
  IF i \notin DOMAIN m \/ m[i] = <<>> THEN NullView
  ELSE LET len == m[i][2] - m[i][1]
       IN View((t.data + m[i][1]) % AddrSpace, IF r.options.latin1 THEN len \div 2 ELSE len)

\* Bug: ANCHOR_BOTH tests the start only.
AnchorAcceptsStart(anchor, m, hay) ==
  IF anchor = "UNANCHORED" THEN m # <<>> ELSE m # <<>> /\ m[1][1] = 0

\* The anchor test on the match m that the crate found in hay.  No match at all
\* passes ANCHOR_START, because match keeps its initial offset 0.
AnchorAccepts(anchor, m, hay) ==
  CASE anchor = "UNANCHORED" -> m # <<>>
    [] anchor = "ANCHOR_BOTH" -> m # <<>> /\ m[1] = <<0, Len(hay)>>
    [] anchor = "ANCHOR_START" -> m # <<>> => m[1][1] = 0

\* The answer for the match m that the crate found in hay.
Submatches(r, t, anchor, vec, hay, m) ==
  IF ~AnchorAccepts(anchor, m, hay) THEN Answer(FALSE, vec)
  ELSE Answer(TRUE, [i \in DOMAIN vec |-> SubmatchView(r, t, m, i)])

\* Once the text is known not to be null and the offsets to be in range.
Search(r, t, anchor, vec, hays) ==
  IF hays = <<>> THEN Answer(FALSE, vec)
  ELSE IF r.options.never_nl /\ vec = <<>> THEN Answer(TRUE, vec)
  ELSE Submatches(r, t, anchor, vec, hays[1], Captures(r.prog, hays[1]))

Match(r, t, startpos, endpos, anchor, vec) ==
  IF t.size = 0 /\ r.pattern = EmptyPattern THEN Answer(TRUE, vec)
  ELSE IF ~r.ok \/ startpos > endpos \/ endpos > t.size THEN Answer(FALSE, vec)
  ELSE IF t.data = 0 THEN Answer(TRUE, [i \in DOMAIN vec |-> NullView])
  ELSE Search(r, t, anchor, vec, Haystack(r, t))
------------------------------------------------------------------------------
(***************************************************************************)
(* RE2::DoMatch.                                                           *)
(***************************************************************************)

\* The Parse functions, on a view they can read: strings take anything, numbers
\* an optional sign and at least one digit.  What they make of bytes outside the
\* text is anybody's guess.
Number(s) ==
  LET body == IF s # <<>> /\ s[1] \in {43, 45} THEN Tail(s) ELSE s
  IN body # <<>> /\ ToSet(body) \subseteq 48..57

ParseOutcomes(kind, v) ==
  CASE kind = "str" -> {TRUE}
    [] kind = "int" /\ Readable(v) -> {Number(BytesOf(v))}
    [] OTHER -> BOOLEAN

\* How many arguments may be stored, one by one, before Parse refuses the next.
StoredCounts(args, vec) ==
  {k \in 0..Len(args) :
     /\ \A i \in 1..k : TRUE \in ParseOutcomes(args[i], vec[i + 1])
     /\ k < Len(args) => FALSE \in ParseOutcomes(args[k + 1], vec[k + 2])}

Result(ret, consumed, vec, k) ==
  [ret |-> ret, consumed |-> consumed, vec |-> vec, stored |-> k]
Refused == Result(FALSE, 0, <<>>, 0)

\* Bugs: *consumed set to the length of the match, or to its start.
ParsedLength(t, consuming, args, m) ==
  IF ~m.ret THEN {Refused}
  ELSE {Result(k = Len(args), IF consuming THEN m.vec[1].size ELSE 0, m.vec, k) :
          k \in StoredCounts(args, m.vec)}

ParsedStart(t, consuming, args, m) ==
  IF ~m.ret THEN {Refused}
  ELSE {Result(k = Len(args), IF consuming THEN (m.vec[1].data - t.data) % AddrSpace ELSE 0,
               m.vec, k) : k \in StoredCounts(args, m.vec)}

\* The general path, once Match into a fresh array has answered m: Parse the
\* groups.  An entry vec[0] that stayed null puts the negated address of the text
\* into *consumed.
Parsed(t, consuming, args, m) ==
  LET consumed == IF consuming THEN (m.vec[1].data + m.vec[1].size - t.data) % AddrSpace
                  ELSE 0
  IN IF ~m.ret THEN {Refused}
     ELSE {Result(k = Len(args), consumed, m.vec, k) : k \in StoredCounts(args, m.vec)}

MatchThenParse(r, t, anchor, consuming, args) ==
  LET nvec == IF args = <<>> /\ ~consuming THEN 0 ELSE Len(args) + 1
      fresh == [i \in 1..nvec |-> NullView]
  IN UNION {Parsed(t, consuming, args, m) : m \in {Match(r, t, 0, t.size, anchor, fresh)}}

\* Consume and FindAndConsume without arguments ask suffix_regexp_ first; FullMatch
\* without arguments asks only entire_regexp_.
AsksSuffix(r, consuming, args) == r.ok /\ consuming /\ args = <<>>
AsksEntire(r, anchor, args) ==
  r.ok /\ anchor = "ANCHOR_BOTH" /\ args = <<>> /\ ~r.options.latin1

SuffixMatch(r, t, consuming, args) ==
  IF AsksSuffix(r, consuming, args) THEN Captures(r.suffix, BytesOf(t)) ELSE <<>>

\* The possible results.
DoMatch(r, t, anchor, consuming, args) ==
  IF ~r.ok \/ r.ncap < Len(args) THEN {Refused}
  ELSE IF SuffixMatch(r, t, consuming, args) # <<>>
       THEN {Result(TRUE, SuffixMatch(r, t, consuming, args)[1][2], <<>>, 0)}
  ELSE IF AsksEntire(r, anchor, args)
       THEN {Result(Captures(r.entire, BytesOf(t)) # <<>>, 0, <<>>, 0)}
  ELSE MatchThenParse(r, t, anchor, consuming, args)
------------------------------------------------------------------------------
(***************************************************************************)
(* The client.                                                             *)
(***************************************************************************)
WholeText == View(Base, Len(text))

Init ==
  /\ \E p \in Patterns, o \in Options : re = NewRE2(p, o)
  /\ text \in Texts
  /\ input = WholeText
  /\ outs = NoOuts
  /\ last = NoCall
  /\ scan = NoScan

Idle == scan = NoScan /\ last = NoCall

\* A call is defined on a view that can be read, when the program that it asks is
\* there: a raw pattern that is not UTF-8 has no suffix_regexp_, and one with a NUL no
\* entire_regexp_, whose "^(" stays open.
Defined(anchor, consuming, args) ==
  /\ Readable(input)
  /\ AsksSuffix(re, consuming, args) => re.suffix # NULL
  /\ AsksEntire(re, anchor, args) => re.entire # NULL

\* One call of the DoMatch family, on fresh pointees.
Call(op, anchor, consuming, args) ==
  /\ Defined(anchor, consuming, args)
  /\ \E res \in DoMatch(re, input, anchor, consuming, args) :
       /\ last' = [op |-> op, args |-> args, ret |-> res.ret]
       /\ outs' = [i \in 0..MaxArgs |-> IF i \in 1..res.stored THEN res.vec[i + 1] ELSE Unset]
       /\ input' = IF consuming /\ res.ret THEN RemovePrefix(input, res.consumed) ELSE input
  /\ UNCHANGED <<re, text>>

FullMatch(args) ==
  Idle /\ Call("FullMatch", "ANCHOR_BOTH", FALSE, args) /\ UNCHANGED scan

PartialMatch(args) ==
  Idle /\ Call("PartialMatch", "UNANCHORED", FALSE, args) /\ UNCHANGED scan

Consume(args) ==
  Idle /\ Call("Consume", "ANCHOR_START", TRUE, args) /\ UNCHANGED scan

FindAndConsume(args) ==
  Idle /\ Call("FindAndConsume", "UNANCHORED", TRUE, args) /\ UNCHANGED scan

\* The public Match, into an array of n entries.
MatchInto(startpos, endpos, anchor, n) ==
  /\ Idle
  /\ Readable(input)
  /\ LET m == Match(re, input, startpos, endpos, anchor, [i \in 1..n |-> Unset])
     IN /\ last' = [op |-> "Match", args |-> <<>>, ret |-> m.ret]
        /\ outs' = [i \in 0..MaxArgs |-> IF i < n THEN m.vec[i + 1] ELSE Unset]
  /\ UNCHANGED <<re, text, input, scan>>

\* The client points its StringPiece at the whole text again, or at nothing; or it
\* narrows it.
SetInput(v) ==
  /\ Idle
  /\ input' = v
  /\ UNCHANGED <<re, text, outs, last, scan>>

TakeSubstr(pos, n) == SetInput(Substr(input, pos, n))
DropSuffix(n) == n <= input.size /\ SetInput(RemoveSuffix(input, n))

\* The client is done with the results of its last call.
Resume ==
  /\ scan = NoScan /\ last # NoCall
  /\ last' = NoCall
  /\ outs' = NoOuts
  /\ UNCHANGED <<re, text, input, scan>>

\* while (RE2::FindAndConsume(&input, re, args...)) ...
StartScan(args) ==
  /\ Idle
  /\ scan' = args
  /\ UNCHANGED <<re, text, input, outs, last>>

ScanStep ==
  /\ scan # NoScan
  /\ Call("FindAndConsume", "UNANCHORED", TRUE, scan)
  /\ scan' = IF last'.ret THEN scan ELSE NoScan

Next ==
  \/ \E args \in ArgLists :
       FullMatch(args) \/ PartialMatch(args) \/ Consume(args) \/ FindAndConsume(args)
  \/ \E anchor \in {"UNANCHORED", "ANCHOR_START", "ANCHOR_BOTH"}, n \in 0..MaxArgs + 1,
       offsets \in {<<0, 0>>, <<0, 1>>, <<1, 0>>} : MatchInto(offsets[1], offsets[2], anchor, n)
  \/ \E v \in {WholeText, NullView} : SetInput(v)
  \/ \E pos \in 0..MaxArgs, n \in {1, npos} : TakeSubstr(pos, n)
  \/ DropSuffix(1)
  \/ Resume
  \/ \E args \in ArgLists : StartScan(args)
  \/ ScanStep

\* The loop's thread keeps running; nothing makes a client call anything.
Spec == Init /\ [][Next]_vars /\ WF_vars(ScanStep)
------------------------------------------------------------------------------
(***************************************************************************)
(* Properties.                                                             *)
(***************************************************************************)
TypeOK ==
  /\ re.pattern \in Patterns /\ re.options \in Options
  /\ re.ok \in BOOLEAN /\ (re.ok <=> re.prog # NULL) /\ (re.ok <=> re.ncap \in Nat)
  /\ text \in Texts
  /\ input \in Views
  /\ outs \in [0..MaxArgs -> Views]
  /\ last \in [op : {"none", "FullMatch", "PartialMatch", "Consume", "FindAndConsume", "Match"},
               args : ArgLists, ret : BOOLEAN]
  /\ scan \in ArgLists \cup {NoScan}

\* The views that lie in v.
Within(v) == {w \in {View(v.data + k, n) : k, n \in 0..v.size} : w.data + w.size <= v.data + v.size}

\* Comparing and searching through views is comparing and searching the bytes they
\* show, whichever buffer positions they come from, and narrowing a view never reaches
\* outside of it (stringpiece.h, with the positions that a caller may pass).
SearchesAgree ==
  Idle /\ InText(input)
  => /\ SubstrWithin(input)
     /\ \A x \in Within(WholeText) :
          OrderAgrees(input, x) /\ SearchAgrees(input, x) /\ CharSearchAgrees(input, x)

Utf8Regexp == ~re.options.latin1
IsSuffixView(v, w) == v.data >= w.data /\ v.data + v.size = w.data + w.size
Strings(args) == ToSet(args) \subseteq {"str"}

\* Under UTF-8, a call that consumes leaves the client with a suffix of the view
\* it had (re2.h:406-409), through either of the two paths of DoMatch and for
\* every regexp, offset and line.  The one exception is Consume on a text in
\* which the regexp matches nowhere: it returns true and the view is lost.
ConsumesWithinText ==
  [][ Utf8Regexp /\ InText(input) /\ last'.op \in {"Consume", "FindAndConsume"}
      => \/ IsSuffixView(input', input)
         \/ /\ last'.op = "Consume" /\ last'.ret
            /\ Captures(re.prog, CString(BytesOf(input))) = <<>> ]_vars

\* The shortcut for FullMatch without arguments (entire_regexp_) never refuses a
\* text that the general path (leftmost-first match of prog_) accepts, on UTF-8
\* texts without NUL and without never_nl, where entire_regexp_ is there.
FullMatchFormsAgree ==
  re.entire # NULL /\ Utf8Regexp /\ ~re.options.never_nl /\ InText(input) /\ NUL \notin ToSet(BytesOf(input))
  => \A args \in ArgLists :
       (\E r \in DoMatch(re, input, "ANCHOR_BOTH", FALSE, args) : r.ret)
       => \A r \in DoMatch(re, input, "ANCHOR_BOTH", FALSE, <<>>) : r.ret

\* FindAndConsume finds and removes the same text whether it asks
\* suffix_regexp_ (no arguments) or prog_ (string arguments), and finds
\* something exactly when PartialMatch does, for a UTF-8 text and a pattern without
\* NUL and options that suffix_regexp_ does not ignore.  (Only suffix_regexp_ sees the
\* pattern behind a NUL: of "(a)|" NUL "b" it finds the a in "ba", where prog_ finds
\* the empty match in front of it.)
FindFormsAgree ==
  (/\ Utf8Regexp /\ ~re.options.never_nl /\ ~re.options.dot_nl
   /\ CPattern(re.pattern) = re.pattern
   /\ InText(input) /\ NUL \notin ToSet(BytesOf(input)))
  => \A r0 \in DoMatch(re, input, "UNANCHORED", TRUE, <<>>) :
       /\ \A p \in DoMatch(re, input, "UNANCHORED", FALSE, <<>>) : p.ret = r0.ret
       /\ \A args \in ArgLists :
            Strings(args) /\ Len(args) <= re.ncap
            => \A r \in DoMatch(re, input, "UNANCHORED", TRUE, args) :
                 r.ret = r0.ret /\ r.consumed = r0.consumed

\* Under UTF-8 every submatch and every pointee a caller ever holds lies in its
\* text or is null, whatever calls came before and whatever they returned.
CapturesInText ==
  Utf8Regexp => \A i \in DOMAIN outs : outs[i] = Unset \/ Readable(outs[i])

\* Latin-1 letters take two bytes each in the haystack; of a text that has nothing else, a
\* group that starts with the haystack ends behind a letter.  (So it does for every
\* pattern that matches characters; one that asks for single bytes, by (?-u:...), may
\* end inside.)
Letters == 128..255
LetterSpans ==
  \A p \in Patterns, o \in Options, s \in UNION {SubSeqs(t) : t \in Texts} :
    o.latin1 /\ ToSet(s) \subseteq Letters
    => LET m == Captures(Compile(CPattern(RureStr(p, o)), CompileFlags(o)), ConvertLatin1ToUTF8(s))
       IN \A i \in DOMAIN m : m[i] # <<>> /\ m[i][1] = 0 => m[i][2] % 2 = 0

\* What a call that does not consume stored shows the bytes that the crate matched: in
\* the client's buffer for a UTF-8 regexp, and recoded for a Latin-1 regexp, as far as
\* the text has Latin-1 letters only and the submatch starts it.  (Elsewhere in a
\* Latin-1 text the offsets are those of the recoded text, re2.cc:697.)
CapturesShowMatch ==
  /\ last.op \in {"FullMatch", "PartialMatch", "Match"}
  /\ InText(input) /\ ~re.options.never_nl
  /\ Utf8Regexp \/ ToSet(BytesOf(input)) \subseteq Letters
  => LET h == Haystack(re, input)[1]
         m == Captures(re.prog, h)
     IN \A i \in {k \in DOMAIN outs : outs[k] # Unset} :
          IF i + 1 \notin DOMAIN m \/ m[i + 1] = <<>> THEN outs[i] = NullView
          ELSE Utf8Regexp \/ m[i + 1][1] = 0
               => Encoded(re, BytesOf(outs[i])) = SubSeq(h, m[i + 1][1] + 1, m[i + 1][2])

\* "On match failure, none of the pointees will have been modified" (re2.h:71):
\* FullMatch, PartialMatch and FindAndConsume store into a pointee only when the
\* regexp matches, all of the text for FullMatch, also when a later argument is
\* then refused.
StoresOnlyAfterMatch ==
  [][ /\ last'.op \in {"FullMatch", "PartialMatch", "FindAndConsume"}
      /\ InText(input) /\ ~re.options.never_nl
      /\ \E i \in DOMAIN outs' : outs'[i] # Unset
      => LET h == Haystack(re, input)[1]
             m == Captures(re.prog, h)
         IN m # <<>> /\ (last'.op = "FullMatch" => m[1] = <<0, Len(h)>>) ]_vars

\* In no piece of the text do the programs of re find an empty match.
NeverEmpty ==
  \A s \in SubSeqs(text), prog \in {re.prog, re.suffix} :
    LET m == Captures(prog, s) IN m # <<>> => m[1][1] < m[1][2]

\* The documented scanning loop ends (re2.h:162-165): with a UTF-8 regexp that
\* never matches the empty string, on a view that is not null, FindAndConsume
\* ends up returning false.
ScanTerminates ==
  (scan # NoScan /\ Utf8Regexp /\ InText(input) /\ NeverEmpty) ~> (scan = NoScan)

\* "re has to match a prefix of the text ... Returns true iff ... input matches
\* re partially - for some prefix of input" (re2.h:406-412).
ConsumeMatchesPrefix ==
  [][ last'.op = "Consume" /\ last'.ret /\ InText(input) /\ Utf8Regexp /\ re.entire # NULL
      => \E k \in 0..Len(BytesOf(input)) :
           LET m == Captures(re.entire, SubSeq(BytesOf(input), 1, k)) IN m # <<>> ]_vars
=============================================================================
