----------------------------- MODULE Prefilter -----------------------------
(***************************************************************************)
(* my_compile (regex-capi/src/lib_internal.rs:373): the one pass over the  *)
(* characters of a pattern that collects the atoms FilteredRE2 filters     *)
(* with.  Each turn of its loop is an action, one per branch.              *)
(*                                                                         *)
(* The code finds brackets by counting characters and then slices the      *)
(* pattern with those counts as byte offsets; both are kept apart here.    *)
(***************************************************************************)
EXTENDS Integers, Sequences, SequencesExt, Syntax, QuoteMeta

CONSTANTS
  Regexps,       \* patterns, sequences of pieces
  Literals,      \* texts that clients pass through QuoteMeta
  MinAtomLens,   \* min_atoms_len
  LowerChar(_),  \* lowercase of a character
  ByteLen(_)     \* bytes of a character in UTF-8

VARIABLES
  source,          \* history: the pattern or the literal that was asked for
  min_atoms_len,
  str,             \* the lowercased pattern, a sequence of characters
  i,               \* position of the next character, from 1
  held,            \* atoms_tmp_string: the run of literals being read
  vec_chars_con,   \* strings that end in the last class read
  my_atoms,
  pc               \* "scan", "done" or "panic"

vars == <<source, min_atoms_len, str, i, held, vec_chars_con, my_atoms, pc>>

\* Between 0 and z there are characters besides letters and digits.
Ranged == UNION {ToSet(CharsFromTo(x, y)) : x, y \in Alnum}

\* Lowercase leaves ASCII in ASCII; only wide characters take more than a byte.  Patterns
\* come in as C strings and their chars are those of the crate's syntax.
ASSUME CharsAssumption ==
  /\ Marks \cup Unquoted \cup Escapable \cup {Zero, "-"} \subseteq Chars
  /\ {"0", "2", "d", "x"} \subseteq Alnum
  /\ (Alnum \cup Wide) \cap (Marks \cup {Zero, "-"}) = {}
  /\ \A x, y \in Alnum : CharsFromTo(x, y) \in Seq(Ranged)

ASSUME CaseAssumption ==
  \A c \in Chars :
    /\ LowerChar(c) \in Chars /\ ByteLen(c) \in Nat
    /\ c \in Marks \cup {"-"} => LowerChar(c) = c
    /\ c \notin Marks => LowerChar(c) \notin Marks
    /\ c \in Alnum => LowerChar(c) \in Alnum
    /\ c \notin Wide => LowerChar(c) \notin Wide /\ ByteLen(c) = 1

ASSUME InputsAssumption ==
  /\ \A pieces \in Regexps : pieces \in Seq(ToSet(pieces)) /\ \A k \in DOMAIN pieces : IsPiece(pieces[k])
  /\ Literals \subseteq Seq(Chars)
  /\ MinAtomLens \subseteq Nat

Lower(s) == [k \in DOMAIN s |-> LowerChar(s[k])]
PatternOf(src) == IF src.quoted THEN QuoteMeta(src.literal) ELSE Text(src.pieces)

Sources ==
  [quoted : {FALSE}, pieces : Regexps] \cup [quoted : {TRUE}, literal : Literals]

Init ==
  /\ source \in Sources
  /\ min_atoms_len \in MinAtomLens
  /\ str = Lower(PatternOf(source))
  /\ i = 1
  /\ held = <<>>
  /\ vec_chars_con = <<>>
  /\ my_atoms = <<>>
  /\ pc = "scan"
------------------------------------------------------------------------------
(***************************************************************************)
(* Helpers.                                                                *)
(***************************************************************************)
Bytes(s) ==
  LET upto[k \in 0..Len(s)] == IF k = 0 THEN 0 ELSE upto[k - 1] + ByteLen(s[k])
  IN upto[Len(s)]
Long(s) == Bytes(s) >= min_atoms_len
IfLong(s) == IF Long(s) THEN <<s>> ELSE <<>>

LongOnes(atoms) == FlattenSeq([k \in DOMAIN atoms |-> IfLong(atoms[k])])

\* &s[from..to] exists where both offsets lie between two characters.
Boundaries(s) == {Bytes(SubSeq(s, 1, k)) : k \in 0..Len(s)}
CharsBefore(s, offset) == CHOOSE k \in 0..Len(s) : Bytes(SubSeq(s, 1, k)) = offset
Slice(s, from, to) == SubSeq(s, CharsBefore(s, from) + 1, CharsBefore(s, to))

\* All ends of V followed by all ends of W, as sequences.
Products(V, W) == FlattenSeq([k \in DOMAIN V |-> [l \in DOMAIN W |-> V[k] \o W[l]]])

\* connection: the strings that end in one of chars.
Connection(prefix, con, chars) ==
  LET ends == [k \in DOMAIN chars |-> <<chars[k]>>]
  IN IF prefix # <<>> THEN Products(<<prefix>>, ends)
     ELSE IF con = <<>> THEN ends
     ELSE Products(con, ends)

\* char_class_expansion: the letters and digits listed, or those between the first two
\* when there is a hyphen somewhere.
Only(s, S) == FlattenSeq([k \in DOMAIN s |-> IF s[k] \in S THEN <<s[k]>> ELSE <<>>])
Listed(s) == Only(s, Alnum)
HasRange(s) == "-" \in ToSet(s)
Expandable(s) == HasRange(s) => Len(Listed(s)) >= 2
ClassChars(s) ==
  IF HasRange(s) THEN CharsFromTo(Listed(s)[1], Listed(s)[2]) ELSE Listed(s)

\* The alternatives of a group: what stands before each bar or closing bracket, without
\* opening brackets.
Bars == {"|", ")"}
Alternatives(s) ==
  LET First(k) == Max({0} \cup {l \in 1..k - 1 : s[l] \in Bars}) + 1
  IN FlattenSeq([k \in DOMAIN s |->
       IF s[k] \in Bars THEN <<Only(SubSeq(s, First(k), k - 1), Chars \ {"("})>> ELSE <<>>])

\* Bug: atoms left in the order of the pattern.
ByLengthNot(atoms) == atoms

\* sort_by_key, which is stable: an atom's place is the number of those not behind it.
ByLength(atoms) ==
  LET Place(k) == Cardinality({l \in DOMAIN atoms :
                    \/ Bytes(atoms[l]) < Bytes(atoms[k])
                    \/ Bytes(atoms[l]) = Bytes(atoms[k]) /\ l <= k})
  IN [n \in DOMAIN atoms |-> atoms[CHOOSE k \in DOMAIN atoms : Place(k) = n]]

\* The removal loop: what is left are the atoms that contain no earlier one.
WithoutSupers(atoms) ==
  FlattenSeq([l \in DOMAIN atoms |->
    IF \E k \in 1..l - 1 : atoms[k] # <<>> /\ OccursIn(atoms[k], atoms[l]) THEN <<>>
    ELSE <<atoms[l]>>])
------------------------------------------------------------------------------
(***************************************************************************)
(* The loop.                                                               *)
(***************************************************************************)
At(c) == pc = "scan" /\ i <= Len(str) /\ str[i] = c
FollowedBy(k, c) == k < Len(str) /\ str[k + 1] = c

\* Where the first c from here on stands; none is an index out of bounds.
Closing(c) == {k \in i..Len(str) : str[k] = c /\ \A l \in i..k - 1 : str[l] # c}

Sliceable(end) == {i - 1, end} \subseteq Boundaries(str)

Push(atoms) == my_atoms' = my_atoms \o atoms

Fixed == UNCHANGED <<source, min_atoms_len, str>>
Continue == Fixed /\ pc' = pc

Panic ==
  /\ pc' = "panic"
  /\ Fixed
  /\ UNCHANGED <<i, held, vec_chars_con, my_atoms>>

\* A group's atoms count when it ends the pattern or a dot or a brace follows it; the dot
\* is then skipped.  What is held stays held.
GroupEnds(end, atoms) ==
  /\ Push(IF end = Len(str) \/ FollowedBy(end, ".") \/ FollowedBy(end, "{") THEN atoms ELSE <<>>)
  /\ i' = IF FollowedBy(end, ".") /\ atoms # <<>> THEN end + 2 ELSE end + 1
  /\ UNCHANGED <<held, vec_chars_con>>
  /\ Continue

\* group_multiple_selection: the long alternatives, shortest first, without those that
\* contain another.
ReadGroup ==
  /\ At("(")
  /\ \E end \in Closing(")") :
       /\ Sliceable(end)
       /\ \E s \in {Slice(str, i - 1, end)} : \E alternatives \in {Alternatives(s)} :
          \E sorted \in {ByLength(LongOnes(alternatives))} :
          \E atoms \in {WithoutSupers(sorted)} : GroupEnds(end, atoms)

GroupPanics ==
  /\ At("(")
  /\ \A end \in Closing(")") : ~Sliceable(end)
  /\ Panic

ReadDot ==
  /\ At(".")
  /\ IF vec_chars_con = <<>> THEN Push(IfLong(held)) /\ UNCHANGED vec_chars_con
     ELSE IF held = <<>> THEN UNCHANGED <<my_atoms, vec_chars_con>>
     ELSE Push(Products(vec_chars_con, <<held>>)) /\ vec_chars_con' = <<>>
  /\ held' = <<>>
  /\ i' = i + 1
  /\ Continue

\* Bug: the repetition is not passed.
ReadRepeatStuck ==
  /\ At("*") \/ At("+")
  /\ UNCHANGED <<i, held, vec_chars_con, my_atoms>>
  /\ Continue

ReadRepeat ==
  /\ At("*") \/ At("+")
  /\ i' = i + 1
  /\ UNCHANGED <<held, vec_chars_con, my_atoms>>
  /\ Continue

\* A repeated class after a long run only ends the run.
EndsRun(end) == FollowedBy(end, "+") /\ Long(held)

SkipClass ==
  /\ At("[")
  /\ \E end \in Closing("]") :
       /\ EndsRun(end)
       /\ i' = end + 2
  /\ Push(<<held>>)
  /\ held' = <<>>
  /\ UNCHANGED vec_chars_con
  /\ Continue

\* Bug: a run between two classes is dropped.
JointsRunless == vec_chars_con

\* Otherwise its characters continue the run, or the strings read so far: with a run and
\* strings, the strings are continued both with and without the run.
Joints == vec_chars_con \o IF held = <<>> THEN <<>> ELSE Products(vec_chars_con, <<held>>)
Prefix == IF vec_chars_con = <<>> THEN held ELSE <<>>
ClassReadable(end) == Sliceable(end) /\ Expandable(Slice(str, i - 1, end))

ClassEnds(end, con) ==
  /\ vec_chars_con' = con
  /\ Push(IF end = Len(str) THEN LongOnes(con) ELSE <<>>)
  /\ held' = <<>>
  /\ i' = end + 1
  /\ Continue

ReadClass ==
  /\ At("[")
  /\ \E end \in Closing("]") :
       /\ ~EndsRun(end)
       /\ ClassReadable(end)
       /\ \E s \in {Slice(str, i - 1, end)} : \E chars \in {ClassChars(s)} :
          \E con \in {Connection(Prefix, Joints, chars)} : ClassEnds(end, con)

ClassPanics ==
  /\ At("[")
  /\ \A end \in Closing("]") : ~EndsRun(end) /\ ~ClassReadable(end)
  /\ Panic

SkipBraces ==
  /\ At("{")
  /\ \E end \in Closing("}") : i' = end + 1
  /\ UNCHANGED <<held, vec_chars_con, my_atoms>>
  /\ Continue

BracesPanic == At("{") /\ Closing("}") = {} /\ Panic

\* Bug: every escape is taken for \x00.
ReadEscapeHex ==
  /\ At("\\")
  /\ Push(IfLong(held))
  /\ held' = IF Long(held) THEN <<>> ELSE held
  /\ i' = i + 4
  /\ UNCHANGED vec_chars_con
  /\ Continue

\* Bug: the character after the backslash is read as a literal.
ReadEscapeOne ==
  /\ At("\\")
  /\ Push(IfLong(held))
  /\ held' = IF Long(held) THEN <<>> ELSE held
  /\ i' = i + 1
  /\ UNCHANGED vec_chars_con
  /\ Continue

\* An escape ends a long run; a short one goes on behind it.
ReadEscape ==
  /\ At("\\")
  /\ Push(IfLong(held))
  /\ held' = IF Long(held) THEN <<>> ELSE held
  /\ i' = i + 2
  /\ UNCHANGED vec_chars_con
  /\ Continue

\* Bug: the last character of the pattern does not end the run.
ReadLiteralUnended ==
  /\ pc = "scan" /\ i <= Len(str)
  /\ str[i] \notin {"(", ".", "*", "+", "[", "{", "\\"}
  /\ held' = Append(held, str[i])
  /\ i' = i + 1
  /\ UNCHANGED <<vec_chars_con, my_atoms>>
  /\ Continue

ReadLiteral ==
  /\ pc = "scan" /\ i <= Len(str)
  /\ str[i] \notin {"(", ".", "*", "+", "[", "{", "\\"}
  /\ \E run \in {Append(held, str[i])} :
       IF i = Len(str) /\ Long(run) THEN Push(<<run>>) /\ held' = <<>>
       ELSE held' = run /\ UNCHANGED my_atoms
  /\ i' = i + 1
  /\ UNCHANGED vec_chars_con
  /\ Continue

Return ==
  /\ pc = "scan" /\ i > Len(str)
  /\ pc' = "done"
  /\ UNCHANGED <<i, held, vec_chars_con, my_atoms>>
  /\ Fixed

Next ==
  \/ ReadGroup \/ GroupPanics \/ ReadDot \/ ReadRepeat
  \/ SkipClass \/ ReadClass \/ ClassPanics
  \/ SkipBraces \/ BracesPanic \/ ReadEscape \/ ReadLiteral \/ Return

\* The loop is sequential code: it goes on while it can.
Spec == Init /\ [][Next]_vars /\ WF_vars(Next)
------------------------------------------------------------------------------
(***************************************************************************)
(* Properties.                                                             *)
(***************************************************************************)
Characters == ToSet(PatternOf(source))

TypeOK ==
  /\ source \in Sources
  /\ min_atoms_len \in MinAtomLens
  /\ i \in 1..Len(str) + 2
  /\ held \in Seq(ToSet(str) \cup Ranged)
  /\ {vec_chars_con, my_atoms} \subseteq Seq(Seq(ToSet(str) \cup Ranged))
  /\ pc \in {"scan", "done", "panic"}

\* The pieces of the pattern that the source stands for.
Regexp ==
  IF source.quoted
  THEN [k \in DOMAIN source.literal |->
          IF Len(Quote(source.literal[k])) = 1 THEN Lit(source.literal[k])
          ELSE Escaped(source.literal[k])]
  ELSE source.pieces

\* A class of letters and digits only, or anything but a class.
PlainClass(p) ==
  /\ p.kind = "class" => ToSet(p.chars) \subseteq Alnum
  /\ p.kind = "range" => {p.from, p.to} \subseteq Alnum

\* A pattern of ASCII characters and plain classes, or one that comes from QuoteMeta.
Supported ==
  \/ source.quoted
  \/ /\ Characters \cap Wide = {}
     /\ \A k \in DOMAIN source.pieces : PlainClass(Unrepeated(source.pieces[k]))

\* A valid pattern that the compiler supports does not end the process.
NeverPanics == Supported => pc # "panic"

\* How many plain literals stand right before piece k, and their text.
RunLength(ps, k) ==
  Max({n \in 0..k - 1 : \A l \in k - n..k - 1 : ps[l].kind = "lit"})
RunBefore(ps, k) == [n \in 1..RunLength(ps, k) |-> ps[k - RunLength(ps, k) + n - 1].char]

\* "minimum atom length" (filtered_re2.h:46-51): for a pattern of literals and dots,
\* the atoms are the lowercased runs of literals of at least that many bytes, all of
\* them, in the order of the pattern.
PlainRuns ==
  /\ pc = "done" /\ min_atoms_len > 0
  /\ \A k \in DOMAIN Regexp : Regexp[k].kind \in {"lit", "dot"}
  => my_atoms = FlattenSeq([k \in 1..Len(Regexp) + 1 |->
                  IF k \in DOMAIN Regexp /\ Regexp[k].kind = "lit" THEN <<>>
                  ELSE IfLong(Lower(RunBefore(Regexp, k)))])

\* The atoms that the last step pushed.
Batch == SubSeq(my_atoms', Len(my_atoms) + 1, Len(my_atoms'))

\* What a step pushes for the group at i: no atom contains another, and each alternative
\* that is long enough contains one.
KeepsShortest ==
  \A k \in {i} \cap DOMAIN str :
    str[k] = "(" /\ Batch # <<>> /\ Supported /\ min_atoms_len > 0
    => /\ \A x, y \in DOMAIN Batch : OccursIn(Batch[x], Batch[y]) => x = y
       /\ \A n \in Closing(")") : \A x, y \in k + 1..n - 1 :
            /\ str[x - 1] \in {"(", "|"} /\ str[y + 1] \in {"|", ")"}
            /\ "|" \notin ToSet(SubSeq(str, x, y))
            /\ Long(SubSeq(str, x, y))
            => \E a \in ToSet(Batch) : OccursIn(a, SubSeq(str, x, y))

\* "any atoms that have another atom as a substring in an OR are removed; that is,
\* only the shortest substring is kept" (filtered_re2_test.cc:105-107).
GroupKeepsShortest == [][KeepsShortest]_vars

(***************************************************************************)
(* Where atoms cover what they are taken from.  The guarantee of           *)
(* filtered_re2.h:83 needs atoms that occur in every match.  my_compile    *)
(* gives them for the patterns below, as far as one of the atoms pushed    *)
(* together goes; the README lists what it does beyond them.               *)
(***************************************************************************)
BareKind(p) == Unrepeated(p).kind
IsBreak(p) == BareKind(p) = "dot"
Optional(p) == p.kind = "rep" /\ p.op \in {"*", "?"}

\* The last piece before those literals.
BeforeRun(ps, k) == k - RunLength(ps, k) - 1

\* Nothing is held before piece k; or only a long run, behind a dot, a group, an escape
\* or nothing at all.
StartsFresh(ps, k) == k = 0 \/ BareKind(ps[k]) \in {"dot", "group", "digit", "escaped"}
NothingHeld(ps, k) == RunLength(ps, k) = 0 /\ StartsFresh(ps, k - 1)
LongRunHeld(ps, k) == Long(RunBefore(ps, k)) /\ StartsFresh(ps, BeforeRun(ps, k))

\* The piece at k is one whose branch treats its neighbours as the regexp does.
Faithful(ps, k) ==
  LET p == ps[k]
      ends == k = Len(ps) \/ IsBreak(ps[k + 1])
  IN CASE ~PlainClass(Unrepeated(p)) -> FALSE
       [] p.kind \in {"lit", "dot"} -> TRUE
       [] p.kind = "rep" /\ p.op = "?" -> FALSE
       [] BareKind(p) = "dot" -> TRUE
       [] BareKind(p) = "lit" -> ~Optional(p) /\ ends
       [] p = Escaped(Zero) -> FALSE
       [] BareKind(p) \in {"digit", "escaped"} -> NothingHeld(ps, k) \/ LongRunHeld(ps, k)
       [] BareKind(p) = "group" ->
            NothingHeld(ps, k) /\ \A alt \in ToSet(Unrepeated(p).alts) : Long(alt)
       [] p.kind = "rep" -> p.op = "+" /\ LongRunHeld(ps, k)
       [] OTHER -> k = Len(ps) \/ ps[k + 1].kind \in {"lit", "class", "range"}

Faithfully == \A k \in DOMAIN Regexp : Faithful(Regexp, k)

\* Of the atoms pushed together, one occurs in every text that the pattern matches (a
\* lowercased text): what the source of the run, the group or the class contributes is
\* never more than the regexp demands.
BatchesCover ==
  [][ Batch # <<>> /\ Characters \cap Wide = {} /\ Faithfully
      => \A w \in Words(Regexp) : \E a \in ToSet(Batch) : OccursIn(a, Lower(w)) ]_vars

\* The regexp that QuoteMeta makes of a text matches "the original unquoted" text
\* (re2.h, QuoteMeta), as far as the crate reads the escapes.
QuotedReadsBack ==
  source.quoted /\ ToSet(source.literal) \subseteq Unquoted \cup Escapable \cup {Zero}
  => ReadsAs(QuoteMeta(source.literal)) = source.literal

\* Every pattern, panicking or not, is compiled in the end.
CompileReturns == <>(pc # "scan")
=============================================================================
