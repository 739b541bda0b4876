---------------------------- MODULE StringPiece ----------------------------
(***************************************************************************)
(* StringPiece (re2/stringpiece.h, stringpiece.cc): views of a buffer.     *)
(* There are AddrSpace addresses and sizes, so that the arithmetic of the  *)
(* members is that of the code.  What a member reads outside of the buffer *)
(* is undefined; the definitions below are for views of it, and the null   *)
(* view.                                                                   *)
(***************************************************************************)
EXTENDS Integers, Sequences, SequencesExt

CONSTANTS
  AddrSpace,  \* how many values a pointer and a size_t have, 2^64
  Base        \* where the buffer starts

ASSUME WidthAssumption == AddrSpace \in Nat \ {0} /\ Base \in Nat \ {0}

VARIABLE text     \* the buffer, a sequence of bytes

npos == AddrSpace - 1

View(d, n) == [data |-> d, size |-> n]
NullView == View(0, 0)
Views == [data : 0..AddrSpace - 1, size : 0..AddrSpace - 1]

InText(v) == v.data >= Base /\ v.data + v.size <= Base + Len(text)
Readable(v) == v = NullView \/ InText(v)
BytesOf(v) ==
  IF v = NullView THEN <<>> ELSE SubSeq(text, v.data - Base + 1, v.data - Base + v.size)

SmallerOf(m, n) == IF m < n THEN m ELSE n
Plus(m, n) == (m + n) % AddrSpace
Minus(m, n) == (m - n) % AddrSpace
------------------------------------------------------------------------------
(***************************************************************************)
(* Moving the ends.                                                        *)
(***************************************************************************)
\* Bugs: a remove_prefix that forgets the size, or computes outside size_t.
RemovePrefixKeepSize(v, n) == View((v.data + n) % AddrSpace, v.size)
RemovePrefixUnbounded(v, n) == View(v.data + n, v.size - n)

RemovePrefix(v, n) == View(Plus(v.data, n), Minus(v.size, n))
RemoveSuffix(v, n) == View(v.data, Minus(v.size, n))

Substr(v, pos, n) ==
  LET from == SmallerOf(pos, v.size) IN View(Plus(v.data, from), SmallerOf(n, v.size - from))

\* How many bytes copy writes.
Copied(v, n, pos) == SmallerOf(Minus(v.size, pos), n)
------------------------------------------------------------------------------
(***************************************************************************)
(* Comparison.                                                             *)
(***************************************************************************)
Memcmp(s, t, n) ==
  LET diff == {k \in 1..n : s[k] # t[k]}
  IN IF diff = {} THEN 0 ELSE IF s[Min(diff)] < t[Min(diff)] THEN -1 ELSE 1

MemcmpCommon(x, y) == Memcmp(BytesOf(x), BytesOf(y), SmallerOf(x.size, y.size))

Compare(x, y) ==
  CASE MemcmpCommon(x, y) # 0 -> MemcmpCommon(x, y)
    [] MemcmpCommon(x, y) = 0 /\ x.size < y.size -> -1
    [] MemcmpCommon(x, y) = 0 /\ x.size > y.size -> 1
    [] OTHER -> 0

Equal(x, y) == x.size = y.size /\ (x.data = y.data \/ x.size = 0 \/ MemcmpCommon(x, y) = 0)
Less(x, y) == MemcmpCommon(x, y) < 0 \/ (MemcmpCommon(x, y) = 0 /\ x.size < y.size)

StartsWith(v, x) == x.size = 0 \/ (v.size >= x.size /\ Memcmp(BytesOf(v), BytesOf(x), x.size) = 0)
EndsWith(v, x) ==
  \/ x.size = 0
  \/ /\ v.size >= x.size
     /\ Memcmp(BytesOf(View(v.data + v.size - x.size, x.size)), BytesOf(x), x.size) = 0
------------------------------------------------------------------------------
(***************************************************************************)
(* Searching.  std::search, find and find_end give an offset in s, or the  *)
(* end of the searched range when there is no occurrence in it.            *)
(***************************************************************************)
Occurrences(s, t, from, to) ==
  {k \in from..to - Len(t) : SubSeq(s, k + 1, k + Len(t)) = t}
FirstOr(S, end) == IF S = {} THEN end ELSE Min(S)
LastOr(S, end) == IF S = {} THEN end ELSE Max(S)

Find(v, x, pos) ==
  LET xpos == FirstOr(Occurrences(BytesOf(v), BytesOf(x), pos, v.size), v.size)
  IN IF pos > v.size THEN npos
     ELSE IF Plus(xpos, x.size) <= v.size THEN xpos ELSE npos

FindChar(v, c, pos) ==
  LET result == FirstOr(Occurrences(BytesOf(v), <<c>>, pos, v.size), v.size)
  IN IF pos >= v.size THEN npos ELSE IF result # v.size THEN result ELSE npos

\* Bug: the last position that is searched lies too far left by the length of x.
RFindShort(v, x, pos) ==
  LET end == SmallerOf(v.size - x.size, pos)
      result == LastOr(Occurrences(BytesOf(v), BytesOf(x), 0, end), end)
  IN IF v.size < x.size THEN npos
     ELSE IF x.size = 0 THEN SmallerOf(v.size, pos)
     ELSE IF result # end THEN result ELSE npos

RFind(v, x, pos) ==
  LET end == SmallerOf(v.size - x.size, pos) + x.size
      result == LastOr(Occurrences(BytesOf(v), BytesOf(x), 0, end), end)
  IN IF v.size < x.size THEN npos
     ELSE IF x.size = 0 THEN SmallerOf(v.size, pos)
     ELSE IF result # end THEN result ELSE npos

\* pos + 1 is 0 for npos, the default.
RFindChar(v, c, pos) ==
  LastOr({k \in 0..SmallerOf(Plus(pos, 1), v.size) - 1 : BytesOf(v)[k + 1] = c}, npos)
------------------------------------------------------------------------------
(***************************************************************************)
(* What users of a view rely on.                                           *)
(***************************************************************************)
\* substr stays in the view it is taken from, and copy copies what substr shows.
SubstrWithin(v) ==
  \A pos, n \in 0..v.size + 1 \cup {npos} :
    LET s == Substr(v, pos, n)
    IN /\ s.data >= v.data /\ s.data + s.size <= v.data + v.size
       /\ pos <= v.size => Copied(v, n, pos) = s.size

\* The comparisons are those of one order.
OrderAgrees(x, y) ==
  /\ Equal(x, y) <=> Compare(x, y) = 0
  /\ Less(x, y) <=> Compare(x, y) = -1
  /\ Compare(y, x) = -Compare(x, y)
  /\ Equal(x, y) <=> BytesOf(x) = BytesOf(y)

\* The two searches agree on whether there is an occurrence, each finds one, the first
\* not behind the last, and those at the ends are what starts_with and ends_with see.
SearchAgrees(v, x) ==
  LET f == Find(v, x, 0)
      r == RFind(v, x, npos)
  IN /\ f = npos <=> r = npos
     /\ f # npos => /\ Equal(Substr(v, f, x.size), x) /\ Equal(Substr(v, r, x.size), x)
                    /\ f <= r
                    /\ Find(v, x, f + 1) = npos <=> (f = r /\ (x.size > 0 \/ f = v.size))
     /\ StartsWith(v, x) <=> f = 0
     /\ EndsWith(v, x) <=> (f # npos /\ r + x.size = v.size)

\* A search for a byte is one for the view of that byte; rfind of a byte only from a
\* position before npos.
CharSearchAgrees(v, x) ==
  x.size = 1 => /\ FindChar(v, BytesOf(x)[1], 0) = Find(v, x, 0)
                /\ RFindChar(v, BytesOf(x)[1], v.size) = RFind(v, x, v.size)
=============================================================================
