------------------------------- MODULE RE2Arg -------------------------------
(***************************************************************************)
(* The Parse functions behind RE2::Arg (the end of re2/re2.cc): how the    *)
(* bytes of a submatch become the value of a pointee.  One behaviour is    *)
(* one call: the state before it, and the state after it.                  *)
(*                                                                         *)
(* The C library's strtol family is external; widths, the buffer sizes and *)
(* what a float makes of a number are parameters.                          *)
(***************************************************************************)
EXTENDS Integers, Sequences, SequencesExt

CONSTANTS
  Inputs,            \* the submatches, sequences of bytes
  Types,             \* the pointee types, as the records below
  Radixes,           \* of Arg, Hex, Octal and CRadix: 10, 16, 8, 0
  LongBits,          \* width of the type that strtol and strtoul return
  kMaxNumberLength,  \* of the buffer of the integer parsers, without its NUL
  kMaxLength,        \* the same of the parsers of float and double
  MaxFloat,          \* strtof and strtod set errno for a number beyond it
  Rounded(_),        \* the float nearest to a number that is not beyond it
  Fraction(_),       \* strtof and strtod on a C string that is Fractional: the value, and
                     \* how many bytes of it they took, -1 when they set errno
  Garbage            \* what a fresh buffer may be filled with: NUL-free sequences

Signed(b) == [class |-> "signed", bits |-> b]       \* short, int, long, long long
Unsigned(b) == [class |-> "unsigned", bits |-> b]
FloatType == [class |-> "float", bits |-> 0]        \* float, double
CharType == [class |-> "char", bits |-> 8]          \* char, signed and unsigned char
StringType == [class |-> "string", bits |-> 0]      \* std::string, StringPiece
VoidType == [class |-> "void", bits |-> 0]          \* void*

\* Any bytes.  The widest octal numeral of a long, with a sign and two zeros in front,
\* fits into the buffer; no integer type is wider than a long.
ASSUME ArgAssumption ==
  /\ LongBits \in Nat \ {0} /\ kMaxNumberLength \in Nat /\ kMaxLength \in Nat
  /\ 3 * (kMaxNumberLength - 3) >= LongBits
  /\ \A s \in Inputs : s \in Seq(0..255)
  /\ Types \subseteq (UNION {{Signed(b), Unsigned(b)} : b \in 1..LongBits})
                     \cup {FloatType, CharType, StringType, VoidType}
  /\ 10 \in Radixes /\ Radixes \subseteq {0, 8, 10, 16}
  /\ MaxFloat \in Nat

VARIABLES
  str,     \* the submatch
  type,    \* of the pointee
  radix,
  null,    \* the pointee is NULL
  stale,   \* what the parser's buffer holds before the call
  dest,    \* the pointee
  result   \* "none" before the call, then what it returned

vars == <<str, type, radix, null, stale, dest, result>>

Unset == [unset |-> TRUE]
Value(v) == [value |-> v]

NUL == 0
Spaces == 9..13 \cup {32}   \* isspace
Minus == 45
Plus == 43
Zero == 48

Init ==
  /\ str \in Inputs /\ type \in Types /\ null \in BOOLEAN /\ stale \in Garbage
  /\ radix \in IF type.class \in {"signed", "unsigned"} THEN Radixes ELSE {10}
  /\ dest = Unset
  /\ result = "none"
------------------------------------------------------------------------------
(***************************************************************************)
(* Scanning.                                                               *)
(***************************************************************************)
StartsWith(s, c) == s # <<>> /\ s[1] = c
StartsWithSpace(s) == s # <<>> /\ s[1] \in Spaces
From(s, n) == SubSeq(s, n + 1, Len(s))

\* The number of bytes of C at the start of s.
Prefix(s, C) == Max({n \in 0..Len(s) : \A i \in 1..n : s[i] \in C})

DigitValue(c) == CASE c \in 48..57 -> c - 48
                   [] c \in 65..90 -> c - 55
                   [] c \in 97..122 -> c - 87
                   [] OTHER -> 99

Sign(s) == IF StartsWith(s, Minus) \/ StartsWith(s, Plus) THEN 1 ELSE 0

\* What a number of this radix may start with after its sign, and its base.
HasX(s) == StartsWith(s, Zero) /\ Len(s) >= 2 /\ s[2] \in {88, 120}
BaseOf(s, rdx) == CASE rdx # 0 -> rdx
                    [] rdx = 0 /\ HasX(s) -> 16
                    [] rdx = 0 /\ StartsWith(s, Zero) /\ ~HasX(s) -> 8
                    [] OTHER -> 10

ValueOf(digits, base) ==
  LET v[n \in 0..Len(digits)] == IF n = 0 THEN 0 ELSE v[n - 1] * base + DigitValue(digits[n])
  IN v[Len(digits)]

\* The prefix that strtol skips before a number of the base, and the digits it takes.
SkipsX(body, base) ==
  IF base = 16 /\ HasX(body) /\ Len(body) > 2 /\ DigitValue(body[3]) < 16 THEN 2 ELSE 0
Taken(body, base) ==
  Prefix(From(body, SkipsX(body, base)), {d \in 48..122 : DigitValue(d) < base})

\* The C library's strtol and its relatives on the C string c: the value, and how
\* many bytes of c it took, 0 when c does not start with a number.
Strtol(c, rdx) ==
  LET spaces == Prefix(c, Spaces)
      signed == From(c, spaces)
      body == From(signed, Sign(signed))
      base == BaseOf(body, rdx)
      x == SkipsX(body, base)
      n == Taken(body, base)
      v == ValueOf(SubSeq(body, x + 1, x + n), base)
  IN IF n = 0 THEN [value |-> 0, end |-> 0]
     ELSE [value |-> IF StartsWith(signed, Minus) THEN -v ELSE v,
           end |-> spaces + Sign(signed) + x + n]
------------------------------------------------------------------------------
(***************************************************************************)
(* TerminateNumber: the C string that it returns, and the length that its  *)
(* caller compares strtol's end with.                                      *)
(***************************************************************************)
Terminated(cstr, n) == [cstr |-> cstr, n |-> n]

\* Bug: s/00+/0/.
StripZerosAll(s) ==
  LET zeros == Prefix(s, {Zero}) IN IF zeros < 2 THEN s ELSE From(s, zeros - 1)

\* s/000+/00/ at the start of s.
StripZeros(s) ==
  LET zeros == Prefix(s, {Zero}) IN IF zeros < 3 THEN s ELSE From(s, zeros - 2)

\* Bug: no '\0' after the last byte.
CStringAtUnterminated(bytes) ==
  LET all == bytes \o From(stale, Len(bytes))
  IN SubSeq(all, 1, Prefix(all, 1..255))

\* The C string in a buffer that the bytes and a NUL were copied into.
CStringAt(bytes) == SubSeq(bytes, 1, Prefix(bytes, 1..255))

TerminateNumber(s, max, accept_spaces) ==
  LET rest == From(s, Prefix(s, Spaces))
      number == IF StartsWith(rest, Minus) THEN <<Minus>> \o StripZeros(Tail(rest))
                ELSE StripZeros(rest)
  IN CASE StartsWithSpace(s) /\ ~accept_spaces -> Terminated(<<>>, Len(s))
       [] OTHER -> IF Len(number) > max THEN Terminated(<<>>, Len(s))
                   ELSE Terminated(CStringAt(number), Len(number))
------------------------------------------------------------------------------
(***************************************************************************)
(* Parse: <<>> when it returns false, <<v>> when v is the value.           *)
(***************************************************************************)
Pow2(n) == LET p[i \in 0..n] == IF i = 0 THEN 1 ELSE 2 * p[i - 1] IN p[n]

ValuesOf(t) == IF t.class = "signed" THEN -Pow2(t.bits - 1)..Pow2(t.bits - 1) - 1
               ELSE 0..Pow2(t.bits) - 1
Long == [type EXCEPT !.bits = LongBits]

\* (short)r and so on.
Cast(v, t) == LET w == v % Pow2(t.bits)
              IN IF t.class = "signed" /\ w >= Pow2(t.bits - 1) THEN w - Pow2(t.bits) ELSE w

Narrowed(v) == IF Cast(v, type) = v THEN <<v>> ELSE <<>>

ParseInteger(s) ==
  LET t == TerminateNumber(s, kMaxNumberLength, FALSE)
      r == Strtol(t.cstr, radix)
  IN CASE s = <<>> -> <<>>
       [] s # <<>> /\ type.class = "unsigned" /\ StartsWith(t.cstr, Minus) -> <<>>
       [] OTHER -> IF r.end # t.n \/ r.value \notin ValuesOf(Long) THEN <<>> ELSE Narrowed(r.value)

\* strtof and strtod, on decimal and hexadecimal integers, whose range is that of the
\* floats; a C string with a byte that stands in fractions, exponents, infinities or
\* NaNs (. e i n p) is left to Fraction.
FloatRadix(s) == IF HasX(From(s, Sign(s))) THEN 16 ELSE 10
Marks == {46, 69, 73, 78, 80, 101, 105, 110, 112}
Fractional(s) == \E i \in DOMAIN s : s[i] \in Marks
Floats == -MaxFloat..MaxFloat

ParseFloat(s) ==
  LET t == TerminateNumber(s, kMaxLength, TRUE)
      r == Strtol(t.cstr, FloatRadix(t.cstr))
  IN CASE s = <<>> -> <<>>
       [] s # <<>> /\ Fractional(t.cstr) ->
            IF Fraction(t.cstr).end # t.n THEN <<>> ELSE <<Fraction(t.cstr).value>>
       [] OTHER -> IF r.end # t.n \/ r.value \notin Floats THEN <<>> ELSE <<Rounded(r.value)>>

Parse(s) ==
  CASE type.class \in {"signed", "unsigned"} -> ParseInteger(s)
    [] type.class = "float" -> ParseFloat(s)
    [] type.class = "char" -> IF Len(s) = 1 THEN s ELSE <<>>
    [] type.class = "string" -> <<s>>
    [] type.class = "void" -> IF null THEN <<s>> ELSE <<>>

\* Bug: the test of dest == NULL left out.
CallStoresNull ==
  /\ result = "none"
  /\ LET v == Parse(str)
     IN /\ result' = IF v = <<>> THEN "false" ELSE "true"
        /\ dest' = IF v = <<>> THEN dest ELSE Value(v[1])
  /\ UNCHANGED <<str, type, radix, null, stale>>

Call ==
  /\ result = "none"
  /\ LET v == Parse(str)
     IN /\ result' = IF v = <<>> THEN "false" ELSE "true"
        /\ dest' = IF v = <<>> \/ null THEN dest ELSE Value(v[1])
  /\ UNCHANGED <<str, type, radix, null, stale>>

Next == Call
Spec == Init /\ [][Next]_vars
------------------------------------------------------------------------------
(***************************************************************************)
(* Properties.                                                             *)
(***************************************************************************)

\* A numeral of the C language, all of s: a sign, the prefix 0x where the radix
\* allows it, and at least one digit of the base.
Base(s, rdx) == BaseOf(From(s, Sign(s)), rdx)
Magnitude(s, rdx) ==
  LET body == From(s, Sign(s)) IN IF Base(s, rdx) = 16 /\ HasX(body) THEN From(body, 2) ELSE body

IsNumeral(s, rdx) ==
  LET digits == Magnitude(s, rdx)
  IN digits # <<>> /\ \A i \in DOMAIN digits : DigitValue(digits[i]) < Base(s, rdx)
Numeral(s, rdx) ==
  (IF StartsWith(s, Minus) THEN -1 ELSE 1) * ValueOf(Magnitude(s, rdx), Base(s, rdx))

\* A "+" or "0x" in front of leading zeros keeps them from being removed.
ZerosRemovable == Len(str) <= kMaxNumberLength \/ (~StartsWith(str, Plus) /\ ~HasX(From(str, Sign(str))))

TypeOK ==
  /\ str \in Inputs /\ type \in Types /\ radix \in Radixes /\ null \in BOOLEAN
  /\ result \in {"none", "true", "false"}
  /\ dest # Unset =>
       /\ result = "true" /\ ~null /\ type.class # "void"
       /\ type.class \in {"signed", "unsigned"} => dest.value \in ValuesOf(type)

\* An integer parser accepts exactly the numerals whose value its type holds, and
\* stores that value: for any number of leading zeros ("we can still handle
\* arbitrarily large integers correctly by omitting leading zeros. (Numbers that
\* are still too long will be out of range.)", re2.cc:962-968), whatever the buffer
\* holds from before, in every radix; unsigned parsers refuse a minus.
IntegersExact ==
  result # "none" /\ type.class \in {"signed", "unsigned"} /\ ZerosRemovable
  => /\ result = "true" <=> /\ IsNumeral(str, radix) /\ Numeral(str, radix) \in ValuesOf(type)
                            /\ type.class = "unsigned" => ~StartsWith(str, Minus)
     /\ result = "true" /\ ~null => dest = Value(Numeral(str, radix))

\* A float parser skips leading spaces, and accepts every numeral that fits its buffer
\* and whose value is not beyond the floats, with the nearest float, as the integer
\* parsers do; spaces alone are taken as 0.
FloatsSkipSpaces ==
  result # "none" /\ type = FloatType /\ str # <<>>
  => LET rest == From(str, Prefix(str, Spaces))
         number == IF rest = <<>> THEN 0 ELSE Numeral(rest, FloatRadix(rest))
     IN Len(rest) <= kMaxLength /\ ~Fractional(rest) =>
          /\ result = "true" <=> /\ rest = <<>> \/ IsNumeral(rest, FloatRadix(rest))
                                /\ number \in Floats
          /\ result = "true" /\ ~null => dest = Value(Rounded(number))
=============================================================================
