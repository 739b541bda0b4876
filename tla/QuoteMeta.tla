----------------------------- MODULE QuoteMeta -----------------------------
(***************************************************************************)
(* RE2::QuoteMeta (re2.cc:511), and how the regex crate reads its result.  *)
(*                                                                         *)
(* The code works on bytes and copies those with the top bit set.  Here a  *)
(* character outside ASCII stands for all of its bytes.                    *)
(***************************************************************************)
EXTENDS Naturals, Sequences, SequencesExt

CONSTANTS
  Alnum,       \* the ASCII letters and digits
  Wide,        \* the characters outside ASCII
  Escapable    \* the punctuation that the crate reads after a backslash

Zero == "\\0"   \* the character NUL
Unquoted == Alnum \cup Wide \cup {"_", "!", " ", "'", "="}

\* Bug: NUL written as backslash zero.
QuoteOctal(c) ==
  IF c \in Unquoted THEN <<c>>
  ELSE IF c = Zero THEN <<"\\", "0">>
  ELSE <<"\\", c>>

Quote(c) ==
  IF c \in Unquoted THEN <<c>>
  ELSE IF c = Zero THEN <<"\\", "x", "0", "0">>
  ELSE <<"\\", c>>

QuoteMeta(unquoted) == FlattenSeq([k \in DOMAIN unquoted |-> Quote(unquoted[k])])
------------------------------------------------------------------------------
\* The words that the crate's parser reads a pattern without operators as: every
\* character but a backslash and the punctuation with a meaning for itself.
ReadError == <<"error">>

ReadsAs(s) ==
  LET f[k \in 1..Len(s) + 1] ==
        IF k > Len(s) THEN <<>>
        ELSE IF s[k] \in Unquoted THEN <<s[k]>> \o f[k + 1]
        ELSE IF s[k] # "\\" THEN ReadError
        ELSE IF k + 3 <= Len(s) /\ SubSeq(s, k + 1, k + 3) = <<"x", "0", "0">> THEN <<Zero>> \o f[k + 4]
        ELSE IF k < Len(s) /\ s[k + 1] \in Escapable THEN <<s[k + 1]>> \o f[k + 2]
        ELSE ReadError
  IN f[1]
=============================================================================
