------------------------------ MODULE MCRE2Arg ------------------------------
(***************************************************************************)
(* Instances of RE2Arg: long has 8 bits, int 6, short 4, and the buffer    *)
(* takes 7 bytes; floats have 4 digits and end at 480.  Inputs are all     *)
(* strings of up to three bytes of a small alphabet, and numerals with a   *)
(* lead, up to eight zeros, and a tail that lies around the limits of the  *)
(* types.                                                                  *)
(***************************************************************************)
EXTENDS RE2Arg, TLC

Space == 32
X == 120

MCTypes == {Signed(4), Signed(6), Signed(8), Unsigned(4), Unsigned(6), Unsigned(8),
            FloatType, CharType, StringType, VoidType}
MCRadixes == {0, 8, 10, 16}

Short == UNION {[1..n -> {NUL, Space, Minus, Plus, Zero, 55, 102, X}] : n \in 0..3}
Leads == {<<>>, <<Minus>>, <<Plus>>, <<Minus, Minus>>, <<9>>, <<Space, Minus>>}
Zeros == {[i \in 1..n |-> Zero] : n \in 0..8}
\* 7, 8, 9, 15, 16, 31, 32, 127, 128, 129, 200, 255, 256, 377, 400, f, Ff, x7, X80, xff, ..., 7.5
Tails == { <<55>>, <<56>>, <<57>>, <<49, 53>>, <<49, 54>>, <<51, 49>>, <<51, 50>>,
           <<49, 50, 55>>, <<49, 50, 56>>, <<49, 50, 57>>, <<50, 48, 48>>, <<50, 53, 53>>,
           <<50, 53, 54>>, <<51, 55, 55>>, <<52, 48, 48>>, <<102>>, <<70, 102>>, <<X, 55>>,
           <<88, 56, 48>>, <<X, 102, 102>>, <<X>>, <<55, NUL>>, <<55, Space>>,
           <<49, 49, 49, 49, 49>>, <<55, 46, 53>>, <<55, 55, 55, 55, 55, 55>> }
MCInputs == Short \cup {l \o z \o t : l \in Leads, z \in Zeros, t \in Tails}

\* Four binary digits of a number.
MCRounded(v) ==
  LET size == IF v < 0 THEN -v ELSE v
      unit == IF size < 16 THEN 1 ELSE IF size < 256 THEN 16 ELSE 32
  IN IF v < 0 THEN -(unit * (size \div unit)) ELSE unit * (size \div unit)
MCFraction(s) == [value |-> "fraction", end |-> IF s[1] \in 48..57 THEN Len(s) ELSE 0]

MCGarbage == {[i \in 1..kMaxNumberLength + 1 |-> 55]}
=============================================================================
