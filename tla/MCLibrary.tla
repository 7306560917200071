------------------------------- MODULE MCLibrary -------------------------------
(* Texts for TLC. *)
EXTENDS Library

(* Integers on both sides of changes in the number of digits. *)
SomeNumbers == -2..4 \cup {-100, -99, -47, -10, -9, 6, 7, 8, 9, 10, 35, 50, 99, 100}

(* Leading zeros, zeros with a sign, and texts that are no integers. *)
OddNumerals == {<<0, 0>>, <<0, 7>>, <<0, 0, 1, 0>>, <<Minus, 0>>, <<Minus, 0, 3>>}
OddTexts == {<<>>, <<Minus>>, <<2, Sep, 1>>}
OtherTexts == {<<Other>>, <<4, Other>>, <<0, Other>>, <<Minus, Other>>, <<7, Minus>>, <<Sep>>, <<0, Minus>>,
               <<Minus, Minus>>, <<Minus, Minus, 0>>, <<Minus, Minus, 0, 0>>, <<Minus, Minus, 1>>}

SomeOperands == {Numeral(n) : n \in SomeNumbers} \cup OddNumerals \cup OddTexts

LongTexts ==
  {Numeral(n) : n \in {999999999, 1000000000, -1000000000, -999999999}}
  \cup {<<0, 0, 0, 0, 0, 0, 0, 0, 0, 0, 0, 5>>} \cup OtherTexts

TwoLetters == {Sep, Other}
=============================================================================
