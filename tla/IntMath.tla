-------------------------------- MODULE IntMath --------------------------------
(***************************************************************************)
(* The library: integers as decimal text (IntMath.poiboi with the tables   *)
(* of IntMathTables.poiboi) and the search and reversal of PoiCore.poiboi, *)
(* which depend on each other.  A text is a sequence of characters: the    *)
(* digits 0..9, the minus sign, the 'r' between a quotient and its         *)
(* remainder, and others.  What a function does with characters one at a   *)
(* time is done here with sequences; the carries, signs and special cases  *)
(* are the code's.  CONCAT, SUBSTRING, STRLEN and EQUAL are what the       *)
(* runtime promises.                                                       *)
(*                                                                         *)
(* A function that calls itself for what is behind a minus sign, or with   *)
(* its arguments exchanged, does so once; such a call is written out, with *)
(* a definition of its own (Unsigned...) for numbers that have no sign.    *)
(***************************************************************************)
EXTENDS Decimals, Integers, SequencesExt

CONSTANTS Minus, Sep, Other,   \* "-", "r" and any other character
          Yes, No              \* the texts "TRUE" and "FALSE", a character each

ASSUME CharsAssumption ==
  /\ \A c \in {Minus, Sep, Other, Yes, No} : c \notin 0..9
  /\ Minus \notin {Sep, Other} /\ Sep # Other /\ Yes # No

Chars == 0..9 \cup {Minus, Sep, Other, Yes, No}

True == <<Yes>>
Truth(b) == IF b THEN True ELSE <<No>>

(* A condition holds when its text is "TRUE". *)
Holds(text) == text = True

(* IntMathErrorCode: any of the texts starts with no digit and has an 'r'.   *)
ErrorText == <<Other, Sep, Other>>

First(s) == IF s = <<>> THEN s ELSE <<Head(s)>>
Rest(s) == SubSeq(s, 2, Len(s))

Strlen(s) == Decimal[Len(s)]

(* The bounds of SUBSTRING are texts; one that is no number is replaced.     *)
Bound(text, default) == IF text # <<>> /\ AllDigits(text) THEN Value[text] ELSE default

Substring(s, start, end) ==
  LET to == Bound(end, Len(s))
  IN  SubSeq(s, Bound(start, 0) + 1, IF to < Len(s) THEN to ELSE Len(s))

PoiCoreReverse(str) == Reverse(str)

-----------------------------------------------------------------------------
(* One digit with another: the tables. *)

IsDigit(t) == Len(t) = 1 /\ t[1] \in 0..9

SingleDigitAdd(one, two) == Decimal[one[1] + two[1]]
SingleDigitSub(top, bottom) == <<(top[1] - bottom[1]) % 10>>
SingleDigitMultiply(one, two) == Decimal[one[1] * two[1]]
SingleDigitLessThan(one, two) == one[1] < two[1]

-----------------------------------------------------------------------------
(* Signs, zeros and validity *)

StartsWithNegative(num) == First(num) = <<Minus>>

DropZeroes(t) ==
  LET n == CHOOSE n \in 0..Len(t) : (\A i \in 1..n : t[i] = 0) /\ (n < Len(t) => t[n + 1] # 0)
  IN  SubSeq(t, n + 1, Len(t))

WithoutSign(num) == IF StartsWithNegative(num) THEN Rest(num) ELSE num

(* What becomes of num when left is what its zeros leave of it. *)
WithoutZeroes(num, left) ==
  IF left = <<>> THEN <<0>>
  ELSE IF ~IsDigit(First(left)) THEN num
  ELSE IF StartsWithNegative(num) THEN <<Minus>> \o left ELSE left

StripLeadingZeroes(num) ==
  IF WithoutSign(num) = <<>> THEN num ELSE WithoutZeroes(num, DropZeroes(WithoutSign(num)))

AnyDigits(text) == text # <<>> /\ AllDigits(text)

IsNonNegativeInt(num) == AnyDigits(StripLeadingZeroes(num))

IsNegativeInt(num) ==
  LET stripped == StripLeadingZeroes(num)
  IN  StartsWithNegative(stripped) /\ IsNonNegativeInt(Rest(stripped))

(* Faulty: a sign without digits is an integer. *)
BugIsValid(num) ==
  LET stripped == StripLeadingZeroes(num)
  IN  stripped # <<>> /\ AllDigits(WithoutSign(stripped))

IsValid(num) == IsNonNegativeInt(WithoutSign(StripLeadingZeroes(num)))

(* Every operation strips its arguments and refuses what is no integer.      *)
Refused(one, two) == ~(IsValid(one) /\ IsValid(two))

(* What a call gets that is made for what is behind a sign. *)
Unsigned(num) == StripLeadingZeroes(WithoutSign(num))

-----------------------------------------------------------------------------
(* Comparison *)

IntMathEqual(numOne, numTwo) ==
  LET one == StripLeadingZeroes(numOne)
      two == StripLeadingZeroes(numTwo)
  IN  IF Refused(one, two) THEN ErrorText ELSE Truth(one = two)

(* The first digit in which they differ decides. *)
DigitsLess(one, two) ==
  \E i \in DOMAIN one : /\ one[i] < two[i]
                        /\ \A j \in 1..(i - 1) : one[j] = two[j]

DigitTexts == Seq(0..9) \ {<<>>}

(* The fewer digits, the less; the numbers of digits are compared likewise. *)
UnsignedLess[numbers \in DigitTexts \X DigitTexts] ==
  LET one == numbers[1]
      two == numbers[2]
  IN  IF Len(one) # Len(two) THEN UnsignedLess[<<Strlen(one), Strlen(two)>>]
      ELSE DigitsLess(one, two)

(* Faulty: two negative numbers are compared as their absolute values are.   *)
BugLessThan(numOne, numTwo) ==
  LET one == StripLeadingZeroes(numOne)
      two == StripLeadingZeroes(numTwo)
  IN  IF Refused(one, two) THEN ErrorText
      ELSE IF StartsWithNegative(one) # StartsWithNegative(two)
        THEN Truth(StartsWithNegative(one))
      ELSE Truth(UnsignedLess[<<Unsigned(one), Unsigned(two)>>])

IntMathLessThan(numOne, numTwo) ==
  LET one == StripLeadingZeroes(numOne)
      two == StripLeadingZeroes(numTwo)
  IN  IF Refused(one, two) THEN ErrorText
      ELSE IF StartsWithNegative(one) # StartsWithNegative(two)
        THEN Truth(StartsWithNegative(one))
      ELSE IF StartsWithNegative(one)
        THEN Truth(UnsignedLess[<<Unsigned(two), Unsigned(one)>>])
      ELSE Truth(UnsignedLess[<<one, two>>])

IntMathGreaterThan(numOne, numTwo) == IntMathLessThan(numTwo, numOne)

-----------------------------------------------------------------------------
(* Steps of one, on the reversed digits *)

IncrementReversed[reversed \in Seq(0..9)] ==
  LET sum == SingleDigitAdd(First(reversed), <<1>>)
  IN  IF reversed = <<>> THEN <<>>
      ELSE IF Len(reversed) = 1 THEN PoiCoreReverse(sum)
      ELSE IF Len(sum) = 1 THEN sum \o Rest(reversed)
      ELSE SubSeq(sum, 2, 2) \o IncrementReversed[Rest(reversed)]

DecrementReversed[reversed \in Seq(0..9)] ==
  LET digit == SingleDigitSub(First(reversed), <<1>>)
  IN  IF reversed \in {<<>>, <<0>>} THEN <<>>
      ELSE IF First(reversed) = <<0>> THEN digit \o DecrementReversed[Rest(reversed)]
      ELSE digit \o Rest(reversed)

(* As above, without the zeros this leaves at the end. *)
DecrementReversedPositive(reversed) ==
  PoiCoreReverse(StripLeadingZeroes(PoiCoreReverse(DecrementReversed[reversed])))

UnsignedIncrement(num) == PoiCoreReverse(IncrementReversed[PoiCoreReverse(num)])

UnsignedDecrement(num) ==
  IF num = <<0>> THEN <<Minus, 1>>
  ELSE StripLeadingZeroes(PoiCoreReverse(DecrementReversed[PoiCoreReverse(num)]))

IntMathIncrement(num) ==
  LET stripped == StripLeadingZeroes(num)
  IN  IF ~IsValid(stripped) THEN ErrorText
      ELSE IF StartsWithNegative(stripped)
        THEN StripLeadingZeroes(<<Minus>> \o UnsignedDecrement(Unsigned(stripped)))
      ELSE UnsignedIncrement(stripped)

IntMathDecrement(num) ==
  LET stripped == StripLeadingZeroes(num)
  IN  IF ~IsValid(stripped) THEN ErrorText
      ELSE IF StartsWithNegative(stripped)
        THEN <<Minus>> \o UnsignedIncrement(Unsigned(stripped))
      ELSE UnsignedDecrement(stripped)

IntMathAbs(num) ==
  LET stripped == StripLeadingZeroes(num)
  IN  IF ~IsValid(stripped) THEN ErrorText
      ELSE IF StartsWithNegative(stripped) THEN Rest(stripped) ELSE stripped

-----------------------------------------------------------------------------
(* Sum and difference: column by column, from the right *)

(* What is left of a number after its last column, zero when nothing is.     *)
NextColumn(reversed) == IF Rest(reversed) = <<>> THEN <<0>> ELSE Rest(reversed)

(* The reversed digits of numbers: those of zero, or without a leading zero. *)
Columns == {t \in DigitTexts : t = <<0>> \/ t[Len(t)] # 0}

NothingLeft(columns) == columns = <<<<0>>, <<0>>>>

AddColumns[columns \in Columns \X Columns] ==
  LET one == columns[1]
      two == columns[2]
      sum == SingleDigitAdd(First(one), First(two))
  IN  IF NothingLeft(columns) THEN <<>>
      ELSE IF Len(sum) = 1 THEN AddColumns[<<NextColumn(one), NextColumn(two)>>] \o sum
      ELSE AddColumns[<<IncrementReversed[NextColumn(one)], NextColumn(two)>>] \o SubSeq(sum, 2, 2)

SubtractColumns[columns \in Columns \X Columns] ==
  LET one == columns[1]
      two == columns[2]
      borrowed == IF SingleDigitLessThan(First(one), First(two))
                    THEN DecrementReversedPositive(Rest(one)) ELSE Rest(one)
      left == IF borrowed = <<>> THEN <<0>> ELSE borrowed
  IN  IF NothingLeft(columns) THEN <<>>
      ELSE SubtractColumns[<<left, NextColumn(two)>>] \o SingleDigitSub(First(one), First(two))

UnsignedAdd(one, two) ==
  IF one = <<0>> THEN two
  ELSE IF two = <<0>> THEN one
  ELSE AddColumns[<<PoiCoreReverse(one), PoiCoreReverse(two)>>]

UnsignedSubtract(one, two) ==
  LET Difference(more, less) ==
        StripLeadingZeroes(SubtractColumns[<<PoiCoreReverse(more), PoiCoreReverse(less)>>])
  IN  IF Holds(IntMathLessThan(one, two)) THEN <<Minus>> \o Difference(two, one)
      ELSE Difference(one, two)

IntMathAdd(numOne, numTwo) ==
  LET one == StripLeadingZeroes(numOne)
      two == StripLeadingZeroes(numTwo)
      minusOne == StartsWithNegative(one)
      minusTwo == StartsWithNegative(two)
  IN  IF Refused(one, two) THEN ErrorText
      ELSE IF one = <<0>> THEN two
      ELSE IF two = <<0>> THEN one
      ELSE IF minusOne /\ minusTwo THEN <<Minus>> \o UnsignedAdd(Unsigned(one), Unsigned(two))
      ELSE IF minusOne THEN UnsignedSubtract(two, Unsigned(one))
      ELSE IF minusTwo THEN UnsignedSubtract(one, Unsigned(two))
      ELSE UnsignedAdd(one, two)

IntMathSubtract(numOne, numTwo) ==
  LET one == StripLeadingZeroes(numOne)
      two == StripLeadingZeroes(numTwo)
      minusOne == StartsWithNegative(one)
      minusTwo == StartsWithNegative(two)
  IN  IF Refused(one, two) THEN ErrorText
      ELSE IF minusOne /\ minusTwo THEN UnsignedSubtract(Unsigned(two), Unsigned(one))
      ELSE IF minusOne THEN IntMathAdd(one, <<Minus>> \o two)
      ELSE IF minusTwo THEN IntMathAdd(one, Rest(two))
      ELSE UnsignedSubtract(one, two)

-----------------------------------------------------------------------------
(* Product: one row per digit of the shorter factor *)

(* The row of a digit, its units and, a column further left, its tens.       *)
RowUnits(digit, num, shift) ==
  [i \in DOMAIN num |-> Last(SingleDigitMultiply(digit, <<num[i]>>))] \o shift

RowTens(digit, num, shift) ==
  [i \in DOMAIN num |-> LET product == SingleDigitMultiply(digit, <<num[i]>>)
                        IN  IF Len(product) = 2 THEN product[1] ELSE 0] \o <<0>> \o shift

(* The sum of the rows after so many turns of the loop. *)
AddRows(one, two) ==
  LET digits == PoiCoreReverse(one)
      Sum[i \in 0..Len(digits)] ==
        LET shift == [j \in 1..(i - 1) |-> 0]
            digit == <<digits[i]>>
        IN  IF i = 0 THEN <<0>>
            ELSE IntMathAdd(Sum[i - 1],
                            IntMathAdd(RowUnits(digit, two, shift), RowTens(digit, two, shift)))
  IN  Sum[Len(digits)]

UnsignedMultiply(numOne, numTwo) ==
  LET swap == Holds(IntMathLessThan(numTwo, numOne))
      one == IF swap THEN numTwo ELSE numOne
      two == IF swap THEN numOne ELSE numTwo
  IN  IF one = <<0>> THEN <<0>>
      ELSE IF one = <<1>> THEN two
      ELSE AddRows(one, two)

IntMathMultiply(numOne, numTwo) ==
  LET one == StripLeadingZeroes(numOne)
      two == StripLeadingZeroes(numTwo)
      minusOne == StartsWithNegative(one)
      minusTwo == StartsWithNegative(two)
  IN  IF Refused(one, two) THEN ErrorText
      ELSE (IF minusOne # minusTwo THEN <<Minus>> ELSE <<>>) \o
             UnsignedMultiply(IF minusTwo THEN Unsigned(two) ELSE Unsigned(one),
                              IF minusTwo THEN Unsigned(one) ELSE two)

-----------------------------------------------------------------------------
(* Search *)

(* Faulty: the first position is given up without a look at the next. *)
BugFind(str, substr) ==
  IF substr = Substring(str, <<0>>, Strlen(substr)) THEN <<0>> ELSE Strlen(Rest(str))

(* The loop after i turns has cut off i characters; resultIndex counts them. *)
PoiCoreFind(str, substr) ==
  LET Left(i) == SubSeq(str, i + 1, Len(str))
      resultIndex[i \in Nat] == IF i = 0 THEN <<0>> ELSE IntMathIncrement(resultIndex[i - 1])
      Found(i) == substr = Substring(Left(i), <<0>>, Strlen(substr))
      TooShort(i) == Holds(IntMathLessThan(Strlen(Left(i)), Strlen(substr)))
      last == CHOOSE i \in 0..Len(str) : /\ Found(i) \/ TooShort(i + 1)
                                         /\ \A j \in 0..(i - 1) : ~Found(j) /\ ~TooShort(j + 1)
  IN  IF Found(last) THEN resultIndex[last] ELSE Strlen(Left(last + 1))

(* Faulty: the index in the part is returned as an index in the whole. *)
BugFindBetween(str, substr, start, end) ==
  PoiCoreFind(Substring(str, start, end), substr)

(* An index in the part of str that starts at from, as an index in str. *)
IndexInWhole(str, part, from, index) ==
  IF index = Strlen(part) THEN Strlen(str) ELSE IntMathAdd(index, from)

PoiCoreFindBetween(str, substr, start, end) ==
  LET from == IF IsNonNegativeInt(start) THEN start ELSE <<0>>
      to == IF IsNonNegativeInt(end) THEN end ELSE Strlen(str)
      part == Substring(str, from, to)
  IN  IndexInWhole(str, part, from, PoiCoreFind(part, substr))

-----------------------------------------------------------------------------
(* Quotient and remainder *)

(* The largest digit d with d * bot <= top. *)
FindSingleDigitFactor(bot, top) ==
  LET Factor(less) ==
        LET OneOf(d) == IF less[d] THEN <<d - 1>> ELSE <<d>>
        IN  IF less[5] THEN IF less[3] THEN OneOf(2) ELSE OneOf(4)
            ELSE IF less[7] THEN OneOf(6)
            ELSE IF less[9] THEN OneOf(8)
            ELSE <<9>>
  IN  IF Holds(IntMathLessThan(top, bot)) THEN <<0>>
      ELSE Factor([d \in 1..9 |-> Holds(IntMathLessThan(top, IntMathMultiply(<<d>>, bot)))])

(* What a turn of the loop over the digits of top leaves: the digits of the   *)
(* quotient so far, and what remains of the piece of top that digit is for.   *)
Extended(quotient, digit, difference) ==
  [quotient |-> quotient \o digit,
   difference |-> IF difference = <<0>> THEN <<>> ELSE difference]

TurnWith(quotient, piece, bot, digit) ==
  Extended(quotient, digit, IntMathSubtract(piece, IntMathMultiply(digit, bot)))

LongDivision(top, bot) ==
  LET Turn[i \in 0..Len(top)] ==
        LET before == Turn[i - 1]
            piece == before.difference \o <<top[i]>>
        IN  IF i = 0 THEN [quotient |-> <<>>, difference |-> <<>>]
            ELSE TurnWith(before.quotient, piece, bot, FindSingleDigitFactor(bot, piece))
      Joined(end) ==
        StripLeadingZeroes(end.quotient) \o <<Sep>> \o
          (IF end.difference = <<>> THEN <<0>> ELSE end.difference)
  IN  Joined(Turn[Len(top)])

(* Both sides of the separator at index, errors when there is none or they    *)
(* are no integers.                                                           *)
PartsAt(both, index) ==
  LET quotient == Substring(both, <<0>>, index)
      remainder == Substring(both, IntMathIncrement(index), <<>>)
  IN  IF index = Strlen(both) \/ Refused(remainder, quotient)
        THEN [quotient |-> ErrorText, remainder |-> ErrorText]
      ELSE [quotient |-> quotient, remainder |-> remainder]

(* IntMathGetQuotient and IntMathGetRemainder. *)
Parts(both) == PartsAt(both, PoiCoreFind(both, <<Sep>>))

(* Faulty: the remainder is completed as for a positive divisor. *)
BugCompleted(top, bot, parts) ==
  LET negated == StripLeadingZeroes(<<Minus>> \o parts.quotient)
  IN  IF StartsWithNegative(top) /\ StartsWithNegative(bot)
        THEN parts.quotient \o <<Sep>> \o StripLeadingZeroes(<<Minus>> \o parts.remainder)
      ELSE IF parts.remainder = <<0>> THEN negated \o <<Sep, 0>>
      ELSE IntMathDecrement(negated) \o <<Sep>> \o IntMathSubtract(bot, parts.remainder)

(* The answer for top and bot, one of them negative, from the quotient and    *)
(* the remainder of their absolute values.                                    *)
Completed(top, bot, parts) ==
  LET negated == StripLeadingZeroes(<<Minus>> \o parts.quotient)
  IN  IF StartsWithNegative(top) /\ StartsWithNegative(bot)
        THEN parts.quotient \o <<Sep>> \o StripLeadingZeroes(<<Minus>> \o parts.remainder)
      ELSE IF parts.remainder = <<0>> THEN negated \o <<Sep, 0>>
      ELSE IntMathDecrement(negated) \o <<Sep>> \o
             (IF StartsWithNegative(bot) THEN IntMathAdd(bot, parts.remainder)
              ELSE IntMathSubtract(bot, parts.remainder))

(* The simple cases, and numbers without a sign. *)
DivideDirectly(top, bot) ==
  IF bot = <<1>> THEN top \o <<Sep, 0>>
  ELSE IF bot = <<0>> THEN ErrorText
  ELSE IF top = <<0>> THEN <<0, Sep, 0>>
  ELSE IF Holds(IntMathLessThan(top, bot)) THEN <<0, Sep>> \o top
  ELSE LongDivision(top, bot)

(* The division goes through absolute values: a number is negative, and none  *)
(* of the simple cases comes first.                                           *)
ThroughAbsolute(top, bot) ==
  /\ StartsWithNegative(top) \/ StartsWithNegative(bot)
  /\ bot \notin {<<0>>, <<1>>} /\ top # <<0>>

DivideStripped(top, bot, both) ==
  IF ThroughAbsolute(top, bot) THEN Completed(top, bot, Parts(both)) ELSE both

IntMathDivideWithRemainder(numTop, numBot) ==
  LET top == StripLeadingZeroes(numTop)
      bot == StripLeadingZeroes(numBot)
      Divided(num) == IF ThroughAbsolute(top, bot) THEN Unsigned(num) ELSE num
  IN  IF Refused(top, bot) THEN ErrorText
      ELSE DivideStripped(top, bot, DivideDirectly(Divided(top), Divided(bot)))

Divisions == {"DivideFloor", "DivideCeil", "DivideRound", "Modulus"}

(* Whether the next integer is nearer, or as near and nearer to zero. *)
NextIsNearer(parts, double, bot) ==
  IF Holds(IntMathEqual(double, bot)) THEN StartsWithNegative(parts.quotient)
  ELSE Holds(IntMathGreaterThan(double, bot)) # StartsWithNegative(bot)

(* What each division makes of a quotient and a remainder. *)
Rounded(division, parts, bot) ==
  IF division = "Modulus" THEN parts.remainder
  ELSE IF /\ division # "DivideFloor"
          /\ parts.remainder # <<0>>
          /\ division = "DivideRound" =>
               NextIsNearer(parts, IntMathMultiply(<<2>>, parts.remainder), bot)
    THEN IntMathIncrement(parts.quotient)
  ELSE parts.quotient

(* IntMathDivideFloor, IntMathDivideCeil, IntMathDivideRound, IntMathModulus. *)
IntMathDivision(division, top, bot) ==
  IF Refused(top, bot) THEN ErrorText
  ELSE Rounded(division, Parts(IntMathDivideWithRemainder(top, bot)), StripLeadingZeroes(bot))
=============================================================================
