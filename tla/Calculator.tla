------------------------------ MODULE Calculator ------------------------------
(***************************************************************************)
(* A program that computes with the library: it gives a text or the result *)
(* of its last call to the next call.  exact is the integer the last call  *)
(* should have given for the texts it was called with.                     *)
(***************************************************************************)
EXTENDS IntMath

CONSTANTS
  Operands,    \* the texts given to calls
  Loaded,      \* further texts that take no part in calls but comparisons
  NotANumber,  \* what a call that cannot be answered should give
  MaxExact,    \* bound: larger results are not given to a call ...
  MaxDigits    \* ... nor are longer texts

ASSUME OperandsAssumption ==
  /\ Operands \cup Loaded \subseteq Seq(Chars)
  /\ MaxExact \in Nat /\ MaxDigits \in Nat
  /\ NotANumber \notin Int

VARIABLES
  acc,    \* the result of the last call
  exact,  \* the integer it should denote, or NotANumber
  by      \* the function called, "Load" for a text of its own, "nothing" at first

calculated == <<acc, exact, by>>

-----------------------------------------------------------------------------
(* The reference: integers *)

Digits(text) == IF First(text) = <<Minus>> THEN Rest(text) ELSE text

IsNumeral(text) == Digits(text) # <<>> /\ AllDigits(Digits(text))

NumberOf(text) ==
  IF ~IsNumeral(text) THEN NotANumber
  ELSE IF First(text) = <<Minus>> THEN -Value[Digits(text)]
  ELSE Value[text]

Numeral(n) == IF n < 0 THEN <<Minus>> \o Decimal[-n] ELSE Decimal[n]

Magnitude(n) == IF n < 0 THEN -n ELSE n

(* top \div bot rounded down: \div does so for positive divisors. *)
Floor(top, bot) == IF bot < 0 THEN (-top) \div (-bot) ELSE top \div bot

(* Halves go towards zero. *)
Round(top, bot) ==
  LET a == Magnitude(top)
      b == Magnitude(bot)
      nearest == -Floor(b - 2 * a, 2 * b)
  IN  IF (top < 0) = (bot < 0) THEN nearest ELSE -nearest

-----------------------------------------------------------------------------
InitCalculator == acc = <<0>> /\ exact = 0 /\ by = "nothing"

Load(t) == acc' = t /\ exact' = NumberOf(t) /\ by' = "Load"

(* What a call of two numbers, or of one, leaves. *)
Result(name, text, ok, number) ==
  /\ acc' = text
  /\ exact' = IF ok THEN number ELSE NotANumber
  /\ by' = name

(* Zeros behind a second minus sign, which the checks take for an integer: no *)
(* call is given such a text, and none is compared.                         *)
SignedTwice(text) ==
  Len(text) > 2 /\ text[1] = Minus /\ text[2] = Minus /\ \A i \in 3..Len(text) : text[i] = 0

InReach ==
  /\ Len(acc) <= MaxDigits
  /\ by # "Load" /\ exact # NotANumber => Magnitude(exact) <= MaxExact
  /\ ~SignedTwice(acc)

Numbers(t) == IsNumeral(acc) /\ IsNumeral(t)

Quotients(t) == Numbers(t) /\ NumberOf(t) # 0

Increment == Result("Increment", IntMathIncrement(acc), IsNumeral(acc), NumberOf(acc) + 1)

Decrement == Result("Decrement", IntMathDecrement(acc), IsNumeral(acc), NumberOf(acc) - 1)

Abs == Result("Abs", IntMathAbs(acc), IsNumeral(acc), Magnitude(NumberOf(acc)))

Add(t) == Result("Add", IntMathAdd(acc, t), Numbers(t), NumberOf(acc) + NumberOf(t))

Subtract(t) ==
  Result("Subtract", IntMathSubtract(acc, t), Numbers(t), NumberOf(acc) - NumberOf(t))

Multiply(t) ==
  Result("Multiply", IntMathMultiply(acc, t), Numbers(t), NumberOf(acc) * NumberOf(t))

(* The integer each of the divisions should give. *)
Division(division, top, bot) ==
  CASE division = "DivideFloor" -> Floor(top, bot)
    [] division = "DivideCeil"  -> -Floor(-top, bot)
    [] division = "DivideRound" -> Round(top, bot)
    [] division = "Modulus"     -> top - bot * Floor(top, bot)

Divide(division, t) ==
  Result(division, IntMathDivision(division, acc, t), Quotients(t),
         Division(division, NumberOf(acc), NumberOf(t)))

Call(t) ==
  \/ Add(t) \/ Subtract(t) \/ Multiply(t)
  \/ \E division \in Divisions : Divide(division, t)

Calculate ==
  \/ \E t \in Operands \cup Loaded : Load(t)
  \/ InReach /\ (Increment \/ Decrement \/ Abs)
  \/ InReach /\ \E t \in Operands : ~SignedTwice(t) /\ Call(t)

-----------------------------------------------------------------------------
(* Properties *)

(* Whatever was computed before, a call on integers gives the integer, in   *)
(* the only notation EQUAL recognises, no leading zeros and no sign before  *)
(* zero; a call on anything else, and a division by zero, gives an error.   *)
(* Two results that are zero are left out, a product with one negative      *)
(* factor, "-0", and zero minus zero, no text at all: neither is what the   *)
(* comments at IntMath.poiboi:392 and 452 promise.                          *)
Exact ==
  by \notin {"nothing", "Load"} =>
    IF exact = NotANumber THEN acc = ErrorText
    ELSE \/ acc = Numeral(exact)
         \/ exact = 0 /\ by = "Multiply" /\ acc = <<Minus, 0>>
         \/ exact = 0 /\ by = "Subtract" /\ acc = <<>>

(* The comparisons agree with the order of integers for texts of any        *)
(* length, leading zeros and signs, and compare nothing else.               *)
Ordered ==
  by # "nothing" => \A t \in Operands \cup Loaded :
    LET answers == <<IntMathLessThan(acc, t), IntMathEqual(acc, t), IntMathGreaterThan(acc, t)>>
        a == NumberOf(acc)
        b == NumberOf(t)
    IN  ~SignedTwice(acc) /\ ~SignedTwice(t) =>
          answers = IF Numbers(t) THEN <<Truth(a < b), Truth(a = b), Truth(a > b)>>
                    ELSE <<ErrorText, ErrorText, ErrorText>>

(* What the comments of the three checks promise (IntMath.poiboi:182, 164   *)
(* and 175).                                                                *)
ChecksMeanIntegers ==
  /\ IsValid(acc) <=> IsNumeral(acc)
  /\ IsNonNegativeInt(acc) <=> IsNumeral(acc) /\ NumberOf(acc) >= 0
  /\ IsNegativeInt(acc) <=> IsNumeral(acc) /\ NumberOf(acc) < 0

(* The checks tell integers from other texts, whatever the results of calls *)
(* are among them.  Zeros behind two minus signs, of which the code does    *)
(* not keep that promise, are left out.                                     *)
Classified == ~SignedTwice(acc) => ChecksMeanIntegers
=============================================================================
