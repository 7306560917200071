-------------------------------- MODULE Decimals --------------------------------
(***************************************************************************)
(* Decimal notation, the reference for sizes as text and for the integers  *)
(* of the library.  A digit is a number 0..9, a text a sequence.           *)
(***************************************************************************)
EXTENDS Naturals, Sequences

(* How many numbers are written in so many digits. *)
OfDigits[n \in Nat] == IF n = 0 THEN 1 ELSE 10 * OfDigits[n - 1]

Decimal[n \in Nat] == IF n < 10 THEN <<n>> ELSE Append(Decimal[n \div 10], n % 10)

(* What a text of digits denotes. *)
Value[t \in Seq(0..9)] ==
  IF t = <<>> THEN 0 ELSE Value[SubSeq(t, 1, Len(t) - 1)] * 10 + t[Len(t)]

AllDigits(t) == \A i \in DOMAIN t : t[i] \in 0..9
=============================================================================
