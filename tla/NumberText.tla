------------------------------ MODULE NumberText ------------------------------
(***************************************************************************)
(* Numbers in a language whose only type is the string: SizeToString       *)
(* (Builtin_Strlen) writes a size_t as text, StringToSize (the bounds of   *)
(* Builtin_Substring) reads it back.  One pass of the module converts one  *)
(* size to text, or takes one text a program may pass, and reads it as the *)
(* start and as the end of a substring.  The width of size_t is a          *)
(* parameter, as it is in the code.                                        *)
(***************************************************************************)
EXTENDS Decimals, FiniteSets

CONSTANTS
  Width,     \* sizeof(size_t) in bytes
  Sizes,     \* the sizes given to SizeToString
  Texts,     \* the texts given to StringToSize; a character is a digit 0..9 ...
  Other,     \* ... or any other character
  Length     \* the length of the string a substring is taken of

ASSUME WidthAssumption == Width \in {1, 2, 4, 8}

(* How many numbers are written in so many bytes. *)
OfBytes[n \in Nat] == IF n = 0 THEN 1 ELSE 256 * OfBytes[n - 1]

SizeMax == OfBytes[Width] - 1

ASSUME InputAssumption ==
  /\ Sizes \subseteq 0..SizeMax
  /\ Length \in 0..SizeMax
  /\ Texts \subseteq Seq(0..9 \cup {Other})

VARIABLES
  text,    \* the text to be read
  wrote,   \* the size it was written from, or NoSize
  start,   \* the start index Builtin_Substring uses, or NoSize before it has read it
  end,     \* the end index it uses, or NoSize
  pc       \* "write", then "start", "end" and "done"

vars == <<text, wrote, start, end, pc>>

NoSize == SizeMax + 1

-----------------------------------------------------------------------------
(* Writing *)

MaxSizeNumChars ==
  IF Width = 8 THEN 20 ELSE IF Width = 4 THEN 10 ELSE IF Width = 2 THEN 5 ELSE 3

BufferSize == MaxSizeNumChars + 1

(* The characters at positions 0..2699 of the table of three-digit numbers. *)
AllThreeDigitNumbers ==
  [k \in 0..2699 |-> LET i == 100 + k \div 3
                     IN  IF k % 3 = 2 THEN i % 10
                         ELSE IF k % 3 = 1 THEN (i \div 10) % 10
                         ELSE (i \div 100) % 10]

(* Faulty: two-digit sizes looked up where one-digit sizes are. *)
BugOffset(size) ==
  IF size < 100 THEN 3 * size + 2 ELSE 3 * (size - 100)

(* Where in the table the text of a size below 1000 starts. *)
Offset(size) ==
  IF size < 10 THEN 3 * size + 2
  ELSE IF size < 100 THEN 3 * size + 1
  ELSE 3 * (size - 100)

SmallLength(size) == IF size < 10 THEN 1 ELSE IF size < 100 THEN 2 ELSE 3

(* snprintf("%zu") into the buffer keeps what fits before the final NUL. *)
Printed(size) ==
  LET full == Decimal[size]
  IN  IF Len(full) < BufferSize THEN full ELSE SubSeq(full, 1, BufferSize - 1)

SizeToString(size) ==
  IF size < 1000
    THEN [i \in 1..SmallLength(size) |-> AllThreeDigitNumbers[Offset(size) + i - 1]]
  ELSE Printed(size)

-----------------------------------------------------------------------------
(* Reading *)

(* Faulty: texts of exactly MaxSizeNumChars characters are read as well. *)
BugTooLong(t) == Len(t) > MaxSizeNumChars

(* Faulty: room is kept for a NUL that is not counted in the length. *)
BugTooShort(t) == Len(t) + 1 >= MaxSizeNumChars

TooLong(t) == Len(t) >= MaxSizeNumChars

Readable(t) == ~TooLong(t) /\ t # <<>> /\ AllDigits(t)

(* sscanf("%zu") of a number beyond the type: the C library may give any    *)
(* size.                                                                    *)
Scanned(t) == IF Value[t] <= SizeMax THEN {Value[t]} ELSE 0..SizeMax

(* StringToSize, with the size the caller falls back to. *)
StringToSize(t, default) == IF Readable(t) THEN Scanned(t) ELSE {default}

-----------------------------------------------------------------------------
Init ==
  /\ text = <<>> /\ wrote = NoSize /\ start = NoSize /\ end = NoSize
  /\ pc = "write"

Write(size) ==
  /\ pc = "write"
  /\ text' = SizeToString(size)
  /\ wrote' = size
  /\ pc' = "start"
  /\ UNCHANGED <<start, end>>

Pass(t) ==
  /\ pc = "write"
  /\ text' = t
  /\ pc' = "start"
  /\ UNCHANGED <<wrote, start, end>>

(* Builtin_Substring: an unreadable start is 0, an unreadable end is the    *)
(* length of the string.                                                    *)
ReadStart ==
  /\ pc = "start"
  /\ start' \in StringToSize(text, 0)
  /\ pc' = "end"
  /\ UNCHANGED <<text, wrote, end>>

ReadEnd ==
  /\ pc = "end"
  /\ end' \in StringToSize(text, Length)
  /\ pc' = "done"
  /\ UNCHANGED <<text, wrote, start>>

Next ==
  \/ \E size \in Sizes : Write(size)
  \/ \E t \in Texts : Pass(t)
  \/ ReadStart
  \/ ReadEnd

Spec == Init /\ [][Next]_vars

-----------------------------------------------------------------------------
(* Properties *)

(* The text of a size is its decimal notation, whichever of the table and   *)
(* snprintf it comes from, and snprintf never has to cut it short           *)
(* (CRASH_RETURN in SizeToString is unreachable).                           *)
WritesDecimal == wrote # NoSize => text = Decimal[wrote]

(* What StringToSize accepts it reads exactly: sscanf never meets a number  *)
(* beyond the type, whatever the digits.                                    *)
ReadsExactly ==
  pc = "done" /\ AllDigits(text) /\ text # <<>> /\ ~TooLong(text) =>
    start = Value[text] /\ end = Value[text]

(* A text a program computes with STRLEN works as an index: both bounds are *)
(* read back as the size that was written, for every size with fewer digits *)
(* than the largest.  What StringToSize makes of those with as many is a    *)
(* question of its own (ReadsUpToMaxChars).                                 *)
RoundTrip ==
  pc = "done" /\ wrote # NoSize /\ wrote < OfDigits[MaxSizeNumChars - 1] =>
    start = wrote /\ end = wrote

(* poiboi_string.cc:394, of MaxSizeNumChars: "If we have more chars then    *)
(* this, we don't check if it parses to a number."  A text of digits that   *)
(* has no more, and denotes a size, is read.                                *)
ReadsUpToMaxChars ==
  pc = "done" /\ AllDigits(text) /\ Len(text) \in 1..MaxSizeNumChars
    /\ Value[text] <= SizeMax => start = Value[text] /\ end = Value[text]
=============================================================================
