--------------------------- MODULE NumberTextProofs ---------------------------
(***************************************************************************)
(* Proofs about NumberText, for every size a size_t of the given width can *)
(* hold and every text.                                                    *)
(***************************************************************************)
EXTENDS NumberText, NumberFacts

-----------------------------------------------------------------------------
(* The recursive function of the reference satisfies its equation. *)

(* How many numbers so many bytes can write. *)
LEMMA OfBytesEquation ==
  OfBytes[0] = 1 /\ \A n \in Nat : OfBytes[n + 1] = 256 * OfBytes[n]
<1>1. \E f : f = [n \in Nat |-> IF n = 0 THEN 1 ELSE 256 * f[n - 1]]
  BY Powers, 256 \in Nat
<1>2. OfBytes = [n \in Nat |-> IF n = 0 THEN 1 ELSE 256 * OfBytes[n - 1]]
  BY <1>1 DEF OfBytes
<1>3. ASSUME NEW n \in Nat
      PROVE  OfBytes[n + 1] = 256 * OfBytes[n]
  BY <1>2, n + 1 \in Nat, n + 1 # 0, (n + 1) - 1 = n
<1> QED  BY <1>2, <1>3

(* The first powers, and the later ones as multiples of them. *)
LEMMA ByteSizes ==
  /\ OfBytes[1] = 256 /\ OfBytes[2] = 65536 /\ OfBytes[4] = 4294967296
  /\ OfBytes[8] = 4294967296 * OfBytes[4]
<1> DEFINE Byte(n) == OfBytes[n + 1] = 256 * OfBytes[n]
<1>0. \A n \in Nat : Byte(n)
  BY OfBytesEquation
<1>a. /\ Byte(0) /\ Byte(1) /\ Byte(2) /\ Byte(3) /\ Byte(4) /\ Byte(5) /\ Byte(6) /\ Byte(7)
  <2> HIDE DEF Byte
  <2> QED  BY <1>0
<1>1. OfBytes[1] = 256
  BY <1>a, OfBytesEquation, SMT
<1>2. OfBytes[2] = 65536
  BY <1>a, <1>1, SMT
<1>3. OfBytes[3] = 16777216
  BY <1>a, <1>2, SMT
<1>4. OfBytes[4] = 4294967296
  BY <1>a, <1>3, SMT
<1>b. OfBytes[4] \in Nat
  BY <1>4, SMT
<1>5. OfBytes[5] = 256 * OfBytes[4]
  BY <1>a, <1>b, SMT
<1>6. OfBytes[6] = 65536 * OfBytes[4]
  BY <1>a, <1>5, <1>b, SMT
<1>7. OfBytes[7] = 16777216 * OfBytes[4]
  BY <1>a, <1>6, <1>b, SMT
<1>8. OfBytes[8] = 4294967296 * OfBytes[4]
  BY <1>a, <1>7, <1>b, SMT
<1> QED  BY <1>1, <1>2, <1>4, <1>8, SMT

LEMMA DigitSizes ==
  /\ OfDigits[2] = 100 /\ OfDigits[3] = 1000 /\ OfDigits[4] = 10000 /\ OfDigits[5] = 100000
  /\ OfDigits[9] = 1000000000 /\ OfDigits[10] = 10000000000
  /\ OfDigits[19] = 10000000000 * OfDigits[9] /\ OfDigits[20] = 100000000000 * OfDigits[9]
<1> DEFINE Ten(n) == OfDigits[n + 1] = 10 * OfDigits[n]
<1>0. \A n \in Nat : Ten(n)
  BY OfDigitsEquation
<1>a. /\ Ten(0) /\ Ten(1) /\ Ten(2) /\ Ten(3) /\ Ten(4) /\ Ten(5) /\ Ten(6) /\ Ten(7)
      /\ Ten(8) /\ Ten(9) /\ Ten(10) /\ Ten(11) /\ Ten(12) /\ Ten(13) /\ Ten(14) /\ Ten(15)
      /\ Ten(16) /\ Ten(17) /\ Ten(18) /\ Ten(19)
  <2> HIDE DEF Ten
  <2> QED  BY <1>0
<1>1. OfDigits[1] = 10
  BY <1>a, OfDigitsEquation, SMT
<1>2. OfDigits[2] = 100
  BY <1>a, <1>1, SMT
<1>3. OfDigits[3] = 1000
  BY <1>a, <1>2, SMT
<1>4. OfDigits[4] = 10000
  BY <1>a, <1>3, SMT
<1>5. OfDigits[5] = 100000
  BY <1>a, <1>4, SMT
<1>6. OfDigits[6] = 1000000
  BY <1>a, <1>5, SMT
<1>7. OfDigits[7] = 10000000
  BY <1>a, <1>6, SMT
<1>8. OfDigits[8] = 100000000
  BY <1>a, <1>7, SMT
<1>9. OfDigits[9] = 1000000000
  BY <1>a, <1>8, SMT
<1>b. OfDigits[9] \in Nat
  BY <1>9, SMT
<1>10. OfDigits[10] = 10000000000
  BY <1>a, <1>9, <1>b, SMT
<1>11. OfDigits[11] = 100 * OfDigits[9]
  BY <1>a, <1>10, <1>9, <1>b, SMT
<1>12. OfDigits[12] = 1000 * OfDigits[9]
  BY <1>a, <1>11, <1>b, SMT
<1>13. OfDigits[13] = 10000 * OfDigits[9]
  BY <1>a, <1>12, <1>b, SMT
<1>14. OfDigits[14] = 100000 * OfDigits[9]
  BY <1>a, <1>13, <1>b, SMT
<1>15. OfDigits[15] = 1000000 * OfDigits[9]
  BY <1>a, <1>14, <1>b, SMT
<1>16. OfDigits[16] = 10000000 * OfDigits[9]
  BY <1>a, <1>15, <1>b, SMT
<1>17. OfDigits[17] = 100000000 * OfDigits[9]
  BY <1>a, <1>16, <1>b, SMT
<1>18. OfDigits[18] = 1000000000 * OfDigits[9]
  BY <1>a, <1>17, <1>b, SMT
<1>19. OfDigits[19] = 10000000000 * OfDigits[9]
  BY <1>a, <1>18, <1>b, SMT
<1>20. OfDigits[20] = 100000000000 * OfDigits[9]
  BY <1>a, <1>19, <1>b, SMT
<1> QED  BY <1>2, <1>3, <1>4, <1>5, <1>9, <1>10, <1>19, <1>20, SMT

(* MaxSizeNumChars is the number of digits of the largest size. *)
LEMMA Widths ==
  /\ MaxSizeNumChars \in Nat \ {0, 1} /\ SizeMax \in Nat
  /\ OfDigits[MaxSizeNumChars - 1] <= SizeMax + 1 /\ SizeMax + 1 <= OfDigits[MaxSizeNumChars]
<1> DEFINE b == OfBytes[4]
           d == OfDigits[9]
<1>1. /\ b \in Nat /\ 4294967296 <= b /\ b <= 4294967296
      /\ d \in Nat /\ 1000000000 <= d /\ d <= 1000000000
  BY ByteSizes, DigitSizes, SMT
<1> HIDE DEF b, d
<1>2. CASE Width = 1
  BY <1>2, ByteSizes, DigitSizes, SMT DEF SizeMax, MaxSizeNumChars
<1>3. CASE Width = 2
  BY <1>3, ByteSizes, DigitSizes, SMT DEF SizeMax, MaxSizeNumChars
<1>4. CASE Width = 4
  BY <1>4, ByteSizes, DigitSizes, SMT DEF SizeMax, MaxSizeNumChars
<1>5. CASE Width = 8
  <2>1. MaxSizeNumChars = 20 /\ MaxSizeNumChars - 1 = 19 /\ SizeMax + 1 = 4294967296 * b
        /\ SizeMax = 4294967296 * b - 1
    BY <1>5, ByteSizes, SMT DEF SizeMax, MaxSizeNumChars, b
  <2>2. OfDigits[19] = 10000000000 * d /\ OfDigits[20] = 100000000000 * d
    BY DigitSizes, SMT DEF d
  <2>3. 10000000000 * d <= 4294967296 * b /\ 4294967296 * b <= 100000000000 * d
    BY <1>1, SMT
  <2>4. 4294967296 * b - 1 \in Nat
    BY <1>1, SMT
  <2> QED  BY <2>1, <2>2, <2>3, <2>4, SMT
<1> QED  BY <1>2, <1>3, <1>4, <1>5, WidthAssumption, SMT

-----------------------------------------------------------------------------
(* Writing and reading *)

LEMMA DigitByDigit ==
  ASSUME NEW a, NEW b, NEW c
  PROVE  Append(<<a>>, b) = <<a, b>> /\ Append(<<a, b>>, c) = <<a, b, c>>
<1> DEFINE S == {a, b, c}
           s == <<a>>
           t == <<a, b>>
           u == <<a, b, c>>
<1>1. /\ s \in Seq(S) /\ Len(s) = 1 /\ s[1] = a
      /\ t \in Seq(S) /\ Len(t) = 2 /\ t[1] = a /\ t[2] = b
      /\ u \in Seq(S) /\ Len(u) = 3 /\ u[1] = a /\ u[2] = b /\ u[3] = c
      /\ b \in S /\ c \in S
  OBVIOUS
<1> HIDE DEF S, s, t, u
<1>2. /\ Append(s, b) \in Seq(S) /\ Len(Append(s, b)) = 2
      /\ Append(s, b)[1] = a /\ Append(s, b)[2] = b
  <2>1. /\ Append(s, b) \in Seq(S) /\ Len(Append(s, b)) = Len(s) + 1
        /\ \A i \in 1..Len(s) : Append(s, b)[i] = s[i]
        /\ Append(s, b)[Len(s) + 1] = b
    <3>1. s \in Seq(S) /\ b \in S
      BY <1>1
    <3> QED  BY <3>1, AppendProperties
  <2>2. Len(s) + 1 = 2 /\ 1 \in 1..Len(s)
    BY <1>1
  <2> QED  BY <1>1, <2>1, <2>2
<1>3. /\ Append(t, c) \in Seq(S) /\ Len(Append(t, c)) = 3
      /\ Append(t, c)[1] = a /\ Append(t, c)[2] = b /\ Append(t, c)[3] = c
  <2>1. /\ Append(t, c) \in Seq(S) /\ Len(Append(t, c)) = Len(t) + 1
        /\ \A i \in 1..Len(t) : Append(t, c)[i] = t[i]
        /\ Append(t, c)[Len(t) + 1] = c
    <3>1. t \in Seq(S) /\ c \in S
      BY <1>1
    <3> QED  BY <3>1, AppendProperties
  <2>2. Len(t) + 1 = 3 /\ 1 \in 1..Len(t) /\ 2 \in 1..Len(t)
    BY <1>1
  <2> QED  BY <1>1, <2>1, <2>2
<1>4. Append(s, b) = t
  <2>1. \A i \in 1..2 : Append(s, b)[i] = t[i]
    BY <1>1, <1>2
  <2> QED  BY <1>1, <1>2, <2>1, SeqEqual
<1>5. Append(t, c) = u
  <2>1. \A i \in 1..3 : Append(t, c)[i] = u[i]
    BY <1>1, <1>3
  <2> QED  BY <1>1, <1>3, <2>1, SeqEqual
<1> QED  BY <1>4, <1>5 DEF s, t, u

(* The character at a place of the table. *)
TableEntry(k) ==
  LET i == 100 + (k \div 3)
  IN  IF k % 3 = 2 THEN i % 10
      ELSE IF k % 3 = 1 THEN (i \div 10) % 10
      ELSE (i \div 100) % 10

Places == 0..2699

LEMMA TableEntries ==
  \A k \in Places : AllThreeDigitNumbers[k] = TableEntry(k)
<1>1. AllThreeDigitNumbers = [k \in Places |-> TableEntry(k)]
  BY DEF AllThreeDigitNumbers, TableEntry, Places
<1> QED  BY <1>1

(* The table holds the decimal notation of every size below 1000. *)
LEMMA TableIsDecimal ==
  ASSUME NEW size \in Nat, size < 1000
  PROVE  [i \in 1..SmallLength(size) |-> AllThreeDigitNumbers[Offset(size) + i - 1]] = Decimal[size]
<1> DEFINE word == [i \in 1..SmallLength(size) |-> AllThreeDigitNumbers[Offset(size) + i - 1]]
<1>1. CASE size < 10
  <2>1. Decimal[size] = <<size>>
    BY <1>1, DecimalEquation
  <2>2. SmallLength(size) = 1 /\ Offset(size) = 3 * size + 2
    BY <1>1 DEF SmallLength, Offset
  <2>3. AllThreeDigitNumbers[3 * size + 2] = size
    <3> DEFINE k == 3 * size + 2
    <3>1. k \in Places /\ 100 + (k \div 3) = 100 + size /\ k % 3 = 2
      BY <1>1 DEF Places
    <3>2. (100 + size) % 10 = size
      BY <1>1
    <3> HIDE DEF k
    <3>3. TableEntry(k) = size
      BY <3>1, <3>2 DEF TableEntry
    <3> QED  BY <3>1, <3>3, TableEntries DEF k
  <2>4. word = [i \in 1..1 |-> size]
    BY <1>1, <2>2, <2>3
  <2> QED  BY <2>1, <2>4
<1>2. CASE ~(size < 10) /\ size < 100
  <2> DEFINE e == size \div 10
             r == size % 10
  <2>1. e \in Nat /\ e < 10 /\ r \in 0..9 /\ size = e * 10 + r
    BY <1>2, Quotient
  <2>2. Decimal[size] = Append(Decimal[e], r) /\ Decimal[e] = <<e>>
    BY <1>2, <2>1, DecimalEquation
  <2>3. SmallLength(size) = 2 /\ Offset(size) = 3 * size + 1
    BY <1>2 DEF SmallLength, Offset
  <2>4. AllThreeDigitNumbers[3 * size + 1] = e /\ AllThreeDigitNumbers[3 * size + 2] = r
    <3> DEFINE k == 3 * size + 1
    <3>1. /\ k \in Places /\ k + 1 \in Places /\ k + 1 = 3 * size + 2
          /\ 100 + (k \div 3) = 100 + size /\ 100 + ((k + 1) \div 3) = 100 + size
          /\ k % 3 = 1 /\ (k + 1) % 3 = 2
      BY <1>2 DEF Places
    <3>2. ((100 + size) \div 10) % 10 = e /\ (100 + size) % 10 = r
      BY <1>2
    <3> HIDE DEF k, e, r
    <3>3. TableEntry(k) = e
      BY <3>1, <3>2 DEF TableEntry
    <3>4. TableEntry(k + 1) = r
      BY <3>1, <3>2 DEF TableEntry
    <3> QED  BY <3>1, <3>3, <3>4, TableEntries DEF k
  <2>5. Append(<<e>>, r) = <<e, r>>
    BY DigitByDigit
  <2>6. word = [i \in 1..2 |-> IF i = 1 THEN e ELSE r]
    <3> HIDE DEF e, r
    <3> QED  BY <2>3, <2>4
  <2> QED  BY <2>2, <2>5, <2>6
<1>3. CASE ~(size < 100)
  <2> DEFINE e == size \div 10
             r == size % 10
             h == e \div 10
             q == e % 10
  <2>1. /\ e \in Nat /\ ~(e < 10) /\ e < 100 /\ r \in 0..9 /\ size = e * 10 + r
        /\ h \in Nat /\ h < 10 /\ q \in 0..9 /\ e = h * 10 + q
    <3>1. e \in Nat /\ ~(e < 10) /\ e < 100 /\ r \in 0..9 /\ size = e * 10 + r
      BY <1>3, Quotient
    <3> HIDE DEF e
    <3>2. h \in Nat /\ h < 10 /\ q \in 0..9 /\ e = h * 10 + q
      BY <3>1, Quotient
    <3> QED  BY <3>1, <3>2
  <2>2. Decimal[size] = Append(Decimal[e], r)
    BY <1>3, DecimalEquation
  <2>3. Decimal[e] = Append(Decimal[h], q)
    <3> HIDE DEF e
    <3> QED  BY <2>1, DecimalEquation
  <2>4. Decimal[h] = <<h>>
    <3> HIDE DEF h
    <3> QED  BY <2>1, DecimalEquation
  <2>5. Append(<<h>>, q) = <<h, q>> /\ Append(<<h, q>>, r) = <<h, q, r>>
    BY DigitByDigit
  <2>6. SmallLength(size) = 3 /\ Offset(size) = 3 * (size - 100)
    BY <1>3 DEF SmallLength, Offset
  <2> DEFINE k == 3 * (size - 100)
  <2>7. /\ k \in Places /\ k + 1 \in Places /\ k + 2 \in Places
        /\ 100 + (k \div 3) = size /\ 100 + ((k + 1) \div 3) = size
        /\ 100 + ((k + 2) \div 3) = size
        /\ k % 3 = 0 /\ (k + 1) % 3 = 1 /\ (k + 2) % 3 = 2
    BY <1>3 DEF Places
  <2>8. /\ AllThreeDigitNumbers[k] = (size \div 100) % 10
        /\ AllThreeDigitNumbers[k + 1] = (size \div 10) % 10
        /\ AllThreeDigitNumbers[k + 2] = size % 10
    <3> HIDE DEF k
    <3>1. TableEntry(k) = (size \div 100) % 10
      BY <2>7 DEF TableEntry
    <3>2. TableEntry(k + 1) = (size \div 10) % 10
      BY <2>7 DEF TableEntry
    <3>3. TableEntry(k + 2) = size % 10
      BY <2>7 DEF TableEntry
    <3> QED  BY <2>7, <3>1, <3>2, <3>3, TableEntries
  <2>9. size \div 100 = h /\ h % 10 = h
    <3>1. size = h * 100 + (q * 10 + r) /\ q * 10 + r \in 0..99
      <4> HIDE DEF e, r, h, q
      <4> QED  BY <2>1
    <3> HIDE DEF e, r, h, q
    <3> QED  BY <2>1, <3>1
  <2>10. word = [i \in 1..3 |-> IF i = 1 THEN h ELSE IF i = 2 THEN q ELSE r]
    <3>1. (size \div 100) % 10 = h /\ (size \div 10) % 10 = q /\ size % 10 = r
      BY <2>9
    <3> HIDE DEF e, r, h, q
    <3>2. /\ AllThreeDigitNumbers[k + 1 - 1] = h /\ AllThreeDigitNumbers[k + 2 - 1] = q
          /\ AllThreeDigitNumbers[k + 3 - 1] = r
      BY <2>7, <2>8, <3>1
    <3> HIDE DEF k
    <3>3. \A i \in 1..3 : i = 1 \/ i = 2 \/ i = 3
      OBVIOUS
    <3> QED  BY <2>6, <3>2, <3>3 DEF k
  <2> HIDE DEF e, r, h, q
  <2>11. Decimal[size] = <<h, q, r>>
    BY <2>2, <2>3, <2>4, <2>5
  <2> QED  BY <2>10, <2>11
<1>4. size < 10 \/ (~(size < 10) /\ size < 100) \/ ~(size < 100)
  OBVIOUS
<1> QED  BY <1>1, <1>2, <1>3, <1>4

(* SizeToString writes decimal notation, and snprintf cuts nothing off. *)
LEMMA SizeToStringIsDecimal ==
  ASSUME NEW size \in 0..SizeMax
  PROVE  SizeToString(size) = Decimal[size] /\ Len(Decimal[size]) <= MaxSizeNumChars
<1>1. size \in Nat /\ size < OfDigits[MaxSizeNumChars]
  BY Widths, DigitsOfPowers
<1>2. Len(Decimal[size]) <= MaxSizeNumChars
  BY <1>1, Widths, DigitsOfPowers DEF Fit
<1>3. CASE size < 1000
  BY <1>1, <1>2, <1>3, TableIsDecimal DEF SizeToString
<1>4. CASE ~(size < 1000)
  <2>1. Len(Decimal[size]) < BufferSize
    BY <1>1, <1>2, Widths, DecimalDigits DEF BufferSize
  <2> QED  BY <1>2, <1>4, <2>1 DEF SizeToString, Printed
<1> QED  BY <1>3, <1>4

(* A text that is read has fewer digits than the largest size, so its value *)
(* is a size.                                                               *)
LEMMA ReadableIsExact ==
  ASSUME NEW t \in Seq(0..9), t # <<>>, ~TooLong(t), NEW default,
         NEW got \in StringToSize(t, default)
  PROVE  got = Value[t]
<1>1. AllDigits(t) /\ Len(t) \in Nat
  BY DEF AllDigits
<1>2. Len(t) <= MaxSizeNumChars - 1 /\ MaxSizeNumChars - 1 \in Nat
  BY <1>1, Widths DEF TooLong
<1>3. Value[t] < OfDigits[MaxSizeNumChars - 1]
  BY <1>2, DigitsOfPowers DEF Fit
<1>4. Value[t] \in Nat /\ Value[t] <= SizeMax
  BY <1>2, <1>3, Widths, DigitsOfPowers, ValueIsNat
<1> QED  BY <1>1, <1>4 DEF StringToSize, Readable, Scanned

(* The texts of the sizes that StringToSize stops reading at. *)
LEMMA TooLongSizes ==
  ASSUME NEW size \in 0..SizeMax
  PROVE  TooLong(Decimal[size]) <=> ~(size < OfDigits[MaxSizeNumChars - 1])
<1> DEFINE k == MaxSizeNumChars - 1
<1>1. size \in Nat /\ k \in Nat /\ k > 0 /\ Fit(k, OfDigits[k]) /\ OfDigits[k] \in Nat
  BY Widths, DigitsOfPowers
<1>2. /\ Decimal[size] \in Seq(0..9) /\ Value[Decimal[size]] = size
      /\ Len(Decimal[size]) \in Nat
  BY <1>1, DecimalDigits, ValueOfDecimal
<1>3. Len(Decimal[size]) <= k <=> size < OfDigits[k]
  <2> HIDE DEF k
  <2> QED  BY <1>1, <1>2 DEF Fit
<1> QED  BY <1>2, <1>3, Widths DEF TooLong

-----------------------------------------------------------------------------
(* The inductive invariant: what has been read is one of the sizes          *)
(* StringToSize may return for the text, and a text written from a size is  *)
(* that size in decimal notation.                                           *)
IInv ==
  /\ text \in Seq(0..9 \cup {Other})
  /\ pc \in {"write", "start", "end", "done"}
  /\ wrote # NoSize => wrote \in 0..SizeMax
  /\ pc = "write" => wrote = NoSize
  /\ WritesDecimal
  /\ pc \in {"end", "done"} => start \in StringToSize(text, 0)
  /\ pc = "done" => end \in StringToSize(text, Length)

LEMMA InitIInv == Init => IInv
BY DEF Init, IInv, WritesDecimal

LEMMA NextIInv == IInv /\ [Next]_vars => IInv'
<1> SUFFICES ASSUME IInv, [Next]_vars
             PROVE  IInv'
  OBVIOUS
<1>1. ASSUME NEW size \in Sizes, Write(size)
      PROVE  IInv'
  <2>1. size \in 0..SizeMax
    BY InputAssumption
  <2>2. text' = Decimal[size]
    BY <1>1, <2>1, SizeToStringIsDecimal DEF Write
  <2>3. text' \in Seq(0..9 \cup {Other})
    BY <2>1, <2>2, Widths, DecimalDigits
  <2> QED  BY <1>1, <2>1, <2>2, <2>3 DEF Write, IInv, WritesDecimal
<1>2. ASSUME NEW t \in Texts, Pass(t)
      PROVE  IInv'
  <2>1. text' \in Seq(0..9 \cup {Other})
    BY <1>2, InputAssumption DEF Pass
  <2> QED  BY <1>2, <2>1 DEF Pass, IInv, WritesDecimal
<1>3. CASE ReadStart
  BY <1>3 DEF ReadStart, IInv, WritesDecimal
<1>4. CASE ReadEnd
  BY <1>4 DEF ReadEnd, IInv, WritesDecimal
<1>5. CASE UNCHANGED vars
  BY <1>5 DEF vars, IInv, WritesDecimal
<1> QED  BY <1>1, <1>2, <1>3, <1>4, <1>5 DEF Next

LEMMA IInvReadsExactly == IInv => ReadsExactly
<1> SUFFICES ASSUME IInv, pc = "done", AllDigits(text), text # <<>>, ~TooLong(text)
             PROVE  start = Value[text] /\ end = Value[text]
  BY DEF ReadsExactly
<1>1. text \in Seq(0..9)
  BY DEF IInv, AllDigits
<1> QED  BY <1>1, ReadableIsExact DEF IInv

LEMMA IInvRoundTrip == IInv => RoundTrip
<1> SUFFICES ASSUME IInv, pc = "done", wrote # NoSize,
                    wrote < OfDigits[MaxSizeNumChars - 1]
             PROVE  start = wrote /\ end = wrote
  BY DEF RoundTrip
<1>1. /\ wrote \in 0..SizeMax /\ text = Decimal[wrote]
      /\ start \in StringToSize(text, 0) /\ end \in StringToSize(text, Length)
  BY DEF IInv, WritesDecimal
<1>2. text \in Seq(0..9) /\ text # <<>> /\ Value[text] = wrote
  BY <1>1, Widths, DecimalDigits, ValueOfDecimal
<1> QED  BY <1>1, <1>2, TooLongSizes, ReadableIsExact

(* Every size is written as its decimal notation, by the table and by       *)
(* snprintf alike, for every width of size_t the code compiles for.         *)
THEOREM WritingRight == Spec => []WritesDecimal
<1>1. IInv => WritesDecimal
  BY DEF IInv
<1> QED  BY InitIInv, NextIInv, <1>1, PTL DEF Spec

(* What StringToSize accepts it reads as the number the text denotes, and   *)
(* that number is a size.                                                   *)
THEOREM ReadingRight == Spec => []ReadsExactly
BY InitIInv, NextIInv, IInvReadsExactly, PTL DEF Spec

(* A size with fewer digits than the largest, written as text and used as   *)
(* the bounds of a substring, is read back unchanged.                       *)
THEOREM RoundTripRight == Spec => []RoundTrip
BY InitIInv, NextIInv, IInvRoundTrip, PTL DEF Spec
=============================================================================
