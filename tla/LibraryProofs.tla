----------------------------- MODULE LibraryProofs -----------------------------
(***************************************************************************)
(* The library is right for integers and texts of any length: what its     *)
(* calls compute from texts of digits, carry by carry, is what the         *)
(* reference of Calculator and Search says of numbers and occurrences.     *)
(* Each recursive function and each loop of IntMath first gets its         *)
(* equation and then, by induction over numbers or lengths, its value; the *)
(* operations follow from those, the divisions from the search for the     *)
(* separator.  The invariant IInv joins the types of both parts, the       *)
(* exactness of the last result and what PoiCoreFind has found.            *)
(***************************************************************************)
EXTENDS Library, NumberFacts

-----------------------------------------------------------------------------
(* Texts in reverse *)

(* Every number is its last digit and the number before that. *)
LEMMA LastDigitOf ==
  \A n \in Nat : \E q \in Nat, r \in 0..9 : n = 10 * q + r /\ (n > 0 => q < n)
<1> SUFFICES ASSUME NEW n \in Nat
             PROVE  \E q \in Nat, r \in 0..9 : n = 10 * q + r /\ (n > 0 => q < n)
  OBVIOUS
<1>1. n \div 10 \in Nat /\ n % 10 \in 0..9 /\ n = 10 * (n \div 10) + (n % 10)
  BY Quotient
<1> DEFINE q == n \div 10
           r == n % 10
<1> HIDE DEF q, r
<1>2. q \in Nat /\ r \in 0..9 /\ n = 10 * q + r
  BY <1>1 DEF q, r
<1> QED  BY <1>2

(* Its parts are what division by ten gives. *)
LEMMA QuotientOf ==
  ASSUME NEW q \in Nat, NEW r \in 0..9
  PROVE  (10 * q + r) \div 10 = q /\ (10 * q + r) % 10 = r
OBVIOUS

(* A digit behind the text of a number. *)
LEMMA DecimalOf ==
  ASSUME NEW q \in Nat, NEW r \in 0..9
  PROVE  Decimal[10 * q + r] = IF q = 0 THEN <<r>> ELSE Append(Decimal[q], r)
<1> DEFINE n == 10 * q + r
<1>1. n \in Nat /\ n \div 10 = q /\ n % 10 = r /\ (n < 10 <=> q = 0) /\ (q = 0 => n = r)
  BY QuotientOf
<1> HIDE DEF n
<1> QED  BY <1>1, DecimalEquation DEF n

(* Different numbers have different texts. *)
LEMMA DecimalInjective ==
  ASSUME NEW m \in Nat, NEW n \in Nat, Decimal[m] = Decimal[n]
  PROVE  m = n
BY ValueOfDecimal

(* The digits of texts in reverse. *)
LEMMA ReverseProperties ==
  ASSUME NEW S, NEW t \in Seq(S)
  PROVE  /\ Reverse(t) \in Seq(S) /\ Len(Reverse(t)) = Len(t)
         /\ \A i \in 1..Len(t) : Reverse(t)[i] = t[Len(t) - i + 1]
<1>1. Len(t) \in Nat /\ \A i \in 1..Len(t) : Len(t) - i + 1 \in 1..Len(t)
  OBVIOUS
<1>2. \A i \in 1..Len(t) : t[Len(t) - i + 1] \in S
  BY <1>1
<1>3. Reverse(t) = [i \in 1..Len(t) |-> t[Len(t) - i + 1]]
  BY <1>1 DEF Reverse
<1>4. Reverse(t) \in [1..Len(t) -> S]
  BY <1>2, <1>3
<1> QED  BY <1>1, <1>3, <1>4

(* A text reversed twice is itself. *)
LEMMA ReverseTwice ==
  ASSUME NEW S, NEW t \in Seq(S)
  PROVE  Reverse(Reverse(t)) = t
<1> DEFINE u == Reverse(t)
           v == Reverse(u)
<1>1. u \in Seq(S) /\ Len(u) = Len(t) /\ \A i \in 1..Len(t) : u[i] = t[Len(t) - i + 1]
  BY ReverseProperties
<1> HIDE DEF u
<1>2. v \in Seq(S) /\ Len(v) = Len(u) /\ \A i \in 1..Len(u) : v[i] = u[Len(u) - i + 1]
  BY <1>1, ReverseProperties
<1> HIDE DEF v
<1>3. ASSUME NEW i \in 1..Len(t)
      PROVE  v[i] = t[i]
  <2>1. Len(t) \in Nat /\ Len(t) - i + 1 \in 1..Len(t) /\ Len(t) - (Len(t) - i + 1) + 1 = i
    OBVIOUS
  <2>2. v[i] = u[Len(t) - i + 1]
    BY <1>1, <1>2
  <2> QED  BY <1>1, <2>1, <2>2
<1>4. v = t
  BY <1>1, <1>2, <1>3, SeqEqual
<1> QED  BY <1>4 DEF u, v

(* What is last comes first. *)
LEMMA ReverseOfAppend ==
  ASSUME NEW S, NEW t \in Seq(S), NEW e \in S
  PROVE  Reverse(Append(t, e)) = <<e>> \o Reverse(t)
<1> DEFINE a == Append(t, e)
           u == Reverse(a)
           v == Reverse(t)
           w == <<e>> \o v
<1>1. a \in Seq(S) /\ Len(a) = Len(t) + 1 /\ Len(t) \in Nat
      /\ (\A i \in 1..Len(t) : a[i] = t[i]) /\ a[Len(t) + 1] = e
  OBVIOUS
<1> HIDE DEF a
<1>2. u \in Seq(S) /\ Len(u) = Len(a) /\ \A i \in 1..Len(a) : u[i] = a[Len(a) - i + 1]
  BY <1>1, ReverseProperties
<1>3. v \in Seq(S) /\ Len(v) = Len(t) /\ \A i \in 1..Len(t) : v[i] = t[Len(t) - i + 1]
  BY ReverseProperties
<1> HIDE DEF u, v
<1>4. /\ w \in Seq(S) /\ Len(w) = 1 + Len(v)
      /\ \A i \in 1..(1 + Len(v)) : w[i] = IF i <= 1 THEN <<e>>[i] ELSE v[i - 1]
  <2>1. <<e>> \in Seq(S) /\ Len(<<e>>) = 1
    OBVIOUS
  <2> HIDE DEF w
  <2> QED  BY <1>3, <2>1, ConcatProperties DEF w
<1> HIDE DEF w
<1>5. ASSUME NEW i \in 1..(Len(t) + 1)
      PROVE  u[i] = w[i]
  <2>1. CASE i = 1
    BY <1>1, <1>2, <1>3, <1>4, <2>1
  <2>2. CASE i # 1
    <3>1. i - 1 \in 1..Len(t) /\ Len(a) - i + 1 \in 1..Len(t) /\ Len(a) - i + 1 = Len(t) - (i - 1) + 1
      BY <1>1, <2>2
    <3>2. u[i] = t[Len(a) - i + 1]
      BY <1>1, <1>2, <3>1
    <3>3. w[i] = v[i - 1]
      BY <1>3, <1>4, <2>2
    <3> QED  BY <1>3, <3>1, <3>2, <3>3
  <2> QED  BY <2>1, <2>2
<1>6. u = w
  <2>1. Len(u) = Len(t) + 1 /\ Len(w) = Len(t) + 1
    BY <1>1, <1>2, <1>3, <1>4
  <2> QED  BY <1>2, <1>4, <1>5, <2>1, SeqEqual
<1> QED  BY <1>6 DEF a, u, v, w

(* The digits of a number from the right. *)
Backwards(n) == PoiCoreReverse(Decimal[n])

(* The reversed digits of a number, which the columns are taken from. *)
LEMMA BackwardsType ==
  \A n \in Nat : /\ Backwards(n) \in Seq(0..9) /\ Backwards(n) # <<>>
                 /\ Len(Backwards(n)) = Len(Decimal[n])
                 /\ PoiCoreReverse(Backwards(n)) = Decimal[n]
<1> SUFFICES ASSUME NEW n \in Nat
             PROVE  /\ Backwards(n) \in Seq(0..9) /\ Backwards(n) # <<>>
                    /\ Len(Backwards(n)) = Len(Decimal[n])
                    /\ PoiCoreReverse(Backwards(n)) = Decimal[n]
  OBVIOUS
<1>1. Decimal[n] \in Seq(0..9) /\ Decimal[n] # <<>>
  BY DecimalDigits
<1>2. Backwards(n) \in Seq(0..9) /\ Len(Backwards(n)) = Len(Decimal[n])
  BY <1>1, ReverseProperties DEF Backwards, PoiCoreReverse
<1>3. Len(Decimal[n]) # 0
  BY <1>1, EmptySeq
<1>4. Backwards(n) # <<>>
  BY <1>2, <1>3, EmptySeq
<1> QED  BY <1>1, <1>2, <1>4, ReverseTwice DEF Backwards, PoiCoreReverse

(* Different numbers differ in reverse as well. *)
LEMMA BackwardsInjective ==
  ASSUME NEW m \in Nat, NEW n \in Nat, Backwards(m) = Backwards(n)
  PROVE  m = n
BY BackwardsType, DecimalInjective

(* The first character of a text and what follows it. *)
LEMMA FirstAndRest ==
  ASSUME NEW S, NEW e \in S, NEW t \in Seq(S)
  PROVE  /\ First(<<e>> \o t) = <<e>> /\ Rest(<<e>> \o t) = t
         /\ <<e>> \o t \in Seq(S) /\ Len(<<e>> \o t) = 1 + Len(t) /\ <<e>> \o t # <<>>
<1> DEFINE u == <<e>> \o t
<1>1. /\ u \in Seq(S) /\ Len(u) = 1 + Len(t) /\ Len(t) \in Nat
      /\ \A i \in 1..(1 + Len(t)) : u[i] = IF i <= 1 THEN <<e>>[i] ELSE t[i - 1]
  <2>1. <<e>> \in Seq(S) /\ Len(<<e>>) = 1
    OBVIOUS
  <2> HIDE DEF u
  <2> QED  BY <2>1, ConcatProperties DEF u
<1> HIDE DEF u
<1>2. u # <<>> /\ u[1] = e
  BY <1>1
<1>3. First(u) = <<e>>
  BY <1>1, <1>2 DEF First
<1>4. \A i \in 2..Len(u) : u[i] \in S
  BY <1>1
<1>5. /\ Rest(u) \in Seq(S) /\ Len(Rest(u)) = Len(t)
      /\ \A i \in 1..Len(t) : Rest(u)[i] = u[i + 1]
  <2> DEFINE k == Len(u)
  <2>1. k \in Nat /\ k = 1 + Len(t) /\ \A i \in 2..k : u[i] \in S
    BY <1>1, <1>4
  <2> HIDE DEF k
  <2>2. /\ SubSeq(u, 2, k) \in Seq(S) /\ Len(SubSeq(u, 2, k)) = IF 2 <= k THEN k - 2 + 1 ELSE 0
        /\ \A i \in 1..(k - 2 + 1) : SubSeq(u, 2, k)[i] = u[2 + i - 1]
    BY <2>1, SubSeqProperties
  <2>3. Rest(u) = SubSeq(u, 2, k)
    BY DEF Rest, k
  <2> QED  BY <2>1, <2>2, <2>3, <1>1
<1>6. Rest(u) = t
  <2>1. \A i \in 1..Len(t) : i + 1 \in 1..(1 + Len(t)) /\ (i + 1) - 1 = i /\ ~(i + 1 <= 1)
    OBVIOUS
  <2> QED  BY <1>1, <1>5, <2>1, SeqEqual
<1> QED  BY <1>1, <1>2, <1>3, <1>6 DEF u

(* Of a single character nothing follows. *)
LEMMA FirstAndRestOfOne ==
  ASSUME NEW e
  PROVE  First(<<e>>) = <<e>> /\ Rest(<<e>>) = <<>>
<1>1. First(<<e>>) = <<e>>
  BY DEF First
<1>2. Rest(<<e>>) = <<>>
  BY SubSeqEmpty DEF Rest
<1> QED  BY <1>1, <1>2

(* A text that is not empty is its first character and the rest. *)
LEMMA FirstAndRestAre ==
  ASSUME NEW S, NEW t \in Seq(S), t # <<>>
  PROVE  /\ First(t) = <<t[1]>> /\ t[1] \in S
         /\ Rest(t) \in Seq(S) /\ Len(Rest(t)) = Len(t) - 1
         /\ t = First(t) \o Rest(t)
<1>1. Len(t) \in Nat /\ Len(t) > 0 /\ t[1] \in S
  BY EmptySeq
<1>2. First(t) = <<t[1]>>
  BY DEF First
<1>3. /\ SubSeq(t, 2, Len(t)) \in Seq(S) /\ Len(SubSeq(t, 2, Len(t))) = Len(t) - 1
      /\ \A i \in 1..(Len(t) - 1) : SubSeq(t, 2, Len(t))[i] = t[i + 1]
  <2> DEFINE k == Len(t)
  <2>1. k \in Nat /\ k > 0 /\ \A i \in 2..k : t[i] \in S
    BY <1>1
  <2> HIDE DEF k
  <2>2. /\ SubSeq(t, 2, k) \in Seq(S) /\ Len(SubSeq(t, 2, k)) = IF 2 <= k THEN k - 2 + 1 ELSE 0
        /\ \A i \in 1..(k - 2 + 1) : SubSeq(t, 2, k)[i] = t[2 + i - 1]
    BY <2>1, SubSeqProperties
  <2>3. \A i \in 1..(k - 1) : SubSeq(t, 2, k)[i] = t[i + 1]
    BY <2>1, <2>2
  <2>4. Len(SubSeq(t, 2, k)) = k - 1
    BY <2>1, <2>2
  <2> QED  BY <2>2, <2>3, <2>4 DEF k
<1> DEFINE r == Rest(t)
           u == <<t[1]>> \o r
<1>4. r \in Seq(S) /\ Len(r) = Len(t) - 1 /\ \A i \in 1..(Len(t) - 1) : r[i] = t[i + 1]
  BY <1>3 DEF Rest
<1> HIDE DEF r
<1>5. /\ u \in Seq(S) /\ Len(u) = 1 + Len(r)
      /\ \A i \in 1..(1 + Len(r)) : u[i] = IF i <= 1 THEN <<t[1]>>[i] ELSE r[i - 1]
  <2>1. <<t[1]>> \in Seq(S) /\ Len(<<t[1]>>) = 1
    BY <1>1
  <2> HIDE DEF u
  <2> QED  BY <1>4, <2>1, ConcatProperties DEF u
<1> HIDE DEF u
<1>6. ASSUME NEW i \in 1..Len(t)
      PROVE  t[i] = u[i]
  <2>1. CASE i = 1
    BY <1>1, <1>4, <1>5, <2>1
  <2>2. CASE i # 1
    <3>1. i - 1 \in 1..(Len(t) - 1) /\ (i - 1) + 1 = i /\ ~(i <= 1)
      BY <2>2
    <3> QED  BY <1>4, <1>5, <3>1
  <2> QED  BY <2>1, <2>2
<1>7. t = u
  BY <1>1, <1>4, <1>5, <1>6, SeqEqual
<1> QED  BY <1>1, <1>2, <1>4, <1>7 DEF r, u

(* In reverse the last digit comes first. *)
LEMMA BackwardsOf ==
  ASSUME NEW q \in Nat, NEW r \in 0..9
  PROVE  /\ Backwards(10 * q + r) = IF q = 0 THEN <<r>> ELSE <<r>> \o Backwards(q)
         /\ First(Backwards(10 * q + r)) = <<r>>
         /\ Rest(Backwards(10 * q + r)) = IF q = 0 THEN <<>> ELSE Backwards(q)
<1> DEFINE b == Backwards(10 * q + r)
<1>1. Decimal[10 * q + r] = IF q = 0 THEN <<r>> ELSE Append(Decimal[q], r)
  BY DecimalOf
<1>2. CASE q = 0
  <2>1. Reverse(<<r>>) = <<r>>
    <3> DEFINE t == <<r>>
               u == Reverse(t)
    <3>1. t \in Seq(0..9) /\ Len(t) = 1 /\ t[1] = r
      OBVIOUS
    <3> HIDE DEF t
    <3>2. u \in Seq(0..9) /\ Len(u) = 1 /\ \A i \in 1..1 : u[i] = t[1 - i + 1]
      BY <3>1, ReverseProperties
    <3> HIDE DEF u
    <3>3. u[1] = t[1]
      BY <3>2
    <3>4. u = t
      BY <3>1, <3>2, <3>3, SeqEqual
    <3> QED  BY <3>4 DEF t, u
  <2>2. b = <<r>>
    BY <1>1, <1>2, <2>1 DEF Backwards, PoiCoreReverse
  <2> HIDE DEF b
  <2> QED  BY <1>2, <2>2, FirstAndRestOfOne DEF b
<1>3. CASE q # 0
  <2>1. Decimal[q] \in Seq(0..9)
    BY DecimalDigits
  <2>2. Reverse(Append(Decimal[q], r)) = <<r>> \o Reverse(Decimal[q])
    BY <2>1, ReverseOfAppend
  <2>3. b = <<r>> \o Backwards(q)
    BY <1>1, <1>3, <2>2 DEF Backwards, PoiCoreReverse
  <2>4. Backwards(q) \in Seq(0..9)
    BY BackwardsType
  <2>5. First(<<r>> \o Backwards(q)) = <<r>> /\ Rest(<<r>> \o Backwards(q)) = Backwards(q)
    BY <2>4, FirstAndRest
  <2> HIDE DEF b
  <2>6. First(b) = <<r>> /\ Rest(b) = Backwards(q)
    BY <2>3, <2>5
  <2> QED  BY <1>3, <2>3, <2>6 DEF b
<1> QED  BY <1>2, <1>3

-----------------------------------------------------------------------------
(* Comparison of texts of digits *)

(* The text of a number starts with zero only when it is zero. *)
LEMMA NoLeadingZero ==
  \A n \in Nat : n > 0 => Decimal[n][1] # 0
<1> DEFINE S == {n \in Nat : n > 0 => Decimal[n][1] # 0}
<1>1. ASSUME NEW n \in Nat, \A m \in Nat : m < n => m \in S
      PROVE  n \in S
  <2>1. PICK q \in Nat, r \in 0..9 : n = 10 * q + r /\ (n > 0 => q < n)
    BY LastDigitOf
  <2>2. CASE q = 0
    <3>1. Decimal[n] = <<r>>
      BY <2>1, <2>2, DecimalOf
    <3> QED  BY <2>1, <2>2, <3>1
  <2>3. CASE q # 0
    <3>1. Decimal[n] = Append(Decimal[q], r)
      BY <2>1, <2>3, DecimalOf
    <3>2. Decimal[q] \in Seq(0..9) /\ Decimal[q] # <<>>
      BY DecimalDigits
    <3>3. Append(Decimal[q], r)[1] = Decimal[q][1]
      BY <3>2
    <3>4. Decimal[q][1] # 0
      BY <1>1, <2>1, <2>3
    <3> QED  BY <3>1, <3>3, <3>4
  <2> QED  BY <2>2, <2>3
<1>2. Nat \subseteq S
  <2> HIDE DEF S
  <2> QED  BY <1>1, StrongInduction
<1> QED  BY <1>2

(* A text without leading zeros is that of its number. *)
LEMMA NoLeadingZeros ==
  ASSUME NEW t \in Seq(0..9), t # <<>>, t = << 0 >> \/ t[1] # 0
  PROVE  t = Decimal[Value[t]]
<1> DEFINE S == {k \in Nat : \A u \in Seq(0..9) :
                   Len(u) = k /\ u # <<>> /\ (u = <<0>> \/ u[1] # 0) => u = Decimal[Value[u]]}
<1>1. 0 \in S
  BY EmptySeq
<1>2. ASSUME NEW k \in Nat, k \in S
      PROVE  k + 1 \in S
  <2> SUFFICES ASSUME NEW u \in Seq(0..9), Len(u) = k + 1, u # <<>>, u = << 0 >> \/ u[1] # 0
               PROVE  u = Decimal[Value[u]]
    OBVIOUS
  <2>1. PICK v \in Seq(0..9), r \in 0..9 :
           u = Append(v, r) /\ Len(v) = Len(u) - 1 /\ Value[u] = Value[v] * 10 + r
    BY LastDigit
  <2>2. CASE v = <<>>
    <3>1. Value[v] = 0
      BY <2>2, ValueEquation
    <3>2. Value[u] = 10 * 0 + r /\ u = <<r>>
      BY <2>1, <2>2, <3>1
    <3> QED  BY <3>2, DecimalOf
  <2>3. CASE v # <<>>
    <3>1. Len(v) > 0 /\ u[1] = v[1] /\ Len(u) > 1 /\ Len(v) = k
      BY <2>1, <2>3, EmptySeq
    <3>2. u # <<0>>
      <4>1. Len(<<0>>) = 1
        OBVIOUS
      <4>2. Len(u) # 1
        BY <3>1
      <4> QED  BY <4>1, <4>2
    <3>3. v = Decimal[Value[v]] /\ v[1] # 0
      BY <1>2, <2>3, <3>1, <3>2
    <3>4. Value[v] \in Nat
      BY ValueIsNat
    <3>5. Value[v] # 0
      <4>1. Decimal[0] = <<0>>
        BY DecimalEquation
      <4> QED  BY <3>3, <4>1
    <3>6. Decimal[10 * Value[v] + r] = Append(Decimal[Value[v]], r)
      BY <3>4, <3>5, DecimalOf
    <3>7. 10 * Value[v] + r = Value[u]
      BY <2>1, <3>4
    <3> QED  BY <2>1, <3>3, <3>6, <3>7
  <2> QED  BY <2>2, <2>3
<1>3. Nat \subseteq S
  <2> HIDE DEF S
  <2> QED  BY <1>1, <1>2, SetInduction
<1> QED  BY <1>3

(* Columns are the digits of numbers from the right. *)
LEMMA ColumnsAre ==
  /\ \A n \in Nat : Backwards(n) \in Columns
  /\ \A t \in Columns : \E n \in Nat : t = Backwards(n)
<1>1. ASSUME NEW n \in Nat
      PROVE  Backwards(n) \in Columns
  <2> DEFINE b == Backwards(n)
  <2>1. b \in Seq(0..9) /\ b # <<>> /\ Len(b) = Len(Decimal[n]) /\ Decimal[n] \in Seq(0..9)
    BY BackwardsType, DecimalDigits
  <2>2. b \in DigitTexts
    BY <2>1 DEF DigitTexts
  <2>3. CASE n = 0
    <3>1. b = <<0>>
      BY <2>3, BackwardsOf, 10 * 0 + 0 = 0
    <3> QED  BY <2>2, <3>1 DEF Columns
  <2>4. CASE n # 0
    <3>1. Len(b) \in 1..Len(Decimal[n]) /\ Len(Decimal[n]) - Len(b) + 1 = 1
      BY <2>1, EmptySeq
    <3>2. b[Len(b)] = Decimal[n][1]
      BY <2>1, <3>1, ReverseProperties DEF Backwards, PoiCoreReverse
    <3>3. Decimal[n][1] # 0
      BY <2>4, NoLeadingZero
    <3> HIDE DEF b
    <3> QED  BY <2>2, <3>2, <3>3 DEF Columns, b
  <2> QED  BY <2>3, <2>4
<1>2. ASSUME NEW t \in Columns
      PROVE  \E n \in Nat : t = Backwards(n)
  <2> DEFINE u == Reverse(t)
  <2>1. t \in Seq(0..9) /\ t # <<>> /\ (t = <<0>> \/ t[Len(t)] # 0)
    BY DEF Columns, DigitTexts
  <2>2. Len(t) \in Nat /\ Len(t) > 0
    BY <2>1, EmptySeq
  <2>3. u \in Seq(0..9) /\ Len(u) = Len(t) /\ u[1] = t[Len(t)]
    <3>1. u \in Seq(0..9) /\ Len(u) = Len(t) /\ \A i \in 1..Len(t) : u[i] = t[Len(t) - i + 1]
      BY <2>1, ReverseProperties
    <3> HIDE DEF u
    <3>2. 1 \in 1..Len(t) /\ Len(t) - 1 + 1 = Len(t)
      BY <2>2
    <3> QED  BY <3>1, <3>2
  <2>4. u # <<>> /\ Reverse(u) = t
    <3>1. Reverse(u) = t
      BY <2>1, ReverseTwice
    <3> HIDE DEF u
    <3> QED  BY <2>2, <2>3, <3>1, EmptySeq
  <2>5. u = <<0>> \/ u[1] # 0
    <3>1. CASE t = <<0>>
      <4>1. Len(u) = 1 /\ u[1] = 0
        BY <2>3, <3>1
      <4> HIDE DEF u
      <4>2. u = <<0>>
        BY <2>3, <4>1
      <4> QED  BY <4>2
    <3> HIDE DEF u
    <3> QED  BY <2>1, <2>3, <3>1
  <2> HIDE DEF u
  <2>6. u = Decimal[Value[u]] /\ Value[u] \in Nat
    BY <2>3, <2>4, <2>5, NoLeadingZeros, ValueIsNat
  <2>7. t = Backwards(Value[u])
    BY <2>4, <2>6 DEF Backwards, PoiCoreReverse
  <2> QED  BY <2>6, <2>7
<1> QED  BY <1>1, <1>2

(* How many digits numbers have. *)
LEMMA DigitsOf ==
  ASSUME NEW q \in Nat, NEW r \in 0..9
  PROVE  /\ Len(Decimal[q]) \in Nat \ {0}
         /\ Len(Decimal[10 * q + r]) = IF q = 0 THEN 1 ELSE Len(Decimal[q]) + 1
<1>1. Decimal[q] \in Seq(0..9) /\ Decimal[q] # <<>>
  BY DecimalDigits
<1>2. Decimal[10 * q + r] = IF q = 0 THEN <<r>> ELSE Append(Decimal[q], r)
  BY DecimalOf
<1>3. Len(Decimal[q]) \in Nat \ {0}
  BY <1>1, EmptySeq
<1>4. q = 0 => Len(Decimal[10 * q + r]) = 1
  BY <1>2
<1>5. q # 0 => Len(Decimal[10 * q + r]) = Len(Decimal[q]) + 1
  BY <1>1, <1>2
<1> QED  BY <1>3, <1>4, <1>5

(* A larger number has no fewer digits. *)
LEMMA MoreDigits ==
  \A m, n \in Nat : m <= n => Len(Decimal[m]) <= Len(Decimal[n])
<1> DEFINE S == {n \in Nat : \A m \in Nat : m <= n => Len(Decimal[m]) <= Len(Decimal[n])}
<1>1. ASSUME NEW n \in Nat, \A k \in Nat : k < n => k \in S
      PROVE  n \in S
  <2> SUFFICES ASSUME NEW m \in Nat, m <= n
               PROVE  Len(Decimal[m]) <= Len(Decimal[n])
    OBVIOUS
  <2>1. PICK q \in Nat, r \in 0..9 : n = 10 * q + r /\ (n > 0 => q < n)
    BY LastDigitOf
  <2>2. PICK p \in Nat, s \in 0..9 : m = 10 * p + s /\ (m > 0 => p < m)
    BY LastDigitOf
  <2>3. p <= q
    BY <2>1, <2>2
  <2>4. /\ Len(Decimal[n]) = IF q = 0 THEN 1 ELSE Len(Decimal[q]) + 1
        /\ Len(Decimal[m]) = IF p = 0 THEN 1 ELSE Len(Decimal[p]) + 1
        /\ Len(Decimal[p]) \in Nat \ {0} /\ Len(Decimal[q]) \in Nat \ {0}
    BY <2>1, <2>2, DigitsOf
  <2>5. CASE p = 0
    BY <2>4, <2>5
  <2>6. CASE p # 0
    <3>1. q # 0 /\ n > 0
      BY <2>1, <2>3, <2>6
    <3>2. q \in S
      BY <1>1, <2>1, <3>1
    <3>3. Len(Decimal[p]) <= Len(Decimal[q])
      BY <2>3, <3>2
    <3> QED  BY <2>4, <2>6, <3>1, <3>3
  <2> QED  BY <2>5, <2>6
<1>2. Nat \subseteq S
  <2> HIDE DEF S
  <2> QED  BY <1>1, StrongInduction
<1> QED  BY <1>2

(* Numbers have no more digits than their size, and fewer from two on. *)
LEMMA FewDigits ==
  \A n \in Nat : n > 0 => Len(Decimal[n]) <= n /\ (n > 1 => Len(Decimal[n]) < n)
<1> DEFINE S == {n \in Nat : n > 0 => Len(Decimal[n]) <= n /\ (n > 1 => Len(Decimal[n]) < n)}
<1>1. ASSUME NEW n \in Nat, \A k \in Nat : k < n => k \in S
      PROVE  n \in S
  <2>1. PICK q \in Nat, r \in 0..9 : n = 10 * q + r /\ (n > 0 => q < n)
    BY LastDigitOf
  <2>2. /\ Len(Decimal[n]) = IF q = 0 THEN 1 ELSE Len(Decimal[q]) + 1
        /\ Len(Decimal[q]) \in Nat \ {0}
    BY <2>1, DigitsOf
  <2>3. CASE q = 0
    <3>1. Len(Decimal[n]) = 1
      BY <2>2, <2>3
    <3> QED  BY <3>1
  <2>4. CASE q # 0
    <3>1. Len(Decimal[q]) <= q
      BY <1>1, <2>1, <2>4
    <3> QED  BY <2>1, <2>2, <2>4, <3>1
  <2> QED  BY <2>3, <2>4
<1>2. Nat \subseteq S
  <2> HIDE DEF S
  <2> QED  BY <1>1, StrongInduction
<1> QED  BY <1>2

(* Texts of the same length are compared by what is before the last digits, *)
(* then by these.                                                           *)
LEMMA LastDigitsLess ==
  ASSUME NEW s \in Seq(0..9), NEW t \in Seq(0..9), Len(s) = Len(t), NEW x \in 0..9, NEW y \in 0..9
  PROVE  DigitsLess(Append(s, x), Append(t, y)) <=> DigitsLess(s, t) \/ (s = t /\ x < y)
<1> DEFINE a == Append(s, x)
           b == Append(t, y)
           n == Len(s)
<1>1. /\ n \in Nat /\ DOMAIN a = 1..(n + 1) /\ DOMAIN s = 1..n
      /\ a[n + 1] = x /\ b[n + 1] = y
      /\ \A i \in 1..n : a[i] = s[i] /\ b[i] = t[i]
  OBVIOUS
<1>2. ASSUME DigitsLess(s, t)
      PROVE  DigitsLess(a, b)
  <2>1. PICK i \in 1..n : s[i] < t[i] /\ \A j \in 1..(i - 1) : s[j] = t[j]
    BY <1>1, <1>2 DEF DigitsLess
  <2>2. i \in 1..(n + 1) /\ \A j \in 1..(i - 1) : j \in 1..n
    BY <1>1
  <2> HIDE DEF a, b, n
  <2> QED  BY <1>1, <2>1, <2>2 DEF DigitsLess
<1>3. ASSUME s = t, x < y
      PROVE  DigitsLess(a, b)
  <2>1. n + 1 \in 1..(n + 1) /\ (n + 1) - 1 = n
    BY <1>1
  <2> HIDE DEF a, b, n
  <2> QED  BY <1>1, <1>3, <2>1 DEF DigitsLess
<1>4. ASSUME DigitsLess(a, b)
      PROVE  DigitsLess(s, t) \/ (s = t /\ x < y)
  <2>1. PICK i \in 1..(n + 1) : a[i] < b[i] /\ \A j \in 1..(i - 1) : a[j] = b[j]
    <3> HIDE DEF a, b, n
    <3> QED  BY <1>1, <1>4 DEF DigitsLess
  <2>2. CASE i = n + 1
    <3>1. \A j \in 1..n : s[j] = t[j]
      BY <1>1, <2>1, <2>2
    <3>2. s = t
      BY <3>1, SeqEqual
    <3> QED  BY <1>1, <2>1, <2>2, <3>2
  <2>3. CASE i # n + 1
    <3>1. i \in 1..n /\ \A j \in 1..(i - 1) : j \in 1..n
      BY <1>1, <2>3
    <3> HIDE DEF a, b, n
    <3> QED  BY <1>1, <2>1, <3>1 DEF DigitsLess
  <2> QED  BY <2>2, <2>3
<1> QED
  <2> HIDE DEF a, b
  <2>1. DigitsLess(a, b) <=> DigitsLess(s, t) \/ (s = t /\ x < y)
    BY <1>2, <1>3, <1>4
  <2> QED  BY <2>1 DEF a, b

(* With as many digits, the first difference decides. *)
LEMMA DigitsLessIsLess ==
  \A m, n \in Nat : Len(Decimal[m]) = Len(Decimal[n]) => (DigitsLess(Decimal[m], Decimal[n]) <=> m < n)
<1> DEFINE S == {n \in Nat : \A m \in Nat : Len(Decimal[m]) = Len(Decimal[n])
                               => (DigitsLess(Decimal[m], Decimal[n]) <=> m < n)}
<1>1. ASSUME NEW n \in Nat, \A k \in Nat : k < n => k \in S
      PROVE  n \in S
  <2> SUFFICES ASSUME NEW m \in Nat, Len(Decimal[m]) = Len(Decimal[n])
               PROVE  DigitsLess(Decimal[m], Decimal[n]) <=> m < n
    OBVIOUS
  <2>1. PICK q \in Nat, r \in 0..9 : n = 10 * q + r /\ (n > 0 => q < n)
    BY LastDigitOf
  <2>2. PICK p \in Nat, s \in 0..9 : m = 10 * p + s /\ (m > 0 => p < m)
    BY LastDigitOf
  <2>3. /\ Len(Decimal[n]) = IF q = 0 THEN 1 ELSE Len(Decimal[q]) + 1
        /\ Len(Decimal[m]) = IF p = 0 THEN 1 ELSE Len(Decimal[p]) + 1
        /\ Len(Decimal[p]) \in Nat \ {0} /\ Len(Decimal[q]) \in Nat \ {0}
    BY <2>1, <2>2, DigitsOf
  <2>4. (p = 0 <=> q = 0) /\ (p # 0 => Len(Decimal[p]) = Len(Decimal[q]))
    BY <2>3
  <2>5. /\ Decimal[n] = IF q = 0 THEN <<r>> ELSE Append(Decimal[q], r)
        /\ Decimal[m] = IF p = 0 THEN <<s>> ELSE Append(Decimal[p], s)
    BY <2>1, <2>2, DecimalOf
  <2>6. CASE p = 0
    <3>1. Decimal[n] = <<r>> /\ Decimal[m] = <<s>> /\ n = r /\ m = s
      BY <2>1, <2>2, <2>4, <2>5, <2>6
    <3>2. DigitsLess(<<s>>, <<r>>) <=> s < r
      BY DEF DigitsLess
    <3> QED  BY <3>1, <3>2
  <2>7. CASE p # 0
    <3>1. q \in S
      BY <1>1, <2>1, <2>4, <2>7
    <3>2. DigitsLess(Decimal[p], Decimal[q]) <=> p < q
      BY <2>4, <2>7, <3>1
    <3>3. Decimal[p] \in Seq(0..9) /\ Decimal[q] \in Seq(0..9)
      BY DecimalDigits
    <3>4. DigitsLess(Append(Decimal[p], s), Append(Decimal[q], r))
            <=> p < q \/ (Decimal[p] = Decimal[q] /\ s < r)
      BY <2>4, <2>7, <3>2, <3>3, LastDigitsLess
    <3>5. Decimal[p] = Decimal[q] <=> p = q
      BY DecimalInjective
    <3>6. DigitsLess(Decimal[m], Decimal[n]) <=> p < q \/ (p = q /\ s < r)
      BY <2>4, <2>5, <2>7, <3>4, <3>5
    <3>7. m < n <=> p < q \/ (p = q /\ s < r)
      BY <2>1, <2>2
    <3> QED  BY <3>6, <3>7
  <2> QED  BY <2>6, <2>7
<1>2. Nat \subseteq S
  <2> HIDE DEF S
  <2> QED  BY <1>1, StrongInduction
<1> QED  BY <1>2

(* The length of a text is a text of digits. *)
LEMMA StrlenDigits ==
  ASSUME NEW t \in DigitTexts
  PROVE  Len(t) \in Nat \ {0} /\ Strlen(t) \in DigitTexts
<1>1. t \in Seq(0..9) /\ t # <<>>
  BY DEF DigitTexts
<1>2. Len(t) \in Nat \ {0}
  BY <1>1, EmptySeq
<1> QED  BY <1>2, DecimalDigits DEF Strlen, DigitTexts

(* The comparison calls itself with the numbers of digits, whose texts are  *)
(* shorter, so that it comes to an end.                                     *)
LEMMA UnsignedLessEquation ==
  \A one, two \in DigitTexts :
    UnsignedLess[<<one, two>>] = IF Len(one) # Len(two) THEN UnsignedLess[<<Strlen(one), Strlen(two)>>]
                                 ELSE DigitsLess(one, two)
<1> DEFINE D == DigitTexts \X DigitTexts
           Body(x, f) == IF Len(x[1]) # Len(x[2]) THEN f[<<Strlen(x[1]), Strlen(x[2])>>]
                         ELSE DigitsLess(x[1], x[2])
           step == [p \in D \X [D -> BOOLEAN] |-> Body(p[1], p[2])]
           m == [x \in D |-> Len(x[1]) + Len(x[2])]
<1>1. ASSUME NEW one \in DigitTexts, NEW two \in DigitTexts, Len(one) # Len(two)
      PROVE  /\ <<Strlen(one), Strlen(two)>> \in D
             /\ Len(Strlen(one)) + Len(Strlen(two)) < Len(one) + Len(two)
  <2>1. Len(one) \in Nat \ {0} /\ Strlen(one) \in DigitTexts /\ Len(two) \in Nat \ {0} /\ Strlen(two) \in DigitTexts
    BY StrlenDigits
  <2>2. /\ Len(Strlen(one)) <= Len(one) /\ (Len(one) > 1 => Len(Strlen(one)) < Len(one))
        /\ Len(Strlen(two)) <= Len(two) /\ (Len(two) > 1 => Len(Strlen(two)) < Len(two))
    BY <2>1, FewDigits DEF Strlen
  <2>3. Len(Strlen(one)) \in Nat /\ Len(Strlen(two)) \in Nat
    BY <2>1, StrlenDigits
  <2>4. Len(one) > 1 \/ Len(two) > 1
    BY <1>1, <2>1
  <2> QED  BY <2>1, <2>2, <2>3, <2>4
<1>2. ASSUME NEW x \in D
      PROVE  /\ x = <<x[1], x[2]>> /\ x[1] \in DigitTexts /\ x[2] \in DigitTexts
             /\ Len(x[1]) \in Nat /\ Len(x[2]) \in Nat
  BY StrlenDigits
<1>3. ASSUME NEW x \in D, NEW f \in [D -> BOOLEAN]
      PROVE  Body(x, f) \in BOOLEAN
  BY <1>1, <1>2 DEF DigitsLess
<1>4. step \in [D \X [D -> BOOLEAN] -> BOOLEAN]
  <2> HIDE DEF D, Body
  <2> QED  BY <1>3
<1>5. m \in [D -> Nat]
  <2> HIDE DEF D
  <2> DEFINE L(x) == Len(x[1])
             R(x) == Len(x[2])
  <2>1. \A x \in D : L(x) \in Nat /\ R(x) \in Nat
    BY <1>2
  <2>2. \A x \in D : L(x) + R(x) \in Nat
    <3> HIDE DEF L, R
    <3> QED  BY <2>1
  <2> QED  BY <2>2
<1>6. ASSUME NEW x \in D, NEW f \in [D -> BOOLEAN], NEW g \in [D -> BOOLEAN],
             \A y \in D : m[y] < m[x] => f[y] = g[y]
      PROVE  step[<<x, f>>] = step[<<x, g>>]
  <2>1. CASE Len(x[1]) # Len(x[2])
    <3> DEFINE y == <<Strlen(x[1]), Strlen(x[2])>>
    <3>1. y \in D /\ Len(y[1]) + Len(y[2]) < Len(x[1]) + Len(x[2])
      BY <1>1, <1>2, <2>1
    <3> HIDE DEF D, y
    <3>2. m[y] < m[x]
      BY <3>1
    <3>3. f[y] = g[y]
      BY <1>6, <3>1, <3>2
    <3> QED  BY <2>1, <3>3 DEF y
  <2>2. CASE ~(Len(x[1]) # Len(x[2]))
    <3> HIDE DEF D
    <3> QED  BY <2>2
  <2> QED  BY <2>1, <2>2
<1>7. PICK F : Solution(F, D, BOOLEAN, step)
  <2> HIDE DEF D, step, m
  <2>1. Measured(D, BOOLEAN, m, step)
    BY <1>6 DEF Measured
  <2>2. TRUE \in BOOLEAN
    OBVIOUS
  <2> QED  BY <1>4, <1>5, <2>1, <2>2, MeasuredRecursion
<1>8. F \in [D -> BOOLEAN] /\ \A x \in D : F[x] = Body(x, F)
  <2> HIDE DEF D, Body
  <2> QED  BY <1>7 DEF Solution
<1>9. F = [x \in D |-> Body(x, F)]
  <2> HIDE DEF D, Body
  <2> QED  BY <1>8
<1>10. UnsignedLess = [x \in D |-> Body(x, UnsignedLess)]
  BY <1>9 DEF UnsignedLess
<1> SUFFICES ASSUME NEW one \in DigitTexts, NEW two \in DigitTexts
             PROVE  UnsignedLess[<<one, two>>] = Body(<<one, two>>, UnsignedLess)
  OBVIOUS
<1>11. <<one, two>> \in D
  OBVIOUS
<1> HIDE DEF D, Body
<1> QED  BY <1>10, <1>11

(* The text of a number may be compared. *)
LEMMA DecimalIsDigitText ==
  \A n \in Nat : Decimal[n] \in DigitTexts
BY DecimalDigits DEF DigitTexts

(* The comparison compares. *)
LEMMA UnsignedLessIsLess ==
  \A m, n \in Nat : UnsignedLess[<<Decimal[m], Decimal[n]>>] = (m < n)
<1> DEFINE Sum(m, n) == Len(Decimal[m]) + Len(Decimal[n])
           S == {k \in Nat : \A m, n \in Nat :
                   Sum(m, n) = k => UnsignedLess[<<Decimal[m], Decimal[n]>>] = (m < n)}
<1>1. ASSUME NEW k \in Nat, \A j \in Nat : j < k => j \in S
      PROVE  k \in S
  <2> SUFFICES ASSUME NEW m \in Nat, NEW n \in Nat, Sum(m, n) = k
               PROVE  UnsignedLess[<<Decimal[m], Decimal[n]>>] = (m < n)
    OBVIOUS
  <2> DEFINE a == Len(Decimal[m])
             b == Len(Decimal[n])
  <2>1. Decimal[m] \in DigitTexts /\ Decimal[n] \in DigitTexts
    BY DecimalIsDigitText
  <2>2. a \in Nat \ {0} /\ b \in Nat \ {0}
    BY <2>1, StrlenDigits
  <2>3. CASE a = b
    <3>1. UnsignedLess[<<Decimal[m], Decimal[n]>>] = DigitsLess(Decimal[m], Decimal[n])
      BY <2>1, <2>3, UnsignedLessEquation
    <3>2. DigitsLess(Decimal[m], Decimal[n]) = (m < n)
      <4>1. DigitsLess(Decimal[m], Decimal[n]) <=> m < n
        BY <2>3, DigitsLessIsLess
      <4>2. DigitsLess(Decimal[m], Decimal[n]) \in BOOLEAN
        BY DEF DigitsLess
      <4> QED  BY <4>1, <4>2
    <3> QED  BY <3>1, <3>2
  <2>4. CASE a # b
    <3>1. UnsignedLess[<<Decimal[m], Decimal[n]>>] = UnsignedLess[<<Decimal[a], Decimal[b]>>]
      BY <2>1, <2>4, UnsignedLessEquation DEF Strlen
    <3>2. Sum(a, b) < k /\ Sum(a, b) \in Nat
      <4> DEFINE c == Len(Decimal[a])
                 d == Len(Decimal[b])
      <4>1. c <= a /\ (a > 1 => c < a)
        BY <2>2, FewDigits
      <4>2. d <= b /\ (b > 1 => d < b)
        BY <2>2, FewDigits
      <4>3. c \in Nat /\ d \in Nat
        BY <2>2, DecimalIsDigitText, StrlenDigits
      <4>4. k = a + b
        OBVIOUS
      <4> HIDE DEF a, b, c, d
      <4>5. c + d < a + b /\ c + d \in Nat
        BY <2>2, <2>4, <4>1, <4>2, <4>3
      <4> QED  BY <4>4, <4>5 DEF c, d
    <3> HIDE DEF a, b
    <3>3. UnsignedLess[<<Decimal[a], Decimal[b]>>] = (a < b)
      <4> HIDE DEF Sum
      <4> QED  BY <1>1, <2>2, <3>2
    <3>4. (a < b) = (m < n)
      <4>1. m <= n => a <= b
        BY MoreDigits DEF a, b
      <4>2. n <= m => b <= a
        BY MoreDigits DEF a, b
      <4> QED  BY <2>2, <2>4, <4>1, <4>2
    <3> QED  BY <3>1, <3>3, <3>4 DEF a, b
  <2> QED  BY <2>3, <2>4
<1>2. Nat \subseteq S
  <2> HIDE DEF S
  <2> QED  BY <1>1, StrongInduction
<1> SUFFICES ASSUME NEW m \in Nat, NEW n \in Nat
             PROVE  UnsignedLess[<<Decimal[m], Decimal[n]>>] = (m < n)
  OBVIOUS
<1>3. Sum(m, n) \in Nat
  <2> DEFINE a == Len(Decimal[m])
             b == Len(Decimal[n])
  <2>1. a \in Nat /\ b \in Nat
    BY DecimalIsDigitText, StrlenDigits
  <2>2. a + b \in Nat
    <3> HIDE DEF a, b
    <3> QED  BY <2>1
  <2> QED  BY <2>2
<1> HIDE DEF Sum
<1> QED  BY <1>2, <1>3

-----------------------------------------------------------------------------
(* Steps of one *)

(* Every call of IncrementReversed is for a shorter text, so that it ends. *)
LEMMA IncrementReversedEquation ==
  \A reversed \in Seq(0..9) :
    LET sum == SingleDigitAdd(First(reversed), <<1>>)
    IN  IncrementReversed[reversed] =
          IF reversed = <<>> THEN <<>>
          ELSE IF Len(reversed) = 1 THEN PoiCoreReverse(sum)
          ELSE IF Len(sum) = 1 THEN sum \o Rest(reversed)
          ELSE SubSeq(sum, 2, 2) \o IncrementReversed[Rest(reversed)]
<1> DEFINE D == Seq(0..9)
           Sum(t) == SingleDigitAdd(First(t), <<1>>)
           Body(t, f) == IF t = <<>> THEN <<>>
                         ELSE IF Len(t) = 1 THEN PoiCoreReverse(Sum(t))
                         ELSE IF Len(Sum(t)) = 1 THEN Sum(t) \o Rest(t)
                         ELSE SubSeq(Sum(t), 2, 2) \o f[Rest(t)]
           step == [p \in D \X [D -> D] |-> Body(p[1], p[2])]
           m == [t \in D |-> Len(t)]
<1>1. ASSUME NEW t \in D, t # <<>>
      PROVE  /\ Rest(t) \in D /\ Len(Rest(t)) < Len(t)
             /\ Sum(t) \in D /\ PoiCoreReverse(Sum(t)) \in D
             /\ Len(Sum(t)) # 1 => SubSeq(Sum(t), 2, 2) \in D
  <2>1. Rest(t) \in D /\ Len(Rest(t)) = Len(t) - 1 /\ First(t) = <<t[1]>> /\ t[1] \in 0..9
    BY <1>1, FirstAndRestAre
  <2>2. Len(t) \in Nat
    OBVIOUS
  <2>3. Sum(t) = Decimal[t[1] + 1] /\ t[1] + 1 \in Nat
    BY <2>1 DEF SingleDigitAdd
  <2> HIDE DEF Sum
  <2>4. Sum(t) \in D /\ Sum(t) # <<>>
    BY <2>3, DecimalDigits
  <2>5. PoiCoreReverse(Sum(t)) \in D
    BY <2>4, ReverseProperties DEF PoiCoreReverse
  <2>6. ASSUME Len(Sum(t)) # 1
        PROVE  SubSeq(Sum(t), 2, 2) \in D
    <3>1. 2 \in 1..Len(Sum(t))
      <4> DEFINE k == Len(Sum(t))
      <4>1. k \in Nat \ {0} /\ k # 1
        BY <2>4, <2>6, EmptySeq
      <4> HIDE DEF k
      <4>2. 2 \in 1..k
        BY <4>1
      <4> QED  BY <4>2 DEF k
    <3>2. \A i \in 2..2 : Sum(t)[i] \in 0..9
      BY <2>4, <3>1
    <3> QED  BY <3>2, SubSeqProperties
  <2> QED  BY <2>1, <2>2, <2>4, <2>5, <2>6
<1> HIDE DEF Sum
<1>2. ASSUME NEW t \in D, NEW f \in [D -> D]
      PROVE  Body(t, f) \in D
  <2>1. CASE t = <<>>
    BY <2>1
  <2>2. CASE t # <<>>
    <3>1. Rest(t) \in D /\ Sum(t) \in D /\ PoiCoreReverse(Sum(t)) \in D
      BY <1>1, <2>2
    <3>2. f[Rest(t)] \in D
      BY <3>1
    <3>3. Sum(t) \o Rest(t) \in D
      BY <3>1, ConcatProperties
    <3>4. Len(Sum(t)) # 1 => SubSeq(Sum(t), 2, 2) \o f[Rest(t)] \in D
      BY <1>1, <2>2, <3>2, ConcatProperties
    <3> QED  BY <2>2, <3>1, <3>3, <3>4
  <2> QED  BY <2>1, <2>2
<1>3. step \in [D \X [D -> D] -> D]
  <2> HIDE DEF D, Body
  <2> QED  BY <1>2
<1>4. ASSUME NEW t \in D, NEW f \in [D -> D], NEW g \in [D -> D],
             \A u \in D : m[u] < m[t] => f[u] = g[u]
      PROVE  step[<<t, f>>] = step[<<t, g>>]
  <2>1. t # <<>> => f[Rest(t)] = g[Rest(t)]
    BY <1>1, <1>4
  <2>2. Body(t, f) = Body(t, g)
    BY <2>1
  <2> HIDE DEF Body, D
  <2> QED  BY <2>2
<1>5. <<>> \in D /\ m \in [D -> Nat]
  OBVIOUS
<1>6. PICK F : Solution(F, D, D, step)
  <2> HIDE DEF D, step, m
  <2>1. Measured(D, D, m, step)
    BY <1>4 DEF Measured
  <2> QED  BY <1>3, <1>5, <2>1, MeasuredRecursion
<1>7. F \in [D -> D] /\ \A t \in D : F[t] = Body(t, F)
  <2> HIDE DEF D, Body
  <2> QED  BY <1>6 DEF Solution
<1>8. F = [t \in D |-> Body(t, F)]
  <2> HIDE DEF D, Body
  <2> QED  BY <1>7
<1>9. IncrementReversed = [t \in D |-> Body(t, IncrementReversed)]
  BY <1>8 DEF IncrementReversed, Sum
<1>10. \A t \in D : IncrementReversed[t] = Body(t, IncrementReversed)
  <2> HIDE DEF D, Body
  <2> QED  BY <1>9
<1> QED  BY <1>10 DEF Sum

(* The same of DecrementReversed. *)
LEMMA DecrementReversedEquation ==
  \A reversed \in Seq(0..9) :
    LET digit == SingleDigitSub(First(reversed), <<1>>)
    IN  DecrementReversed[reversed] =
          IF reversed \in {<<>>, <<0>>} THEN <<>>
          ELSE IF First(reversed) = <<0>> THEN digit \o DecrementReversed[Rest(reversed)]
          ELSE digit \o Rest(reversed)
<1> DEFINE D == Seq(0..9)
           Digit(t) == SingleDigitSub(First(t), <<1>>)
           Body(t, f) == IF t \in {<<>>, <<0>>} THEN <<>>
                         ELSE IF First(t) = <<0>> THEN Digit(t) \o f[Rest(t)]
                         ELSE Digit(t) \o Rest(t)
           step == [p \in D \X [D -> D] |-> Body(p[1], p[2])]
           m == [t \in D |-> Len(t)]
<1>1. ASSUME NEW t \in D, t # <<>>
      PROVE  Rest(t) \in D /\ Len(Rest(t)) < Len(t) /\ Digit(t) \in D
  <2>1. Rest(t) \in D /\ Len(Rest(t)) = Len(t) - 1 /\ First(t) = <<t[1]>> /\ t[1] \in 0..9
    BY <1>1, FirstAndRestAre
  <2>2. Len(t) \in Nat
    OBVIOUS
  <2>3. Digit(t) = <<(t[1] - 1) % 10>>
    BY <2>1 DEF SingleDigitSub
  <2>4. (t[1] - 1) % 10 \in 0..9
    BY <2>1
  <2>5. <<(t[1] - 1) % 10>> \in D
    BY <2>4
  <2>6. Digit(t) \in D
    BY <2>3, <2>5
  <2> QED  BY <2>1, <2>2, <2>6
<1> HIDE DEF Digit
<1>2. ASSUME NEW t \in D, NEW f \in [D -> D]
      PROVE  Body(t, f) \in D
  <2>1. CASE t = <<>>
    BY <2>1
  <2>2. CASE t # <<>>
    <3>1. Rest(t) \in D /\ Digit(t) \in D
      BY <1>1, <2>2
    <3>2. f[Rest(t)] \in D
      BY <3>1
    <3>3. Digit(t) \o Rest(t) \in D /\ Digit(t) \o f[Rest(t)] \in D
      BY <3>1, <3>2, ConcatProperties
    <3> QED  BY <2>2, <3>3
  <2> QED  BY <2>1, <2>2
<1>3. step \in [D \X [D -> D] -> D]
  <2> HIDE DEF D, Body
  <2> QED  BY <1>2
<1>4. ASSUME NEW t \in D, NEW f \in [D -> D], NEW g \in [D -> D],
             \A u \in D : m[u] < m[t] => f[u] = g[u]
      PROVE  step[<<t, f>>] = step[<<t, g>>]
  <2>1. t # <<>> => f[Rest(t)] = g[Rest(t)]
    BY <1>1, <1>4
  <2>2. Body(t, f) = Body(t, g)
    BY <2>1
  <2> HIDE DEF Body, D
  <2> QED  BY <2>2
<1>5. <<>> \in D /\ m \in [D -> Nat]
  OBVIOUS
<1>6. PICK F : Solution(F, D, D, step)
  <2> HIDE DEF D, step, m
  <2>1. Measured(D, D, m, step)
    BY <1>4 DEF Measured
  <2> QED  BY <1>3, <1>5, <2>1, MeasuredRecursion
<1>7. F \in [D -> D] /\ \A t \in D : F[t] = Body(t, F)
  <2> HIDE DEF D, Body
  <2> QED  BY <1>6 DEF Solution
<1>8. F = [t \in D |-> Body(t, F)]
  <2> HIDE DEF D, Body
  <2> QED  BY <1>7
<1>9. DecrementReversed = [t \in D |-> Body(t, DecrementReversed)]
  BY <1>8 DEF DecrementReversed, Digit
<1>10. \A t \in D : DecrementReversed[t] = Body(t, DecrementReversed)
  <2> HIDE DEF D, Body
  <2> QED  BY <1>9
<1> QED  BY <1>10 DEF Digit

(* The digit of a difference of two digits. *)
LEMMA DigitDifference ==
  ASSUME NEW x \in 0..9, NEW y \in 0..9
  PROVE  (x - y) % 10 = IF x < y THEN x - y + 10 ELSE x - y
<1> DEFINE d == x - y
<1>1. d \in Int /\ -9 <= d /\ d <= 9
  OBVIOUS
<1> HIDE DEF d
<1>2. d % 10 = IF d < 0 THEN d + 10 ELSE d
  BY <1>1
<1> QED  BY <1>2 DEF d

(* Two characters, one behind the other. *)
LEMMA TwoChars ==
  ASSUME NEW q, NEW r
  PROVE  Append(<<q>>, r) = <<q, r>>
<1> DEFINE a == Append(<<q>>, r)
           b == <<q, r>>
           S == {q, r}
<1>1. b \in Seq(S) /\ Len(b) = 2 /\ b[1] = q /\ b[2] = r
  OBVIOUS
<1>2. a \in Seq(S) /\ Len(a) = 2 /\ a[1] = q /\ a[2] = r
  <2>1. <<q>> \in Seq(S) /\ Len(<<q>>) = 1 /\ r \in S /\ <<q>>[1] = q
    OBVIOUS
  <2> HIDE DEF S
  <2> QED  BY <2>1, AppendProperties
<1> HIDE DEF a, b, S
<1>3. \A i \in 1..2 : i = 1 \/ i = 2
  OBVIOUS
<1>4. a = b
  BY <1>1, <1>2, <1>3, SeqEqual
<1> QED  BY <1>4 DEF a, b

(* Numbers of one digit and of two. *)
LEMMA OneDigit ==
  ASSUME NEW r \in 0..9
  PROVE  Decimal[r] = <<r>> /\ Backwards(r) = <<r>>
<1>1. 10 * 0 + r = r
  OBVIOUS
<1> QED  BY <1>1, DecimalOf, BackwardsOf

(* The text of a number of two digits. *)
LEMMA TwoDigits ==
  ASSUME NEW q \in 1..9, NEW r \in 0..9
  PROVE  /\ Decimal[10 * q + r] = <<q, r>> /\ Len(Decimal[10 * q + r]) = 2
         /\ Len(Decimal[10 * q + r]) # 1
         /\ SubSeq(Decimal[10 * q + r], 2, 2) = <<r>>
<1>1. Decimal[10 * q + r] = Append(<<q>>, r)
  <2>1. q \in Nat /\ q \in 0..9 /\ q # 0
    OBVIOUS
  <2>2. Decimal[q] = <<q>>
    BY <2>1, OneDigit
  <2> QED  BY <2>1, <2>2, DecimalOf
<1>2. Decimal[10 * q + r] = <<q, r>>
  <2>1. Append(<<q>>, r) = <<q, r>>
    BY TwoChars
  <2> QED  BY <1>1, <2>1
<1>3. SubSeq(<<q, r>>, 2, 2) = <<r>>
  <2> DEFINE t == <<q, r>>
             u == SubSeq(t, 2, 2)
  <2>1. t[2] = r
    OBVIOUS
  <2> HIDE DEF t
  <2>2. \A i \in 2..2 : t[i] \in 0..9
    BY <2>1
  <2>3. u \in Seq(0..9) /\ Len(u) = 2 - 2 + 1 /\ \A i \in 1..(2 - 2 + 1) : u[i] = t[2 + i - 1]
    BY <2>2, SubSeqProperties
  <2> HIDE DEF u
  <2>4. u[1] = r /\ Len(u) = 1
    BY <2>1, <2>3
  <2>5. u = <<r>>
    BY <2>3, <2>4
  <2> QED  BY <2>5 DEF u, t
<1> QED  BY <1>2, <1>3

(* The digits of a sum of two digits. *)
LEMMA SumOfDigits ==
  ASSUME NEW a \in 0..19
  PROVE  /\ a < 10 => Decimal[a] = <<a>> /\ Len(Decimal[a]) = 1
         /\ ~(a < 10) => /\ Len(Decimal[a]) # 1
                         /\ SubSeq(Decimal[a], 2, 2) = <<a - 10>>
<1>1. CASE a < 10
  <2>1. Decimal[a] = <<a>>
    BY <1>1, OneDigit
  <2>2. Len(<<a>>) = 1
    OBVIOUS
  <2> QED  BY <1>1, <2>1, <2>2
<1>2. CASE ~(a < 10)
  <2>1. a - 10 \in 0..9 /\ a = 10 * 1 + (a - 10) /\ 1 \in 1..9
    BY <1>2
  <2>2. Len(Decimal[10 * 1 + (a - 10)]) # 1 /\ SubSeq(Decimal[10 * 1 + (a - 10)], 2, 2) = <<a - 10>>
    BY <2>1, TwoDigits
  <2> QED  BY <1>2, <2>1, <2>2
<1> QED  BY <1>1, <1>2

(* The carry of IncrementReversed, over any number of nines. *)
LEMMA IncrementReversedIs ==
  \A n \in Nat : IncrementReversed[Backwards(n)] = Backwards(n + 1)
<1> DEFINE S == {n \in Nat : IncrementReversed[Backwards(n)] = Backwards(n + 1)}
<1>1. ASSUME NEW n \in Nat, \A k \in Nat : k < n => k \in S
      PROVE  n \in S
  <2>1. PICK q \in Nat, r \in 0..9 : n = 10 * q + r /\ (n > 0 => q < n)
    BY LastDigitOf
  <2> DEFINE b == Backwards(n)
             sum == SingleDigitAdd(First(b), <<1>>)
  <2>2. b \in Seq(0..9) /\ b # <<>>
    BY BackwardsType
  <2>3. b = (IF q = 0 THEN <<r>> ELSE <<r>> \o Backwards(q)) /\ First(b) = <<r>>
        /\ Rest(b) = (IF q = 0 THEN <<>> ELSE Backwards(q))
    BY <2>1, BackwardsOf
  <2>4. sum = Decimal[r + 1]
    BY <2>3 DEF SingleDigitAdd
  <2>5. IncrementReversed[b] = IF Len(b) = 1 THEN PoiCoreReverse(sum)
                               ELSE IF Len(sum) = 1 THEN sum \o Rest(b)
                               ELSE SubSeq(sum, 2, 2) \o IncrementReversed[Rest(b)]
    BY <2>2, IncrementReversedEquation
  <2> HIDE DEF sum, b
  <2>6. CASE q = 0
    <3>1. Len(b) = 1
      BY <2>3, <2>6
    <3>2. n = r
      BY <2>1, <2>6
    <3> QED  BY <2>4, <2>5, <3>1, <3>2 DEF Backwards, b
  <2>7. CASE q # 0
    <3>1. Len(b) # 1
      <4>1. Backwards(q) \in Seq(0..9) /\ Backwards(q) # <<>>
        BY BackwardsType
      <4>2. Len(b) = 1 + Len(Backwards(q))
        BY <2>3, <2>7, <4>1, FirstAndRest
      <4> DEFINE k == Len(Backwards(q))
                 m == Len(b)
      <4>3. k \in Nat \ {0} /\ m = 1 + k
        BY <4>1, <4>2, EmptySeq
      <4> HIDE DEF k, m
      <4>4. m # 1
        BY <4>3
      <4> QED  BY <4>4 DEF m
    <3>2. CASE r < 9
      <4>1. r + 1 \in 0..9
        BY <3>2
      <4>2. sum = <<r + 1>> /\ Len(sum) = 1
        <5>1. Decimal[r + 1] = <<r + 1>>
          BY <4>1, OneDigit
        <5>2. Len(<<r + 1>>) = 1
          OBVIOUS
        <5> QED  BY <2>4, <5>1, <5>2
      <4>3. IncrementReversed[b] = <<r + 1>> \o Backwards(q)
        BY <2>3, <2>5, <2>7, <3>1, <4>2
      <4>4. Backwards(10 * q + (r + 1)) = <<r + 1>> \o Backwards(q)
        BY <2>7, <4>1, BackwardsOf
      <4>5. 10 * q + (r + 1) = n + 1
        BY <2>1
      <4> QED  BY <4>3, <4>4, <4>5 DEF b
    <3>3. CASE ~(r < 9)
      <4>1. r = 9
        BY <3>3
      <4>2. Len(sum) # 1 /\ SubSeq(sum, 2, 2) = <<0>>
        <5>1. r + 1 \in 0..19 /\ ~(r + 1 < 10) /\ (r + 1) - 10 = 0
          BY <4>1
        <5> QED  BY <2>4, <5>1, SumOfDigits
      <4>3. IncrementReversed[Backwards(q)] = Backwards(q + 1)
        BY <1>1, <2>1, <2>7
      <4>4. IncrementReversed[b] = <<0>> \o Backwards(q + 1)
        BY <2>3, <2>5, <2>7, <3>1, <4>2, <4>3
      <4>5. Backwards(10 * (q + 1) + 0) = <<0>> \o Backwards(q + 1)
        <5>1. q + 1 # 0 /\ q + 1 \in Nat /\ 0 \in 0..9
          OBVIOUS
        <5> QED  BY <5>1, BackwardsOf
      <4>6. 10 * (q + 1) + 0 = n + 1
        BY <2>1, <4>1
      <4> QED  BY <4>4, <4>5, <4>6 DEF b
    <3> QED  BY <3>2, <3>3
  <2> QED  BY <2>6, <2>7
<1>2. Nat \subseteq S
  <2> HIDE DEF S
  <2> QED  BY <1>1, StrongInduction
<1> QED  BY <1>2

(* A step up, of a number without a sign. *)
LEMMA UnsignedIncrementIs ==
  ASSUME NEW n \in Nat
  PROVE  UnsignedIncrement(Decimal[n]) = Decimal[n + 1]
<1>1. PoiCoreReverse(Decimal[n]) = Backwards(n)
  BY DEF Backwards
<1>2. PoiCoreReverse(Backwards(n + 1)) = Decimal[n + 1]
  BY BackwardsType, n + 1 \in Nat
<1> QED  BY <1>1, <1>2, IncrementReversedIs DEF UnsignedIncrement

(* One less, or that with a zero at the end, which is a leading zero. *)
LEMMA DecrementReversedIs ==
  \A n \in Nat : n > 0 => DecrementReversed[Backwards(n)]
                            \in {Backwards(n - 1)} \cup (IF n < 10 THEN {} ELSE {Backwards(n - 1) \o <<0>>})
<1> DEFINE S == {n \in Nat : n > 0 => DecrementReversed[Backwards(n)]
                   \in {Backwards(n - 1)} \cup (IF n < 10 THEN {} ELSE {Backwards(n - 1) \o <<0>>})}
<1>1. ASSUME NEW n \in Nat, \A k \in Nat : k < n => k \in S
      PROVE  n \in S
  <2> SUFFICES ASSUME n > 0
               PROVE  DecrementReversed[Backwards(n)]
                        \in {Backwards(n - 1)} \cup (IF n < 10 THEN {} ELSE {Backwards(n - 1) \o <<0>>})
    OBVIOUS
  <2>1. PICK q \in Nat, r \in 0..9 : n = 10 * q + r /\ (n > 0 => q < n)
    BY LastDigitOf
  <2> DEFINE b == Backwards(n)
             digit == SingleDigitSub(First(b), <<1>>)
  <2>2. b \in Seq(0..9) /\ b # <<>> /\ b # <<0>>
    <3>1. <<0>> = Backwards(0)
      BY OneDigit
    <3> QED  BY <3>1, BackwardsType, BackwardsInjective
  <2>3. b = (IF q = 0 THEN <<r>> ELSE <<r>> \o Backwards(q)) /\ First(b) = <<r>>
        /\ Rest(b) = (IF q = 0 THEN <<>> ELSE Backwards(q))
    BY <2>1, BackwardsOf
  <2>4. digit = <<(r - 1) % 10>>
    BY <2>3 DEF SingleDigitSub
  <2>5. DecrementReversed[b] = IF First(b) = <<0>> THEN digit \o DecrementReversed[Rest(b)]
                               ELSE digit \o Rest(b)
    BY <2>2, DecrementReversedEquation
  <2> HIDE DEF digit, b
  <2>6. CASE r # 0
    <3>1. r - 1 \in 0..9 /\ (r - 1) % 10 = r - 1
      BY <2>6
    <3>2. DecrementReversed[b] = <<r - 1>> \o Rest(b)
      BY <2>3, <2>4, <2>5, <2>6, <3>1
    <3>3. n - 1 = 10 * q + (r - 1)
      BY <2>1
    <3>4. CASE q = 0
      <4>1. <<r - 1>> \o <<>> = <<r - 1>>
        BY <3>1, <<r - 1>> \in Seq(0..9), ConcatEmptySeq
      <4>2. Backwards(n - 1) = <<r - 1>>
        BY <3>1, <3>3, <3>4, BackwardsOf
      <4> QED  BY <2>3, <3>2, <3>4, <4>1, <4>2 DEF b
    <3>5. CASE q # 0
      <4>1. Backwards(n - 1) = <<r - 1>> \o Backwards(q)
        BY <3>1, <3>3, <3>5, BackwardsOf
      <4> QED  BY <2>3, <3>2, <3>5, <4>1 DEF b
    <3> QED  BY <3>4, <3>5
  <2>7. CASE r = 0
    <3>1. q # 0 /\ (r - 1) % 10 = 9
      <4>1. q # 0
        BY <2>1, <2>7
      <4>2. (0 - 1) % 10 = 9
        BY DigitDifference, 0 \in 0..9, 1 \in 0..9
      <4> QED  BY <2>7, <4>1, <4>2
    <3>2. DecrementReversed[b] = <<9>> \o DecrementReversed[Backwards(q)]
      BY <2>3, <2>4, <2>5, <2>7, <3>1
    <3>3. DecrementReversed[Backwards(q)]
            \in {Backwards(q - 1)} \cup (IF q < 10 THEN {} ELSE {Backwards(q - 1) \o <<0>>})
      BY <1>1, <2>1, <3>1
    <3>4. n - 1 = 10 * (q - 1) + 9 /\ q - 1 \in Nat /\ ~(n < 10) /\ 9 \in 0..9
      BY <2>1, <2>7, <3>1
    <3>5. Backwards(n - 1) = IF q - 1 = 0 THEN <<9>> ELSE <<9>> \o Backwards(q - 1)
      BY <3>4, BackwardsOf
    <3>6. CASE q = 1
      <4>1. Backwards(q - 1) = <<0>>
        BY <3>4, <3>6, OneDigit
      <4>2. DecrementReversed[b] = Backwards(n - 1) \o <<0>>
        BY <3>2, <3>3, <3>4, <3>5, <3>6, <4>1
      <4> QED  BY <3>4, <4>2 DEF b
    <3>7. CASE q # 1
      <4>1. Backwards(n - 1) = <<9>> \o Backwards(q - 1)
        BY <3>4, <3>5, <3>7
      <4>2. CASE DecrementReversed[Backwards(q)] = Backwards(q - 1)
        BY <3>2, <4>1, <4>2 DEF b
      <4>3. CASE DecrementReversed[Backwards(q)] = Backwards(q - 1) \o <<0>>
        <5>1. <<9>> \o (Backwards(q - 1) \o <<0>>) = (<<9>> \o Backwards(q - 1)) \o <<0>>
          <6>1. <<9>> \in Seq(0..9) /\ <<0>> \in Seq(0..9) /\ Backwards(q - 1) \in Seq(0..9)
            BY <3>4, BackwardsType
          <6> QED  BY <6>1, ConcatAssociative
        <5> QED  BY <3>2, <3>4, <4>1, <4>3, <5>1 DEF b
      <4> QED  BY <3>3, <4>2, <4>3
    <3> QED  BY <3>6, <3>7
  <2> QED  BY <2>6, <2>7
<1>2. Nat \subseteq S
  <2> HIDE DEF S
  <2> QED  BY <1>1, StrongInduction
<1> QED  BY <1>2

-----------------------------------------------------------------------------
(* Leading zeros *)

(* Ten times a sum of products. *)
LEMMA TenTimes ==
  ASSUME NEW a \in Nat, NEW b \in Nat, NEW c \in Nat, NEW r \in Nat
  PROVE  (a * b + c) * 10 + r = a * (10 * b) + (c * 10 + r)
OBVIOUS

(* A product with a number and a further digit. *)
LEMMA TimesFurtherDigit ==
  ASSUME NEW d \in Nat, NEW z \in Nat, NEW e \in Nat
  PROVE  d * z \in Nat /\ d * (z * 10 + e) = 10 * (d * z) + d * e
OBVIOUS

(* What stands further left counts ten times for every digit behind it. *)
LEMMA ValueOfConcat ==
  \A s, t \in Seq(0..9) : Value[s \o t] = Value[s] * OfDigits[Len(t)] + Value[t]
<1> DEFINE S == {k \in Nat : \A s, t \in Seq(0..9) :
                   Len(t) = k => Value[s \o t] = Value[s] * OfDigits[k] + Value[t]}
<1>1. 0 \in S
  <2> SUFFICES ASSUME NEW s \in Seq(0..9), NEW t \in Seq(0..9), Len(t) = 0
               PROVE  Value[s \o t] = Value[s] * OfDigits[0] + Value[t]
    OBVIOUS
  <2>1. t = <<>>
    OBVIOUS
  <2>2. s \o t = s /\ Value[t] = 0 /\ OfDigits[0] = 1 /\ Value[s] \in Nat
    BY <2>1, ConcatEmptySeq, ValueEquation, OfDigitsEquation, ValueIsNat
  <2> QED  BY <2>2
<1>2. ASSUME NEW k \in Nat, k \in S
      PROVE  k + 1 \in S
  <2> SUFFICES ASSUME NEW s \in Seq(0..9), NEW t \in Seq(0..9), Len(t) = k + 1
               PROVE  Value[s \o t] = Value[s] * OfDigits[k + 1] + Value[t]
    OBVIOUS
  <2>1. PICK u \in Seq(0..9), r \in 0..9 :
           t = Append(u, r) /\ Len(u) = Len(t) - 1 /\ Value[t] = Value[u] * 10 + r
    <3>1. t # <<>>
      BY EmptySeq
    <3> QED  BY <3>1, LastDigit
  <2>2. s \o t = Append(s \o u, r)
    <3>1. <<r>> \in Seq(0..9) /\ s \o u \in Seq(0..9)
      BY ConcatProperties
    <3>2. t = u \o <<r>> /\ Append(s \o u, r) = (s \o u) \o <<r>>
      BY <2>1, <3>1, AppendIsConcat
    <3> QED  BY <3>1, <3>2, ConcatAssociative
  <2>3. Value[s \o t] = Value[s \o u] * 10 + r
    BY <2>2, ConcatProperties, ValueOfAppend
  <2>4. Value[s \o u] = Value[s] * OfDigits[k] + Value[u]
    BY <1>2, <2>1
  <2>5. OfDigits[k + 1] = 10 * OfDigits[k] /\ OfDigits[k] \in Nat /\ Value[s] \in Nat /\ Value[u] \in Nat
    BY OfDigitsEquation, DigitsOfPowers, ValueIsNat
  <2> DEFINE a == Value[s]
             b == OfDigits[k]
             c == Value[u]
  <2> HIDE DEF a, b, c
  <2>6. (a * b + c) * 10 + r = a * (10 * b) + (c * 10 + r)
    <3>1. a \in Nat /\ b \in Nat /\ c \in Nat /\ r \in Nat
      BY <2>5 DEF a, b, c
    <3> QED  BY <3>1, TenTimes
  <2> QED  BY <2>1, <2>3, <2>4, <2>5, <2>6 DEF a, b, c
<1>3. Nat \subseteq S
  <2> HIDE DEF S
  <2> QED  BY <1>1, <1>2, SetInduction
<1> QED  BY <1>3

(* Zeros alone are worth nothing. *)
LEMMA ValueOfZeros ==
  \A t \in Seq(0..9) : (\A i \in 1..Len(t) : t[i] = 0) => Value[t] = 0
<1> DEFINE S == {k \in Nat : \A t \in Seq(0..9) :
                   Len(t) = k /\ (\A i \in 1..Len(t) : t[i] = 0) => Value[t] = 0}
<1>1. 0 \in S
  BY ValueEquation, EmptySeq
<1>2. ASSUME NEW k \in Nat, k \in S
      PROVE  k + 1 \in S
  <2> SUFFICES ASSUME NEW t \in Seq(0..9), Len(t) = k + 1, \A i \in 1..Len(t) : t[i] = 0
               PROVE  Value[t] = 0
    OBVIOUS
  <2>1. PICK u \in Seq(0..9), r \in 0..9 :
           t = Append(u, r) /\ Len(u) = Len(t) - 1 /\ Value[t] = Value[u] * 10 + r
    BY LastDigit, EmptySeq
  <2>2. Len(u) = k /\ (\A i \in 1..k : u[i] = t[i]) /\ r = t[k + 1]
    BY <2>1
  <2>3. Value[u] = 0 /\ r = 0
    BY <1>2, <2>2
  <2> QED  BY <2>1, <2>3
<1>3. Nat \subseteq S
  <2> HIDE DEF S
  <2> QED  BY <1>1, <1>2, SetInduction
<1> QED  BY <1>3

(* Where the leading zeros of a text end. *)
Cut(t, n) == (\A i \in 1..n : t[i] = 0) /\ (n < Len(t) => t[n + 1] # 0)

(* DropZeroes cuts where it should. *)
LEMMA DropZeroesCuts ==
  ASSUME NEW S, NEW t \in Seq(S)
  PROVE  \E n \in 0..Len(t) : Cut(t, n) /\ DropZeroes(t) = SubSeq(t, n + 1, Len(t))
<1> DEFINE T == {i \in 0..Len(t) : i < Len(t) => t[i + 1] # 0}
<1>1. Len(t) \in Nat
  OBVIOUS
<1>2. PICK n \in T : \A i \in T : n <= i
  <2>1. Len(t) \in T /\ T \subseteq Nat
    BY <1>1
  <2> HIDE DEF T
  <2> QED  BY <2>1, Least
<1>3. n \in 0..Len(t) /\ Cut(t, n)
  <2>1. ASSUME NEW i \in 1..n
        PROVE  t[i] = 0
    <3>1. i - 1 \in 0..Len(t) /\ i - 1 < n /\ i - 1 < Len(t) /\ (i - 1) + 1 = i
      BY <1>1
    <3>2. i - 1 \notin T
      BY <1>2, <3>1
    <3> QED  BY <3>1, <3>2
  <2> QED  BY <2>1 DEF Cut
<1> DEFINE c == CHOOSE k \in 0..Len(t) : Cut(t, k)
<1>4. c \in 0..Len(t) /\ Cut(t, c)
  <2> HIDE DEF T
  <2> QED  BY <1>3
<1>5. DropZeroes(t) = SubSeq(t, c + 1, Len(t))
  BY DEF DropZeroes, Cut
<1> HIDE DEF c
<1> QED  BY <1>4, <1>5

(* What is left does not start with zero. *)
LEMMA DropZeroesProperties ==
  ASSUME NEW S, NEW t \in Seq(S)
  PROVE  /\ DropZeroes(t) \in Seq(S)
         /\ DropZeroes(t) # <<>> => DropZeroes(t)[1] # 0
         /\ \E z \in Seq(S) : t = z \o DropZeroes(t) /\ \A i \in 1..Len(z) : z[i] = 0
         /\ t # <<>> /\ t[1] # 0 => DropZeroes(t) = t
<1>1. PICK n \in 0..Len(t) : Cut(t, n) /\ DropZeroes(t) = SubSeq(t, n + 1, Len(t))
  BY DropZeroesCuts
<1> DEFINE z == SubSeq(t, 1, n)
           d == DropZeroes(t)
           k == Len(t)
<1>2. k \in Nat /\ n \in 0..k /\ \A i \in 1..k : t[i] \in S
  OBVIOUS
<1>3. z \in Seq(S) /\ Len(z) = n /\ \A i \in 1..n : z[i] = t[i]
  <2>1. 1 \in Int /\ n \in Int /\ (\A i \in 1..n : t[i] \in S) /\ (1 <= n => n - 1 + 1 = n) /\ n - 1 + 1 = n /\ (~(1 <= n) => n = 0)
    BY <1>2
  <2>2. z \in Seq(S) /\ Len(z) = (IF 1 <= n THEN n - 1 + 1 ELSE 0) /\ \A i \in 1..(n - 1 + 1) : z[i] = t[1 + i - 1]
    BY <2>1, SubSeqProperties
  <2> HIDE DEF z
  <2> QED  BY <2>1, <2>2
<1>4. d \in Seq(S) /\ Len(d) = k - n /\ \A i \in 1..(k - n) : d[i] = t[n + i]
  <2> HIDE DEF k
  <2>1. n + 1 \in Int /\ k \in Int /\ \A i \in (n + 1)..k : t[i] \in S
    BY <1>2
  <2> DEFINE s == SubSeq(t, n + 1, k)
  <2>2. s \in Seq(S) /\ Len(s) = (IF n + 1 <= k THEN k - (n + 1) + 1 ELSE 0) /\ \A i \in 1..(k - (n + 1) + 1) : s[i] = t[(n + 1) + i - 1]
    BY <2>1, SubSeqProperties
  <2>3. d = s
    BY <1>1 DEF k
  <2> HIDE DEF s, d
  <2>4. Len(s) = k - n /\ \A i \in 1..(k - n) : s[i] = t[n + i]
    BY <1>2, <2>2
  <2> QED  BY <2>2, <2>3, <2>4
<1>5. t = z \o d
  <2> DEFINE u == z \o d
  <2>1. u \in Seq(S) /\ Len(u) = Len(z) + Len(d)
        /\ \A i \in 1..(Len(z) + Len(d)) : u[i] = IF i <= Len(z) THEN z[i] ELSE d[i - Len(z)]
    <3> HIDE DEF z, d, u
    <3> QED  BY <1>3, <1>4, ConcatProperties DEF u
  <2> HIDE DEF z, d, u
  <2>2. Len(u) = k
    BY <1>2, <1>3, <1>4, <2>1 DEF k
  <2>3. ASSUME NEW i \in 1..k
        PROVE  t[i] = u[i]
    <3>1. i \in 1..(Len(z) + Len(d))
      BY <1>2, <1>3, <1>4
    <3>2. CASE i <= n
      BY <1>3, <2>1, <3>1, <3>2
    <3>3. CASE ~(i <= n)
      <4>1. i - n \in 1..(k - n) /\ n + (i - n) = i
        BY <1>2, <3>3
      <4> QED  BY <1>3, <1>4, <2>1, <3>1, <3>3, <4>1
    <3> QED  BY <3>2, <3>3
  <2>4. t = u
    BY <2>1, <2>2, <2>3, SeqEqual DEF k
  <2> QED  BY <2>4 DEF u
<1>6. d # <<>> => d[1] # 0
  <2> SUFFICES ASSUME d # <<>>
               PROVE  d[1] # 0
    OBVIOUS
  <2> HIDE DEF d, k
  <2>1. k - n > 0
    BY <1>2, <1>4, EmptySeq
  <2>2. d[1] = t[n + 1]
    BY <1>2, <1>4, <2>1
  <2> QED  BY <1>1, <1>2, <2>1, <2>2 DEF Cut, k
<1>7. \A i \in 1..Len(z) : z[i] = 0
  <2> HIDE DEF z
  <2> QED  BY <1>1, <1>3 DEF Cut
<1>8. t # <<>> /\ t[1] # 0 => d = t
  <2> SUFFICES ASSUME t # <<>>, t[1] # 0
               PROVE  d = t
    OBVIOUS
  <2>1. n = 0
    BY <1>1, <1>2 DEF Cut
  <2>2. z = <<>>
    BY <1>3, <2>1, EmptySeq
  <2> HIDE DEF z, d
  <2> QED  BY <1>4, <1>5, <2>2, ConcatEmptySeq
<1> QED
  <2> HIDE DEF z, d
  <2> QED  BY <1>3, <1>4, <1>5, <1>6, <1>7, <1>8 DEF d

(* Of digits it leaves the text of their number, of zero nothing. *)
LEMMA DropZeroesOfDigits ==
  ASSUME NEW t \in Seq(0..9)
  PROVE  DropZeroes(t) = IF Value[t] = 0 THEN <<>> ELSE Decimal[Value[t]]
<1> DEFINE d == DropZeroes(t)
<1>1. d \in Seq(0..9) /\ (d # <<>> => d[1] # 0)
  BY DropZeroesProperties
<1>2. PICK z \in Seq(0..9) : t = z \o d /\ \A i \in 1..Len(z) : z[i] = 0
  BY DropZeroesProperties
<1> HIDE DEF d
<1>3. Value[t] = Value[d]
  <2>1. Value[t] = Value[z] * OfDigits[Len(d)] + Value[d] /\ Value[z] = 0
    BY <1>1, <1>2, ValueOfConcat, ValueOfZeros
  <2>2. OfDigits[Len(d)] \in Nat /\ Value[d] \in Nat
    BY <1>1, DigitsOfPowers, ValueIsNat
  <2> QED  BY <2>1, <2>2
<1>4. CASE d = <<>>
  <2>1. Value[d] = 0
    BY <1>1, <1>4, ValueEquation
  <2> QED  BY <1>3, <1>4, <2>1 DEF d
<1>5. CASE d # <<>>
  <2>1. d = Decimal[Value[d]] /\ d[1] # 0
    BY <1>1, <1>5, NoLeadingZeros
  <2>2. Decimal[0] = <<0>>
    BY OneDigit, 0 \in 0..9
  <2>3. Value[d] # 0
    BY <2>1, <2>2
  <2> QED  BY <1>3, <2>1, <2>3 DEF d
<1> QED  BY <1>4, <1>5

-----------------------------------------------------------------------------
(* Signs *)

(* Digits are characters, and neither a sign nor a separator. *)
LEMMA DigitsAreChars ==
  /\ 0..9 \subseteq Chars /\ Minus \in Chars /\ Sep \in Chars /\ Minus \notin 0..9 /\ Sep \notin 0..9
  /\ Minus # Sep
  /\ Seq(0..9) \subseteq Seq(Chars)
<1>1. 0..9 \subseteq Chars /\ Minus \in Chars /\ Sep \in Chars /\ Minus \notin 0..9 /\ Sep \notin 0..9 /\ Minus # Sep
  BY CharsAssumption DEF Chars
<1> QED  BY <1>1, SeqMonotonic

(* A text of digits has no sign. *)
LEMMA DigitsHaveNoSign ==
  ASSUME NEW t \in Seq(0..9)
  PROVE  ~StartsWithNegative(t)
<1>1. CASE t = <<>>
  BY <1>1 DEF StartsWithNegative, First
<1>2. CASE t # <<>>
  <2>1. First(t) = <<t[1]>> /\ t[1] \in 0..9
    BY <1>2, FirstAndRestAre
  <2> QED  BY <2>1, DigitsAreChars DEF StartsWithNegative
<1> QED  BY <1>1, <1>2

(* A minus sign before a text. *)
LEMMA SignedText ==
  ASSUME NEW t \in Seq(Chars)
  PROVE  /\ StartsWithNegative(<<Minus>> \o t) /\ Rest(<<Minus>> \o t) = t
         /\ <<Minus>> \o t \in Seq(Chars) /\ <<Minus>> \o t # <<>>
BY FirstAndRest, DigitsAreChars DEF StartsWithNegative

(* Stripped of zeros, digits are the text of their number. *)
LEMMA StripOfDigits ==
  ASSUME NEW t \in Seq(0..9), t # <<>>
  PROVE  StripLeadingZeroes(t) = Decimal[Value[t]]
<1> DEFINE left == DropZeroes(t)
<1>1. ~StartsWithNegative(t)
  BY DigitsHaveNoSign
<1>2. left = IF Value[t] = 0 THEN <<>> ELSE Decimal[Value[t]]
  BY DropZeroesOfDigits
<1> HIDE DEF left
<1>3. CASE Value[t] = 0
  <2>1. StripLeadingZeroes(t) = <<0>>
    BY <1>1, <1>2, <1>3 DEF StripLeadingZeroes, left, WithoutSign, WithoutZeroes
  <2> QED  BY <1>3, <2>1, OneDigit, 0 \in 0..9
<1>4. CASE Value[t] # 0
  <2>1. left \in Seq(0..9) /\ left # <<>> /\ left = Decimal[Value[t]]
    BY <1>2, <1>4, ValueIsNat, DecimalDigits
  <2>2. IsDigit(First(left))
    <3>1. First(left) = <<left[1]>> /\ left[1] \in 0..9
      BY <2>1, FirstAndRestAre
    <3> QED  BY <3>1 DEF IsDigit
  <2> QED  BY <1>1, <2>1, <2>2 DEF StripLeadingZeroes, left, WithoutSign, WithoutZeroes
<1> QED  BY <1>3, <1>4

(* Behind a sign as well; zero loses its sign. *)
LEMMA StripOfNegative ==
  ASSUME NEW t \in Seq(0..9), t # <<>>
  PROVE  StripLeadingZeroes(<<Minus>> \o t) = IF Value[t] = 0 THEN <<0>> ELSE <<Minus>> \o Decimal[Value[t]]
<1> DEFINE left == DropZeroes(t)
           num == <<Minus>> \o t
<1>1. StartsWithNegative(num) /\ Rest(num) = t
  BY SignedText, DigitsAreChars
<1>2. left = IF Value[t] = 0 THEN <<>> ELSE Decimal[Value[t]]
  BY DropZeroesOfDigits
<1> HIDE DEF left, num
<1>3. CASE Value[t] = 0
  <2>1. StripLeadingZeroes(num) = <<0>>
    BY <1>1, <1>2, <1>3 DEF StripLeadingZeroes, left, WithoutSign, WithoutZeroes
  <2> QED  BY <1>3, <2>1 DEF num
<1>4. CASE Value[t] # 0
  <2>1. left \in Seq(0..9) /\ left # <<>> /\ left = Decimal[Value[t]]
    BY <1>2, <1>4, ValueIsNat, DecimalDigits
  <2>2. IsDigit(First(left))
    <3>1. First(left) = <<left[1]>> /\ left[1] \in 0..9
      BY <2>1, FirstAndRestAre
    <3> QED  BY <3>1 DEF IsDigit
  <2> QED  BY <1>1, <1>4, <2>1, <2>2 DEF StripLeadingZeroes, left, num, WithoutSign, WithoutZeroes
<1> QED  BY <1>3, <1>4

(* The notation of integers. *)
LEMMA NumeralProperties ==
  ASSUME NEW n \in Int
  PROVE  /\ Numeral(n) = IF n < 0 THEN <<Minus>> \o Decimal[-n] ELSE Decimal[n]
         /\ Numeral(n) \in Seq(Chars) /\ Numeral(n) # <<>>
         /\ StripLeadingZeroes(Numeral(n)) = Numeral(n)
         /\ StartsWithNegative(Numeral(n)) <=> n < 0
         /\ n < 0 => Rest(Numeral(n)) = Decimal[-n]
         /\ Unsigned(Numeral(n)) = Decimal[Magnitude(n)]
<1>1. CASE n < 0
  <2> DEFINE k == -n
             t == Decimal[k]
  <2>1. k \in Nat /\ k # 0
    BY <1>1
  <2>2. t \in Seq(0..9) /\ t # <<>> /\ Value[t] = k
    BY <2>1, DecimalDigits, ValueOfDecimal
  <2>3. Numeral(n) = <<Minus>> \o t
    BY <1>1 DEF Numeral
  <2> HIDE DEF k
  <2>4. StripLeadingZeroes(Numeral(n)) = Numeral(n)
    BY <2>1, <2>2, <2>3, StripOfNegative
  <2>5. t \in Seq(Chars)
    BY <2>2, DigitsAreChars
  <2>6. StartsWithNegative(Numeral(n)) /\ Rest(Numeral(n)) = t /\ Numeral(n) \in Seq(Chars) /\ Numeral(n) # <<>>
    BY <2>3, <2>5, SignedText
  <2>7. Unsigned(Numeral(n)) = t
    BY <2>2, <2>6, StripOfDigits DEF Unsigned, WithoutSign
  <2> QED  BY <1>1, <2>3, <2>4, <2>6, <2>7 DEF k, Magnitude
<1>2. CASE ~(n < 0)
  <2>1. n \in Nat
    BY <1>2
  <2>2. Decimal[n] \in Seq(0..9) /\ Decimal[n] # <<>> /\ Value[Decimal[n]] = n
    BY <2>1, DecimalDigits, ValueOfDecimal
  <2>3. Numeral(n) = Decimal[n]
    BY <1>2 DEF Numeral
  <2>4. StripLeadingZeroes(Numeral(n)) = Numeral(n)
    BY <2>2, <2>3, StripOfDigits
  <2>5. Decimal[n] \in Seq(Chars)
    BY <2>2, DigitsAreChars
  <2>6. ~StartsWithNegative(Numeral(n))
    BY <2>2, <2>3, DigitsHaveNoSign
  <2> QED  BY <1>2, <2>2, <2>3, <2>4, <2>5, <2>6 DEF Magnitude, Unsigned, WithoutSign
<1> QED  BY <1>1, <1>2

-----------------------------------------------------------------------------
(* Which texts are integers *)

(* A text behind its sign. *)
LEMMA DigitsProperties ==
  ASSUME NEW t \in Seq(Chars)
  PROVE  /\ Digits(t) \in Seq(Chars)
         /\ Digits(t) = IF StartsWithNegative(t) THEN Rest(t) ELSE t
         /\ StartsWithNegative(t) <=> t # <<>> /\ t[1] = Minus
         /\ StartsWithNegative(t) => t = <<Minus>> \o Rest(t) /\ Rest(t) \in Seq(Chars)
<1>1. Digits(t) = IF StartsWithNegative(t) THEN Rest(t) ELSE t
  BY DEF Digits, StartsWithNegative
<1>2. CASE t = <<>>
  <2>1. ~StartsWithNegative(t)
    BY <1>2 DEF StartsWithNegative, First
  <2> QED  BY <1>1, <1>2, <2>1
<1>3. CASE t # <<>>
  <2>1. First(t) = <<t[1]>> /\ Rest(t) \in Seq(Chars) /\ t = First(t) \o Rest(t)
    BY <1>3, FirstAndRestAre
  <2>2. StartsWithNegative(t) <=> t[1] = Minus
    BY <2>1 DEF StartsWithNegative
  <2> QED  BY <1>1, <1>3, <2>1, <2>2 DEF StartsWithNegative
<1> QED  BY <1>2, <1>3

(* AllDigits is true of texts of digits. *)
LEMMA AllDigitsAre ==
  ASSUME NEW t \in Seq(Chars)
  PROVE  AllDigits(t) <=> t \in Seq(0..9)
<1>1. t \in Seq(0..9) => AllDigits(t)
  BY DEF AllDigits
<1>2. ASSUME AllDigits(t)
      PROVE  t \in Seq(0..9)
  <2>1. Len(t) \in Nat /\ t = [i \in 1..Len(t) |-> t[i]] /\ DOMAIN t = 1..Len(t)
    OBVIOUS
  <2>2. \A i \in 1..Len(t) : t[i] \in 0..9
    BY <1>2, <2>1 DEF AllDigits
  <2>3. t \in [1..Len(t) -> 0..9]
    BY <2>1, <2>2
  <2> QED  BY <2>1, <2>3, SeqDef
<1> QED  BY <1>1, <1>2

(* Whether a text denotes an integer, and which. *)
LEMMA NumberOfProperties ==
  ASSUME NEW t \in Seq(Chars)
  PROVE  /\ IsNumeral(t) <=> Digits(t) \in Seq(0..9) /\ Digits(t) # <<>>
         /\ IsNumeral(t) => /\ Value[Digits(t)] \in Nat
                            /\ NumberOf(t) = IF StartsWithNegative(t) THEN -Value[Digits(t)] ELSE Value[Digits(t)]
                            /\ NumberOf(t) \in Int
         /\ ~IsNumeral(t) => NumberOf(t) = NotANumber
<1>1. IsNumeral(t) <=> Digits(t) \in Seq(0..9) /\ Digits(t) # <<>>
  BY DigitsProperties, AllDigitsAre DEF IsNumeral
<1>2. ASSUME IsNumeral(t)
      PROVE  /\ Value[Digits(t)] \in Nat
             /\ NumberOf(t) = IF StartsWithNegative(t) THEN -Value[Digits(t)] ELSE Value[Digits(t)]
             /\ NumberOf(t) \in Int
  <2>1. Value[Digits(t)] \in Nat
    BY <1>1, <1>2, ValueIsNat
  <2>2. NumberOf(t) = IF StartsWithNegative(t) THEN -Value[Digits(t)] ELSE Value[Digits(t)]
    BY <1>2 DEF NumberOf, StartsWithNegative, Digits
  <2> QED  BY <2>1, <2>2
<1>3. ~IsNumeral(t) => NumberOf(t) = NotANumber
  BY DEF NumberOf
<1> QED  BY <1>1, <1>2, <1>3

(* An integer with leading zeros is stripped to its only other notation. *)
LEMMA StripOfNumeral ==
  ASSUME NEW t \in Seq(Chars), IsNumeral(t)
  PROVE  NumberOf(t) \in Int /\ StripLeadingZeroes(t) = Numeral(NumberOf(t))
<1> DEFINE d == Digits(t)
<1>1. d \in Seq(0..9) /\ d # <<>> /\ Value[d] \in Nat
  BY NumberOfProperties
<1>2. NumberOf(t) = (IF StartsWithNegative(t) THEN -Value[d] ELSE Value[d]) /\ NumberOf(t) \in Int
  BY NumberOfProperties
<1>3. CASE StartsWithNegative(t)
  <2>1. t = <<Minus>> \o d
    BY <1>3, DigitsProperties
  <2> HIDE DEF d
  <2>2. StripLeadingZeroes(t) = IF Value[d] = 0 THEN <<0>> ELSE <<Minus>> \o Decimal[Value[d]]
    BY <1>1, <2>1, StripOfNegative
  <2>3. CASE Value[d] = 0
    <3>1. NumberOf(t) = 0
      <4>1. NumberOf(t) = -Value[d]
        BY <1>2, <1>3
      <4> DEFINE v == Value[d]
      <4>2. v \in Int /\ v <= 0 /\ v >= 0
        BY <1>1, <2>3
      <4> HIDE DEF v
      <4>3. -v = 0
        BY <4>2
      <4> QED  BY <4>1, <4>3 DEF v
    <3>2. Numeral(0) = <<0>>
      BY OneDigit, 0 \in 0..9 DEF Numeral
    <3> QED  BY <1>2, <2>2, <2>3, <3>1, <3>2
  <2>4. CASE Value[d] # 0
    <3> DEFINE n == NumberOf(t)
    <3>1. n < 0 /\ -n = Value[d]
      BY <1>1, <1>2, <1>3, <2>4
    <3> HIDE DEF n
    <3>2. Numeral(n) = <<Minus>> \o Decimal[Value[d]]
      BY <3>1 DEF Numeral
    <3> QED  BY <1>2, <2>2, <2>4, <3>2 DEF n
  <2> QED  BY <2>3, <2>4
<1>4. CASE ~StartsWithNegative(t)
  <2>1. t = d
    BY <1>4, DigitsProperties
  <2> HIDE DEF d
  <2>2. StripLeadingZeroes(t) = Decimal[Value[d]]
    BY <1>1, <2>1, StripOfDigits
  <2>3. NumberOf(t) = Value[d]
    BY <1>2, <1>4
  <2>4. Numeral(Value[d]) = Decimal[Value[d]]
    BY <1>1 DEF Numeral
  <2> QED  BY <1>2, <2>2, <2>3, <2>4
<1> QED  BY <1>3, <1>4

(* Numeral and NumberOf are inverse. *)
LEMMA NumberOfNumeral ==
  ASSUME NEW n \in Int
  PROVE  /\ IsNumeral(Numeral(n)) /\ NumberOf(Numeral(n)) = n
         /\ Digits(Numeral(n)) = Decimal[Magnitude(n)] /\ Magnitude(n) \in Nat
<1> DEFINE t == Numeral(n)
<1>1. t \in Seq(Chars) /\ (StartsWithNegative(t) <=> n < 0) /\ (n < 0 => Rest(t) = Decimal[-n])
      /\ t = IF n < 0 THEN <<Minus>> \o Decimal[-n] ELSE Decimal[n]
  BY NumeralProperties
<1> HIDE DEF t
<1>2. Digits(t) = Decimal[Magnitude(n)] /\ Magnitude(n) \in Nat
  <2>1. Digits(t) = IF StartsWithNegative(t) THEN Rest(t) ELSE t
    BY <1>1, DigitsProperties
  <2>2. CASE n < 0
    <3>1. Magnitude(n) = -n /\ -n \in Nat
      BY <2>2 DEF Magnitude
    <3> QED  BY <1>1, <2>1, <2>2, <3>1
  <2>3. CASE ~(n < 0)
    <3>1. Magnitude(n) = n /\ n \in Nat
      BY <2>3 DEF Magnitude
    <3> QED  BY <1>1, <2>1, <2>3, <3>1
  <2> QED  BY <2>2, <2>3
<1>3. Digits(t) \in Seq(0..9) /\ Digits(t) # <<>> /\ Value[Digits(t)] = Magnitude(n)
  BY <1>2, DecimalDigits, ValueOfDecimal
<1>4. IsNumeral(t)
  BY <1>1, <1>3, NumberOfProperties
<1>5. NumberOf(t) = IF n < 0 THEN -Magnitude(n) ELSE Magnitude(n)
  BY <1>1, <1>3, <1>4, NumberOfProperties
<1>6. NumberOf(t) = n
  BY <1>5 DEF Magnitude
<1> QED  BY <1>2, <1>4, <1>6 DEF t

(* The parts of a text that StripLeadingZeroes tells apart. *)
LEMMA StripCases ==
  ASSUME NEW t \in Seq(Chars)
  PROVE  LET left == DropZeroes(Digits(t))
         IN  StripLeadingZeroes(t) =
               IF Digits(t) = <<>> THEN t
               ELSE IF left = <<>> THEN <<0>>
               ELSE IF ~IsDigit(First(left)) THEN t
               ELSE IF StartsWithNegative(t) THEN <<Minus>> \o left ELSE left
BY DigitsProperties DEF StripLeadingZeroes, WithoutSign, WithoutZeroes

(* The check of the first character behind the zeros. *)
LEMMA FirstIsDigit ==
  ASSUME NEW t \in Seq(Chars), t # <<>>
  PROVE  IsDigit(First(t)) <=> t[1] \in 0..9
<1>1. First(t) = <<t[1]>>
  BY FirstAndRestAre
<1> QED  BY <1>1 DEF IsDigit

(* What is no integer stays none, and is stripped once. *)
LEMMA StripOfOthers ==
  ASSUME NEW t \in Seq(Chars), ~IsNumeral(t)
  PROVE  LET s == StripLeadingZeroes(t)
         IN  /\ s \in Seq(Chars) /\ ~IsNumeral(s) /\ StripLeadingZeroes(s) = s
             /\ s # t => Digits(s) # <<>> /\ Digits(s)[1] \in 0..9
<1> DEFINE s == StripLeadingZeroes(t)
           p == Digits(t)
           left == DropZeroes(p)
<1>1. p \in Seq(Chars) /\ (p = <<>> \/ p \notin Seq(0..9))
  BY DigitsProperties, NumberOfProperties
<1>2. s = IF p = <<>> THEN t ELSE IF left = <<>> THEN <<0>> ELSE IF ~IsDigit(First(left)) THEN t
          ELSE IF StartsWithNegative(t) THEN <<Minus>> \o left ELSE left
  BY StripCases
<1>3. left \in Seq(Chars) /\ (left # <<>> => left[1] # 0) /\ \E z \in Seq(Chars) : p = z \o left /\ \A i \in 1..Len(z) : z[i] = 0
  BY <1>1, DropZeroesProperties
<1> HIDE DEF s, left
<1>4. CASE s = t
  BY <1>4 DEF s
<1>5. CASE s # t
  <2>1. p # <<>> /\ p \notin Seq(0..9)
    BY <1>1, <1>2, <1>5
  <2>2. left \notin Seq(0..9)
    <3> SUFFICES ASSUME left \in Seq(0..9)
                 PROVE  p \in Seq(0..9)
      BY <2>1
    <3>1. PICK z \in Seq(Chars) : p = z \o left /\ \A i \in 1..Len(z) : z[i] = 0
      BY <1>3
    <3>2. AllDigits(z)
      <4>1. DOMAIN z = 1..Len(z)
        OBVIOUS
      <4> QED  BY <3>1, <4>1 DEF AllDigits
    <3>3. z \in Seq(0..9)
      BY <3>2, AllDigitsAre
    <3> QED  BY <3>1, <3>3, ConcatProperties
  <2>3. left # <<>>
    BY <2>2, <<>> \in Seq(0..9)
  <2>4. left[1] \in 0..9 /\ IsDigit(First(left))
    BY <1>2, <1>3, <1>5, <2>1, <2>3, FirstIsDigit
  <2>5. ~StartsWithNegative(left)
    BY <1>3, <2>4, DigitsProperties, DigitsAreChars
  <2>6. DropZeroes(left) = left
    BY <1>3, <2>3, DropZeroesProperties
  <2>7. s \in Seq(Chars) /\ Digits(s) = left /\ s = IF StartsWithNegative(s) THEN <<Minus>> \o left ELSE left
    <3>1. CASE StartsWithNegative(t)
      <4>1. s = <<Minus>> \o left
        BY <1>2, <2>1, <2>3, <2>4, <3>1
      <4>2. s \in Seq(Chars) /\ StartsWithNegative(s) /\ Rest(s) = left
        BY <1>3, <4>1, SignedText
      <4> QED  BY <4>1, <4>2, DigitsProperties
    <3>2. CASE ~StartsWithNegative(t)
      <4>1. s = left
        BY <1>2, <2>1, <2>3, <2>4, <3>2
      <4> QED  BY <1>3, <2>5, <4>1, DigitsProperties
    <3> QED  BY <3>1, <3>2
  <2>8. ~IsNumeral(s)
    BY <2>2, <2>7, NumberOfProperties
  <2>9. StripLeadingZeroes(s) = s
    BY <2>3, <2>4, <2>6, <2>7, StripCases
  <2> QED  BY <2>3, <2>4, <2>7, <2>8, <2>9 DEF s
<1> QED  BY <1>4, <1>5

(* The check for an integer that is not negative is exact. *)
LEMMA NonNegativeIs ==
  ASSUME NEW t \in Seq(Chars)
  PROVE  IsNonNegativeInt(t) <=> IsNumeral(t) /\ NumberOf(t) >= 0
<1> DEFINE s == StripLeadingZeroes(t)
<1>1. IsNonNegativeInt(t) <=> s # <<>> /\ AllDigits(s)
  BY DEF IsNonNegativeInt, AnyDigits
<1>2. CASE IsNumeral(t)
  <2> DEFINE n == NumberOf(t)
  <2>1. n \in Int /\ s = Numeral(n)
    BY <1>2, StripOfNumeral
  <2> HIDE DEF n, s
  <2>2. s \in Seq(Chars) /\ s # <<>> /\ (StartsWithNegative(s) <=> n < 0) /\ (~(n < 0) => s = Decimal[n])
    BY <2>1, NumeralProperties
  <2>3. CASE n < 0
    <3>1. s \notin Seq(0..9)
      BY <2>2, <2>3, DigitsHaveNoSign
    <3>2. ~AllDigits(s)
      BY <2>2, <3>1, AllDigitsAre
    <3> QED  BY <1>1, <2>1, <2>3, <3>2 DEF n
  <2>4. CASE ~(n < 0)
    <3>1. s \in Seq(0..9)
      BY <2>1, <2>2, <2>4, DecimalDigits
    <3>2. AllDigits(s)
      BY <2>2, <3>1, AllDigitsAre
    <3>3. n >= 0
      BY <2>1, <2>4
    <3> QED  BY <1>1, <1>2, <2>2, <3>2, <3>3 DEF n
  <2> QED  BY <2>3, <2>4
<1>3. CASE ~IsNumeral(t)
  <2>1. s \in Seq(Chars) /\ ~IsNumeral(s)
    BY <1>3, StripOfOthers
  <2> HIDE DEF s
  <2> SUFFICES ASSUME s # <<>>, AllDigits(s)
               PROVE  FALSE
    BY <1>1, <1>3
  <2>2. s \in Seq(0..9)
    BY <2>1, AllDigitsAre
  <2>3. Digits(s) = s
    BY <2>1, <2>2, DigitsHaveNoSign, DigitsProperties
  <2> QED  BY <2>1, <2>2, <2>3, NumberOfProperties
<1> QED  BY <1>2, <1>3

(* Zeros behind two signs. *)
LEMMA SignedTwiceIs ==
  ASSUME NEW t \in Seq(Chars)
  PROVE  SignedTwice(t) <=>
           \E z \in Seq(0..9) : /\ z # <<>> /\ \A i \in 1..Len(z) : z[i] = 0
                                /\ t = <<Minus>> \o (<<Minus>> \o z)
<1>1. ASSUME SignedTwice(t)
      PROVE  \E z \in Seq(0..9) : /\ z # <<>> /\ \A i \in 1..Len(z) : z[i] = 0
                                  /\ t = <<Minus>> \o (<<Minus>> \o z)
  <2> DEFINE z == SubSeq(t, 3, Len(t))
             k == Len(t)
             u == <<Minus>> \o z
             v == <<Minus>> \o u
  <2>1. k \in Nat /\ k > 2 /\ t[1] = Minus /\ t[2] = Minus /\ \A i \in 3..k : t[i] = 0
    BY <1>1 DEF SignedTwice
  <2>2. z \in Seq(0..9) /\ Len(z) = k - 2 /\ \A i \in 1..(k - 2) : z[i] = t[i + 2] /\ z[i] = 0
    <3> HIDE DEF k
    <3> DEFINE y == SubSeq(t, 3, k)
    <3>1. 3 \in Int /\ k \in Int /\ \A i \in 3..k : t[i] \in 0..9
      BY <2>1
    <3>2. y \in Seq(0..9) /\ Len(y) = (IF 3 <= k THEN k - 3 + 1 ELSE 0) /\ \A i \in 1..(k - 3 + 1) : y[i] = t[3 + i - 1]
      BY <3>1, SubSeqProperties
    <3>3. z = y
      BY DEF k
    <3> HIDE DEF y, z
    <3>4. Len(y) = k - 2
      BY <2>1, <3>2
    <3>5. ASSUME NEW i \in 1..(k - 2)
          PROVE  y[i] = t[i + 2] /\ y[i] = 0
      <4>1. i \in 1..(k - 3 + 1) /\ 3 + i - 1 = i + 2 /\ i + 2 \in 3..k
        BY <2>1
      <4> QED  BY <2>1, <3>2, <4>1
    <3> QED  BY <3>2, <3>3, <3>4, <3>5
  <2> HIDE DEF z, k
  <2>3. z \in Seq(Chars) /\ Minus \in Chars /\ <<Minus>> \in Seq(Chars) /\ Len(<<Minus>>) = 1
    BY <2>2, DigitsAreChars
  <2>4. u \in Seq(Chars) /\ Len(u) = 1 + Len(z) /\ \A i \in 1..(1 + Len(z)) : u[i] = IF i <= 1 THEN <<Minus>>[i] ELSE z[i - 1]
    <3> HIDE DEF u
    <3> QED  BY <2>3, ConcatProperties DEF u
  <2> HIDE DEF u
  <2>5. v \in Seq(Chars) /\ Len(v) = 1 + Len(u) /\ \A i \in 1..(1 + Len(u)) : v[i] = IF i <= 1 THEN <<Minus>>[i] ELSE u[i - 1]
    <3> HIDE DEF v
    <3> QED  BY <2>3, <2>4, ConcatProperties DEF v
  <2> HIDE DEF v
  <2>6. Len(v) = k
    BY <2>1, <2>2, <2>4, <2>5
  <2>7. ASSUME NEW i \in 1..k
        PROVE  t[i] = v[i]
    <3>1. i \in 1..(1 + Len(u))
      BY <2>1, <2>2, <2>4
    <3>2. CASE i = 1
      BY <2>1, <2>5, <3>1, <3>2
    <3>3. CASE i = 2
      <4>1. v[2] = u[1]
        BY <2>5, <3>1, <3>3
      <4>2. u[1] = Minus
        <5>1. 1 \in 1..(1 + Len(z)) /\ 1 <= 1
          BY <2>3
        <5>2. u[1] = <<Minus>>[1]
          BY <2>4, <5>1
        <5> QED  BY <5>2
      <4> QED  BY <2>1, <3>3, <4>1, <4>2
    <3>4. CASE i > 2
      <4>1. i - 1 \in 1..(1 + Len(z)) /\ ~(i - 1 <= 1) /\ ~(i <= 1) /\ (i - 1) - 1 = i - 2 /\ i - 2 \in 1..(k - 2) /\ (i - 2) + 2 = i
        BY <2>1, <2>2, <3>4
      <4>2. v[i] = u[i - 1]
        BY <2>5, <3>1, <4>1
      <4>3. u[i - 1] = z[i - 2]
        BY <2>4, <4>1
      <4>4. z[i - 2] = t[i]
        BY <2>2, <4>1
      <4> QED  BY <4>2, <4>3, <4>4
    <3> QED  BY <3>2, <3>3, <3>4
  <2>8. t = v
    BY <2>5, <2>6, <2>7, SeqEqual DEF k
  <2>9. z # <<>>
    BY <2>1, <2>2
  <2>10. \A i \in 1..Len(z) : z[i] = 0
    BY <2>2
  <2> QED  BY <2>2, <2>8, <2>9, <2>10 DEF u, v
<1>2. ASSUME NEW z \in Seq(0..9), z # <<>>, \A i \in 1..Len(z) : z[i] = 0, t = <<Minus>> \o (<<Minus>> \o z)
      PROVE  SignedTwice(t)
  <2> DEFINE u == <<Minus>> \o z
  <2>1. z \in Seq(Chars) /\ Minus \in Chars /\ <<Minus>> \in Seq(Chars) /\ Len(<<Minus>>) = 1
    BY DigitsAreChars
  <2>2. u \in Seq(Chars) /\ Len(u) = 1 + Len(z) /\ \A i \in 1..(1 + Len(z)) : u[i] = IF i <= 1 THEN <<Minus>>[i] ELSE z[i - 1]
    <3> HIDE DEF u
    <3> QED  BY <2>1, ConcatProperties DEF u
  <2> HIDE DEF u
  <2>3. t = <<Minus>> \o u
    BY <1>2 DEF u
  <2>4. Len(t) = 1 + Len(u) /\ \A i \in 1..(1 + Len(u)) : t[i] = IF i <= 1 THEN <<Minus>>[i] ELSE u[i - 1]
    BY <2>1, <2>2, <2>3, ConcatProperties
  <2>5. Len(z) \in Nat /\ Len(z) > 0
    BY <1>2, EmptySeq
  <2>6. Len(t) > 2 /\ t[1] = Minus
    BY <2>2, <2>4, <2>5
  <2>7. t[2] = Minus
    <3>1. t[2] = u[1] /\ u[1] = Minus
      BY <2>2, <2>4, <2>5
    <3> QED  BY <3>1
  <2>8. ASSUME NEW i \in 3..Len(t)
        PROVE  t[i] = 0
    <3>1. i \in 1..(1 + Len(u)) /\ ~(i <= 1) /\ i - 1 \in 1..(1 + Len(z)) /\ ~(i - 1 <= 1) /\ (i - 1) - 1 \in 1..Len(z)
      BY <2>2, <2>4, <2>5
    <3>2. t[i] = u[i - 1] /\ u[i - 1] = z[(i - 1) - 1]
      BY <2>2, <2>4, <3>1
    <3> QED  BY <1>2, <3>1, <3>2
  <2> QED  BY <2>6, <2>7, <2>8 DEF SignedTwice
<1> QED  BY <1>1, <1>2

(* Zeros behind two signs are no integer, but what follows the first sign is one. *)
LEMMA SignedTwiceIsNoNumeral ==
  ASSUME NEW t \in Seq(Chars), SignedTwice(t)
  PROVE  /\ ~IsNumeral(t) /\ StripLeadingZeroes(t) = t /\ StartsWithNegative(t)
         /\ IsNumeral(Rest(t)) /\ NumberOf(Rest(t)) = 0
<1>1. PICK z \in Seq(0..9) : /\ z # <<>> /\ \A i \in 1..Len(z) : z[i] = 0
                             /\ t = <<Minus>> \o (<<Minus>> \o z)
  BY SignedTwiceIs
<1> DEFINE u == <<Minus>> \o z
<1>2. StartsWithNegative(u) /\ Rest(u) = z /\ u \in Seq(Chars) /\ u # <<>>
  BY <1>1, SignedText, DigitsAreChars
<1>3. t = <<Minus>> \o u
  BY <1>1
<1> HIDE DEF u
<1>4. StartsWithNegative(t) /\ Rest(t) = u
  BY <1>2, <1>3, SignedText
<1>5. Digits(t) = u /\ Digits(u) = z /\ u[1] = Minus
  BY <1>2, <1>4, DigitsProperties
<1>6. u \notin Seq(0..9)
  BY <1>2, DigitsHaveNoSign
<1>7. ~IsNumeral(t) /\ IsNumeral(u)
  BY <1>1, <1>2, <1>5, <1>6, NumberOfProperties
<1>8. Value[z] = 0
  BY <1>1, ValueOfZeros
<1>9. NumberOf(u) = 0
  <2> DEFINE v == Value[z]
  <2>1. NumberOf(u) = -v
    BY <1>2, <1>5, <1>7, NumberOfProperties
  <2>2. v \in Int /\ v <= 0 /\ v >= 0
    BY <1>8
  <2> HIDE DEF v
  <2>3. -v = 0
    BY <2>2
  <2> QED  BY <2>1, <2>3
<1>10. StripLeadingZeroes(t) = t
  <2>1. u[1] # 0 /\ u[1] \notin 0..9
    BY <1>5, DigitsAreChars
  <2>2. DropZeroes(u) = u
    BY <1>2, <2>1, DropZeroesProperties
  <2>3. ~IsDigit(First(u))
    BY <1>2, <2>1, FirstIsDigit
  <2> QED  BY <1>2, <1>5, <2>2, <2>3, StripCases
<1> QED  BY <1>4, <1>7, <1>9, <1>10

(* The check for an integer takes zeros behind two signs for one.           *)
LEMMA BehindASign ==
  ASSUME NEW s \in Seq(Chars), ~IsNumeral(s), StartsWithNegative(s), IsNonNegativeInt(Rest(s))
  PROVE  SignedTwice(s)
<1> DEFINE u == Rest(s)
<1>1. s = <<Minus>> \o u /\ u \in Seq(Chars) /\ Digits(s) = u
  BY DigitsProperties
<1> HIDE DEF u
<1>2. IsNumeral(u) /\ NumberOf(u) >= 0
  BY <1>1, NonNegativeIs DEF u
<1> DEFINE z == Digits(u)
<1>3. z \in Seq(0..9) /\ z # <<>> /\ Value[z] \in Nat
      /\ NumberOf(u) = IF StartsWithNegative(u) THEN -Value[z] ELSE Value[z]
  BY <1>1, <1>2, NumberOfProperties
<1>4. StartsWithNegative(u) /\ u = <<Minus>> \o z
  <2>1. StartsWithNegative(u)
    <3> SUFFICES ASSUME ~StartsWithNegative(u)
                 PROVE  FALSE
      OBVIOUS
    <3>1. z = u
      BY <1>1, DigitsProperties
    <3> QED  BY <1>1, <1>3, <3>1, NumberOfProperties
  <2> QED  BY <1>1, <2>1, DigitsProperties
<1> HIDE DEF z
<1>5. Value[z] = 0
  <2> DEFINE v == Value[z]
  <2>1. v \in Nat /\ -v >= 0
    BY <1>2, <1>3, <1>4
  <2> HIDE DEF v
  <2>2. v = 0
    BY <2>1
  <2> QED  BY <2>2 DEF v
<1>6. DropZeroes(z) = <<>>
  BY <1>3, <1>5, DropZeroesOfDigits
<1>7. \A i \in 1..Len(z) : z[i] = 0
  <2>1. PICK y \in Seq(0..9) : z = y \o DropZeroes(z) /\ \A i \in 1..Len(y) : y[i] = 0
    BY <1>3, DropZeroesProperties
  <2>2. z = y
    BY <1>6, <2>1, ConcatEmptySeq
  <2> QED  BY <2>1, <2>2
<1> QED  BY <1>1, <1>3, <1>4, <1>7, SignedTwiceIs

(* Stripping makes no such text and removes none. *)
LEMMA SignsStay ==
  ASSUME NEW t \in Seq(Chars), ~IsNumeral(t)
  PROVE  SignedTwice(StripLeadingZeroes(t)) <=> SignedTwice(t)
<1> DEFINE s == StripLeadingZeroes(t)
<1>1. SignedTwice(t) => s = t
  BY SignedTwiceIsNoNumeral
<1>2. s \in Seq(Chars) /\ (s # t => Digits(s) # <<>> /\ Digits(s)[1] \in 0..9)
  BY StripOfOthers
<1> HIDE DEF s
<1>3. ASSUME SignedTwice(s), s # t
      PROVE  FALSE
  <2>1. StartsWithNegative(s) /\ IsNumeral(Rest(s)) /\ ~IsNumeral(s)
    BY <1>2, <1>3, SignedTwiceIsNoNumeral
  <2> DEFINE u == Rest(s)
  <2>2. Digits(s) = u /\ u \in Seq(Chars)
    BY <1>2, <2>1, DigitsProperties
  <2> HIDE DEF u
  <2>3. u # <<>> /\ u[1] # Minus
    BY <1>2, <1>3, <2>2, DigitsAreChars
  <2>4. Digits(u) = u
    BY <2>2, <2>3, DigitsProperties
  <2>5. u \in Seq(0..9)
    BY <2>1, <2>2, <2>4, NumberOfProperties DEF u
  <2>6. IsNumeral(s)
    BY <1>2, <2>2, <2>3, <2>5, NumberOfProperties
  <2> QED  BY <2>1, <2>6
<1> QED  BY <1>1, <1>3 DEF s

(* IsValid is true of integers and of zeros behind two signs. *)
LEMMA ValidIs ==
  ASSUME NEW t \in Seq(Chars)
  PROVE  IsValid(t) <=> IsNumeral(t) \/ SignedTwice(t)
<1> DEFINE s == StripLeadingZeroes(t)
<1>1. IsValid(t) <=> IsNonNegativeInt(IF StartsWithNegative(s) THEN Rest(s) ELSE s)
  BY DEF IsValid, WithoutSign
<1>2. CASE IsNumeral(t)
  <2> DEFINE n == NumberOf(t)
  <2>1. n \in Int /\ s = Numeral(n)
    BY <1>2, StripOfNumeral
  <2> HIDE DEF n, s
  <2>2. (StartsWithNegative(s) <=> n < 0) /\ (n < 0 => Rest(s) = Decimal[-n]) /\ (~(n < 0) => s = Decimal[n])
    BY <2>1, NumeralProperties
  <2>3. PICK k \in Nat : (IF StartsWithNegative(s) THEN Rest(s) ELSE s) = Decimal[k]
    <3>1. n < 0 => -n \in Nat
      BY <2>1
    <3>2. ~(n < 0) => n \in Nat
      BY <2>1
    <3> QED  BY <2>2, <3>1, <3>2
  <2>4. Decimal[k] = Numeral(k) /\ k \in Int
    BY DEF Numeral
  <2>5. IsNonNegativeInt(Decimal[k])
    <3>1. IsNumeral(Numeral(k)) /\ NumberOf(Numeral(k)) = k /\ Numeral(k) \in Seq(Chars)
      BY <2>4, NumberOfNumeral, NumeralProperties
    <3> QED  BY <2>4, <3>1, NonNegativeIs
  <2> QED  BY <1>1, <1>2, <2>3, <2>5
<1>3. CASE ~IsNumeral(t)
  <2>1. s \in Seq(Chars) /\ ~IsNumeral(s) /\ (SignedTwice(s) <=> SignedTwice(t))
    BY <1>3, StripOfOthers, SignsStay
  <2> HIDE DEF s
  <2>2. CASE ~StartsWithNegative(s)
    <3>1. ~IsValid(t)
      BY <1>1, <2>1, <2>2, NonNegativeIs
    <3>2. ~SignedTwice(t)
      BY <2>1, <2>2, SignedTwiceIsNoNumeral
    <3> QED  BY <1>3, <3>1, <3>2
  <2>3. CASE StartsWithNegative(s)
    <3>1. IsValid(t) <=> IsNonNegativeInt(Rest(s))
      BY <1>1, <2>3
    <3>2. IsNonNegativeInt(Rest(s)) => SignedTwice(s)
      BY <2>1, <2>3, BehindASign
    <3>3. SignedTwice(s) => IsNonNegativeInt(Rest(s))
      <4> SUFFICES ASSUME SignedTwice(s)
                   PROVE  IsNonNegativeInt(Rest(s))
        OBVIOUS
      <4>1. IsNumeral(Rest(s)) /\ NumberOf(Rest(s)) = 0 /\ Rest(s) \in Seq(Chars)
        BY <2>1, <2>3, SignedTwiceIsNoNumeral, DigitsProperties
      <4> QED  BY <4>1, NonNegativeIs
    <3> QED  BY <1>3, <2>1, <3>1, <3>2, <3>3
  <2> QED  BY <2>2, <2>3
<1> QED  BY <1>2, <1>3

(* IsNegativeInt is true of negative integers and of zeros behind two signs. *)
LEMMA NegativeIs ==
  ASSUME NEW t \in Seq(Chars)
  PROVE  IsNegativeInt(t) <=> (IsNumeral(t) /\ NumberOf(t) < 0) \/ SignedTwice(t)
<1> DEFINE s == StripLeadingZeroes(t)
<1>1. IsNegativeInt(t) <=> StartsWithNegative(s) /\ IsNonNegativeInt(Rest(s))
  BY DEF IsNegativeInt
<1>2. IsValid(t) <=> IsNonNegativeInt(IF StartsWithNegative(s) THEN Rest(s) ELSE s)
  BY DEF IsValid, WithoutSign
<1>3. IsNegativeInt(t) <=> StartsWithNegative(s) /\ IsValid(t)
  BY <1>1, <1>2
<1>4. CASE IsNumeral(t)
  <2>1. NumberOf(t) \in Int /\ s = Numeral(NumberOf(t))
    BY <1>4, StripOfNumeral
  <2>2. StartsWithNegative(s) <=> NumberOf(t) < 0
    BY <2>1, NumeralProperties
  <2> QED  BY <1>3, <1>4, <2>2, ValidIs, SignedTwiceIsNoNumeral
<1>5. CASE ~IsNumeral(t)
  <2>1. SignedTwice(t) => StartsWithNegative(s)
    BY SignedTwiceIsNoNumeral
  <2> QED  BY <1>3, <1>5, <2>1, ValidIs
<1> QED  BY <1>4, <1>5

(* How every operation reads its arguments. *)
LEMMA Reading ==
  ASSUME NEW t \in Seq(Chars), ~SignedTwice(t)
  PROVE  /\ IsValid(StripLeadingZeroes(t)) <=> IsNumeral(t)
         /\ IsValid(t) <=> IsNumeral(t)
         /\ StripLeadingZeroes(t) \in Seq(Chars)
         /\ IsNumeral(t) => NumberOf(t) \in Int /\ StripLeadingZeroes(t) = Numeral(NumberOf(t))
<1>1. IsValid(t) <=> IsNumeral(t)
  BY ValidIs
<1>2. CASE IsNumeral(t)
  <2>1. NumberOf(t) \in Int /\ StripLeadingZeroes(t) = Numeral(NumberOf(t))
    BY <1>2, StripOfNumeral
  <2>2. IsNumeral(Numeral(NumberOf(t))) /\ Numeral(NumberOf(t)) \in Seq(Chars)
    BY <2>1, NumberOfNumeral, NumeralProperties
  <2> QED  BY <1>1, <1>2, <2>1, <2>2, ValidIs
<1>3. CASE ~IsNumeral(t)
  <2>1. /\ StripLeadingZeroes(t) \in Seq(Chars) /\ ~IsNumeral(StripLeadingZeroes(t))
        /\ ~SignedTwice(StripLeadingZeroes(t))
    BY <1>3, StripOfOthers, SignsStay
  <2> QED  BY <1>1, <1>3, <2>1, ValidIs
<1> QED  BY <1>2, <1>3

(* The notation of an integer is read as an integer. *)
LEMMA NumeralReading ==
  ASSUME NEW n \in Int
  PROVE  IsValid(Numeral(n)) /\ ~SignedTwice(Numeral(n))
<1>1. Numeral(n) \in Seq(Chars) /\ IsNumeral(Numeral(n))
  BY NumeralProperties, NumberOfNumeral
<1> QED  BY <1>1, ValidIs, SignedTwiceIsNoNumeral

-----------------------------------------------------------------------------
(* Comparisons *)

(* Different integers have different notations. *)
LEMMA NumeralInjective ==
  ASSUME NEW m \in Int, NEW n \in Int
  PROVE  Numeral(m) = Numeral(n) <=> m = n
BY NumberOfNumeral

(* IntMathLessThan is the order of integers, whatever the signs. *)
LEMMA LessThanIs ==
  ASSUME NEW numOne, NEW numTwo, NEW a \in Int, NEW b \in Int,
         StripLeadingZeroes(numOne) = Numeral(a), StripLeadingZeroes(numTwo) = Numeral(b)
  PROVE  IntMathLessThan(numOne, numTwo) = Truth(a < b)
<1> DEFINE one == Numeral(a)
           two == Numeral(b)
<1>1. /\ StripLeadingZeroes(one) = one /\ StripLeadingZeroes(two) = two
      /\ StartsWithNegative(one) <=> a < 0
      /\ StartsWithNegative(two) <=> b < 0
      /\ Unsigned(one) = Decimal[Magnitude(a)] /\ Unsigned(two) = Decimal[Magnitude(b)]
      /\ ~Refused(one, two)
  BY NumeralProperties, NumeralReading DEF Refused
<1>2. ~(a < 0) => one = Decimal[a] /\ a \in Nat
  BY NumeralProperties
<1>3. ~(b < 0) => two = Decimal[b] /\ b \in Nat
  BY NumeralProperties
<1> HIDE DEF one, two
<1>4. IntMathLessThan(numOne, numTwo) =
        IF StartsWithNegative(one) # StartsWithNegative(two) THEN Truth(StartsWithNegative(one))
        ELSE IF StartsWithNegative(one) THEN Truth(UnsignedLess[<<Unsigned(two), Unsigned(one)>>])
        ELSE Truth(UnsignedLess[<<one, two>>])
  BY <1>1 DEF IntMathLessThan, one, two
<1>5. StartsWithNegative(one) = (a < 0) /\ StartsWithNegative(two) = (b < 0)
  BY <1>1 DEF StartsWithNegative
<1>6. CASE a < 0 /\ b < 0
  <2>1. Magnitude(a) = -a /\ Magnitude(b) = -b /\ -a \in Nat /\ -b \in Nat
    BY <1>6 DEF Magnitude
  <2>2. UnsignedLess[<<Unsigned(two), Unsigned(one)>>] = (-b < -a)
    BY <1>1, <2>1, UnsignedLessIsLess
  <2>3. (-b < -a) = (a < b)
    OBVIOUS
  <2> QED  BY <1>4, <1>5, <1>6, <2>2, <2>3 DEF one, two
<1>7. CASE ~(a < 0) /\ ~(b < 0)
  <2>1. UnsignedLess[<<one, two>>] = (a < b)
    BY <1>2, <1>3, <1>7, UnsignedLessIsLess
  <2>2. (a < 0) = FALSE /\ (b < 0) = FALSE
    BY <1>7
  <2>3. IntMathLessThan(numOne, numTwo) = Truth(UnsignedLess[<<one, two>>])
    BY <1>4, <1>5, <2>2
  <2> QED  BY <2>1, <2>3 DEF one, two
<1>8. CASE a < 0 /\ ~(b < 0)
  <2>1. (a < 0) = TRUE /\ (b < 0) = FALSE /\ (a < b) = TRUE
    BY <1>8
  <2>2. IntMathLessThan(numOne, numTwo) = Truth(TRUE)
    BY <1>4, <1>5, <2>1
  <2> QED  BY <2>1, <2>2 DEF one, two
<1>9. CASE ~(a < 0) /\ b < 0
  <2>1. (a < 0) = FALSE /\ (b < 0) = TRUE /\ (a < b) = FALSE
    BY <1>9
  <2>2. IntMathLessThan(numOne, numTwo) = Truth(FALSE)
    BY <1>4, <1>5, <2>1
  <2> QED  BY <2>1, <2>2 DEF one, two
<1> QED  BY <1>6, <1>7, <1>8, <1>9

(* A condition holds when it is true. *)
LEMMA HoldsIs ==
  ASSUME NEW b \in BOOLEAN
  PROVE  Holds(Truth(b)) = b
<1>1. <<Yes>> # <<No>>
  BY CharsAssumption
<1> QED  BY <1>1 DEF Holds, Truth, True

(* Of numbers that are not negative, as lengths and indices are. *)
LEMMA HoldsLess ==
  ASSUME NEW a \in Nat, NEW b \in Nat
  PROVE  Holds(IntMathLessThan(Decimal[a], Decimal[b])) <=> a < b
<1>1. Decimal[a] = Numeral(a) /\ Decimal[b] = Numeral(b) /\ a \in Int /\ b \in Int
  BY DEF Numeral
<1>4. StripLeadingZeroes(Decimal[a]) = Numeral(a) /\ StripLeadingZeroes(Decimal[b]) = Numeral(b)
  BY <1>1, NumeralProperties
<1>2. (a < b) \in BOOLEAN
  OBVIOUS
<1>3. Holds(Truth(a < b)) = (a < b)
  BY <1>2, HoldsIs
<1> QED  BY <1>1, <1>3, <1>4, LessThanIs

(* The notation of an integer without a sign. *)
LEMMA NumeralOfNat ==
  ASSUME NEW n \in Nat
  PROVE  Numeral(n) = Decimal[n] /\ n \in Int /\ Magnitude(n) = n
BY DEF Numeral, Magnitude

(* The notation of a negative integer. *)
LEMMA NegativeNumeral ==
  ASSUME NEW k \in Nat \ {0}
  PROVE  Numeral(-k) = <<Minus>> \o Decimal[k] /\ -k \in Int /\ Magnitude(-k) = k
<1>1. -k < 0 /\ -(-k) = k
  OBVIOUS
<1> DEFINE n == -k
<1>2. n < 0 /\ -n = k /\ n \in Int
  BY <1>1
<1> HIDE DEF n
<1>3. Numeral(n) = <<Minus>> \o Decimal[k] /\ Magnitude(n) = k
  BY <1>2 DEF Numeral, Magnitude
<1> QED  BY <1>2, <1>3 DEF n

(* Whether there is a sign behind which a number is zero or not. *)
LEMMA StripOfSigned ==
  ASSUME NEW k \in Nat
  PROVE  StripLeadingZeroes(<<Minus>> \o Decimal[k]) = Numeral(-k)
<1>1. Decimal[k] \in Seq(0..9) /\ Decimal[k] # <<>> /\ Value[Decimal[k]] = k
  BY DecimalDigits, ValueOfDecimal
<1>2. StripLeadingZeroes(<<Minus>> \o Decimal[k]) = IF k = 0 THEN <<0>> ELSE <<Minus>> \o Decimal[k]
  BY <1>1, StripOfNegative
<1>3. CASE k = 0
  <2> DEFINE n == -k
  <2>1. n \in Int /\ n <= 0 /\ n >= 0
    BY <1>3
  <2> HIDE DEF n
  <2>2. n = 0
    BY <2>1
  <2>3. Numeral(n) = <<0>>
    BY <2>2, OneDigit, NumeralOfNat, 0 \in 0..9, 0 \in Nat
  <2> QED  BY <1>2, <1>3, <2>3 DEF n
<1>4. CASE k # 0
  BY <1>2, <1>4, NegativeNumeral
<1> QED  BY <1>3, <1>4

(* What UnsignedDecrement gives for zero. *)
LEMMA MinusOne ==
  <<Minus, 1>> = Numeral(-1)
<1>1. Numeral(-1) = <<Minus>> \o Decimal[1] /\ Decimal[1] = <<1>>
  BY NegativeNumeral, OneDigit, 1 \in Nat \ {0}, 1 \in 0..9
<1>2. <<Minus, 1>> = Append(<<Minus>>, 1)
  BY TwoChars
<1>3. <<Minus>> \in Seq(Chars) /\ 1 \in Chars
  BY DigitsAreChars, 1 \in 0..9
<1>4. Append(<<Minus>>, 1) = <<Minus>> \o <<1>>
  BY <1>3, AppendIsConcat
<1> QED  BY <1>1, <1>2, <1>4

(* One less, whether or not a leading zero is left. *)
LEMMA OneLess ==
  ASSUME NEW n \in Nat \ {0}
  PROVE  StripLeadingZeroes(PoiCoreReverse(DecrementReversed[Backwards(n)])) = Decimal[n - 1]
<1>1. n \in Nat /\ n > 0 /\ n - 1 \in Nat
  OBVIOUS
<1> DEFINE b == Backwards(n - 1)
           d == DecrementReversed[Backwards(n)]
<1>2. d = b \/ d = b \o <<0>>
  BY <1>1, DecrementReversedIs
<1>3. b \in Seq(0..9) /\ PoiCoreReverse(b) = Decimal[n - 1]
  BY <1>1, BackwardsType
<1>4. Decimal[n - 1] \in Seq(0..9) /\ Decimal[n - 1] # <<>> /\ Value[Decimal[n - 1]] = n - 1
  BY <1>1, DecimalDigits, ValueOfDecimal
<1> HIDE DEF b, d
<1>5. CASE d = b
  <2>1. StripLeadingZeroes(Decimal[n - 1]) = Decimal[n - 1]
    BY <1>4, StripOfDigits
  <2> QED  BY <1>3, <1>5, <2>1 DEF d
<1>6. CASE d = b \o <<0>>
  <2>1. d = Append(b, 0)
    BY <1>3, <1>6, AppendIsConcat, 0 \in 0..9
  <2>2. PoiCoreReverse(d) = <<0>> \o Decimal[n - 1]
    BY <1>3, <2>1, ReverseOfAppend, 0 \in 0..9 DEF PoiCoreReverse
  <2> DEFINE z == <<0>> \o Decimal[n - 1]
  <2>3. z \in Seq(0..9) /\ z # <<>>
    BY <1>4, FirstAndRest, 0 \in 0..9
  <2>4. Value[z] = n - 1
    <3>1. <<0>> \in Seq(0..9) /\ Value[<<0>>] = 0
      <4>1. Decimal[0] = <<0>>
        BY OneDigit, 0 \in 0..9
      <4> QED  BY <4>1, DecimalDigits, ValueOfDecimal, 0 \in Nat
    <3>2. Value[z] = Value[<<0>>] * OfDigits[Len(Decimal[n - 1])] + Value[Decimal[n - 1]]
      BY <1>4, <3>1, ValueOfConcat
    <3>3. OfDigits[Len(Decimal[n - 1])] \in Nat
      BY <1>4, DigitsOfPowers
    <3> HIDE DEF z
    <3> DEFINE o == OfDigits[Len(Decimal[n - 1])]
    <3>4. Value[z] = 0 * o + (n - 1)
      BY <1>4, <3>1, <3>2
    <3> HIDE DEF o
    <3>5. 0 * o + (n - 1) = n - 1
      BY <1>1, <3>3 DEF o
    <3> QED  BY <3>4, <3>5
  <2> HIDE DEF z
  <2>5. StripLeadingZeroes(z) = Decimal[n - 1]
    BY <2>3, <2>4, StripOfDigits
  <2> QED  BY <2>2, <2>5 DEF z, d
<1> QED  BY <1>2, <1>5, <1>6

(* A step down, of a number without a sign. *)
LEMMA UnsignedDecrementIs ==
  ASSUME NEW n \in Nat
  PROVE  UnsignedDecrement(Decimal[n]) = Numeral(n - 1)
<1>1. CASE n = 0
  <2>1. Decimal[n] = <<0>>
    BY <1>1, OneDigit, 0 \in 0..9
  <2>2. n - 1 = -1
    BY <1>1
  <2> QED  BY <2>1, <2>2, MinusOne DEF UnsignedDecrement
<1>2. CASE n # 0
  <2>1. Decimal[n] # <<0>>
    <3>1. <<0>> = Decimal[0]
      BY OneDigit, 0 \in 0..9
    <3> QED  BY <1>2, <3>1, DecimalInjective, 0 \in Nat
  <2>2. StripLeadingZeroes(PoiCoreReverse(DecrementReversed[Backwards(n)])) = Decimal[n - 1]
    BY <1>2, OneLess
  <2>3. UnsignedDecrement(Decimal[n]) = Decimal[n - 1]
    BY <2>1, <2>2 DEF UnsignedDecrement, Backwards
  <2>4. n - 1 \in Nat
    BY <1>2
  <2> QED  BY <2>3, <2>4, NumeralOfNat
<1> QED  BY <1>1, <1>2

(* IntMathIncrement adds one to every integer. *)
LEMMA IncrementIs ==
  ASSUME NEW num, NEW n \in Int, StripLeadingZeroes(num) = Numeral(n)
  PROVE  IntMathIncrement(num) = Numeral(n + 1)
<1> DEFINE t == Numeral(n)
<1>1. /\ StripLeadingZeroes(t) = t /\ IsValid(t) /\ (StartsWithNegative(t) <=> n < 0)
      /\ Unsigned(t) = Decimal[Magnitude(n)]
  BY NumeralProperties, NumeralReading
<1> HIDE DEF t
<1>2. IntMathIncrement(num) = IF StartsWithNegative(t)
                              THEN StripLeadingZeroes(<<Minus>> \o UnsignedDecrement(Unsigned(t)))
                            ELSE UnsignedIncrement(t)
  BY <1>1 DEF IntMathIncrement, t
<1>3. CASE n < 0
  <2> DEFINE k == (-n) - 1
  <2>1. Magnitude(n) = -n /\ -n \in Nat /\ k \in Nat /\ -k = n + 1
    BY <1>3 DEF Magnitude
  <2>2. UnsignedDecrement(Decimal[-n]) = Decimal[k]
    BY <2>1, UnsignedDecrementIs, NumeralOfNat
  <2> HIDE DEF k
  <2>3. StripLeadingZeroes(<<Minus>> \o Decimal[k]) = Numeral(-k)
    BY <2>1, StripOfSigned
  <2> QED  BY <1>1, <1>2, <1>3, <2>1, <2>2, <2>3 DEF t
<1>4. CASE ~(n < 0)
  <2>1. n \in Nat /\ n + 1 \in Nat
    BY <1>4
  <2>2. t = Decimal[n] /\ Numeral(n + 1) = Decimal[n + 1]
    BY <2>1, NumeralOfNat DEF t
  <2> QED  BY <1>1, <1>2, <1>4, <2>1, <2>2, UnsignedIncrementIs DEF t
<1> QED  BY <1>3, <1>4

(* IntMathDecrement takes one from every integer. *)
LEMMA DecrementIs ==
  ASSUME NEW num, NEW n \in Int, StripLeadingZeroes(num) = Numeral(n)
  PROVE  IntMathDecrement(num) = Numeral(n - 1)
<1> DEFINE t == Numeral(n)
<1>1. /\ StripLeadingZeroes(t) = t /\ IsValid(t) /\ (StartsWithNegative(t) <=> n < 0)
      /\ Unsigned(t) = Decimal[Magnitude(n)]
  BY NumeralProperties, NumeralReading
<1> HIDE DEF t
<1>2. IntMathDecrement(num) = IF StartsWithNegative(t) THEN <<Minus>> \o UnsignedIncrement(Unsigned(t))
                            ELSE UnsignedDecrement(t)
  BY <1>1 DEF IntMathDecrement, t
<1>3. CASE n < 0
  <2> DEFINE k == (-n) + 1
  <2>1. Magnitude(n) = -n /\ -n \in Nat /\ k \in Nat \ {0} /\ -k = n - 1
    BY <1>3 DEF Magnitude
  <2>2. UnsignedIncrement(Decimal[-n]) = Decimal[k]
    BY <2>1, UnsignedIncrementIs
  <2> HIDE DEF k
  <2>3. Numeral(-k) = <<Minus>> \o Decimal[k]
    BY <2>1, NegativeNumeral
  <2> QED  BY <1>1, <1>2, <1>3, <2>1, <2>2, <2>3 DEF t
<1>4. CASE ~(n < 0)
  <2>1. n \in Nat
    BY <1>4
  <2>2. t = Decimal[n]
    BY <2>1, NumeralOfNat DEF t
  <2> QED  BY <1>1, <1>2, <1>4, <2>1, <2>2, UnsignedDecrementIs DEF t
<1> QED  BY <1>3, <1>4

(* IntMathAbs is the absolute value. *)
LEMMA AbsIs ==
  ASSUME NEW num, NEW n \in Int, StripLeadingZeroes(num) = Numeral(n)
  PROVE  IntMathAbs(num) = Numeral(Magnitude(n))
<1> DEFINE t == Numeral(n)
<1>1. /\ StripLeadingZeroes(t) = t /\ IsValid(t) /\ (StartsWithNegative(t) <=> n < 0)
      /\ (n < 0 => Rest(t) = Decimal[-n])
  BY NumeralProperties, NumeralReading
<1> HIDE DEF t
<1>2. IntMathAbs(num) = IF StartsWithNegative(t) THEN Rest(t) ELSE t
  BY <1>1 DEF IntMathAbs, t
<1>3. CASE n < 0
  <2>1. Magnitude(n) = -n /\ -n \in Nat
    BY <1>3 DEF Magnitude
  <2> QED  BY <1>1, <1>2, <1>3, <2>1, NumeralOfNat DEF t
<1>4. CASE ~(n < 0)
  <2>1. Magnitude(n) = n
    BY <1>4 DEF Magnitude
  <2> QED  BY <1>1, <1>2, <1>4, <2>1 DEF t
<1> QED  BY <1>3, <1>4

-----------------------------------------------------------------------------
(* Sum *)

(* Only zero is a single 0 in reverse. *)
LEMMA ZeroBackwards ==
  Backwards(0) = <<0>> /\ \A n \in Nat : Backwards(n) = <<0>> <=> n = 0
<1>1. Backwards(0) = <<0>>
  BY OneDigit, 0 \in 0..9
<1> QED  BY <1>1, BackwardsInjective, 0 \in Nat

(* What the columns of two numbers, and what is left of them, look like. *)
LEMMA AddStep ==
  ASSUME NEW q \in Nat, NEW r \in 0..9, NEW p \in Nat, NEW s \in 0..9
  PROVE  LET one == Backwards(10 * q + r)
             two == Backwards(10 * p + s)
             sum == SingleDigitAdd(First(one), First(two))
         IN  /\ NextColumn(one) = Backwards(q) /\ NextColumn(two) = Backwards(p)
             /\ IncrementReversed[NextColumn(one)] = Backwards(q + 1)
             /\ r + s < 10 => Len(sum) = 1 /\ sum = <<r + s>>
             /\ ~(r + s < 10) => Len(sum) # 1 /\ SubSeq(sum, 2, 2) = <<r + s - 10>>
             /\ NothingLeft(<<one, two>>) <=> (10 * q + r) + (10 * p + s) = 0
<1> DEFINE one == Backwards(10 * q + r)
           two == Backwards(10 * p + s)
           sum == SingleDigitAdd(First(one), First(two))
<1>1. /\ First(one) = <<r>> /\ Rest(one) = IF q = 0 THEN <<>> ELSE Backwards(q)
      /\ First(two) = <<s>> /\ Rest(two) = IF p = 0 THEN <<>> ELSE Backwards(p)
  BY BackwardsOf
<1>2. Backwards(q) # <<>> /\ Backwards(p) # <<>>
  BY BackwardsType
<1>3. one = <<0>> <=> 10 * q + r = 0
  BY ZeroBackwards, 10 * q + r \in Nat
<1>4. two = <<0>> <=> 10 * p + s = 0
  BY ZeroBackwards, 10 * p + s \in Nat
<1>5. NothingLeft(<<one, two>>) <=> one = <<0>> /\ two = <<0>>
  BY DEF NothingLeft
<1> HIDE DEF one, two
<1>6. NextColumn(one) = Backwards(q)
  BY <1>1, <1>2, ZeroBackwards DEF NextColumn
<1>7. NextColumn(two) = Backwards(p)
  BY <1>1, <1>2, ZeroBackwards DEF NextColumn
<1>8. IncrementReversed[NextColumn(one)] = Backwards(q + 1)
  BY <1>6, IncrementReversedIs
<1>9. sum = Decimal[r + s]
  BY <1>1 DEF SingleDigitAdd
<1> HIDE DEF sum
<1>10. r + s \in 0..19
  OBVIOUS
<1>11. r + s < 10 => Len(sum) = 1 /\ sum = <<r + s>>
  BY <1>9, <1>10, SumOfDigits
<1>12. ~(r + s < 10) => Len(sum) # 1 /\ SubSeq(sum, 2, 2) = <<r + s - 10>>
  BY <1>9, <1>10, SumOfDigits
<1>13. NothingLeft(<<one, two>>) <=> (10 * q + r) + (10 * p + s) = 0
  BY <1>3, <1>4, <1>5
<1> QED  BY <1>6, <1>7, <1>8, <1>11, <1>12, <1>13 DEF one, two, sum

(* The number that columns are the digits of. *)
LEMMA NumberOfColumn ==
  \A n \in Nat : Value[PoiCoreReverse(Backwards(n))] = n
BY BackwardsType, ValueOfDecimal

(* Every call of AddColumns is for a smaller sum, so that it ends. *)
LEMMA AddColumnsEquation ==
  \A columns \in Columns \X Columns :
    LET one == columns[1]
        two == columns[2]
        sum == SingleDigitAdd(First(one), First(two))
    IN  AddColumns[columns] =
          IF NothingLeft(columns) THEN <<>>
          ELSE IF Len(sum) = 1 THEN AddColumns[<<NextColumn(one), NextColumn(two)>>] \o sum
          ELSE AddColumns[<<IncrementReversed[NextColumn(one)], NextColumn(two)>>] \o SubSeq(sum, 2, 2)
<1> DEFINE D == Columns \X Columns
           V == Seq(0..9)
           Sum(x) == SingleDigitAdd(First(x[1]), First(x[2]))
           Straight(x) == <<NextColumn(x[1]), NextColumn(x[2])>>
           Carried(x) == <<IncrementReversed[NextColumn(x[1])], NextColumn(x[2])>>
           Body(x, f) == IF NothingLeft(x) THEN <<>>
                         ELSE IF Len(Sum(x)) = 1 THEN f[Straight(x)] \o Sum(x)
                         ELSE f[Carried(x)] \o SubSeq(Sum(x), 2, 2)
           step == [p \in D \X [D -> V] |-> Body(p[1], p[2])]
           Total(x) == Value[PoiCoreReverse(x[1])] + Value[PoiCoreReverse(x[2])]
           m == [x \in D |-> Total(x)]
<1>1. ASSUME NEW a \in Nat, NEW b \in Nat
      PROVE  <<Backwards(a), Backwards(b)>> \in D /\ Total(<<Backwards(a), Backwards(b)>>) = a + b
  BY ColumnsAre, NumberOfColumn
<1>2. ASSUME NEW x \in D
      PROVE  \E a, b \in Nat : x = <<Backwards(a), Backwards(b)>>
  BY ColumnsAre
<1>3. ASSUME NEW x \in D
      PROVE  Total(x) \in Nat
  BY <1>1, <1>2
<1>4. ASSUME NEW x \in D, ~NothingLeft(x)
      PROVE  /\ Len(Sum(x)) = 1 => Straight(x) \in D /\ Total(Straight(x)) < Total(x) /\ Sum(x) \in V
             /\ Len(Sum(x)) # 1 => Carried(x) \in D /\ Total(Carried(x)) < Total(x)
                                   /\ SubSeq(Sum(x), 2, 2) \in V
  <2>1. PICK a \in Nat, b \in Nat : x = <<Backwards(a), Backwards(b)>>
    BY <1>2
  <2>2. PICK q \in Nat, r \in 0..9 : a = 10 * q + r /\ (a > 0 => q < a)
    BY LastDigitOf
  <2>3. PICK p \in Nat, s \in 0..9 : b = 10 * p + s /\ (b > 0 => p < b)
    BY LastDigitOf
  <2>4. /\ NextColumn(x[1]) = Backwards(q) /\ NextColumn(x[2]) = Backwards(p)
        /\ IncrementReversed[NextColumn(x[1])] = Backwards(q + 1)
        /\ r + s < 10 => Len(Sum(x)) = 1 /\ Sum(x) = <<r + s>>
        /\ ~(r + s < 10) => Len(Sum(x)) # 1 /\ SubSeq(Sum(x), 2, 2) = <<r + s - 10>>
        /\ NothingLeft(x) <=> a + b = 0
    <3> DEFINE one == Backwards(10 * q + r)
               two == Backwards(10 * p + s)
               sum == SingleDigitAdd(First(one), First(two))
    <3>1. /\ NextColumn(one) = Backwards(q) /\ NextColumn(two) = Backwards(p)
          /\ IncrementReversed[NextColumn(one)] = Backwards(q + 1)
          /\ r + s < 10 => Len(sum) = 1 /\ sum = <<r + s>>
          /\ ~(r + s < 10) => Len(sum) # 1 /\ SubSeq(sum, 2, 2) = <<r + s - 10>>
          /\ NothingLeft(<<one, two>>) <=> (10 * q + r) + (10 * p + s) = 0
      BY AddStep
    <3>2. x = <<one, two>> /\ x[1] = one /\ x[2] = two
      BY <2>1, <2>2, <2>3
    <3>3. Sum(x) = sum
      BY <3>2
    <3> HIDE DEF one, two, sum, Sum
    <3> QED  BY <2>2, <2>3, <3>1, <3>2, <3>3
  <2>5. Total(x) = a + b
    BY <1>1, <2>1
  <2> HIDE DEF D, Total, Sum
  <2>6. CASE r + s < 10
    <3>1. Straight(x) = <<Backwards(q), Backwards(p)>>
      BY <2>4
    <3>2. Straight(x) \in D /\ Total(Straight(x)) = q + p
      BY <1>1, <3>1
    <3>3. q + p < a + b
      BY <1>4, <2>2, <2>3, <2>4
    <3>4. <<r + s>> \in V
      BY <2>6
    <3> QED  BY <2>4, <2>5, <2>6, <3>2, <3>3, <3>4
  <2>7. CASE ~(r + s < 10)
    <3>1. Carried(x) = <<Backwards(q + 1), Backwards(p)>>
      BY <2>4
    <3>2. Carried(x) \in D /\ Total(Carried(x)) = q + 1 + p
      BY <1>1, <3>1, q + 1 \in Nat
    <3>3. q + 1 + p < a + b
      BY <2>2, <2>3, <2>7
    <3>4. <<r + s - 10>> \in V
      <4>1. r + s - 10 \in 0..9
        BY <2>7
      <4> QED  BY <4>1
    <3> QED  BY <2>4, <2>5, <2>7, <3>2, <3>3, <3>4
  <2> QED  BY <2>6, <2>7
<1> HIDE DEF D, Total, Sum, Straight, Carried
<1>5. ASSUME NEW x \in D, NEW f \in [D -> V]
      PROVE  Body(x, f) \in V
  <2>1. CASE NothingLeft(x)
    BY <2>1
  <2>2. CASE ~NothingLeft(x) /\ Len(Sum(x)) = 1
    <3>1. Straight(x) \in D /\ Sum(x) \in V
      BY <1>4, <2>2
    <3>2. f[Straight(x)] \in V
      BY <3>1
    <3> QED  BY <2>2, <3>1, <3>2, ConcatProperties
  <2>3. CASE ~NothingLeft(x) /\ Len(Sum(x)) # 1
    <3>1. Carried(x) \in D /\ SubSeq(Sum(x), 2, 2) \in V
      BY <1>4, <2>3
    <3>2. f[Carried(x)] \in V
      BY <3>1
    <3> QED  BY <2>3, <3>1, <3>2, ConcatProperties
  <2> QED  BY <2>1, <2>2, <2>3
<1>6. step \in [D \X [D -> V] -> V]
  <2> HIDE DEF V, Body
  <2> QED  BY <1>5
<1>7. ASSUME NEW x \in D, NEW f \in [D -> V], NEW g \in [D -> V],
             \A y \in D : m[y] < m[x] => f[y] = g[y]
      PROVE  step[<<x, f>>] = step[<<x, g>>]
  <2>1. ~NothingLeft(x) /\ Len(Sum(x)) = 1 => f[Straight(x)] = g[Straight(x)]
    BY <1>4, <1>7
  <2>2. ~NothingLeft(x) /\ Len(Sum(x)) # 1 => f[Carried(x)] = g[Carried(x)]
    BY <1>4, <1>7
  <2>3. Body(x, f) = Body(x, g)
    BY <2>1, <2>2
  <2> HIDE DEF Body, V
  <2> QED  BY <2>3
<1>8. <<>> \in V /\ m \in [D -> Nat]
  BY <1>3
<1>9. PICK F : Solution(F, D, V, step)
  <2> HIDE DEF V, step, m
  <2>1. Measured(D, V, m, step)
    BY <1>7 DEF Measured
  <2> QED  BY <1>6, <1>8, <2>1, MeasuredRecursion
<1>10. F \in [D -> V] /\ \A x \in D : F[x] = Body(x, F)
  <2> HIDE DEF V, Body
  <2> QED  BY <1>9 DEF Solution
<1>11. F = [x \in D |-> Body(x, F)]
  <2> HIDE DEF V, Body
  <2> QED  BY <1>10
<1>12. AddColumns = [x \in D |-> Body(x, AddColumns)]
  BY <1>11 DEF AddColumns, D, Sum, Straight, Carried
<1>13. \A x \in D : AddColumns[x] = Body(x, AddColumns)
  <2> HIDE DEF Body
  <2> QED  BY <1>12
<1> QED  BY <1>13 DEF D, Sum, Straight, Carried

(* Columns give the digits of the sum, of zeros none. *)
LEMMA AddColumnsIs ==
  \A a, b \in Nat : AddColumns[<<Backwards(a), Backwards(b)>>] = IF a + b = 0 THEN <<>> ELSE Decimal[a + b]
<1> DEFINE Right(a, b) == AddColumns[<<Backwards(a), Backwards(b)>>] = IF a + b = 0 THEN <<>> ELSE Decimal[a + b]
           S == {k \in Nat : \A a, b \in Nat : a + b = k => Right(a, b)}
<1>1. ASSUME NEW k \in Nat, \A j \in Nat : j < k => j \in S
      PROVE  k \in S
  <2> SUFFICES ASSUME NEW a \in Nat, NEW b \in Nat, a + b = k
               PROVE  Right(a, b)
    OBVIOUS
  <2>1. PICK q \in Nat, r \in 0..9 : a = 10 * q + r /\ (a > 0 => q < a)
    BY LastDigitOf
  <2>2. PICK p \in Nat, s \in 0..9 : b = 10 * p + s /\ (b > 0 => p < b)
    BY LastDigitOf
  <2> DEFINE one == Backwards(a)
             two == Backwards(b)
             sum == SingleDigitAdd(First(one), First(two))
  <2>3. /\ NextColumn(one) = Backwards(q) /\ NextColumn(two) = Backwards(p)
        /\ IncrementReversed[NextColumn(one)] = Backwards(q + 1)
        /\ r + s < 10 => Len(sum) = 1 /\ sum = <<r + s>>
        /\ ~(r + s < 10) => Len(sum) # 1 /\ SubSeq(sum, 2, 2) = <<r + s - 10>>
        /\ NothingLeft(<<one, two>>) <=> a + b = 0
    <3> DEFINE x == Backwards(10 * q + r)
               y == Backwards(10 * p + s)
               z == SingleDigitAdd(First(x), First(y))
    <3>1. /\ NextColumn(x) = Backwards(q) /\ NextColumn(y) = Backwards(p)
          /\ IncrementReversed[NextColumn(x)] = Backwards(q + 1)
          /\ r + s < 10 => Len(z) = 1 /\ z = <<r + s>>
          /\ ~(r + s < 10) => Len(z) # 1 /\ SubSeq(z, 2, 2) = <<r + s - 10>>
          /\ NothingLeft(<<x, y>>) <=> (10 * q + r) + (10 * p + s) = 0
      BY AddStep
    <3>2. one = x /\ two = y
      BY <2>1, <2>2
    <3>3. sum = z
      BY <3>2
    <3> HIDE DEF x, y, z, one, two, sum
    <3> QED  BY <2>1, <2>2, <3>1, <3>2, <3>3
  <2>4. AddColumns[<<one, two>>] =
          IF NothingLeft(<<one, two>>) THEN <<>>
          ELSE IF Len(sum) = 1 THEN AddColumns[<<NextColumn(one), NextColumn(two)>>] \o sum
          ELSE AddColumns[<<IncrementReversed[NextColumn(one)], NextColumn(two)>>] \o SubSeq(sum, 2, 2)
    <3>1. one \in Columns /\ two \in Columns
      BY ColumnsAre
    <3> DEFINE c == <<one, two>>
    <3>2. c \in Columns \X Columns /\ c[1] = one /\ c[2] = two
      BY <3>1
    <3> HIDE DEF c, one, two
    <3> QED  BY <3>2, AddColumnsEquation DEF c
  <2> HIDE DEF one, two, sum
  <2>5. CASE a + b = 0
    BY <2>3, <2>4, <2>5 DEF one, two
  <2>6. CASE a + b # 0 /\ r + s < 10
    <3>1. AddColumns[<<one, two>>] = AddColumns[<<Backwards(q), Backwards(p)>>] \o <<r + s>>
      BY <2>3, <2>4, <2>6
    <3>2. q + p < k /\ q + p \in Nat
      BY <2>1, <2>2, <2>6
    <3>3. Right(q, p)
      <4> HIDE DEF Right
      <4> QED  BY <1>1, <3>2
    <3> DEFINE z == q + p
    <3>4. a + b = 10 * z + (r + s) /\ r + s \in 0..9 /\ z \in Nat
      BY <2>1, <2>2, <2>6
    <3>5. AddColumns[<<Backwards(q), Backwards(p)>>] = IF z = 0 THEN <<>> ELSE Decimal[z]
      BY <3>3
    <3> HIDE DEF z, Right
    <3>6. Decimal[a + b] = IF z = 0 THEN <<r + s>> ELSE Append(Decimal[z], r + s)
      BY <3>4, DecimalOf
    <3>7. Append(Decimal[z], r + s) = Decimal[z] \o <<r + s>> /\ <<>> \o <<r + s>> = <<r + s>>
      BY <3>4, DecimalDigits, AppendIsConcat, ConcatEmptySeq, <<r + s>> \in Seq(0..9)
    <3>8. AddColumns[<<one, two>>] = Decimal[a + b]
      BY <3>1, <3>5, <3>6, <3>7
    <3> QED  BY <2>6, <3>8 DEF Right, one, two
  <2>7. CASE a + b # 0 /\ ~(r + s < 10)
    <3>1. AddColumns[<<one, two>>] = AddColumns[<<Backwards(q + 1), Backwards(p)>>] \o <<r + s - 10>>
      BY <2>3, <2>4, <2>7
    <3>2. q + 1 + p < k /\ q + 1 + p \in Nat /\ q + 1 \in Nat
      BY <2>1, <2>2, <2>7
    <3>3. Right(q + 1, p)
      <4> HIDE DEF Right
      <4> QED  BY <1>1, <3>2
    <3> DEFINE z == q + 1 + p
               d == r + s - 10
    <3>4. a + b = 10 * z + d /\ d \in 0..9 /\ z \in Nat /\ z # 0
      BY <2>1, <2>2, <2>7
    <3>5. AddColumns[<<Backwards(q + 1), Backwards(p)>>] = IF z = 0 THEN <<>> ELSE Decimal[z]
      BY <3>3
    <3> HIDE DEF z, d, Right
    <3>6. Decimal[a + b] = Append(Decimal[z], d)
      BY <3>4, DecimalOf
    <3>7. Append(Decimal[z], d) = Decimal[z] \o <<d>>
      BY <3>4, DecimalDigits, AppendIsConcat
    <3>8. AddColumns[<<one, two>>] = Decimal[a + b]
      BY <3>1, <3>4, <3>5, <3>6, <3>7 DEF d
    <3> QED  BY <2>7, <3>8 DEF Right, one, two
  <2> QED  BY <2>5, <2>6, <2>7
<1>2. Nat \subseteq S
  <2> HIDE DEF S
  <2> QED  BY <1>1, StrongInduction
<1> SUFFICES ASSUME NEW a \in Nat, NEW b \in Nat
             PROVE  Right(a, b)
  OBVIOUS
<1>3. a + b \in S
  BY <1>2
<1> HIDE DEF Right
<1> QED  BY <1>3

(* The sum of numbers without a sign. *)
LEMMA UnsignedAddIs ==
  ASSUME NEW a \in Nat, NEW b \in Nat
  PROVE  UnsignedAdd(Decimal[a], Decimal[b]) = Decimal[a + b]
<1>1. \A n \in Nat : Decimal[n] = <<0>> <=> n = 0
  BY OneDigit, DecimalInjective, 0 \in 0..9, 0 \in Nat
<1>2. CASE a = 0
  <2>1. Decimal[a] = <<0>> /\ a + b = b
    BY <1>1, <1>2
  <2> QED  BY <2>1 DEF UnsignedAdd
<1>3. CASE b = 0
  <2>1. Decimal[b] = <<0>> /\ a + b = a
    BY <1>1, <1>3
  <2> QED  BY <2>1 DEF UnsignedAdd
<1>4. CASE a # 0 /\ b # 0
  <2>1. Decimal[a] # <<0>> /\ Decimal[b] # <<0>> /\ a + b # 0
    BY <1>1, <1>4
  <2> QED  BY <2>1, AddColumnsIs DEF UnsignedAdd, Backwards
<1> QED  BY <1>2, <1>3, <1>4

-----------------------------------------------------------------------------
(* Difference *)

(* The digit of a column of the difference. *)
Column(r, s) == (r - s) % 10

(* What a borrow leaves of the columns further left. *)
Borrowed(q, r, s) == IF r < s /\ q > 0 THEN q - 1 ELSE q

(* What is left of the columns of the first number, a borrow taken. *)
Taken(one, two) ==
  IF SingleDigitLessThan(First(one), First(two))
    THEN DecrementReversedPositive(Rest(one)) ELSE Rest(one)

LeftOf(one, two) == IF Taken(one, two) = <<>> THEN <<0>> ELSE Taken(one, two)

(* A number, what is left of it without its last digit, and that digit. *)
Splits(a, q, r) == q \in Nat /\ r \in 0..9 /\ a = 10 * q + r

(* A step of the subtraction: the column, and what is left of the larger number. *)
LEMMA SubtractStep ==
  ASSUME NEW a, NEW q, NEW r, Splits(a, q, r), NEW b, NEW p, NEW s, Splits(b, p, s)
  PROVE  LET one == Backwards(a)
             two == Backwards(b)
         IN  /\ LeftOf(one, two) = Backwards(Borrowed(q, r, s)) /\ NextColumn(two) = Backwards(p)
             /\ SingleDigitSub(First(one), First(two)) = <<Column(r, s)>>
             /\ Column(r, s) \in 0..9
             /\ NothingLeft(<<one, two>>) <=> a = 0 /\ b = 0
<1> DEFINE one == Backwards(a)
           two == Backwards(b)
           borrowed == IF SingleDigitLessThan(First(one), First(two))
                         THEN DecrementReversedPositive(Rest(one)) ELSE Rest(one)
           left == LeftOf(one, two)
<1>0. left = IF borrowed = <<>> THEN <<0>> ELSE borrowed
  BY DEF LeftOf, Taken
<1> /\ q \in Nat /\ r \in 0..9 /\ a \in Nat /\ a = 10 * q + r
    /\ p \in Nat /\ s \in 0..9 /\ b \in Nat /\ b = 10 * p + s
  BY DEF Splits
<1>1. /\ First(one) = <<r>> /\ Rest(one) = IF q = 0 THEN <<>> ELSE Backwards(q)
      /\ First(two) = <<s>> /\ Rest(two) = IF p = 0 THEN <<>> ELSE Backwards(p)
  BY BackwardsOf
<1>2. \A n \in Nat : Backwards(n) # <<>>
  BY BackwardsType
<1>3. one = <<0>> <=> a = 0
  BY ZeroBackwards
<1>4. two = <<0>> <=> b = 0
  BY ZeroBackwards
<1>5. NothingLeft(<<one, two>>) <=> one = <<0>> /\ two = <<0>>
  BY DEF NothingLeft
<1> HIDE DEF one, two, left
<1>6. NextColumn(two) = Backwards(p)
  BY <1>1, <1>2, ZeroBackwards DEF NextColumn
<1>7. SingleDigitSub(First(one), First(two)) = <<Column(r, s)>> /\ (SingleDigitLessThan(First(one), First(two)) <=> r < s)
  BY <1>1 DEF SingleDigitSub, SingleDigitLessThan, Column
<1>8. Column(r, s) \in 0..9
  <2>1. Column(r, s) = IF r < s THEN r - s + 10 ELSE r - s
    BY DigitDifference DEF Column
  <2> QED  BY <2>1
<1>9. left = Backwards(Borrowed(q, r, s))
  <2>1. CASE q = 0
    <3>1. DecrementReversedPositive(<<>>) = <<>>
      <4>1. PoiCoreReverse(<<>>) = <<>>
        <5> DEFINE u == Reverse(<<>>)
        <5>1. u \in Seq(0..9) /\ Len(u) = 0
          BY ReverseProperties, EmptySeq, <<>> \in Seq(0..9)
        <5> HIDE DEF u
        <5>2. u = <<>>
          BY <5>1, EmptySeq
        <5> QED  BY <5>2 DEF u, PoiCoreReverse
      <4>2. DecrementReversed[<<>>] = <<>>
        BY DecrementReversedEquation, <<>> \in Seq(0..9)
      <4>3. StripLeadingZeroes(<<>>) = <<>>
        BY DEF StripLeadingZeroes, StartsWithNegative, First, WithoutSign, WithoutZeroes
      <4> QED  BY <4>1, <4>2, <4>3 DEF DecrementReversedPositive
    <3>2. borrowed = <<>>
      BY <1>1, <2>1, <3>1
    <3>3. Borrowed(q, r, s) = 0
      BY <2>1 DEF Borrowed
    <3> QED  BY <1>0, <3>2, <3>3, ZeroBackwards
  <2>2. CASE q # 0 /\ r < s
    <3>1. q \in Nat \ {0} /\ q - 1 \in Nat /\ Borrowed(q, r, s) = q - 1
      BY <2>2 DEF Borrowed
    <3>2. DecrementReversedPositive(Backwards(q)) = Backwards(q - 1)
      BY <3>1, OneLess DEF DecrementReversedPositive, Backwards
    <3>3. borrowed = Backwards(q - 1)
      BY <1>1, <1>7, <2>2, <3>2
    <3> HIDE DEF borrowed
    <3> QED  BY <1>0, <1>2, <3>1, <3>3
  <2>3. CASE q # 0 /\ ~(r < s)
    <3>1. Borrowed(q, r, s) = q
      BY <2>3 DEF Borrowed
    <3>2. borrowed = Backwards(q)
      BY <1>1, <1>7, <2>3
    <3> HIDE DEF borrowed
    <3> QED  BY <1>0, <1>2, <3>1, <3>2
  <2> QED  BY <2>1, <2>2, <2>3
<1> QED  BY <1>3, <1>4, <1>5, <1>6, <1>7, <1>8, <1>9 DEF one, two, left

(* Every call of SubtractColumns is for fewer or smaller columns, so that it ends. *)
LEMMA SubtractColumnsEquation ==
  \A columns \in Columns \X Columns :
    LET one == columns[1]
        two == columns[2]
    IN  SubtractColumns[columns] =
          IF NothingLeft(columns) THEN <<>>
          ELSE SubtractColumns[<<LeftOf(one, two), NextColumn(two)>>] \o SingleDigitSub(First(one), First(two))
<1> DEFINE D == Columns \X Columns
           V == Seq(0..9)
           Digit(x) == SingleDigitSub(First(x[1]), First(x[2]))
           Left(x) == LeftOf(x[1], x[2])
           Further(x) == <<Left(x), NextColumn(x[2])>>
           Body(x, f) == IF NothingLeft(x) THEN <<>> ELSE f[Further(x)] \o Digit(x)
           step == [p \in D \X [D -> V] |-> Body(p[1], p[2])]
           Total(x) == Value[PoiCoreReverse(x[1])] + Value[PoiCoreReverse(x[2])]
           m == [x \in D |-> Total(x)]
<1>1. ASSUME NEW a \in Nat, NEW b \in Nat
      PROVE  <<Backwards(a), Backwards(b)>> \in D /\ Total(<<Backwards(a), Backwards(b)>>) = a + b
  BY ColumnsAre, NumberOfColumn
<1>2. ASSUME NEW x \in D
      PROVE  \E a, b \in Nat : x = <<Backwards(a), Backwards(b)>>
  BY ColumnsAre
<1>3. ASSUME NEW x \in D
      PROVE  Total(x) \in Nat
  BY <1>1, <1>2
<1>4. ASSUME NEW x \in D, ~NothingLeft(x)
      PROVE  Further(x) \in D /\ Total(Further(x)) < Total(x) /\ Digit(x) \in V
  <2>1. PICK a \in Nat, b \in Nat : x = <<Backwards(a), Backwards(b)>>
    BY <1>2
  <2>2. PICK q \in Nat, r \in 0..9 : a = 10 * q + r /\ (a > 0 => q < a)
    BY LastDigitOf
  <2>3. PICK p \in Nat, s \in 0..9 : b = 10 * p + s /\ (b > 0 => p < b)
    BY LastDigitOf
  <2>4. /\ Left(x) = Backwards(Borrowed(q, r, s)) /\ NextColumn(x[2]) = Backwards(p)
        /\ Digit(x) = <<Column(r, s)>> /\ Column(r, s) \in 0..9
        /\ NothingLeft(x) <=> a = 0 /\ b = 0
    <3>1. Splits(a, q, r) /\ Splits(b, p, s)
      BY <2>2, <2>3 DEF Splits
    <3> QED  BY <2>1, <3>1, SubtractStep
  <2>5. Total(x) = a + b
    BY <1>1, <2>1
  <2> HIDE DEF D, Total, Left, Digit
  <2>6. Borrowed(q, r, s) \in Nat /\ Borrowed(q, r, s) <= q
    BY DEF Borrowed
  <2>7. Further(x) = <<Backwards(Borrowed(q, r, s)), Backwards(p)>>
    BY <2>4
  <2>8. Further(x) \in D /\ Total(Further(x)) = Borrowed(q, r, s) + p
    BY <1>1, <2>6, <2>7
  <2>9. q + p < a + b
    BY <1>4, <2>2, <2>3, <2>4
  <2>10. <<Column(r, s)>> \in V
    BY <2>4
  <2> QED  BY <2>4, <2>5, <2>6, <2>8, <2>9, <2>10
<1> HIDE DEF D, Total, Digit, Further, Left
<1>5. ASSUME NEW x \in D, NEW f \in [D -> V]
      PROVE  Body(x, f) \in V
  <2>1. CASE NothingLeft(x)
    BY <2>1
  <2>2. CASE ~NothingLeft(x)
    <3>1. Further(x) \in D /\ Digit(x) \in V
      BY <1>4, <2>2
    <3>2. f[Further(x)] \in V
      BY <3>1
    <3> QED  BY <2>2, <3>1, <3>2, ConcatProperties
  <2> QED  BY <2>1, <2>2
<1>6. step \in [D \X [D -> V] -> V]
  <2> HIDE DEF V, Body
  <2> QED  BY <1>5
<1>7. ASSUME NEW x \in D, NEW f \in [D -> V], NEW g \in [D -> V],
             \A y \in D : m[y] < m[x] => f[y] = g[y]
      PROVE  step[<<x, f>>] = step[<<x, g>>]
  <2>1. ~NothingLeft(x) => f[Further(x)] = g[Further(x)]
    BY <1>4, <1>7
  <2>2. Body(x, f) = Body(x, g)
    BY <2>1
  <2> HIDE DEF Body, V
  <2> QED  BY <2>2
<1>8. <<>> \in V /\ m \in [D -> Nat]
  BY <1>3
<1>9. PICK F : Solution(F, D, V, step)
  <2> HIDE DEF V, step, m
  <2>1. Measured(D, V, m, step)
    BY <1>7 DEF Measured
  <2> QED  BY <1>6, <1>8, <2>1, MeasuredRecursion
<1>10. F \in [D -> V] /\ \A x \in D : F[x] = Body(x, F)
  <2> HIDE DEF V, Body
  <2> QED  BY <1>9 DEF Solution
<1>11. F = [x \in D |-> Body(x, F)]
  <2> HIDE DEF V, Body
  <2> QED  BY <1>10
<1>12. SubtractColumns = [x \in D |-> Body(x, SubtractColumns)]
  BY <1>11 DEF SubtractColumns, D, Digit, Further, Left, LeftOf, Taken
<1>13. \A x \in D : SubtractColumns[x] = Body(x, SubtractColumns)
  <2> HIDE DEF Body
  <2> QED  BY <1>12
<1> QED  BY <1>13 DEF D, Digit, Further, Left, Taken

(* Columns give digits of the difference, and leading zeros. *)
LEMMA SubtractColumnsIs ==
  \A a, b \in Nat : b <= a =>
    LET t == SubtractColumns[<<Backwards(a), Backwards(b)>>]
    IN  t \in Seq(0..9) /\ Value[t] = a - b /\ (t = <<>> <=> a = 0)
<1> DEFINE T(a, b) == SubtractColumns[<<Backwards(a), Backwards(b)>>]
           Right(a, b) == T(a, b) \in Seq(0..9) /\ Value[T(a, b)] = a - b /\ (T(a, b) = <<>> <=> a = 0)
           S == {a \in Nat : \A b \in Nat : b <= a => Right(a, b)}
<1>1. ASSUME NEW a \in Nat, \A j \in Nat : j < a => j \in S
      PROVE  a \in S
  <2> SUFFICES ASSUME NEW b \in Nat, b <= a
               PROVE  Right(a, b)
    OBVIOUS
  <2>1. PICK q \in Nat, r \in 0..9 : a = 10 * q + r /\ (a > 0 => q < a)
    BY LastDigitOf
  <2>2. PICK p \in Nat, s \in 0..9 : b = 10 * p + s /\ (b > 0 => p < b)
    BY LastDigitOf
  <2> DEFINE one == Backwards(a)
             two == Backwards(b)
             left == LeftOf(one, two)
             digit == SingleDigitSub(First(one), First(two))
             n == Borrowed(q, r, s)
             d == Column(r, s)
  <2>3. /\ left = Backwards(n) /\ NextColumn(two) = Backwards(p)
        /\ digit = <<d>> /\ d \in 0..9
        /\ NothingLeft(<<one, two>>) <=> a = 0 /\ b = 0
    <3>1. Splits(a, q, r) /\ Splits(b, p, s)
      BY <2>1, <2>2 DEF Splits
    <3> QED  BY <3>1, SubtractStep
  <2>4. T(a, b) = IF NothingLeft(<<one, two>>) THEN <<>>
                  ELSE SubtractColumns[<<left, NextColumn(two)>>] \o digit
    <3>1. one \in Columns /\ two \in Columns
      BY ColumnsAre
    <3> DEFINE c == <<one, two>>
    <3>2. c \in Columns \X Columns /\ c[1] = one /\ c[2] = two
      BY <3>1
    <3> HIDE DEF c, one, two
    <3> QED  BY <3>2, SubtractColumnsEquation DEF c, one, two
  <2>5. d = IF r < s THEN r - s + 10 ELSE r - s
    BY DigitDifference DEF Column
  <2> HIDE DEF one, two, left, digit, d
  <2>6. CASE a = 0
    <3>1. b = 0
      BY <2>6
    <3>2. T(a, b) = <<>>
      BY <2>3, <2>4, <2>6, <3>1
    <3>3. Value[<<>>] = 0 /\ <<>> \in Seq(0..9)
      BY ValueEquation, <<>> \in Seq(0..9)
    <3>4. a - b = 0
      BY <2>6, <3>1
    <3> HIDE DEF T
    <3> QED  BY <2>6, <3>2, <3>3, <3>4
  <2>7. CASE a # 0
    <3>1. T(a, b) = T(n, p) \o <<d>>
      BY <2>3, <2>4, <2>7
    <3>2. n \in Nat /\ n < a /\ p <= n
      BY <2>1, <2>2, <2>7 DEF Borrowed
    <3> HIDE DEF n
    <3>3. Right(n, p)
      <4> HIDE DEF Right
      <4> QED  BY <1>1, <3>2
    <3> HIDE DEF T
    <3>4. T(n, p) \in Seq(0..9) /\ Value[T(n, p)] = n - p
      BY <3>3
    <3>5. T(n, p) \o <<d>> = Append(T(n, p), d)
      BY <2>3, <3>4, AppendIsConcat
    <3>6. T(a, b) \in Seq(0..9) /\ Value[T(a, b)] = (n - p) * 10 + d
      BY <2>3, <3>1, <3>4, <3>5, ValueOfAppend
    <3>7. T(a, b) # <<>>
      BY <2>3, <3>1, <3>4, <3>5, AppendProperties
    <3>8. (n - p) * 10 + d = a - b
      BY <2>1, <2>2, <2>5 DEF n, Borrowed
    <3> QED  BY <2>7, <3>6, <3>7, <3>8
  <2> QED  BY <2>6, <2>7
<1>2. Nat \subseteq S
  <2> HIDE DEF S
  <2> QED  BY <1>1, StrongInduction
<1> QED  BY <1>2

(* The difference of numbers without a sign; zero minus zero has no digit. *)
LEMMA UnsignedSubtractIs ==
  ASSUME NEW a \in Nat, NEW b \in Nat
  PROVE  UnsignedSubtract(Decimal[a], Decimal[b]) = IF a = 0 /\ b = 0 THEN <<>> ELSE Numeral(a - b)
<1> DEFINE Difference(more, less) ==
             StripLeadingZeroes(SubtractColumns[<<PoiCoreReverse(more), PoiCoreReverse(less)>>])
<1>1. ASSUME NEW m \in Nat, NEW n \in Nat, n <= m
      PROVE  Difference(Decimal[m], Decimal[n]) = IF m = 0 THEN <<>> ELSE Decimal[m - n]
  <2> DEFINE t == SubtractColumns[<<Backwards(m), Backwards(n)>>]
  <2>1. t \in Seq(0..9) /\ Value[t] = m - n /\ (t = <<>> <=> m = 0)
    BY <1>1, SubtractColumnsIs
  <2>2. Difference(Decimal[m], Decimal[n]) = StripLeadingZeroes(t)
    BY DEF Backwards
  <2> HIDE DEF t, Difference
  <2>3. CASE m = 0
    <3>1. StripLeadingZeroes(<<>>) = <<>>
      BY DEF StripLeadingZeroes, StartsWithNegative, First, WithoutSign, WithoutZeroes
    <3> QED  BY <2>1, <2>2, <2>3, <3>1
  <2>4. CASE m # 0
    BY <2>1, <2>2, <2>4, StripOfDigits
  <2> QED  BY <2>3, <2>4
<1>2. UnsignedSubtract(Decimal[a], Decimal[b]) =
        IF Holds(IntMathLessThan(Decimal[a], Decimal[b])) THEN <<Minus>> \o Difference(Decimal[b], Decimal[a])
        ELSE Difference(Decimal[a], Decimal[b])
  BY DEF UnsignedSubtract
<1> HIDE DEF Difference
<1>3. CASE a < b
  <2> DEFINE k == b - a
  <2>1. k \in Nat \ {0} /\ a - b = -k /\ b # 0 /\ a <= b
    BY <1>3
  <2>2. UnsignedSubtract(Decimal[a], Decimal[b]) = <<Minus>> \o Decimal[k]
    BY <1>1, <1>2, <1>3, <2>1, HoldsLess
  <2> HIDE DEF k
  <2> QED  BY <2>1, <2>2, NegativeNumeral
<1>4. CASE ~(a < b)
  <2>1. b <= a /\ a - b \in Nat /\ (a = 0 => b = 0)
    BY <1>4
  <2>2. UnsignedSubtract(Decimal[a], Decimal[b]) = IF a = 0 THEN <<>> ELSE Decimal[a - b]
    BY <1>1, <1>2, <1>4, <2>1, HoldsLess
  <2> QED  BY <2>1, <2>2, NumeralOfNat
<1> QED  BY <1>3, <1>4

-----------------------------------------------------------------------------
(* Sum and difference of integers *)

(* What the operations see of an integer's text. *)
LEMMA OperandIs ==
  ASSUME NEW n \in Int
  PROVE  LET t == Numeral(n)
         IN  /\ StripLeadingZeroes(t) = t /\ IsValid(t) /\ t \in Seq(Chars)
             /\ StartsWithNegative(t) <=> n < 0
             /\ t = <<0>> <=> n = 0
             /\ n < 0 => /\ t = <<Minus>> \o Decimal[-n] /\ -n \in Nat \ {0}
                         /\ Rest(t) = Decimal[-n] /\ Unsigned(t) = Decimal[-n]
             /\ ~(n < 0) => t = Decimal[n] /\ n \in Nat
<1> DEFINE t == Numeral(n)
<1>1. /\ StripLeadingZeroes(t) = t /\ t \in Seq(Chars) /\ (StartsWithNegative(t) <=> n < 0)
      /\ Unsigned(t) = Decimal[Magnitude(n)] /\ t = IF n < 0 THEN <<Minus>> \o Decimal[-n] ELSE Decimal[n]
      /\ n < 0 => Rest(t) = Decimal[-n]
  BY NumeralProperties
<1>2. IsValid(t)
  BY NumeralReading
<1>3. t = <<0>> <=> n = 0
  <2>1. Numeral(0) = Decimal[0] /\ Decimal[0] = <<0>>
    BY NumeralOfNat, OneDigit, 0 \in 0..9, 0 \in Nat
  <2> QED  BY <2>1, NumeralInjective, 0 \in Int
<1> HIDE DEF t
<1>4. n < 0 => -n \in Nat \ {0} /\ Magnitude(n) = -n
  BY DEF Magnitude
<1>5. ~(n < 0) => n \in Nat
  OBVIOUS
<1> QED  BY <1>1, <1>2, <1>3, <1>4, <1>5 DEF t

(* IntMathAdd is the sum of integers. *)
LEMMA AddIs ==
  ASSUME NEW numOne, NEW numTwo, NEW a \in Int, NEW b \in Int,
         StripLeadingZeroes(numOne) = Numeral(a), StripLeadingZeroes(numTwo) = Numeral(b)
  PROVE  IntMathAdd(numOne, numTwo) = Numeral(a + b)
<1> DEFINE one == Numeral(a)
           two == Numeral(b)
<1>1. /\ IsValid(one) /\ (StartsWithNegative(one) <=> a < 0) /\ (one = <<0>> <=> a = 0)
      /\ a < 0 => -a \in Nat \ {0} /\ Unsigned(one) = Decimal[-a]
      /\ ~(a < 0) => one = Decimal[a] /\ a \in Nat
  BY OperandIs
<1>2. /\ IsValid(two) /\ (StartsWithNegative(two) <=> b < 0) /\ (two = <<0>> <=> b = 0)
      /\ b < 0 => -b \in Nat \ {0} /\ Unsigned(two) = Decimal[-b]
      /\ ~(b < 0) => two = Decimal[b] /\ b \in Nat
  BY OperandIs
<1> HIDE DEF one, two
<1>3. IntMathAdd(numOne, numTwo) =
        IF a = 0 THEN two
        ELSE IF b = 0 THEN one
        ELSE IF a < 0 /\ b < 0 THEN <<Minus>> \o UnsignedAdd(Unsigned(one), Unsigned(two))
        ELSE IF a < 0 THEN UnsignedSubtract(two, Unsigned(one))
        ELSE IF b < 0 THEN UnsignedSubtract(one, Unsigned(two))
        ELSE UnsignedAdd(one, two)
  BY <1>1, <1>2 DEF IntMathAdd, Refused, one, two
<1>4. CASE a = 0
  <2>1. a + b = b
    BY <1>4
  <2> QED  BY <1>3, <1>4, <2>1 DEF two
<1>5. CASE a # 0 /\ b = 0
  <2>1. a + b = a
    BY <1>5
  <2> QED  BY <1>3, <1>5, <2>1 DEF one
<1>6. CASE a < 0 /\ b < 0
  <2> DEFINE k == (-a) + (-b)
  <2>1. k \in Nat \ {0} /\ -k = a + b /\ a # 0 /\ b # 0
    BY <1>6
  <2>2. UnsignedAdd(Decimal[-a], Decimal[-b]) = Decimal[k]
    BY <1>1, <1>2, <1>6, UnsignedAddIs
  <2> HIDE DEF k
  <2>3. Numeral(-k) = <<Minus>> \o Decimal[k]
    BY <2>1, NegativeNumeral
  <2> QED  BY <1>1, <1>2, <1>3, <1>6, <2>1, <2>2, <2>3
<1>7. CASE a < 0 /\ ~(b < 0) /\ b # 0
  <2> DEFINE c == -a
  <2>1. c \in Nat \ {0} /\ b - c = a + b /\ a # 0
    BY <1>7
  <2>2. IntMathAdd(numOne, numTwo) = UnsignedSubtract(Decimal[b], Decimal[c])
    BY <1>1, <1>2, <1>3, <1>7, <2>1
  <2> HIDE DEF c
  <2> QED  BY <1>2, <1>7, <2>1, <2>2, UnsignedSubtractIs
<1>8. CASE ~(a < 0) /\ b < 0 /\ a # 0
  <2> DEFINE c == -b
  <2>1. c \in Nat \ {0} /\ a - c = a + b /\ b # 0
    BY <1>8
  <2>2. IntMathAdd(numOne, numTwo) = UnsignedSubtract(Decimal[a], Decimal[c])
    BY <1>1, <1>2, <1>3, <1>8, <2>1
  <2> HIDE DEF c
  <2> QED  BY <1>1, <1>8, <2>1, <2>2, UnsignedSubtractIs
<1>9. CASE ~(a < 0) /\ ~(b < 0) /\ a # 0 /\ b # 0
  <2>1. a \in Nat /\ b \in Nat /\ a + b \in Nat
    BY <1>9
  <2>2. UnsignedAdd(Decimal[a], Decimal[b]) = Decimal[a + b]
    BY <2>1, UnsignedAddIs
  <2>3. Numeral(a + b) = Decimal[a + b]
    BY <2>1, NumeralOfNat
  <2> QED  BY <1>1, <1>2, <1>3, <1>9, <2>2, <2>3
<1> QED  BY <1>4, <1>5, <1>6, <1>7, <1>8, <1>9

(* Zero minus zero has no text. *)
LEMMA SubtractIs ==
  ASSUME NEW numOne, NEW numTwo, NEW a \in Int, NEW b \in Int,
         StripLeadingZeroes(numOne) = Numeral(a), StripLeadingZeroes(numTwo) = Numeral(b)
  PROVE  IntMathSubtract(numOne, numTwo) = IF a = 0 /\ b = 0 THEN <<>> ELSE Numeral(a - b)
<1> DEFINE one == Numeral(a)
           two == Numeral(b)
<1>1. /\ IsValid(one) /\ (StartsWithNegative(one) <=> a < 0) /\ StripLeadingZeroes(one) = one
      /\ a < 0 => -a \in Nat \ {0} /\ Unsigned(one) = Decimal[-a]
      /\ ~(a < 0) => one = Decimal[a] /\ a \in Nat
  BY OperandIs
<1>2. /\ IsValid(two) /\ (StartsWithNegative(two) <=> b < 0)
      /\ b < 0 => -b \in Nat \ {0} /\ Unsigned(two) = Decimal[-b] /\ Rest(two) = Decimal[-b]
      /\ ~(b < 0) => two = Decimal[b] /\ b \in Nat
  BY OperandIs
<1> HIDE DEF one, two
<1>3. IntMathSubtract(numOne, numTwo) =
        IF a < 0 /\ b < 0 THEN UnsignedSubtract(Unsigned(two), Unsigned(one))
        ELSE IF a < 0 THEN IntMathAdd(one, <<Minus>> \o two)
        ELSE IF b < 0 THEN IntMathAdd(one, Rest(two))
        ELSE UnsignedSubtract(one, two)
  BY <1>1, <1>2 DEF IntMathSubtract, Refused, one, two
<1>4. CASE a < 0 /\ b < 0
  <2> DEFINE c == -a
             d == -b
  <2>1. c \in Nat \ {0} /\ d \in Nat \ {0} /\ d - c = a - b /\ a # 0
    BY <1>4
  <2>2. IntMathSubtract(numOne, numTwo) = UnsignedSubtract(Decimal[d], Decimal[c])
    BY <1>1, <1>2, <1>3, <1>4
  <2> HIDE DEF c, d
  <2> QED  BY <2>1, <2>2, UnsignedSubtractIs
<1>5. CASE a < 0 /\ ~(b < 0)
  <2> DEFINE d == -b
  <2>1. d \in Int /\ a + d = a - b /\ a # 0
    BY <1>5
  <2>2. StripLeadingZeroes(<<Minus>> \o two) = Numeral(d)
    BY <1>2, <1>5, StripOfSigned
  <2> HIDE DEF d
  <2>3. IntMathAdd(one, <<Minus>> \o two) = Numeral(a + d)
    BY <1>1, <2>1, <2>2, AddIs DEF one
  <2> QED  BY <1>3, <1>5, <2>1, <2>3
<1>6. CASE ~(a < 0) /\ b < 0
  <2> DEFINE d == -b
  <2>1. d \in Int /\ d \in Nat /\ a + d = a - b /\ b # 0
    BY <1>6
  <2>2. Rest(two) = Decimal[d]
    BY <1>2, <1>6
  <2> HIDE DEF d
  <2>3. StripLeadingZeroes(Rest(two)) = Numeral(d)
    BY <2>1, <2>2, OperandIs, NumeralOfNat
  <2>4. IntMathAdd(one, Rest(two)) = Numeral(a + d)
    BY <1>1, <2>1, <2>3, AddIs DEF one
  <2> QED  BY <1>3, <1>6, <2>1, <2>4
<1>7. CASE ~(a < 0) /\ ~(b < 0)
  BY <1>1, <1>2, <1>3, <1>7, UnsignedSubtractIs
<1> QED  BY <1>4, <1>5, <1>6, <1>7

-----------------------------------------------------------------------------
(* Product *)

(* The digits of a product of two digits. *)
UnitsOf(d, e) == Last(SingleDigitMultiply(<<d>>, <<e>>))
TensOf(d, e) == LET product == SingleDigitMultiply(<<d>>, <<e>>)
                IN  IF Len(product) = 2 THEN product[1] ELSE 0

(* The units and the tens of a product of two digits. *)
LEMMA DigitProduct ==
  ASSUME NEW d \in 0..9, NEW e \in 0..9
  PROVE  UnitsOf(d, e) \in 0..9 /\ TensOf(d, e) \in 0..9 /\ d * e = 10 * TensOf(d, e) + UnitsOf(d, e)
<1>1. d * e \in Nat /\ d * e <= 81
  OBVIOUS
<1> DEFINE p == d * e
<1>2. UnitsOf(d, e) = Last(Decimal[p]) /\ TensOf(d, e) = IF Len(Decimal[p]) = 2 THEN Decimal[p][1] ELSE 0
  <2>1. SingleDigitMultiply(<<d>>, <<e>>) = Decimal[p]
    BY DEF SingleDigitMultiply
  <2> HIDE DEF p
  <2> QED  BY <2>1 DEF UnitsOf, TensOf
<1>3. p \in Nat /\ p <= 81
  BY <1>1
<1> HIDE DEF p
<1>4. PICK q \in Nat, r \in 0..9 : p = 10 * q + r
  BY <1>3, LastDigitOf
<1>5. CASE q = 0
  <2>1. p = r
    BY <1>4, <1>5
  <2>2. Decimal[p] = <<r>>
    BY <2>1, OneDigit
  <2>3. UnitsOf(d, e) = r /\ TensOf(d, e) = 0
    BY <1>2, <2>2 DEF Last
  <2> QED  BY <2>1, <2>3 DEF p
<1>6. CASE q # 0
  <2>1. q \in 1..9
    BY <1>3, <1>4, <1>6
  <2>2. Decimal[p] = <<q, r>>
    BY <1>4, <2>1, TwoDigits
  <2>3. UnitsOf(d, e) = r /\ TensOf(d, e) = q
    BY <1>2, <2>2 DEF Last
  <2> QED  BY <1>4, <2>1, <2>3 DEF p
<1> QED  BY <1>5, <1>6

(* The digits of a row. *)
Units(d, t) == [i \in DOMAIN t |-> UnitsOf(d, t[i])]
Tens(d, t) == [i \in DOMAIN t |-> TensOf(d, t[i])]

(* Each row of a digit is as long as the other factor. *)
LEMMA RowDigits ==
  ASSUME NEW d \in 0..9
  PROVE  \A t \in Seq(0..9) :
           /\ Units(d, t) \in Seq(0..9) /\ Len(Units(d, t)) = Len(t)
           /\ Tens(d, t) \in Seq(0..9) /\ Len(Tens(d, t)) = Len(t)
<1> SUFFICES ASSUME NEW t \in Seq(0..9)
             PROVE  /\ Units(d, t) \in Seq(0..9) /\ Len(Units(d, t)) = Len(t)
                    /\ Tens(d, t) \in Seq(0..9) /\ Len(Tens(d, t)) = Len(t)
  OBVIOUS
<1>1. Len(t) \in Nat /\ DOMAIN t = 1..Len(t) /\ \A i \in 1..Len(t) : t[i] \in 0..9
  OBVIOUS
<1>2. Units(d, t) \in [1..Len(t) -> 0..9] /\ Tens(d, t) \in [1..Len(t) -> 0..9]
  BY <1>1, DigitProduct DEF Units, Tens
<1> DEFINE u == Units(d, t)
           v == Tens(d, t)
<1> HIDE DEF u, v
<1>3. u \in [1..Len(t) -> 0..9] /\ v \in [1..Len(t) -> 0..9]
  BY <1>2 DEF u, v
<1> DEFINE n == Len(t)
<1>4. n \in Nat /\ u \in [1..n -> 0..9] /\ v \in [1..n -> 0..9]
  BY <1>1, <1>3
<1> HIDE DEF n
<1>5. u \in Seq(0..9) /\ Len(u) = n /\ v \in Seq(0..9) /\ Len(v) = n
  BY <1>4
<1> QED  BY <1>5 DEF u, v, n

(* A further digit of the factor gives a further one in each row. *)
LEMMA RowOfAppend ==
  ASSUME NEW d \in 0..9, NEW t \in Seq(0..9), NEW e \in 0..9
  PROVE  /\ Units(d, Append(t, e)) = Append(Units(d, t), UnitsOf(d, e))
         /\ Tens(d, Append(t, e)) = Append(Tens(d, t), TensOf(d, e))
<1> DEFINE s == Append(t, e)
           n == Len(t)
<1>1. n \in Nat /\ s \in Seq(0..9) /\ Len(s) = n + 1 /\ s[n + 1] = e /\ \A i \in 1..n : s[i] = t[i]
  OBVIOUS
<1>2. DOMAIN s = 1..(n + 1) /\ DOMAIN t = 1..n
  OBVIOUS
<1>3. UnitsOf(d, e) \in 0..9 /\ TensOf(d, e) \in 0..9
  BY DigitProduct
<1>4. /\ Units(d, s) \in Seq(0..9) /\ Tens(d, s) \in Seq(0..9)
      /\ Len(Units(d, s)) = n + 1 /\ Len(Tens(d, s)) = n + 1
      /\ Units(d, t) \in Seq(0..9) /\ Tens(d, t) \in Seq(0..9)
      /\ Len(Units(d, t)) = n /\ Len(Tens(d, t)) = n
  BY <1>1, RowDigits
<1> HIDE DEF s, n
<1>5. \A i \in 1..(n + 1) : Units(d, s)[i] = UnitsOf(d, s[i]) /\ Tens(d, s)[i] = TensOf(d, s[i])
  BY <1>2 DEF Units, Tens
<1>6. \A i \in 1..n : Units(d, t)[i] = UnitsOf(d, t[i]) /\ Tens(d, t)[i] = TensOf(d, t[i])
  BY <1>2 DEF Units, Tens
<1> DEFINE u == Units(d, t)
           v == Tens(d, t)
           w == Units(d, s)
           x == Tens(d, s)
<1> HIDE DEF u, v, w, x
<1>7. w = Append(u, UnitsOf(d, e))
  <2>1. /\ Append(u, UnitsOf(d, e)) \in Seq(0..9) /\ Len(Append(u, UnitsOf(d, e))) = n + 1
        /\ Append(u, UnitsOf(d, e))[n + 1] = UnitsOf(d, e)
        /\ \A i \in 1..n : Append(u, UnitsOf(d, e))[i] = u[i]
    BY <1>3, <1>4, AppendProperties DEF u
  <2>2. \A i \in 1..(n + 1) : w[i] = Append(u, UnitsOf(d, e))[i]
    BY <1>1, <1>5, <1>6, <2>1 DEF u, w
  <2> QED  BY <1>4, <2>1, <2>2, SeqEqual DEF w
<1>8. x = Append(v, TensOf(d, e))
  <2>1. /\ Append(v, TensOf(d, e)) \in Seq(0..9) /\ Len(Append(v, TensOf(d, e))) = n + 1
        /\ Append(v, TensOf(d, e))[n + 1] = TensOf(d, e)
        /\ \A i \in 1..n : Append(v, TensOf(d, e))[i] = v[i]
    BY <1>3, <1>4, AppendProperties DEF v
  <2>2. \A i \in 1..(n + 1) : x[i] = Append(v, TensOf(d, e))[i]
    BY <1>1, <1>5, <1>6, <2>1 DEF v, x
  <2> QED  BY <1>4, <2>1, <2>2, SeqEqual DEF x
<1> QED  BY <1>7, <1>8 DEF s, u, v, w, x

(* A row adds up to the product of its digit. *)
LEMMA RowValue ==
  ASSUME NEW d \in 0..9
  PROVE  \A t \in Seq(0..9) : Value[Units(d, t)] + 10 * Value[Tens(d, t)] = d * Value[t]
<1> DEFINE Right(t) == Value[Units(d, t)] + 10 * Value[Tens(d, t)] = d * Value[t]
           S == {k \in Nat : \A t \in Seq(0..9) : Len(t) = k => Right(t)}
<1>1. 0 \in S
  <2> SUFFICES ASSUME NEW t \in Seq(0..9), Len(t) = 0
               PROVE  Right(t)
    OBVIOUS
  <2>1. t = <<>>
    OBVIOUS
  <2>2. Units(d, t) = <<>> /\ Tens(d, t) = <<>>
    <3> DEFINE x == Units(d, t)
               y == Tens(d, t)
    <3>1. x \in Seq(0..9) /\ Len(x) = 0 /\ y \in Seq(0..9) /\ Len(y) = 0
      BY RowDigits
    <3> HIDE DEF x, y
    <3>2. x = <<>> /\ y = <<>>
      BY <3>1, EmptySeq
    <3> QED  BY <3>2 DEF x, y
  <2>3. Value[<<>>] = 0
    BY ValueEquation, <<>> \in Seq(0..9)
  <2> QED  BY <2>1, <2>2, <2>3
<1>2. ASSUME NEW k \in Nat, k \in S
      PROVE  k + 1 \in S
  <2> SUFFICES ASSUME NEW t \in Seq(0..9), Len(t) = k + 1
               PROVE  Right(t)
    OBVIOUS
  <2>0. t # <<>>
    OBVIOUS
  <2>1. PICK u \in Seq(0..9), e \in 0..9 : t = Append(u, e) /\ Len(u) = Len(t) - 1 /\ Value[t] = Value[u] * 10 + e
    BY <2>0, LastDigit
  <2>2. Right(u)
    <3>1. Len(u) = k
      BY <2>1
    <3> QED  BY <1>2, <3>1
  <2>3. UnitsOf(d, e) \in 0..9 /\ TensOf(d, e) \in 0..9 /\ d * e = 10 * TensOf(d, e) + UnitsOf(d, e)
    BY DigitProduct
  <2>4. Value[Units(d, t)] = Value[Units(d, u)] * 10 + UnitsOf(d, e)
    <3>1. Units(d, t) = Append(Units(d, u), UnitsOf(d, e))
      BY <2>1, RowOfAppend
    <3>2. Units(d, u) \in Seq(0..9)
      BY RowDigits
    <3>3. UnitsOf(d, e) \in 0..9
      BY <2>3
    <3> QED  BY <3>1, <3>2, <3>3, ValueOfAppend
  <2>5. Value[Tens(d, t)] = Value[Tens(d, u)] * 10 + TensOf(d, e)
    <3>1. Tens(d, t) = Append(Tens(d, u), TensOf(d, e))
      BY <2>1, RowOfAppend
    <3>2. Tens(d, u) \in Seq(0..9)
      BY RowDigits
    <3>3. TensOf(d, e) \in 0..9
      BY <2>3
    <3> QED  BY <3>1, <3>2, <3>3, ValueOfAppend
  <2>6. Value[Units(d, u)] \in Nat /\ Value[Tens(d, u)] \in Nat /\ Value[u] \in Nat
    BY RowDigits, ValueIsNat
  <2> DEFINE x == Value[Units(d, u)]
             y == Value[Tens(d, u)]
             z == Value[u]
             f == UnitsOf(d, e)
             g == TensOf(d, e)
             w == d * z
  <2>7. w \in Nat /\ d * (z * 10 + e) = 10 * w + d * e /\ x + 10 * y = w
    <3>1. d \in Nat /\ z \in Nat /\ e \in Nat
      BY <2>6
    <3>2. x + 10 * y = w
      BY <2>2
    <3> HIDE DEF x, y, z
    <3> QED  BY <3>1, <3>2, TimesFurtherDigit
  <2>8. x \in Nat /\ y \in Nat /\ z \in Nat /\ f \in Nat /\ g \in Nat /\ d * e = 10 * g + f
    <3>1. f \in 0..9 /\ g \in 0..9 /\ d * e = 10 * g + f
      BY <2>3
    <3> HIDE DEF f, g
    <3>2. f \in Nat /\ g \in Nat
      BY <3>1
    <3> QED  BY <2>6, <3>1, <3>2
  <2> HIDE DEF x, y, z, f, g, w
  <2>9. (x * 10 + f) + 10 * (y * 10 + g) = 10 * w + (10 * g + f)
    BY <2>7, <2>8
  <2> QED  BY <2>1, <2>4, <2>5, <2>7, <2>8, <2>9 DEF x, y, z, f, g
<1>3. Nat \subseteq S
  <2> HIDE DEF S
  <2> QED  BY <1>1, <1>2, SetInduction
<1> SUFFICES ASSUME NEW t \in Seq(0..9)
             PROVE  Right(t)
  OBVIOUS
<1>4. Len(t) \in S
  BY <1>3
<1> HIDE DEF Right
<1> QED  BY <1>4

(* Zeros behind a row. *)
Zeros(k) == [j \in 1..k |-> 0]

(* The zeros that shift a row. *)
LEMMA ZerosAre ==
  ASSUME NEW k \in Nat
  PROVE  Zeros(k) \in Seq(0..9) /\ Len(Zeros(k)) = k /\ Value[Zeros(k)] = 0
<1> DEFINE z == Zeros(k)
<1>1. z \in [1..k -> 0..9]
  BY DEF Zeros
<1>2. \A i \in 1..k : z[i] = 0
  BY DEF Zeros
<1> HIDE DEF z
<1>3. z \in Seq(0..9) /\ Len(z) = k
  BY <1>1
<1> QED  BY <1>2, <1>3, ValueOfZeros DEF z

(* The rows that the code builds. *)
LEMMA RowsAre ==
  ASSUME NEW d \in 0..9, NEW t \in Seq(0..9), NEW k \in Nat
  PROVE  /\ RowUnits(<<d>>, t, Zeros(k)) = Units(d, t) \o Zeros(k)
         /\ RowTens(<<d>>, t, Zeros(k)) = Tens(d, t) \o <<0>> \o Zeros(k)
BY DEF RowUnits, RowTens, Units, Tens, UnitsOf, TensOf

(* The two rows of a digit. *)
LEMMA ShiftedRows ==
  ASSUME NEW d \in 0..9, NEW t \in Seq(0..9), t # <<>>, NEW k \in Nat
  PROVE  /\ OfDigits[k] \in Nat /\ Value[t] \in Nat
         /\ IntMathAdd(RowUnits(<<d>>, t, Zeros(k)), RowTens(<<d>>, t, Zeros(k)))
              = Decimal[d * Value[t] * OfDigits[k]]
<1> DEFINE u == Units(d, t)
           v == Tens(d, t)
           z == Zeros(k)
           P == OfDigits[k]
<1>1. u \in Seq(0..9) /\ v \in Seq(0..9) /\ Len(u) = Len(t) /\ Len(v) = Len(t)
  BY RowDigits
<1>2. Value[u] + 10 * Value[v] = d * Value[t]
  BY RowValue
<1>3. z \in Seq(0..9) /\ Len(z) = k /\ Value[z] = 0
  BY ZerosAre
<1>4. P \in Nat
  BY DigitsOfPowers
<1>5. RowUnits(<<d>>, t, Zeros(k)) = u \o z /\ RowTens(<<d>>, t, Zeros(k)) = v \o <<0>> \o z
  BY RowsAre
<1>6. Len(t) \in Nat \ {0}
  OBVIOUS
<1> DEFINE n == Len(t)
<1>7. n \in Nat \ {0} /\ Len(u) = n /\ Len(v) = n
  BY <1>1, <1>6
<1> HIDE DEF u, v, z, P, n
<1>8. <<0>> \in Seq(0..9) /\ v \o <<0>> = Append(v, 0) /\ 0 \in 0..9
  BY <1>1, AppendIsConcat
<1>9. v \o <<0>> \in Seq(0..9) /\ Value[v \o <<0>>] = Value[v] * 10 + 0 /\ Len(v \o <<0>>) = n + 1
  <2>1. Append(v, 0) \in Seq(0..9) /\ Value[Append(v, 0)] = Value[v] * 10 + 0
    BY <1>1, <1>8, ValueOfAppend
  <2>2. Len(Append(v, 0)) = Len(v) + 1
    BY <1>1, <1>8, AppendProperties
  <2> QED  BY <1>7, <1>8, <2>1, <2>2
<1>10. Value[u] \in Nat /\ Value[v] \in Nat /\ Value[t] \in Nat
  BY <1>1, ValueIsNat
<1>11. Value[u \o z] = Value[u] * P + 0
  BY <1>1, <1>3, ValueOfConcat DEF P
<1>12. Value[v \o <<0>> \o z] = (Value[v] * 10 + 0) * P + 0
  BY <1>3, <1>9, ValueOfConcat DEF P
<1>13. u \o z \in Seq(0..9) /\ u \o z # <<>>
  BY <1>1, <1>3, <1>7, ConcatProperties, EmptySeq
<1>14. v \o <<0>> \o z \in Seq(0..9) /\ v \o <<0>> \o z # <<>>
  <2> DEFINE w == v \o <<0>>
  <2> HIDE DEF w
  <2>1. w \in Seq(0..9) /\ Len(w) = n + 1
    BY <1>9 DEF w
  <2>2. w \o z \in Seq(0..9) /\ w \o z # <<>>
    BY <1>3, <1>7, <2>1, ConcatProperties, EmptySeq
  <2> QED  BY <2>2 DEF w
<1> DEFINE a == Value[u \o z]
           b == Value[v \o <<0>> \o z]
<1>15. StripLeadingZeroes(u \o z) = Decimal[a] /\ StripLeadingZeroes(v \o <<0>> \o z) = Decimal[b]
  BY <1>13, <1>14, StripOfDigits
<1>16. a \in Nat /\ b \in Nat
  BY <1>13, <1>14, ValueIsNat
<1>17. a + b = d * Value[t] * P
  <2> DEFINE x == Value[u]
             y == Value[v]
  <2>1. x \in Nat /\ y \in Nat /\ P \in Nat /\ a = x * P /\ b = y * 10 * P
    BY <1>4, <1>10, <1>11, <1>12
  <2>2. x + 10 * y = d * Value[t]
    BY <1>2
  <2> HIDE DEF a, b, x, y
  <2>3. a + b = (x + 10 * y) * P
    BY <2>1
  <2> QED  BY <2>2, <2>3
<1> HIDE DEF a, b
<1>18. IntMathAdd(u \o z, v \o <<0>> \o z) = Numeral(a + b)
  BY <1>15, <1>16, AddIs, NumeralOfNat
<1>19. a + b \in Nat
  BY <1>16
<1> QED  BY <1>4, <1>5, <1>10, <1>17, <1>18, <1>19, NumeralOfNat DEF P

(* The last digits of a text. *)
Suffix(t, i) == SubSeq(t, Len(t) - i + 1, Len(t))

(* The digits of the factor that the loop has done. *)
LEMMA SuffixProperties ==
  ASSUME NEW t \in Seq(0..9)
  PROVE  /\ Suffix(t, 0) = <<>> /\ Suffix(t, Len(t)) = t
         /\ \A i \in 1..Len(t) : /\ Suffix(t, i - 1) \in Seq(0..9) /\ Suffix(t, i) \in Seq(0..9)
                                 /\ Len(Suffix(t, i - 1)) = i - 1
                                 /\ Reverse(t)[i] \in 0..9
                                 /\ Suffix(t, i) = <<Reverse(t)[i]>> \o Suffix(t, i - 1)
<1> DEFINE n == Len(t)
<1>1. n \in Nat
  OBVIOUS
<1>2. Suffix(t, 0) = <<>>
  BY SubSeqEmpty, n + 1 > n DEF Suffix
<1>3. Suffix(t, n) = t
  BY SubSeqFull DEF Suffix
<1>4. ASSUME NEW i \in 1..n
      PROVE  /\ Suffix(t, i - 1) \in Seq(0..9) /\ Suffix(t, i) \in Seq(0..9)
             /\ Len(Suffix(t, i - 1)) = i - 1
             /\ Reverse(t)[i] \in 0..9
             /\ Suffix(t, i) = <<Reverse(t)[i]>> \o Suffix(t, i - 1)
  <2> DEFINE k == n - i + 1
  <2>1. k \in 1..n /\ k + 1 = n - (i - 1) + 1 /\ k + 1 \in 1..(n + 1)
    BY <1>1
  <2>2. Reverse(t)[i] = t[k] /\ t[k] \in 0..9
    BY <2>1, ReverseProperties
  <2>3. Suffix(t, i) = SubSeq(t, k, n) /\ Suffix(t, i - 1) = SubSeq(t, k + 1, n)
    BY <2>1 DEF Suffix
  <2> HIDE DEF k
  <2> DEFINE x == SubSeq(t, k, n)
             y == SubSeq(t, k + 1, n)
             w == <<t[k]>>
  <2>4. x \in Seq(0..9) /\ Len(x) = n - k + 1 /\ \A j \in 1..(n - k + 1) : x[j] = t[k + j - 1]
    BY <1>1, <2>1, SubSeqProperties
  <2>5. y \in Seq(0..9) /\ Len(y) = n - k /\ \A j \in 1..(n - k) : y[j] = t[k + j]
    <3>1. y \in Seq(0..9) /\ Len(y) = IF k + 1 <= n THEN n - (k + 1) + 1 ELSE 0
      BY <1>1, <2>1, SubSeqProperties
    <3>2. \A j \in 1..(n - (k + 1) + 1) : y[j] = t[(k + 1) + j - 1]
      BY <1>1, <2>1, SubSeqProperties
    <3>3. n - (k + 1) + 1 = n - k
      BY <1>1, <2>1
    <3>4. \A j \in 1..(n - k) : (k + 1) + j - 1 = k + j
      BY <1>1, <2>1
    <3> HIDE DEF y
    <3>5. Len(y) = n - k
      BY <1>1, <2>1, <3>1
    <3> QED  BY <3>1, <3>2, <3>3, <3>4, <3>5
  <2>6. w \in Seq(0..9) /\ Len(w) = 1 /\ w[1] = t[k]
    BY <2>2
  <2> HIDE DEF x, y, w, n
  <2>7. /\ w \o y \in Seq(0..9) /\ Len(w \o y) = 1 + (n - k)
        /\ \A j \in 1..(1 + (n - k)) : (w \o y)[j] = IF j <= 1 THEN w[j] ELSE y[j - 1]
    <3> DEFINE m == n - k
    <3>1. y \in Seq(0..9) /\ Len(y) = m /\ w \in Seq(0..9) /\ Len(w) = 1
      BY <2>5, <2>6
    <3> HIDE DEF m
    <3>2. /\ w \o y \in Seq(0..9) /\ Len(w \o y) = 1 + m
          /\ \A j \in 1..(1 + m) : (w \o y)[j] = IF j <= 1 THEN w[j] ELSE y[j - 1]
      <4> DEFINE l == Len(w)
                 r == Len(y)
      <4>1. /\ w \o y \in Seq(0..9) /\ Len(w \o y) = l + r
            /\ \A j \in 1..(l + r) : (w \o y)[j] = IF j <= l THEN w[j] ELSE y[j - l]
        BY <3>1, ConcatProperties
      <4>2. l = 1 /\ r = m
        BY <3>1
      <4> HIDE DEF l, r
      <4> QED  BY <4>1, <4>2
    <3> QED  BY <3>2 DEF m
  <2>8. \A j \in 1..(n - k + 1) : x[j] = (w \o y)[j]
    <3> SUFFICES ASSUME NEW j \in 1..(n - k + 1)
                 PROVE  x[j] = (w \o y)[j]
      OBVIOUS
    <3>1. CASE j = 1
      BY <1>1, <2>1, <2>4, <2>6, <2>7, <3>1
    <3>2. CASE j # 1
      <4>1. j - 1 \in 1..(n - k) /\ k + j - 1 = k + (j - 1) /\ ~(j <= 1) /\ j \in 1..(1 + (n - k))
        BY <1>1, <2>1, <3>2
      <4> QED  BY <2>4, <2>5, <2>7, <4>1
    <3> QED  BY <3>1, <3>2
  <2>9. x = w \o y
    <3>1. 1 + (n - k) = n - k + 1
      BY <1>1, <2>1
    <3> QED  BY <2>4, <2>7, <2>8, <3>1, SeqEqual
  <2>10. n - k = i - 1
    BY <1>1 DEF k
  <2> QED  BY <2>2, <2>3, <2>4, <2>5, <2>9, <2>10 DEF x, y, w
<1> QED  BY <1>2, <1>3, <1>4

(* The loop adds the rows of the digits of a, the last digit's first. *)
LEMMA AddRowsIs ==
  ASSUME NEW a \in Nat, NEW b \in Nat
  PROVE  AddRows(Decimal[a], Decimal[b]) = Decimal[a * b]
<1> DEFINE one == Decimal[a]
           two == Decimal[b]
           digits == PoiCoreReverse(one)
           n == Len(digits)
           Row(i) == IntMathAdd(RowUnits(<<digits[i]>>, two, [j \in 1..(i - 1) |-> 0]),
                                RowTens(<<digits[i]>>, two, [j \in 1..(i - 1) |-> 0]))
           Body(i, f) == IF i = 0 THEN <<0>> ELSE IntMathAdd(f[i - 1], Row(i))
           D == 0..n
           V == {Decimal[k] : k \in Nat}
           C == CHOOSE f : f = [i \in D |-> Body(i, f)]
           Low(i) == Value[Suffix(one, i)]
           Part(i) == digits[i] * b * OfDigits[i - 1]
<1>1. AddRows(one, two) = C[n]
  BY DEF AddRows
<1>2. one \in Seq(0..9) /\ two \in Seq(0..9) /\ two # <<>> /\ Value[one] = a /\ Value[two] = b
  BY DecimalDigits, ValueOfDecimal
<1>3. n \in Nat /\ n = Len(one)
  BY <1>2, ReverseProperties DEF PoiCoreReverse
<1>4. ASSUME NEW i \in 1..n
      PROVE  Part(i) \in Nat /\ Row(i) = Decimal[Part(i)] /\ Low(i - 1) \in Nat /\ Low(i) * b = Low(i - 1) * b + Part(i)
  <2> DEFINE k == i - 1
             d == digits[i]
             low == Low(k)
             P == OfDigits[k]
  <2>1. /\ Suffix(one, k) \in Seq(0..9) /\ Len(Suffix(one, k)) = k /\ d \in 0..9
        /\ Suffix(one, i) = <<d>> \o Suffix(one, k)
    BY <1>2, <1>3, SuffixProperties DEF PoiCoreReverse
  <2>2. k \in Nat
    BY <1>3
  <2>3. P \in Nat /\ Row(i) = Decimal[d * Value[two] * P]
    <3>1. Row(i) = IntMathAdd(RowUnits(<<d>>, two, Zeros(k)), RowTens(<<d>>, two, Zeros(k)))
      BY DEF Zeros
    <3> HIDE DEF Row, d, k, two
    <3> QED  BY <1>2, <2>1, <2>2, <3>1, ShiftedRows
  <2>4. Low(i) = d * P + low /\ low \in Nat
    <3>1. <<d>> \in Seq(0..9) /\ Value[<<d>>] = d
      <4>1. Decimal[d] = <<d>> /\ d \in Nat
        BY <2>1, OneDigit
      <4>2. <<d>> \in Seq(0..9)
        BY <2>1
      <4> HIDE DEF d
      <4> QED  BY <4>1, <4>2, ValueOfDecimal
    <3>2. Value[<<d>> \o Suffix(one, k)] = Value[<<d>>] * OfDigits[Len(Suffix(one, k))] + Value[Suffix(one, k)]
      <4> HIDE DEF d, k, one
      <4> QED  BY <2>1, <3>1, ValueOfConcat
    <3>3. low \in Nat
      <4> HIDE DEF k, one
      <4> QED  BY <2>1, ValueIsNat
    <3> HIDE DEF d, k, one
    <3> QED  BY <2>1, <3>1, <3>2, <3>3
  <2>5. d \in Nat
    BY <2>1
  <2> HIDE DEF Row, Low, d, k, P, two, low
  <2>6. (d * P + low) * b = low * b + d * b * P
    BY <2>3, <2>4, <2>5
  <2>7. d * b * P \in Nat
    BY <2>3, <2>5
  <2> QED  BY <1>2, <2>3, <2>4, <2>6, <2>7 DEF d, k, P, low
<1> HIDE DEF one, two, n, Row, Low, Part
<1>5. ASSUME NEW v \in V
      PROVE  \E k \in Nat : v = Decimal[k] /\ StripLeadingZeroes(v) = Numeral(k)
  <2>1. PICK k \in Nat : v = Decimal[k]
    OBVIOUS
  <2>2. StripLeadingZeroes(Numeral(k)) = Numeral(k) /\ Numeral(k) = Decimal[k]
    BY OperandIs, NumeralOfNat
  <2> QED  BY <2>1, <2>2
<1>6. ASSUME NEW k \in Nat, NEW l \in Nat
      PROVE  IntMathAdd(Decimal[k], Decimal[l]) = Decimal[k + l]
  <2>1. StripLeadingZeroes(Decimal[k]) = Numeral(k) /\ StripLeadingZeroes(Decimal[l]) = Numeral(l)
    BY OperandIs, NumeralOfNat
  <2>2. IntMathAdd(Decimal[k], Decimal[l]) = Numeral(k + l) /\ k + l \in Nat
    BY <2>1, AddIs
  <2> QED  BY <2>2, NumeralOfNat
<1> DEFINE step == [p \in D \X [D -> V] |-> Body(p[1], p[2])]
           m == [i \in D |-> i]
<1>7. <<0>> \in V /\ Decimal[0] = <<0>>
  BY OneDigit, 0 \in 0..9, 0 \in Nat
<1>8. ASSUME NEW i \in D, NEW f \in [D -> V]
      PROVE  Body(i, f) \in V
  <2>1. CASE i = 0
    BY <1>7, <2>1
  <2>2. CASE i # 0
    <3>1. i - 1 \in D /\ i \in 1..n
      BY <1>3, <2>2
    <3>2. PICK k \in Nat : f[i - 1] = Decimal[k]
      BY <3>1
    <3>3. Body(i, f) = Decimal[k + Part(i)] /\ k + Part(i) \in Nat
      <4>1. Part(i) \in Nat /\ Row(i) = Decimal[Part(i)]
        BY <1>4, <3>1
      <4>2. Body(i, f) = IntMathAdd(Decimal[k], Decimal[Part(i)])
        BY <2>2, <3>2, <4>1
      <4> HIDE DEF Body
      <4> DEFINE l == Part(i)
      <4>3. l \in Nat /\ Body(i, f) = IntMathAdd(Decimal[k], Decimal[l])
        BY <4>1, <4>2
      <4> HIDE DEF l, Body
      <4>4. IntMathAdd(Decimal[k], Decimal[l]) = Decimal[k + l]
        BY <1>6, <4>3
      <4>5. k + l \in Nat
        BY <4>3
      <4> QED  BY <4>3, <4>4, <4>5 DEF l
    <3> HIDE DEF Body
    <3> QED  BY <3>3
  <2> QED  BY <2>1, <2>2
<1>9. step \in [D \X [D -> V] -> V]
  <2> HIDE DEF D, V, Body
  <2> QED  BY <1>8
<1>10. m \in [D -> Nat]
  BY <1>3
<1>11. ASSUME NEW x \in D, NEW f \in [D -> V], NEW g \in [D -> V],
              \A y \in D : m[y] < m[x] => f[y] = g[y]
       PROVE  step[<<x, f>>] = step[<<x, g>>]
  <2>1. x # 0 => f[x - 1] = g[x - 1]
    BY <1>3, <1>11
  <2>2. Body(x, f) = Body(x, g)
    BY <2>1
  <2> HIDE DEF Body, V, D
  <2> QED  BY <2>2
<1>12. PICK F : Solution(F, D, V, step)
  <2> HIDE DEF V, step, m, D
  <2>1. Measured(D, V, m, step)
    BY <1>11 DEF Measured
  <2> QED  BY <1>7, <1>9, <1>10, <2>1, MeasuredRecursion
<1>13. F \in [D -> V] /\ \A x \in D : F[x] = Body(x, F)
  <2> HIDE DEF V, Body, D
  <2> QED  BY <1>12 DEF Solution
<1>14. F = [x \in D |-> Body(x, F)]
  <2> HIDE DEF V, Body, D
  <2> QED  BY <1>13
<1>15. C = [x \in D |-> Body(x, C)]
  <2> HIDE DEF Body, D
  <2> QED  BY <1>14
<1>16. \A x \in D : C[x] = Body(x, C)
  <2> HIDE DEF Body, C, D
  <2> QED  BY <1>15
<1> HIDE DEF C
<1> DEFINE S == {i \in Nat : i <= n => C[i] = Decimal[Low(i) * b]}
<1>17. 0 \in S
  <2>1. Low(0) = 0
    <3>1. Suffix(one, 0) = <<>> /\ Value[<<>>] = 0
      BY <1>2, SuffixProperties, ValueEquation, <<>> \in Seq(0..9)
    <3> QED  BY <3>1 DEF Low
  <2>2. C[0] = <<0>>
    BY <1>3, <1>16
  <2> QED  BY <1>7, <2>1, <2>2
<1>18. ASSUME NEW i \in Nat, i \in S
       PROVE  i + 1 \in S
  <2> SUFFICES ASSUME i + 1 <= n
               PROVE  C[i + 1] = Decimal[Low(i + 1) * b]
    OBVIOUS
  <2>1. i + 1 \in 1..n /\ i + 1 \in D /\ i + 1 # 0 /\ (i + 1) - 1 = i /\ i <= n
    BY <1>3
  <2>2. C[i + 1] = IntMathAdd(C[i], Row(i + 1))
    BY <1>16, <2>1
  <2>3. C[i] = Decimal[Low(i) * b]
    BY <1>18, <2>1
  <2>4. /\ Part(i + 1) \in Nat /\ Row(i + 1) = Decimal[Part(i + 1)]
        /\ Low(i) \in Nat /\ Low(i + 1) * b = Low(i) * b + Part(i + 1)
    BY <1>4, <2>1
  <2>5. Low(i) * b \in Nat
    BY <2>4
  <2> QED  BY <1>6, <2>2, <2>3, <2>4, <2>5
<1>19. Nat \subseteq S
  <2> HIDE DEF S
  <2> QED  BY <1>17, <1>18, SetInduction
<1>20. C[n] = Decimal[Low(n) * b]
  BY <1>3, <1>19
<1>21. Low(n) = a
  BY <1>2, <1>3, SuffixProperties DEF Low
<1> QED  BY <1>1, <1>20, <1>21 DEF one, two

(* The shorter factor's digits make the rows. *)
LEMMA UnsignedMultiplyIs ==
  ASSUME NEW a \in Nat, NEW b \in Nat
  PROVE  UnsignedMultiply(Decimal[a], Decimal[b]) = Decimal[a * b]
<1>1. \A n \in Nat : (Decimal[n] = <<0>> <=> n = 0) /\ (Decimal[n] = <<1>> <=> n = 1)
  BY OneDigit, DecimalInjective, 0 \in 0..9, 1 \in 0..9, 0 \in Nat, 1 \in Nat
<1>2. ASSUME NEW c \in Nat, NEW d \in Nat
      PROVE  (IF Decimal[c] = <<0>> THEN <<0>> ELSE IF Decimal[c] = <<1>> THEN Decimal[d]
              ELSE AddRows(Decimal[c], Decimal[d])) = Decimal[c * d]
  <2>1. CASE c = 0
    <3>1. c * d = 0 /\ Decimal[c] = <<0>> /\ Decimal[0] = <<0>>
      BY <1>1, <2>1, 0 \in Nat
    <3> QED  BY <3>1
  <2>2. CASE c = 1
    <3>1. c * d = d /\ Decimal[c] # <<0>> /\ Decimal[c] = <<1>>
      BY <1>1, <2>2
    <3> QED  BY <3>1
  <2>3. CASE c # 0 /\ c # 1
    BY <1>1, <2>3, AddRowsIs
  <2> QED  BY <2>1, <2>2, <2>3
<1>3. CASE b < a
  <2>1. Holds(IntMathLessThan(Decimal[b], Decimal[a])) /\ b * a = a * b
    BY <1>3, HoldsLess
  <2> QED  BY <1>2, <2>1 DEF UnsignedMultiply
<1>4. CASE ~(b < a)
  <2>1. ~Holds(IntMathLessThan(Decimal[b], Decimal[a]))
    BY <1>4, HoldsLess
  <2> QED  BY <1>2, <2>1 DEF UnsignedMultiply
<1> QED  BY <1>3, <1>4

(* Zero times a negative number is "-0". *)
LEMMA MultiplyIs ==
  ASSUME NEW numOne, NEW numTwo, NEW a \in Int, NEW b \in Int,
         StripLeadingZeroes(numOne) = Numeral(a), StripLeadingZeroes(numTwo) = Numeral(b)
  PROVE  /\ a * b \in Int
         /\ IntMathMultiply(numOne, numTwo) =
              IF a * b = 0 /\ (a < 0 \/ b < 0) THEN <<Minus, 0>> ELSE Numeral(a * b)
<1> DEFINE one == Numeral(a)
           two == Numeral(b)
<1>1. /\ IsValid(one) /\ (StartsWithNegative(one) <=> a < 0)
      /\ a < 0 => -a \in Nat \ {0} /\ Unsigned(one) = Decimal[-a]
      /\ ~(a < 0) => one = Decimal[a] /\ a \in Nat /\ Unsigned(one) = one
  BY OperandIs, NumeralProperties DEF Magnitude
<1>2. /\ IsValid(two) /\ (StartsWithNegative(two) <=> b < 0)
      /\ b < 0 => -b \in Nat \ {0} /\ Unsigned(two) = Decimal[-b]
      /\ ~(b < 0) => two = Decimal[b] /\ b \in Nat
  BY OperandIs
<1>0. StripLeadingZeroes(numOne) = one /\ StripLeadingZeroes(numTwo) = two
  OBVIOUS
<1> HIDE DEF one, two
<1>3. IntMathMultiply(numOne, numTwo) =
        IF a < 0 /\ b < 0 THEN UnsignedMultiply(Unsigned(two), Unsigned(one))
        ELSE IF a < 0 THEN <<Minus>> \o UnsignedMultiply(Unsigned(one), two)
        ELSE IF b < 0 THEN <<Minus>> \o UnsignedMultiply(Unsigned(two), one)
        ELSE UnsignedMultiply(one, two)
  <2> DEFINE minusOne == StartsWithNegative(one)
             minusTwo == StartsWithNegative(two)
             x == IF minusTwo THEN Unsigned(two) ELSE Unsigned(one)
             y == IF minusTwo THEN Unsigned(one) ELSE two
             sign == IF minusOne # minusTwo THEN <<Minus>> ELSE <<>>
  <2>1. IntMathMultiply(numOne, numTwo) = sign \o UnsignedMultiply(x, y)
    <3>1. ~Refused(one, two)
      BY <1>1, <1>2 DEF Refused
    <3> QED  BY <1>0, <3>1 DEF IntMathMultiply
  <2>2. /\ minusOne \in BOOLEAN /\ minusTwo \in BOOLEAN
        /\ (minusOne <=> a < 0) /\ (minusTwo <=> b < 0)
    BY <1>1, <1>2 DEF StartsWithNegative
  <2>3. \E m \in Nat : UnsignedMultiply(x, y) = Decimal[m]
    <3>1. \E m, n \in Nat : x = Decimal[m] /\ y = Decimal[n]
      BY <1>1, <1>2, <2>2
    <3> HIDE DEF x, y
    <3>2. PICK m \in Nat, n \in Nat : x = Decimal[m] /\ y = Decimal[n]
      BY <3>1
    <3>3. m * n \in Nat
      OBVIOUS
    <3> QED  BY <3>2, <3>3, UnsignedMultiplyIs
  <2>4. <<>> \o UnsignedMultiply(x, y) = UnsignedMultiply(x, y)
    BY <2>3, DecimalDigits, ConcatEmptySeq
  <2>5. /\ b < 0 => x = Unsigned(two) /\ y = Unsigned(one)
        /\ ~(b < 0) => x = Unsigned(one) /\ y = two
    BY <2>2
  <2>6. /\ a < 0 /\ b < 0 => sign = <<>>
        /\ a < 0 /\ ~(b < 0) => sign = <<Minus>>
        /\ ~(a < 0) /\ b < 0 => sign = <<Minus>>
        /\ ~(a < 0) /\ ~(b < 0) => sign = <<>>
    <3> HIDE DEF minusOne, minusTwo
    <3>1. minusOne = minusTwo => sign = <<>>
      OBVIOUS
    <3>2. minusOne # minusTwo => sign = <<Minus>>
      OBVIOUS
    <3> HIDE DEF sign
    <3> QED  BY <2>2, <3>1, <3>2
  <2>7. CASE a < 0
    <3> HIDE DEF x, y, sign, minusOne, minusTwo
    <3> QED  BY <2>1, <2>4, <2>5, <2>6, <2>7
  <2>8. CASE ~(a < 0)
    <3> HIDE DEF x, y, sign, minusOne, minusTwo
    <3> QED  BY <1>1, <2>1, <2>4, <2>5, <2>6, <2>8
  <2> QED  BY <2>7, <2>8
<1>4. a * b \in Int
  OBVIOUS
<1>5. <<Minus>> \o Decimal[0] = <<Minus, 0>>
  <2>1. Decimal[0] = <<0>>
    BY OneDigit, 0 \in 0..9
  <2>2. <<Minus>> \o <<0>> = Append(<<Minus>>, 0)
    BY AppendIsConcat, DigitsAreChars, <<Minus>> \in Seq(Chars), 0 \in Chars
  <2> QED  BY <2>1, <2>2, TwoChars
<1>6. ASSUME NEW k \in Nat
      PROVE  <<Minus>> \o Decimal[k] = IF k = 0 THEN <<Minus, 0>> ELSE Numeral(-k)
  BY <1>5, NegativeNumeral
<1>7. CASE a < 0 /\ b < 0
  <2> DEFINE c == -a
             d == -b
  <2>1. c \in Nat \ {0} /\ d \in Nat \ {0} /\ a = -c /\ b = -d
    BY <1>7
  <2>2. IntMathMultiply(numOne, numTwo) = UnsignedMultiply(Decimal[d], Decimal[c])
    BY <1>1, <1>2, <1>3, <1>7
  <2> HIDE DEF c, d
  <2>3. d * c = a * b /\ a * b # 0 /\ d * c \in Nat
    BY <2>1
  <2> QED  BY <1>4, <2>1, <2>2, <2>3, UnsignedMultiplyIs, NumeralOfNat
<1>8. CASE a < 0 /\ ~(b < 0)
  <2> DEFINE c == -a
             k == c * b
  <2>1. c \in Nat \ {0} /\ a = -c /\ b \in Nat
    BY <1>8
  <2>2. IntMathMultiply(numOne, numTwo) = <<Minus>> \o UnsignedMultiply(Decimal[c], Decimal[b])
    BY <1>1, <1>2, <1>3, <1>8
  <2> HIDE DEF c
  <2>3. k \in Nat /\ -k = a * b /\ (k = 0 <=> a * b = 0)
    BY <2>1
  <2>4. UnsignedMultiply(Decimal[c], Decimal[b]) = Decimal[k]
    BY <2>1, UnsignedMultiplyIs
  <2> HIDE DEF k
  <2> QED  BY <1>4, <1>6, <1>8, <2>2, <2>3, <2>4
<1>9. CASE ~(a < 0) /\ b < 0
  <2> DEFINE c == -b
             k == c * a
  <2>1. c \in Nat \ {0} /\ b = -c /\ a \in Nat
    BY <1>9
  <2>2. IntMathMultiply(numOne, numTwo) = <<Minus>> \o UnsignedMultiply(Decimal[c], Decimal[a])
    BY <1>1, <1>2, <1>3, <1>9
  <2> HIDE DEF c
  <2>3. k \in Nat /\ -k = a * b /\ (k = 0 <=> a * b = 0)
    BY <2>1
  <2>4. UnsignedMultiply(Decimal[c], Decimal[a]) = Decimal[k]
    BY <2>1, UnsignedMultiplyIs
  <2> HIDE DEF k
  <2> QED  BY <1>4, <1>6, <1>9, <2>2, <2>3, <2>4
<1>10. CASE ~(a < 0) /\ ~(b < 0)
  <2>1. a \in Nat /\ b \in Nat /\ a * b \in Nat
    BY <1>10
  <2> QED  BY <1>1, <1>2, <1>3, <1>10, <2>1, UnsignedMultiplyIs, NumeralOfNat
<1> QED  BY <1>4, <1>7, <1>8, <1>9, <1>10

-----------------------------------------------------------------------------
(* Quotient and remainder of numbers without a sign *)

(* Numbers without a sign, as lengths and indices are, in the operations. *)
LEMMA NatOperand ==
  ASSUME NEW n \in Nat
  PROVE  StripLeadingZeroes(Decimal[n]) = Numeral(n) /\ n \in Int /\ Numeral(n) = Decimal[n]
BY OperandIs, NumeralOfNat

(* Their product. *)
LEMMA NatMultiply ==
  ASSUME NEW m \in Nat, NEW n \in Nat
  PROVE  IntMathMultiply(Decimal[m], Decimal[n]) = Decimal[m * n] /\ m * n \in Nat
<1>1. m * n \in Nat /\ ~(m < 0) /\ ~(n < 0)
  OBVIOUS
<1> DEFINE p == m * n
<1>2. IntMathMultiply(Decimal[m], Decimal[n]) = Numeral(p)
  BY <1>1, MultiplyIs, NatOperand
<1> QED  BY <1>1, <1>2, NatOperand

(* Their difference; nothing is left of zero minus zero. *)
LEMMA NatSubtract ==
  ASSUME NEW m \in Nat, NEW n \in Nat, n <= m
  PROVE  IntMathSubtract(Decimal[m], Decimal[n]) = IF m = 0 THEN <<>> ELSE Decimal[m - n]
<1>1. IntMathSubtract(Decimal[m], Decimal[n]) = IF m = 0 /\ n = 0 THEN <<>> ELSE Numeral(m - n)
  BY SubtractIs, NatOperand
<1>2. m - n \in Nat /\ (m = 0 => n = 0)
  OBVIOUS
<1> QED  BY <1>1, <1>2, NumeralOfNat

(* The search among the digits finds the digit of the quotient. *)
LEMMA FactorIs ==
  ASSUME NEW b \in Nat \ {0}, NEW t \in Nat, t < 10 * b
  PROVE  \E d \in 0..9 : /\ FindSingleDigitFactor(Decimal[b], Decimal[t]) = <<d>>
                         /\ d * b <= t /\ t < d * b + b
<1> DEFINE Less(d) == Holds(IntMathLessThan(Decimal[t], IntMathMultiply(<<d>>, Decimal[b])))
           OneOf(d) == IF Less(d) THEN <<d - 1>> ELSE <<d>>
<1>1. ASSUME NEW d \in 1..9
      PROVE  Less(d) <=> t < d * b
  <2>1. Decimal[d] = <<d>> /\ d \in Nat
    BY OneDigit
  <2>2. IntMathMultiply(Decimal[d], Decimal[b]) = Decimal[d * b] /\ d * b \in Nat
    BY <2>1, NatMultiply
  <2> DEFINE p == d * b
  <2>3. p \in Nat /\ IntMathMultiply(<<d>>, Decimal[b]) = Decimal[p]
    BY <2>1, <2>2
  <2> HIDE DEF p
  <2>4. Less(d) <=> t < p
    BY <2>3, HoldsLess
  <2> HIDE DEF Less
  <2> QED  BY <2>4 DEF p
<1>2. Holds(IntMathLessThan(Decimal[t], Decimal[b])) <=> t < b
  BY HoldsLess
<1>3. FindSingleDigitFactor(Decimal[b], Decimal[t]) =
        IF Holds(IntMathLessThan(Decimal[t], Decimal[b])) THEN <<0>>
        ELSE IF Less(5) THEN IF Less(3) THEN OneOf(2) ELSE OneOf(4)
        ELSE IF Less(7) THEN OneOf(6)
        ELSE IF Less(9) THEN OneOf(8)
        ELSE <<9>>
  BY DEF FindSingleDigitFactor
<1>4. /\ Less(2) <=> t < 2 * b
      /\ Less(3) <=> t < 3 * b
      /\ Less(4) <=> t < 4 * b
      /\ Less(5) <=> t < 5 * b
      /\ Less(6) <=> t < 6 * b
      /\ Less(7) <=> t < 7 * b
      /\ Less(8) <=> t < 8 * b
      /\ Less(9) <=> t < 9 * b
  <2> HIDE DEF Less
  <2> QED  BY <1>1
<1> DEFINE f == FindSingleDigitFactor(Decimal[b], Decimal[t])
           Is(d) == f = <<d>> /\ d * b <= t /\ t < d * b + b
<1> HIDE DEF Less, f
<1>5. CASE t < b
  <2>1. f = <<0>>
    BY <1>2, <1>3, <1>5 DEF f
  <2> QED  BY <1>5, <2>1, 0 \in 0..9 DEF f
<1>6. CASE ~(t < b) /\ t < 3 * b
  <2>1. f = IF t < 2 * b THEN <<1>> ELSE <<2>>
    <3>1. Less(5) /\ Less(3) /\ OneOf(2) = IF t < 2 * b THEN <<1>> ELSE <<2>>
      BY <1>4, <1>6
    <3> QED  BY <1>2, <1>3, <1>6, <3>1 DEF f
  <2>2. Is(1) \/ Is(2)
    BY <1>6, <2>1
  <2> QED  BY <2>2, 1 \in 0..9, 2 \in 0..9 DEF f
<1>7. CASE ~(t < 3 * b) /\ t < 5 * b
  <2>1. f = IF t < 4 * b THEN <<3>> ELSE <<4>>
    <3>1. Less(5) /\ ~Less(3) /\ ~(t < b) /\ OneOf(4) = IF t < 4 * b THEN <<3>> ELSE <<4>>
      BY <1>4, <1>7
    <3> QED  BY <1>2, <1>3, <3>1 DEF f
  <2>2. Is(3) \/ Is(4)
    BY <1>7, <2>1
  <2> QED  BY <2>2, 3 \in 0..9, 4 \in 0..9 DEF f
<1>8. CASE ~(t < 5 * b) /\ t < 7 * b
  <2>1. f = IF t < 6 * b THEN <<5>> ELSE <<6>>
    <3>1. ~Less(5) /\ Less(7) /\ ~(t < b) /\ OneOf(6) = IF t < 6 * b THEN <<5>> ELSE <<6>>
      BY <1>4, <1>8
    <3> QED  BY <1>2, <1>3, <3>1 DEF f
  <2>2. Is(5) \/ Is(6)
    BY <1>8, <2>1
  <2> QED  BY <2>2, 5 \in 0..9, 6 \in 0..9 DEF f
<1>9. CASE ~(t < 7 * b) /\ t < 9 * b
  <2>1. f = IF t < 8 * b THEN <<7>> ELSE <<8>>
    <3>1. ~Less(5) /\ ~Less(7) /\ Less(9) /\ ~(t < b) /\ OneOf(8) = IF t < 8 * b THEN <<7>> ELSE <<8>>
      BY <1>4, <1>9
    <3> QED  BY <1>2, <1>3, <3>1 DEF f
  <2>2. Is(7) \/ Is(8)
    BY <1>9, <2>1
  <2> QED  BY <2>2, 7 \in 0..9, 8 \in 0..9 DEF f
<1>10. CASE ~(t < 9 * b)
  <2>1. ~Less(5) /\ ~Less(7) /\ ~Less(9) /\ ~(t < b)
    BY <1>4, <1>10
  <2>2. f = <<9>>
    BY <1>2, <1>3, <2>1 DEF f
  <2> QED  BY <1>10, <2>2, 9 \in 0..9 DEF f
<1> QED  BY <1>5, <1>6, <1>7, <1>8, <1>9, <1>10

(* What is left of a piece: no text when nothing is. *)
Remains(r) == IF r = 0 THEN <<>> ELSE Decimal[r]

(* That one turn of the loop gives a digit and leaves so much. *)
DigitAndRest(b, r, x, d, u) ==
  LET piece == Remains(r) \o <<x>>
      digit == FindSingleDigitFactor(Decimal[b], piece)
      difference == IntMathSubtract(piece, IntMathMultiply(digit, Decimal[b]))
  IN  /\ d \in 0..9 /\ u < b /\ 10 * r + x = d * b + u
      /\ digit = <<d>> /\ (IF difference = <<0>> THEN <<>> ELSE difference) = Remains(u)

(* A turn of the division: a digit of the quotient, and a rest smaller than the divisor. *)
LEMMA DivisionTurn ==
  ASSUME NEW b \in Nat \ {0}, NEW r \in Nat, r < b, NEW x \in Nat, x < 10
  PROVE  \E d, u \in Nat : DigitAndRest(b, r, x, d, u)
<1> DEFINE t == 10 * r + x
           piece == Remains(r) \o <<x>>
<1>1. t \in Nat /\ t < 10 * b
  OBVIOUS
<1> x \in 0..9
  OBVIOUS
<1>2. piece = Decimal[t]
  <2>1. Decimal[t] = IF r = 0 THEN <<x>> ELSE Append(Decimal[r], x)
    BY DecimalOf
  <2>2. CASE r = 0
    <3>1. <<>> \o <<x>> = <<x>>
      BY ConcatEmptySeq, <<x>> \in Seq(0..9)
    <3> QED  BY <2>1, <2>2, <3>1 DEF Remains
  <2>3. CASE r # 0
    <3>1. Append(Decimal[r], x) = Decimal[r] \o <<x>>
      BY DecimalDigits, AppendIsConcat
    <3> QED  BY <2>1, <2>3, <3>1 DEF Remains
  <2> QED  BY <2>2, <2>3
<1> HIDE DEF t, piece
<1>3. PICK d \in 0..9 : /\ FindSingleDigitFactor(Decimal[b], Decimal[t]) = <<d>>
                        /\ d * b <= t /\ t < d * b + b
  BY <1>1, FactorIs
<1> DEFINE p == d * b
           u == t - p
<1>4. p \in Nat /\ p <= t /\ u \in Nat /\ u < b /\ t = p + u
  BY <1>1, <1>3
<1>5. IntMathMultiply(<<d>>, Decimal[b]) = Decimal[p]
  <2>1. Decimal[d] = <<d>> /\ d \in Nat
    BY OneDigit
  <2> QED  BY <2>1, NatMultiply
<1> HIDE DEF p
<1> DEFINE difference == IntMathSubtract(Decimal[t], Decimal[p])
<1>6. difference = IF t = 0 THEN <<>> ELSE Decimal[t - p]
  BY <1>1, <1>4, NatSubtract
<1> HIDE DEF difference
<1>7. (IF difference = <<0>> THEN <<>> ELSE difference) = Remains(u)
  <2>1. \A n \in Nat : Decimal[n] = <<0>> <=> n = 0
    BY OneDigit, DecimalInjective, 0 \in 0..9, 0 \in Nat
  <2>2. CASE t = 0
    <3>1. u = 0
      BY <1>4, <2>2
    <3> QED  BY <1>6, <2>2, <3>1 DEF Remains
  <2>3. CASE t # 0
    <3>1. difference = Decimal[u]
      BY <1>6, <2>3
    <3> HIDE DEF u
    <3> QED  BY <1>4, <2>1, <3>1 DEF Remains
  <2> QED  BY <2>2, <2>3
<1>8. 10 * r + x = d * b + u
  BY <1>4 DEF t, p
<1> HIDE DEF u
<1>9. DigitAndRest(b, r, x, d, u)
  BY <1>2, <1>3, <1>4, <1>5, <1>7, <1>8 DEF DigitAndRest, piece, difference
<1>10. d \in Nat
  OBVIOUS
<1> QED  BY <1>4, <1>9, <1>10

(* A quotient and a remainder, as texts with the separator between them. *)
Both(q, r) == Numeral(q) \o <<Sep>> \o Numeral(r)

(* The loop divides: it keeps the quotient and the rest of the digits it has read. *)
LEMMA LongDivisionIs ==
  ASSUME NEW a \in Nat, NEW b \in Nat \ {0}
  PROVE  \E q, r \in Nat : /\ LongDivision(Decimal[a], Decimal[b]) = Both(q, r)
                           /\ a = q * b + r /\ r < b
<1> DEFINE top == Decimal[a]
           bot == Decimal[b]
           n == Len(top)
           Piece(v, i) == v.difference \o <<top[i]>>
           Digit(v, i) == FindSingleDigitFactor(bot, Piece(v, i))
           Difference(v, i) == IntMathSubtract(Piece(v, i), IntMathMultiply(Digit(v, i), bot))
           Turned(v, i) == [quotient |-> v.quotient \o Digit(v, i),
                            difference |-> IF Difference(v, i) = <<0>> THEN <<>> ELSE Difference(v, i)]
           At(t, r) == [quotient |-> t, difference |-> Remains(r)]
           V == {At(t, r) : t \in Seq(0..9), r \in 0..(b - 1)}
           Start == [quotient |-> <<>>, difference |-> <<>>]
           Body(i, f) == IF i = 0 THEN Start ELSE Turned(f[i - 1], i)
           D == 0..n
           C == CHOOSE f : f = [i \in D |-> Body(i, f)]
<1>1. LongDivision(top, bot) =
        StripLeadingZeroes(C[n].quotient) \o <<Sep>> \o
          (IF C[n].difference = <<>> THEN <<0>> ELSE C[n].difference)
  BY DEF LongDivision, Extended, TurnWith
<1>2. top \in Seq(0..9) /\ top # <<>> /\ Value[top] = a
  BY DecimalDigits, ValueOfDecimal
<1>3. n \in Nat \ {0} /\ \A i \in 1..n : top[i] \in 0..9
  BY <1>2
<1> HIDE DEF top, n
<1>4. ASSUME NEW i \in 1..n, NEW t \in Seq(0..9), NEW r \in Nat, r < b
      PROVE  \E d \in 0..9, u \in Nat : /\ Turned(At(t, r), i) = At(Append(t, d), u) /\ u < b
                                        /\ 10 * r + top[i] = d * b + u
  <2> DEFINE v == At(t, r)
             x == top[i]
             piece == Remains(r) \o <<x>>
             digit == FindSingleDigitFactor(bot, piece)
             difference == IntMathSubtract(piece, IntMathMultiply(digit, bot))
  <2>1. v.quotient = t /\ v.difference = Remains(r)
    OBVIOUS
  <2>2. x \in 0..9
    BY <1>3
  <2>3. Piece(v, i) = piece /\ Digit(v, i) = digit /\ Difference(v, i) = difference
    BY <2>1
  <2>4. Turned(v, i) = [quotient |-> t \o digit, difference |-> IF difference = <<0>> THEN <<>> ELSE difference]
    <3> HIDE DEF Piece, Digit, Difference, v, piece, digit, difference
    <3> QED  BY <2>1, <2>3
  <2>5. PICK d \in 0..9, u \in Nat : /\ digit = <<d>> /\ u < b /\ 10 * r + x = d * b + u
                                     /\ (IF difference = <<0>> THEN <<>> ELSE difference) = Remains(u)
    <3> HIDE DEF x
    <3>0. x \in Nat /\ x < 10
      BY <2>2
    <3>1. PICK d \in Nat, u \in Nat : DigitAndRest(b, r, x, d, u)
      BY <1>4, <3>0, DivisionTurn
    <3>2. /\ d \in 0..9 /\ u < b /\ 10 * r + x = d * b + u
          /\ digit = <<d>>
          /\ (IF difference = <<0>> THEN <<>> ELSE difference) = Remains(u)
      BY <3>1 DEF DigitAndRest
    <3> HIDE DEF digit, difference
    <3> QED  BY <3>2
  <2> HIDE DEF v, Turned, piece, digit, difference, x
  <2>6. t \o <<d>> = Append(t, d)
    BY AppendIsConcat
  <2>7. Turned(v, i) = At(Append(t, d), u)
    BY <2>4, <2>5, <2>6
  <2> HIDE DEF At
  <2> QED  BY <2>5, <2>7 DEF v, x
<1> HIDE DEF bot, Turned
<1> DEFINE step == [p \in D \X [D -> V] |-> Body(p[1], p[2])]
           m == [i \in D |-> i]
<1>5. ASSUME NEW v \in V
      PROVE  \E t \in Seq(0..9), r \in Nat : v = At(t, r) /\ r < b
  BY <1>5
<1>6. ASSUME NEW t \in Seq(0..9), NEW r \in Nat, r < b
      PROVE  At(t, r) \in V
  <2>1. r \in 0..(b - 1)
    BY <1>6
  <2> QED  BY <2>1
<1>7. Start = At(<<>>, 0) /\ Start \in V
  <2>1. Start = At(<<>>, 0)
    BY DEF Remains
  <2> HIDE DEF At, V, Start
  <2> QED  BY <1>6, <2>1, 0 < b, <<>> \in Seq(0..9), 0 \in Nat
<1> HIDE DEF Start, At, V
<1>8. ASSUME NEW i \in D, NEW f \in [D -> V]
      PROVE  Body(i, f) \in V
  <2>1. CASE i = 0
    BY <1>7, <2>1
  <2>2. CASE i # 0
    <3>1. i - 1 \in D /\ i \in 1..n
      BY <1>3, <2>2
    <3>2. PICK t \in Seq(0..9), r \in Nat : f[i - 1] = At(t, r) /\ r < b
      BY <1>5, <3>1
    <3>3. PICK d \in 0..9, u \in Nat : /\ Turned(At(t, r), i) = At(Append(t, d), u) /\ u < b
                                       /\ 10 * r + top[i] = d * b + u
      BY <1>4, <3>1, <3>2
    <3>4. Append(t, d) \in Seq(0..9)
      OBVIOUS
    <3>5. Turned(At(t, r), i) \in V
      BY <1>6, <3>3, <3>4
    <3> QED  BY <2>2, <3>2, <3>5
  <2> QED  BY <2>1, <2>2
<1>9. step \in [D \X [D -> V] -> V]
  <2> HIDE DEF D, Body
  <2> QED  BY <1>8
<1>10. m \in [D -> Nat]
  BY <1>3
<1>11. ASSUME NEW x \in D, NEW f \in [D -> V], NEW g \in [D -> V],
              \A y \in D : m[y] < m[x] => f[y] = g[y]
       PROVE  step[<<x, f>>] = step[<<x, g>>]
  <2>1. x # 0 => f[x - 1] = g[x - 1]
    BY <1>3, <1>11
  <2>2. Body(x, f) = Body(x, g)
    BY <2>1
  <2> HIDE DEF Body, D
  <2> QED  BY <2>2
<1>12. PICK F : Solution(F, D, V, step)
  <2> HIDE DEF step, m, D
  <2>1. Measured(D, V, m, step)
    BY <1>11 DEF Measured
  <2> QED  BY <1>7, <1>9, <1>10, <2>1, MeasuredRecursion
<1>13. F \in [D -> V] /\ \A x \in D : F[x] = Body(x, F)
  <2> HIDE DEF Body, D
  <2> QED  BY <1>12 DEF Solution
<1>14. F = [x \in D |-> Body(x, F)]
  <2> HIDE DEF Body, D
  <2> QED  BY <1>13
<1>15. C = [x \in D |-> Body(x, C)]
  <2> HIDE DEF Body, D
  <2> QED  BY <1>14
<1>16. \A x \in D : C[x] = Body(x, C)
  <2> HIDE DEF Body, C, D
  <2> QED  BY <1>15
<1> HIDE DEF C
<1> DEFINE Before(i) == SubSeq(top, 1, i)
           Right(i) == \E t \in Seq(0..9), r \in Nat :
                         /\ C[i] = At(t, r) /\ r < b /\ Len(t) = i
                         /\ Value[t] * b + r = Value[Before(i)]
           S == {i \in Nat : i <= n => Right(i)}
<1>17. 0 \in S
  <2>1. Before(0) = <<>> /\ Value[<<>>] = 0
    <3>1. Before(0) = <<>>
      BY SubSeqEmpty, 0 < 1
    <3>2. Value[<<>>] = 0
      BY ValueEquation, <<>> \in Seq(0..9)
    <3> QED  BY <3>1, <3>2
  <2>2. C[0] = At(<<>>, 0)
    BY <1>3, <1>7, <1>16
  <2> HIDE DEF Before
  <2>3. <<>> \in Seq(0..9) /\ Len(<<>>) = 0 /\ 0 \in Nat /\ 0 < b
    OBVIOUS
  <2>4. Value[<<>>] * b + 0 = Value[Before(0)]
    BY <2>1
  <2>5. Right(0)
    BY <2>2, <2>3, <2>4
  <2> QED  BY <2>5
<1>18. ASSUME NEW i \in Nat, i \in S
       PROVE  i + 1 \in S
  <2> SUFFICES ASSUME i + 1 <= n
               PROVE  Right(i + 1)
    OBVIOUS
  <2>1. i + 1 \in 1..n /\ i + 1 \in D /\ i + 1 # 0 /\ (i + 1) - 1 = i /\ i <= n
    BY <1>3
  <2>2. C[i + 1] = Turned(C[i], i + 1)
    BY <1>16, <2>1
  <2>3. Right(i)
    BY <1>18, <2>1
  <2>4. PICK t \in Seq(0..9), r \in Nat : /\ C[i] = At(t, r) /\ r < b /\ Len(t) = i
                                          /\ Value[t] * b + r = Value[Before(i)]
    BY <2>3
  <2> DEFINE x == top[i + 1]
  <2>5. PICK d \in 0..9, u \in Nat : /\ Turned(At(t, r), i + 1) = At(Append(t, d), u) /\ u < b
                                     /\ 10 * r + x = d * b + u
    BY <1>4, <2>1, <2>4
  <2>6. Before(i) \in Seq(0..9) /\ Before(i + 1) = Append(Before(i), x) /\ x \in 0..9
    <3>1. x \in 0..9
      BY <1>3, <2>1
    <3>2. /\ Before(i) \in Seq(0..9) /\ Before(i + 1) \in Seq(0..9)
          /\ Len(Before(i)) = i /\ Len(Before(i + 1)) = i + 1
          /\ \A j \in 1..i : Before(i)[j] = top[j]
          /\ \A j \in 1..(i + 1) : Before(i + 1)[j] = top[j]
      BY <1>2, <1>3, <2>1, SubSeqProperties
    <3> DEFINE y == Before(i)
               z == Before(i + 1)
    <3> HIDE DEF x, y, z
    <3>3. Append(y, x) \in Seq(0..9) /\ Len(Append(y, x)) = i + 1 /\ Append(y, x)[i + 1] = x
          /\ \A j \in 1..i : Append(y, x)[j] = y[j]
      BY <3>1, <3>2 DEF y
    <3>4. z \in Seq(0..9) /\ Len(z) = i + 1 /\ \A j \in 1..(i + 1) : z[j] = Append(y, x)[j]
      BY <3>2, <3>3 DEF x, y, z
    <3>5. z = Append(y, x)
      BY <3>3, <3>4, SeqEqual
    <3> QED  BY <3>1, <3>2, <3>5 DEF y, z
  <2>7. Value[Before(i + 1)] = Value[Before(i)] * 10 + x
    <3> HIDE DEF x, Before
    <3> QED  BY <2>6, ValueOfAppend
  <2>8. Append(t, d) \in Seq(0..9) /\ Value[Append(t, d)] = Value[t] * 10 + d
    BY ValueOfAppend
  <2>9. Len(Append(t, d)) = i + 1
    BY <2>4
  <2>10. Value[Append(t, d)] * b + u = Value[Before(i + 1)]
    <3> DEFINE w == Value[t]
               y == Value[Before(i)]
    <3>1. w \in Nat /\ y = w * b + r /\ x \in Nat
      BY <2>4, <2>6, ValueIsNat
    <3> HIDE DEF w, x, y
    <3>2. (w * 10 + d) * b + u = (w * b + r) * 10 + x
      <4>1. (w * 10 + d) * b = w * b * 10 + d * b
        BY <3>1
      <4>2. w * b \in Nat /\ d * b \in Nat
        BY <3>1
      <4> QED  BY <2>5, <3>1, <4>1, <4>2
    <3> QED  BY <2>7, <2>8, <3>1, <3>2 DEF w, y
  <2> QED  BY <2>2, <2>4, <2>5, <2>8, <2>9, <2>10
<1>19. Nat \subseteq S
  <2> HIDE DEF S
  <2> QED  BY <1>17, <1>18, SetInduction
<1>20. Right(n)
  BY <1>3, <1>19
<1>21. PICK t \in Seq(0..9), r \in Nat : /\ C[n] = At(t, r) /\ r < b /\ Len(t) = n
                                         /\ Value[t] * b + r = Value[Before(n)]
  BY <1>20
<1>22. Before(n) = top
  BY <1>2, SubSeqFull DEF n
<1>23. C[n].quotient = t /\ C[n].difference = Remains(r)
  BY <1>21 DEF At
<1>24. StripLeadingZeroes(t) = Decimal[Value[t]] /\ Value[t] \in Nat
  BY <1>3, <1>21, StripOfDigits, ValueIsNat
<1>25. (IF Remains(r) = <<>> THEN <<0>> ELSE Remains(r)) = Decimal[r]
  BY DecimalDigits, OneDigit, 0 \in 0..9 DEF Remains
<1>26. LongDivision(top, bot) = Both(Value[t], r)
  BY <1>1, <1>23, <1>24, <1>25, NumeralOfNat DEF Both
<1>27. a = Value[t] * b + r
  BY <1>2, <1>21, <1>22
<1> QED  BY <1>21, <1>24, <1>26, <1>27 DEF top, bot

-----------------------------------------------------------------------------
(* Search *)

(* A bound that is a number is taken, no text is not. *)
LEMMA BoundIs ==
  ASSUME NEW k \in Nat, NEW default
  PROVE  Bound(Decimal[k], default) = k /\ Bound(<<>>, default) = default
<1>1. Decimal[k] \in Seq(0..9) /\ Decimal[k] # <<>> /\ Value[Decimal[k]] = k
  BY DecimalDigits, ValueOfDecimal
<1>2. AllDigits(Decimal[k])
  BY <1>1, AllDigitsAre, DigitsAreChars
<1> QED  BY <1>1, <1>2 DEF Bound

(* What SUBSTRING gives from an index on, or up to one. *)
LEMMA SubstringIs ==
  ASSUME NEW s \in Seq(Chars), NEW i \in Nat, NEW k \in Nat
  PROVE  /\ Substring(s, Decimal[i], Decimal[k]) = SubSeq(s, i + 1, IF k < Len(s) THEN k ELSE Len(s))
         /\ Substring(s, Decimal[i], <<>>) = SubSeq(s, i + 1, Len(s))
<1>1. Bound(Decimal[i], 0) = i /\ Bound(Decimal[k], Len(s)) = k /\ Bound(<<>>, Len(s)) = Len(s)
  BY BoundIs
<1>2. ~(Len(s) < Len(s))
  OBVIOUS
<1> QED  BY <1>1, <1>2 DEF Substring

(* That t is in s behind i characters. *)
OccursAt(s, t, i) == i + Len(t) <= Len(s) /\ SubSeq(s, i + 1, i + Len(t)) = t

(* A piece of a piece. *)
LEMMA PieceOfPiece ==
  ASSUME NEW s \in Seq(Chars), NEW i \in 0..Len(s), NEW k \in Nat
  PROVE  LET left == SubSeq(s, i + 1, Len(s))
         IN  /\ left \in Seq(Chars) /\ Len(left) = Len(s) - i
             /\ i + k <= Len(s) => SubSeq(left, 1, k) = SubSeq(s, i + 1, i + k)
<1> DEFINE left == SubSeq(s, i + 1, Len(s))
           n == Len(s)
<1>1. n \in Nat /\ i \in Nat /\ i <= n /\ \A j \in 1..n : s[j] \in Chars
  OBVIOUS
<1>2. /\ left \in Seq(Chars) /\ Len(left) = IF i + 1 <= n THEN n - (i + 1) + 1 ELSE 0
      /\ \A j \in 1..(n - (i + 1) + 1) : left[j] = s[(i + 1) + j - 1]
  <2>1. i + 1 \in Int /\ n \in Int /\ \A j \in (i + 1)..n : s[j] \in Chars
    BY <1>1
  <2> QED  BY <2>1, SubSeqProperties
<1> HIDE DEF left
<1>3. Len(left) = n - i
  BY <1>1, <1>2
<1>4. ASSUME i + k <= n
      PROVE  SubSeq(left, 1, k) = SubSeq(s, i + 1, i + k)
  <2> DEFINE x == SubSeq(left, 1, k)
             y == SubSeq(s, i + 1, i + k)
  <2>1. /\ y \in Seq(Chars) /\ Len(y) = IF i + 1 <= i + k THEN i + k - (i + 1) + 1 ELSE 0
        /\ \A j \in 1..(i + k - (i + 1) + 1) : y[j] = s[(i + 1) + j - 1]
    <3>1. i + 1 \in Int /\ i + k \in Int /\ \A j \in (i + 1)..(i + k) : s[j] \in Chars
      BY <1>1, <1>4
    <3> QED  BY <3>1, SubSeqProperties
  <2>2. /\ x \in Seq(Chars) /\ Len(x) = IF 1 <= k THEN k - 1 + 1 ELSE 0
        /\ \A j \in 1..(k - 1 + 1) : x[j] = left[1 + j - 1]
    <3>1. \A j \in 1..k : left[j] \in Chars
      <4>1. \A j \in 1..k : j \in 1..Len(left)
        BY <1>1, <1>3, <1>4
      <4> QED  BY <1>2, <4>1
    <3> QED  BY <3>1, SubSeqProperties
  <2> HIDE DEF x, y, n
  <2>3. Len(x) = k
    BY <2>2
  <2>4. Len(y) = k
    BY <1>1, <2>1
  <2>5. \A j \in 1..k : x[j] = y[j]
    <3> SUFFICES ASSUME NEW j \in 1..k
                 PROVE  x[j] = y[j]
      OBVIOUS
    <3>1. j \in 1..(k - 1 + 1) /\ 1 + j - 1 = j /\ j \in 1..(n - (i + 1) + 1) /\ j \in 1..(i + k - (i + 1) + 1)
      BY <1>1, <1>4
    <3> QED  BY <1>2, <2>1, <2>2, <3>1
  <2> QED  BY <2>1, <2>2, <2>3, <2>4, <2>5, SeqEqual DEF x, y
<1> QED  BY <1>2, <1>3, <1>4 DEF left

(* The characters that the loop has left, and whether it has found t. *)
LEMMA FoundIs ==
  ASSUME NEW s \in Seq(Chars), NEW t \in Seq(Chars), NEW i \in 0..Len(s)
  PROVE  LET left == SubSeq(s, i + 1, Len(s))
         IN  /\ t = Substring(left, <<0>>, Strlen(t)) <=> OccursAt(s, t, i)
             /\ Holds(IntMathLessThan(Strlen(left), Strlen(t))) <=> Len(s) - i < Len(t)
<1> DEFINE left == SubSeq(s, i + 1, Len(s))
           n == Len(s)
           k == Len(t)
<1>1. left \in Seq(Chars) /\ Len(left) = n - i /\ (i + k <= n => SubSeq(left, 1, k) = SubSeq(s, i + 1, i + k))
  BY PieceOfPiece
<1>2. n \in Nat /\ k \in Nat /\ i \in Nat /\ i <= n /\ n - i \in Nat
  OBVIOUS
<1>3. Strlen(t) = Decimal[k] /\ Strlen(left) = Decimal[n - i]
  BY <1>1 DEF Strlen
<1>4. Substring(left, <<0>>, Strlen(t)) = SubSeq(left, 1, IF k < n - i THEN k ELSE n - i)
  <2>1. Decimal[0] = <<0>>
    BY OneDigit, 0 \in 0..9
  <2>2. Substring(left, Decimal[0], Decimal[k]) = SubSeq(left, 0 + 1, IF k < Len(left) THEN k ELSE Len(left))
    <3> HIDE DEF left, k
    <3> QED  BY <1>1, <1>2, SubstringIs
  <2> HIDE DEF left, k, n
  <2> QED  BY <1>1, <1>3, <2>1, <2>2
<1> HIDE DEF left, k, n
<1>5. CASE i + k <= n
  <2>1. (IF k < n - i THEN k ELSE n - i) = k
    BY <1>2, <1>5
  <2> QED  BY <1>1, <1>2, <1>3, <1>4, <1>5, <2>1, HoldsLess DEF OccursAt, left, k, n
<1>6. CASE ~(i + k <= n)
  <2>1. (IF k < n - i THEN k ELSE n - i) = n - i /\ n - i < k
    BY <1>2, <1>6
  <2>2. SubSeq(left, 1, n - i) = left
    BY <1>1, SubSeqFull
  <2>3. t # left
    BY <1>1, <1>2, <2>1 DEF k
  <2>4. ~OccursAt(s, t, i)
    BY <1>6 DEF OccursAt, k, n
  <2>5. Holds(IntMathLessThan(Strlen(left), Strlen(t)))
    BY <1>2, <1>3, <2>1, HoldsLess
  <2> QED  BY <1>4, <2>1, <2>2, <2>3, <2>4, <2>5 DEF left, k, n
<1> QED  BY <1>5, <1>6

(* A step up of an index. *)
LEMMA NatIncrement ==
  ASSUME NEW n \in Nat
  PROVE  IntMathIncrement(Decimal[n]) = Decimal[n + 1]
BY IncrementIs, NatOperand, NumeralOfNat, n + 1 \in Nat

(* Where the loop ends: at an occurrence, or when what would be left next is *)
(* too short for one; the last turn of all leaves nothing.                   *)
EndsAt(s, t, i) == OccursAt(s, t, i) \/ (IF i < Len(s) THEN Len(s) - (i + 1) < Len(t) ELSE t # <<>>)

FirstEnd(s, t, i) ==
  i \in 0..Len(s) /\ EndsAt(s, t, i) /\ \A j \in 0..(i - 1) : ~EndsAt(s, t, j)

(* The index at which the loop ends, or the length of what it leaves then. *)
LEMMA FindEnds ==
  ASSUME NEW s \in Seq(Chars), NEW t \in Seq(Chars)
  PROVE  \E i \in Nat :
           /\ FirstEnd(s, t, i)
           /\ PoiCoreFind(s, t) = IF OccursAt(s, t, i) THEN Decimal[i]
                                  ELSE Decimal[IF i < Len(s) THEN Len(s) - (i + 1) ELSE 0]
<1> DEFINE n == Len(s)
           Left(i) == SubSeq(s, i + 1, n)
           C == CHOOSE f : f = [i \in Nat |-> IF i = 0 THEN <<0>> ELSE IntMathIncrement(f[i - 1])]
           Found(i) == t = Substring(Left(i), <<0>>, Strlen(t))
           TooShort(i) == Holds(IntMathLessThan(Strlen(Left(i)), Strlen(t)))
           Ends(i) == /\ Found(i) \/ TooShort(i + 1)
                      /\ \A j \in 0..(i - 1) : ~Found(j) /\ ~TooShort(j + 1)
           last == CHOOSE i \in 0..n : Ends(i)
<1>1. PoiCoreFind(s, t) = IF Found(last) THEN C[last] ELSE Strlen(Left(last + 1))
  BY DEF PoiCoreFind
<1>2. n \in Nat
  OBVIOUS
<1>3. ASSUME NEW i \in 0..n
      PROVE  Found(i) <=> OccursAt(s, t, i)
  BY FoundIs
<1>4. ASSUME NEW i \in 0..n
      PROVE  /\ TooShort(i + 1) <=> (IF i < n THEN n - (i + 1) < Len(t) ELSE t # <<>>)
             /\ Strlen(Left(i + 1)) = Decimal[IF i < n THEN n - (i + 1) ELSE 0]
  <2>1. CASE i < n
    <3> DEFINE k == i + 1
    <3>1. k \in 0..n
      BY <1>2, <2>1
    <3>2. Len(Left(k)) = n - k
      <4> HIDE DEF k
      <4> QED  BY <1>2, <3>1, PieceOfPiece
    <3>3. TooShort(k) <=> n - k < Len(t)
      <4> HIDE DEF k
      <4> QED  BY <3>1, FoundIs
    <3>4. Strlen(Left(k)) = Decimal[n - k]
      <4> HIDE DEF Left, k, n
      <4> QED  BY <3>2 DEF Strlen
    <3> HIDE DEF TooShort, Left, n
    <3> QED  BY <2>1, <3>3, <3>4
  <2>2. CASE ~(i < n)
    <3>1. Left(i + 1) = <<>>
      BY <1>2, <2>2, SubSeqEmpty
    <3>2. Strlen(<<>>) = Decimal[0]
      BY DEF Strlen
    <3>3. Strlen(t) = Decimal[Len(t)] /\ Len(t) \in Nat /\ (0 < Len(t) <=> t # <<>>)
      BY DEF Strlen
    <3> DEFINE k == Len(t)
    <3>4. k \in Nat /\ (0 < k <=> t # <<>>) /\ Strlen(t) = Decimal[k]
      BY <3>3
    <3> HIDE DEF Left, k, n
    <3>5. TooShort(i + 1) <=> 0 < k
      BY <3>1, <3>2, <3>4, HoldsLess, 0 \in Nat
    <3> HIDE DEF TooShort
    <3> QED  BY <2>2, <3>1, <3>2, <3>4, <3>5
  <2> QED  BY <2>1, <2>2
<1>5. ASSUME NEW i \in 0..n
      PROVE  Found(i) \/ TooShort(i + 1) <=> EndsAt(s, t, i)
  <2> HIDE DEF Found, TooShort
  <2> QED  BY <1>3, <1>4 DEF EndsAt
<1>6. ASSUME NEW i \in 0..n
      PROVE  Ends(i) <=> FirstEnd(s, t, i)
  <2>1. \A j \in 0..(i - 1) : j \in 0..n
    BY <1>2
  <2> HIDE DEF Found, TooShort
  <2> QED  BY <1>5, <2>1 DEF FirstEnd
<1>7. \E i \in 0..n : FirstEnd(s, t, i)
  <2> DEFINE T == {i \in 0..n : EndsAt(s, t, i)}
  <2>1. T \subseteq Nat
    BY <1>2
  <2>2. T # {}
    <3>1. CASE t # <<>>
      <4>1. n \in 0..n /\ EndsAt(s, t, n)
        BY <1>2, <3>1 DEF EndsAt
      <4> QED  BY <4>1
    <3>2. CASE t = <<>>
      <4>1. Len(t) = 0 /\ SubSeq(s, 0 + 1, 0 + 0) = <<>>
        BY <3>2, SubSeqEmpty
      <4>2. EndsAt(s, t, 0)
        BY <1>2, <3>2, <4>1 DEF EndsAt, OccursAt
      <4> QED  BY <1>2, <4>2
    <3> QED  BY <3>1, <3>2
  <2>3. PICK i \in T : \A j \in T : i <= j
    <3> HIDE DEF T
    <3> QED  BY <2>1, <2>2, Least
  <2>4. \A j \in 0..(i - 1) : ~EndsAt(s, t, j)
    <3> SUFFICES ASSUME NEW j \in 0..(i - 1), EndsAt(s, t, j)
                 PROVE  FALSE
      OBVIOUS
    <3>1. j \in T /\ j < i /\ j \in Nat /\ i \in Nat
      BY <1>2
    <3> QED  BY <2>3, <3>1
  <2> QED  BY <2>3, <2>4 DEF FirstEnd
<1>8. last \in 0..n /\ Ends(last)
  <2>1. \E i \in 0..n : Ends(i)
    <3> HIDE DEF Ends
    <3> QED  BY <1>6, <1>7
  <2> HIDE DEF Ends
  <2> QED  BY <2>1
<1> HIDE DEF Ends, last
<1>9. FirstEnd(s, t, last) /\ last \in Nat
  BY <1>2, <1>6, <1>8
<1>10. \A i \in Nat : C[i] = Decimal[i]
  <2> DEFINE F == [i \in Nat |-> Decimal[i]]
             G(f) == [i \in Nat |-> IF i = 0 THEN <<0>> ELSE IntMathIncrement(f[i - 1])]
             S == {i \in Nat : C[i] = Decimal[i]}
  <2>1. Decimal[0] = <<0>>
    BY OneDigit, 0 \in 0..9
  <2>2. \A i \in Nat : Decimal[i] = IF i = 0 THEN <<0>> ELSE IntMathIncrement(F[i - 1])
    <3> SUFFICES ASSUME NEW i \in Nat, i # 0
                 PROVE  Decimal[i] = IntMathIncrement(F[i - 1])
      BY <2>1
    <3> DEFINE k == i - 1
    <3>1. k \in Nat /\ k + 1 = i
      OBVIOUS
    <3> HIDE DEF k
    <3>2. F[k] = Decimal[k]
      BY <3>1
    <3> HIDE DEF F
    <3>3. Decimal[i] = IntMathIncrement(F[k])
      BY <3>1, <3>2, NatIncrement
    <3> QED  BY <3>3 DEF k
  <2>3. F = G(F)
    BY <2>2
  <2>4. C = G(C)
    <3> HIDE DEF F
    <3> QED  BY <2>3
  <2> HIDE DEF C
  <2>5. 0 \in S
    BY <2>1, <2>4
  <2>6. ASSUME NEW i \in Nat, i \in S
        PROVE  i + 1 \in S
    <3>1. C[i + 1] = IntMathIncrement(C[i])
      <4>1. i + 1 \in Nat /\ i + 1 # 0 /\ (i + 1) - 1 = i
        OBVIOUS
      <4> QED  BY <2>4, <4>1
    <3>2. C[i] = Decimal[i]
      BY <2>6
    <3> QED  BY <3>1, <3>2, NatIncrement
  <2>7. Nat \subseteq S
    <3> HIDE DEF S
    <3> QED  BY <2>5, <2>6, SetInduction
  <2> QED  BY <2>7
<1> HIDE DEF C
<1>11. PoiCoreFind(s, t) = IF OccursAt(s, t, last) THEN Decimal[last]
                           ELSE Decimal[IF last < n THEN n - (last + 1) ELSE 0]
  <2>1. Found(last) <=> OccursAt(s, t, last)
    BY <1>3, <1>8
  <2>2. Strlen(Left(last + 1)) = Decimal[IF last < n THEN n - (last + 1) ELSE 0]
    BY <1>4, <1>8
  <2> HIDE DEF Found, Left
  <2> QED  BY <1>1, <1>9, <1>10, <2>1, <2>2
<1> QED  BY <1>9, <1>11

(* What PoiCoreFind gives when there is no occurrence. *)
Missed(s, t) == IF Len(s) < Len(t) THEN IF s = <<>> THEN 0 ELSE Len(s) - 1 ELSE Len(t) - 1

(* The first occurrence, or how much the loop has left of s. *)
LEMMA FindIs ==
  ASSUME NEW s \in Seq(Chars), NEW t \in Seq(Chars)
  PROVE  \E v \in Nat :
           /\ PoiCoreFind(s, t) = Decimal[v] /\ v <= Len(s)
           /\ \/ OccursAt(s, t, v) /\ \A j \in Nat : OccursAt(s, t, j) => v <= j
              \/ v = Missed(s, t) /\ \A j \in Nat : ~OccursAt(s, t, j)
<1> DEFINE n == Len(s)
           k == Len(t)
<1>1. PICK i \in Nat :
           /\ FirstEnd(s, t, i)
           /\ PoiCoreFind(s, t) = IF OccursAt(s, t, i) THEN Decimal[i]
                                  ELSE Decimal[IF i < n THEN n - (i + 1) ELSE 0]
  BY FindEnds
<1>2. /\ i <= n /\ EndsAt(s, t, i) /\ \A j \in Nat : j < i => ~EndsAt(s, t, j)
  BY <1>1 DEF FirstEnd
<1>3. n \in Nat /\ k \in Nat /\ (s = <<>> <=> n = 0) /\ (t = <<>> <=> k = 0)
  OBVIOUS
<1>4. \A j \in Nat : OccursAt(s, t, j) => j + k <= n /\ EndsAt(s, t, j)
  BY DEF OccursAt, EndsAt
<1>5. \A j \in Nat : EndsAt(s, t, j) <=> OccursAt(s, t, j) \/ (IF j < n THEN n - (j + 1) < k ELSE k # 0)
  BY <1>3 DEF EndsAt
<1>6. k = 0 => \A j \in Nat : j <= n => OccursAt(s, t, j)
  <2> SUFFICES ASSUME k = 0, NEW j \in Nat, j <= n
               PROVE  OccursAt(s, t, j)
    OBVIOUS
  <2>1. SubSeq(s, j + 1, j + k) = <<>> /\ t = <<>>
    BY <1>3, SubSeqEmpty
  <2> QED  BY <1>3, <2>1 DEF OccursAt
<1> HIDE DEF n, k
<1>7. CASE OccursAt(s, t, i)
  <2>1. \A j \in Nat : OccursAt(s, t, j) => i <= j
    BY <1>2, <1>4
  <2> QED  BY <1>1, <1>2, <1>7, <2>1 DEF n
<1>8. CASE ~OccursAt(s, t, i)
  <2> DEFINE v == IF i < n THEN n - (i + 1) ELSE 0
  <2>1. v \in Nat /\ v <= n
    BY <1>2, <1>3
  <2>2. IF i < n THEN n - (i + 1) < k ELSE k # 0
    BY <1>2, <1>5, <1>8
  <2>3. k # 0
    BY <1>2, <1>6, <1>8
  <2>4. ASSUME NEW j \in Nat, OccursAt(s, t, j)
        PROVE  FALSE
    <3>1. j + k <= n /\ ~(j < i) /\ j # i
      BY <1>2, <1>4, <1>8, <2>4
    <3> QED  BY <1>2, <1>3, <2>2, <2>3, <3>1
  <2>5. v = IF n < k THEN IF n = 0 THEN 0 ELSE n - 1 ELSE k - 1
    <3>1. CASE n < k
      <4>1. EndsAt(s, t, 0)
        BY <1>3, <1>5, <2>3, <3>1
      <4>2. i = 0
        BY <1>2, <4>1
      <4> QED  BY <1>3, <3>1, <4>2
    <3>2. CASE ~(n < k)
      <4> DEFINE j == n - k
      <4>1. j \in Nat /\ j < n /\ n - (j + 1) < k
        BY <1>3, <2>3, <3>2
      <4>2. EndsAt(s, t, j)
        <5> HIDE DEF j
        <5> QED  BY <1>5, <4>1
      <4>3. i <= j
        <5> HIDE DEF j
        <5> QED  BY <1>2, <4>1, <4>2
      <4>4. i = n - k
        BY <1>3, <2>2, <4>1, <4>3
      <4> QED  BY <1>3, <2>3, <3>2, <4>4
    <3> QED  BY <3>1, <3>2
  <2>6. v = Missed(s, t)
    BY <1>3, <2>5 DEF Missed, n, k
  <2>7. PoiCoreFind(s, t) = Decimal[v]
    BY <1>1, <1>8 DEF n
  <2> HIDE DEF v
  <2> QED  BY <2>1, <2>4, <2>6, <2>7 DEF n
<1> QED  BY <1>7, <1>8

(* The texts that PoiCoreFindBetween takes for its bounds are read as the    *)
(* texts it is given: digits as their number, anything else as the default.  *)
LEMMA StartIs ==
  ASSUME NEW start_ \in Seq(Chars)
  PROVE  LET from == IF IsNonNegativeInt(start_) THEN start_ ELSE <<0>>
         IN  /\ Bound(start_, 0) \in Nat /\ Bound(from, 0) = Bound(start_, 0)
             /\ StripLeadingZeroes(from) = Numeral(Bound(start_, 0))
<1> DEFINE t == start_
<1>1. AllDigits(t) <=> t \in Seq(0..9)
  BY AllDigitsAre
<1>2. Decimal[0] = <<0>> /\ Bound(<<0>>, 0) = 0 /\ StripLeadingZeroes(<<0>>) = Numeral(0)
  <2>1. Decimal[0] = <<0>>
    BY OneDigit, 0 \in 0..9
  <2> QED  BY <2>1, BoundIs, NatOperand, 0 \in Nat
<1>3. CASE t # <<>> /\ AllDigits(t)
  <2>1. t \in Seq(0..9) /\ t # <<>> /\ ~StartsWithNegative(t)
    BY <1>1, <1>3, DigitsHaveNoSign
  <2>2. Digits(t) = t
    BY <2>1, DigitsProperties
  <2>3. IsNumeral(t) /\ NumberOf(t) = Value[t] /\ Value[t] \in Nat
    BY <2>1, <2>2, NumberOfProperties
  <2>4. IsNonNegativeInt(t)
    BY <2>3, NonNegativeIs
  <2>5. Bound(t, 0) = Value[t]
    BY <1>3 DEF Bound
  <2>6. StripLeadingZeroes(t) = Numeral(Value[t])
    BY <2>1, <2>3, StripOfDigits, NumeralOfNat
  <2> QED  BY <2>3, <2>4, <2>5, <2>6
<1>4. CASE ~(t # <<>> /\ AllDigits(t))
  <2>1. Bound(t, 0) = 0
    BY <1>4 DEF Bound
  <2>2. CASE IsNonNegativeInt(t)
    <3>1. IsNumeral(t) /\ NumberOf(t) >= 0
      BY <2>2, NonNegativeIs
    <3>2. StartsWithNegative(t)
      <4>1. ~StartsWithNegative(t) => Digits(t) = t
        BY DigitsProperties
      <4> QED  BY <1>1, <1>4, <3>1, <4>1, NumberOfProperties
    <3>3. NumberOf(t) = 0
      <4>1. Value[Digits(t)] \in Nat /\ NumberOf(t) = -Value[Digits(t)]
        BY <3>1, <3>2, NumberOfProperties
      <4> QED  BY <3>1, <4>1
    <3>4. StripLeadingZeroes(t) = Numeral(0)
      BY <3>1, <3>3, StripOfNumeral
    <3> QED  BY <2>1, <2>2, <3>4, 0 \in Nat
  <2>3. CASE ~IsNonNegativeInt(t)
    BY <1>2, <2>1, <2>3, 0 \in Nat
  <2> QED  BY <2>2, <2>3
<1> QED  BY <1>3, <1>4

(* The end that PoiCoreFindBetween takes. *)
LEMMA EndIs ==
  ASSUME NEW end_ \in Seq(Chars), NEW n \in Nat
  PROVE  LET to == IF IsNonNegativeInt(end_) THEN end_ ELSE Decimal[n]
         IN  Bound(end_, n) \in Nat /\ Bound(to, n) = Bound(end_, n)
<1> DEFINE t == end_
<1>1. CASE t # <<>> /\ AllDigits(t)
  <2>1. t \in Seq(0..9) /\ t # <<>> /\ ~StartsWithNegative(t)
    BY <1>1, AllDigitsAre, DigitsHaveNoSign
  <2>2. Digits(t) = t
    BY <2>1, DigitsProperties
  <2>3. IsNumeral(t) /\ NumberOf(t) = Value[t] /\ Value[t] \in Nat
    BY <2>1, <2>2, NumberOfProperties
  <2>4. IsNonNegativeInt(t)
    BY <2>3, NonNegativeIs
  <2> QED  BY <1>1, <2>3, <2>4 DEF Bound
<1>2. CASE ~(t # <<>> /\ AllDigits(t))
  <2>1. Bound(t, n) = n
    BY <1>2 DEF Bound
  <2> QED  BY <2>1, BoundIs
<1> QED  BY <1>1, <1>2

(* An occurrence between two indices. *)
Within(s, t, F, T, j) == OccursAt(s, t, j) /\ F <= j /\ j + Len(t) <= T

(* The search between two indices returns v, counted from the first of them, *)
(* or that there is none; no occurrence is further left.                    *)
Returns(s, t, F, T, index, v) ==
  LET to == IF T < Len(s) THEN T ELSE Len(s)
      room == IF F < to THEN to - F ELSE 0
  IN  /\ index = IF v = room THEN Decimal[Len(s)] ELSE Decimal[v + F]
      /\ v <= room
      /\ t # <<>> => \A j \in Nat : Within(s, t, F, T, j) => v + F <= j

(* What PoiCoreFindBetween returns, for any texts and any bounds, numbers or not. *)
LEMMA FindBetweenIs ==
  ASSUME NEW s \in Seq(Chars), NEW t \in Seq(Chars), NEW b \in Seq(Chars), NEW e \in Seq(Chars)
  PROVE  /\ Bound(b, 0) \in Nat /\ Bound(e, Len(s)) \in Nat
         /\ \E v \in Nat : Returns(s, t, Bound(b, 0), Bound(e, Len(s)), PoiCoreFindBetween(s, t, b, e), v)
<1> DEFINE n == Len(s)
           k == Len(t)
           F == Bound(b, 0)
           T == Bound(e, n)
           from == IF IsNonNegativeInt(b) THEN b ELSE <<0>>
           to == IF IsNonNegativeInt(e) THEN e ELSE Strlen(s)
           m == IF T < n THEN T ELSE n
           room == IF F < m THEN m - F ELSE 0
           part == SubSeq(s, F + 1, m)
           index == PoiCoreFind(part, t)
<1>1. n \in Nat /\ k \in Nat /\ (t # <<>> => k > 0)
  OBVIOUS
<1>2. F \in Nat /\ Bound(from, 0) = F /\ StripLeadingZeroes(from) = Numeral(F)
  BY StartIs
<1>3. T \in Nat /\ Bound(to, n) = T
  <2>1. Strlen(s) = Decimal[n]
    BY DEF Strlen
  <2> QED  BY <1>1, <2>1, EndIs
<1>4. PoiCoreFindBetween(s, t, b, e) =
        IF index = Strlen(part) THEN Strlen(s) ELSE IntMathAdd(index, from)
  <2>1. Substring(s, from, to) = part
    <3> HIDE DEF from, to
    <3> QED  BY <1>2, <1>3 DEF Substring
  <2> HIDE DEF part
  <2> QED  BY <2>1 DEF PoiCoreFindBetween, IndexInWhole
<1>5. part \in Seq(Chars) /\ Len(part) = room
  <2>1. m \in Nat /\ m <= n
    BY <1>1, <1>3
  <2> HIDE DEF m, F
  <2>2. F + 1 \in Int /\ m \in Int /\ \A j \in (F + 1)..m : s[j] \in Chars
    BY <1>2, <2>1
  <2>3. part \in Seq(Chars) /\ Len(part) = IF F + 1 <= m THEN m - (F + 1) + 1 ELSE 0
    BY <2>2, SubSeqProperties
  <2> QED  BY <1>2, <2>1, <2>3
<1>6. PICK v \in Nat : /\ index = Decimal[v] /\ v <= Len(part)
                       /\ \/ OccursAt(part, t, v) /\ \A j \in Nat : OccursAt(part, t, j) => v <= j
                          \/ v = Missed(part, t) /\ \A j \in Nat : ~OccursAt(part, t, j)
  <2> HIDE DEF part
  <2> QED  BY <1>5, FindIs
<1>7. PoiCoreFindBetween(s, t, b, e) = IF v = room THEN Decimal[n] ELSE Decimal[v + F]
  <2>1. room \in Nat
    BY <1>1, <1>2, <1>3
  <2>2. Strlen(part) = Decimal[room] /\ Strlen(s) = Decimal[n]
    <3> HIDE DEF part, room
    <3> QED  BY <1>5 DEF Strlen
  <2> HIDE DEF room, part, n, from, index, F
  <2>3. index = Strlen(part) <=> v = room
    BY <1>6, <2>1, <2>2, DecimalInjective
  <2>4. IntMathAdd(index, from) = Decimal[v + F]
    <3>1. StripLeadingZeroes(index) = Numeral(v) /\ F \in Int /\ v \in Int
      BY <1>2, <1>6, NatOperand
    <3>2. IntMathAdd(index, from) = Numeral(v + F)
      BY <1>2, <3>1, AddIs
    <3>3. v + F \in Nat
      BY <1>2
    <3> QED  BY <3>2, <3>3, NatOperand
  <2> QED  BY <1>4, <2>2, <2>3, <2>4
<1>8. ASSUME t # <<>>, NEW j \in Nat, Within(s, t, F, T, j)
      PROVE  v + F <= j
  <2> DEFINE i == j - F
  <2>1. k > 0 /\ j + k <= n /\ SubSeq(s, j + 1, j + k) = t /\ F <= j /\ j + k <= T
    BY <1>1, <1>8 DEF Within, OccursAt
  <2>2. m \in Nat /\ m <= n /\ j + k <= m
    BY <1>1, <1>3, <2>1
  <2> HIDE DEF m, F, T, n, k
  <2>3. /\ i \in Nat /\ i + k <= room /\ F + 1 \in 1..n /\ m \in 1..n
        /\ i + 1 \in 1..(m - (F + 1) + 1) /\ i + k \in 1..(m - (F + 1) + 1)
        /\ (F + 1) + (i + 1) - 1 = j + 1 /\ (F + 1) + (i + k) - 1 = j + k
    BY <1>1, <1>2, <2>1, <2>2
  <2> HIDE DEF i, room
  <2>4. SubSeq(part, i + 1, i + k) = SubSeq(s, (F + 1) + (i + 1) - 1, (F + 1) + (i + k) - 1)
    <3> DEFINE x == F + 1
               y == i + 1
               z == i + k
    <3>1. x \in 1..Len(s) /\ m \in 1..Len(s) /\ y \in 1..(m - x + 1) /\ z \in 1..(m - x + 1)
      BY <2>3 DEF n
    <3> HIDE DEF x, y, z
    <3>2. SubSeq(SubSeq(s, x, m), y, z) = SubSeq(s, x + y - 1, x + z - 1)
      BY <3>1, SubSeqOfSubSeq
    <3> QED  BY <3>2 DEF x, y, z
  <2> HIDE DEF part
  <2>5. OccursAt(part, t, i)
    BY <1>5, <2>1, <2>3, <2>4 DEF OccursAt, k
  <2>6. v <= i
    BY <1>6, <2>3, <2>5
  <2> QED  BY <1>2, <2>1, <2>6 DEF i
<1> HIDE DEF index, part, F, T, from, to
<1>9. Returns(s, t, F, T, PoiCoreFindBetween(s, t, b, e), v)
  BY <1>5, <1>6, <1>7, <1>8 DEF Returns
<1> QED  BY <1>2, <1>3, <1>9 DEF F, T

-----------------------------------------------------------------------------
(* The parts of a quotient with a remainder *)

(* Two texts around a character. *)
LEMMA SeparatedText ==
  ASSUME NEW u \in Seq(Chars), NEW w \in Seq(Chars), NEW c \in Chars
  PROVE  LET x == u \o <<c>> \o w
         IN  /\ x \in Seq(Chars) /\ Len(x) = Len(u) + 1 + Len(w)
             /\ x[Len(u) + 1] = c /\ \A i \in 1..Len(u) : x[i] = u[i]
             /\ SubSeq(x, 1, Len(u)) = u /\ SubSeq(x, Len(u) + 2, Len(x)) = w
<1> DEFINE v == u \o <<c>>
           x == v \o w
           l == Len(u)
           m == Len(w)
<1>1. l \in Nat /\ m \in Nat
  OBVIOUS
<1>2. /\ v \in Seq(Chars) /\ Len(v) = l + 1 /\ v[l + 1] = c /\ \A i \in 1..l : v[i] = u[i]
  <2>1. v = Append(u, c)
    BY AppendIsConcat
  <2> HIDE DEF v
  <2> QED  BY <2>1, AppendProperties
<1> HIDE DEF v
<1>3. /\ x \in Seq(Chars) /\ Len(x) = (l + 1) + m
      /\ \A i \in 1..(l + 1 + m) : x[i] = IF i <= l + 1 THEN v[i] ELSE w[i - (l + 1)]
  <2> DEFINE k == Len(v)
  <2>1. /\ x \in Seq(Chars) /\ Len(x) = k + m
        /\ \A i \in 1..(k + m) : x[i] = IF i <= k THEN v[i] ELSE w[i - k]
    BY <1>2, ConcatProperties
  <2>2. k = l + 1
    BY <1>2
  <2> HIDE DEF k, l, m, x
  <2> QED  BY <2>1, <2>2
<1> HIDE DEF x
<1>4. x[l + 1] = c /\ \A i \in 1..l : x[i] = u[i]
  <2>1. l + 1 \in 1..(l + 1 + m) /\ \A i \in 1..l : i \in 1..(l + 1 + m) /\ i <= l + 1
    BY <1>1
  <2> HIDE DEF l, m
  <2> QED  BY <1>2, <1>3, <2>1, l + 1 <= l + 1
<1> DEFINE y == SubSeq(x, 1, l)
           z == SubSeq(x, l + 2, Len(x))
           n == l + 1 + m
<1>5. n \in Nat /\ Len(x) = n /\ \A i \in 1..n : x[i] \in Chars
  BY <1>1, <1>3
<1>6. y = u
  <2>1. 1 \in Int /\ l \in Int /\ \A i \in 1..l : x[i] \in Chars
    BY <1>1, <1>4
  <2>2. /\ y \in Seq(Chars) /\ Len(y) = IF 1 <= l THEN l - 1 + 1 ELSE 0
        /\ \A i \in 1..(l - 1 + 1) : y[i] = x[1 + i - 1]
    BY <2>1, SubSeqProperties
  <2> HIDE DEF y, l
  <2>3. Len(y) = l /\ \A i \in 1..l : y[i] = u[i]
    <3>1. Len(y) = l
      BY <1>1, <2>2
    <3>2. ASSUME NEW i \in 1..l
          PROVE  y[i] = u[i]
      <4>1. i \in 1..(l - 1 + 1) /\ 1 + i - 1 = i
        BY <1>1
      <4> QED  BY <1>4, <2>2, <4>1
    <3> QED  BY <3>1, <3>2
  <2> QED  BY <2>2, <2>3, SeqEqual DEF l
<1>7. z = w
  <2>1. l + 2 \in Int /\ n \in Int /\ \A i \in (l + 2)..n : x[i] \in Chars
    BY <1>1, <1>5
  <2> DEFINE z2 == SubSeq(x, l + 2, n)
  <2>2. /\ z2 \in Seq(Chars) /\ Len(z2) = IF l + 2 <= n THEN n - (l + 2) + 1 ELSE 0
        /\ \A i \in 1..(n - (l + 2) + 1) : z2[i] = x[(l + 2) + i - 1]
    BY <2>1, SubSeqProperties
  <2>3. z = z2
    BY <1>5
  <2> HIDE DEF z2, l, m, z
  <2>4. Len(z2) = m
    BY <1>1, <2>2
  <2>5. ASSUME NEW i \in 1..m
        PROVE  z2[i] = w[i]
    <3>1. /\ i \in 1..(n - (l + 2) + 1) /\ (l + 2) + i - 1 = l + 1 + i /\ l + 1 + i \in 1..(l + 1 + m)
          /\ ~(l + 1 + i <= l + 1) /\ (l + 1 + i) - (l + 1) = i
      BY <1>1
    <3> QED  BY <1>3, <2>2, <3>1
  <2>6. z2 = w
    BY <2>2, <2>4, <2>5, SeqEqual DEF m
  <2> QED  BY <2>3, <2>6
<1> HIDE DEF y, z
<1>8. Len(x) = l + 1 + m
  BY <1>3
<1> QED  BY <1>3, <1>4, <1>6, <1>7, <1>8 DEF x, v, y, z

(* The notation of an integer has no separator. *)
LEMMA NoSeparator ==
  ASSUME NEW n \in Int
  PROVE  Numeral(n) \in Seq(Chars) /\ \A i \in 1..Len(Numeral(n)) : Numeral(n)[i] # Sep
<1>1. ASSUME NEW k \in Nat
      PROVE  \A i \in 1..Len(Decimal[k]) : Decimal[k][i] # Sep
  BY DecimalDigits, DigitsAreChars
<1>2. CASE n < 0
  <2> DEFINE d == Decimal[-n]
             u == <<Minus>>
             t == u \o d
  <2>1. t = Numeral(n) /\ -n \in Nat
    BY <1>2, OperandIs
  <2>2. d \in Seq(Chars) /\ u \in Seq(Chars) /\ Len(u) = 1 /\ u[1] = Minus /\ \A i \in 1..Len(d) : d[i] # Sep
    BY <1>1, <2>1, DecimalDigits, DigitsAreChars
  <2> HIDE DEF d, u
  <2> DEFINE k == Len(u)
             l == Len(d)
  <2>3. /\ Len(t) = k + l /\ \A i \in 1..(k + l) : t[i] = IF i <= k THEN u[i] ELSE d[i - k]
    BY <2>2, ConcatProperties
  <2>4. k = 1 /\ l \in Nat
    BY <2>2
  <2>5. \A i \in 1..l : d[i] # Sep
    BY <2>2
  <2> HIDE DEF t, k, l
  <2>6. \A i \in 1..Len(t) : t[i] # Sep
    <3> SUFFICES ASSUME NEW i \in 1..(1 + l)
                 PROVE  t[i] # Sep
      BY <2>3, <2>4
    <3>1. CASE i = 1
      BY <2>2, <2>3, <2>4, <3>1, DigitsAreChars
    <3>2. CASE i # 1
      <4>1. i - 1 \in 1..l /\ ~(i <= 1)
        BY <2>4, <3>2
      <4> QED  BY <2>3, <2>4, <2>5, <4>1
    <3> QED  BY <3>1, <3>2
  <2> QED  BY <2>1, <2>6, OperandIs
<1>3. CASE ~(n < 0)
  BY <1>1, <1>3, OperandIs
<1> QED  BY <1>2, <1>3

(* Both sides of the first separator are found again. *)
LEMMA PartsAre ==
  ASSUME NEW u \in Seq(Chars), NEW w \in Seq(Chars), \A i \in 1..Len(u) : u[i] # Sep
  PROVE  Parts(u \o <<Sep>> \o w) =
           IF Refused(w, u) THEN [quotient |-> ErrorText, remainder |-> ErrorText]
           ELSE [quotient |-> u, remainder |-> w]
<1> DEFINE x == u \o <<Sep>> \o w
           l == Len(u)
           n == Len(x)
           index == PoiCoreFind(x, <<Sep>>)
<1>1. u \in Seq(Chars) /\ w \in Seq(Chars) /\ (\A i \in 1..l : u[i] # Sep) /\ Sep \in Chars
  BY DigitsAreChars
<1>3. /\ x \in Seq(Chars) /\ n = l + 1 + Len(w)
      /\ x[l + 1] = Sep /\ \A i \in 1..l : x[i] = u[i]
      /\ SubSeq(x, 1, l) = u /\ SubSeq(x, l + 2, n) = w
  BY <1>1, SeparatedText
<1>4. l \in Nat /\ Len(w) \in Nat
  BY <1>1
<1>5. n \in Nat /\ l < n
  BY <1>3, <1>4
<1> HIDE DEF x, l, n
<1>6. <<Sep>> \in Seq(Chars) /\ Len(<<Sep>>) = 1
  BY <1>1
<1>7. ASSUME NEW i \in Nat
      PROVE  OccursAt(x, <<Sep>>, i) <=> i < n /\ x[i + 1] = Sep
  <2>1. CASE ~(i < n)
    BY <1>5, <1>6, <2>1 DEF OccursAt, n
  <2>2. CASE i < n
    <3> DEFINE y == SubSeq(x, i + 1, i + 1)
    <3>1. i + 1 \in Int /\ \A j \in (i + 1)..(i + 1) : x[j] \in Chars
      BY <1>3, <2>2 DEF n
    <3>2. /\ y \in Seq(Chars) /\ Len(y) = IF i + 1 <= i + 1 THEN i + 1 - (i + 1) + 1 ELSE 0
          /\ \A j \in 1..(i + 1 - (i + 1) + 1) : y[j] = x[(i + 1) + j - 1]
      BY <3>1, SubSeqProperties
    <3> HIDE DEF y
    <3>3. Len(y) = 1 /\ y[1] = x[i + 1]
      <4>1. i + 1 - (i + 1) + 1 = 1 /\ (i + 1) + 1 - 1 = i + 1 /\ i + 1 <= i + 1
        OBVIOUS
      <4>2. y[1] = x[(i + 1) + 1 - 1]
        BY <3>2, <4>1
      <4> QED  BY <3>2, <4>1, <4>2
    <3>4. y = <<Sep>> <=> x[i + 1] = Sep
      BY <3>2, <3>3
    <3>5. i + 1 <= n
      BY <1>5, <2>2
    <3> QED  BY <1>6, <2>2, <3>4, <3>5 DEF OccursAt, n, y
  <2> QED  BY <2>1, <2>2
<1>8. OccursAt(x, <<Sep>>, l)
  BY <1>3, <1>4, <1>5, <1>7
<1>9. PICK v \in Nat : /\ index = Decimal[v]
                       /\ OccursAt(x, <<Sep>>, v) /\ \A j \in Nat : OccursAt(x, <<Sep>>, j) => v <= j
  BY <1>3, <1>4, <1>6, <1>8, FindIs
<1>10. v = l
  <2>1. v <= l
    BY <1>4, <1>8, <1>9
  <2>2. v < l => x[v + 1] # Sep
    <3> SUFFICES ASSUME v < l
                 PROVE  x[v + 1] # Sep
      OBVIOUS
    <3>1. v + 1 \in 1..l
      BY <1>4
    <3> QED  BY <1>1, <1>3, <3>1
  <2>3. x[v + 1] = Sep
    BY <1>7, <1>9
  <2> QED  BY <1>4, <2>1, <2>2, <2>3
<1>11. index = Decimal[l]
  BY <1>9, <1>10
<1> HIDE DEF index
<1> DEFINE quotient == Substring(x, <<0>>, index)
           remainder == Substring(x, IntMathIncrement(index), <<>>)
<1>12. quotient = u
  <2>1. Decimal[0] = <<0>>
    BY OneDigit, 0 \in 0..9
  <2>2. Substring(x, Decimal[0], Decimal[l]) = SubSeq(x, 0 + 1, IF l < n THEN l ELSE n)
    BY <1>3, <1>4, SubstringIs, 0 \in Nat DEF n
  <2>3. (IF l < n THEN l ELSE n) = l /\ 0 + 1 = 1
    BY <1>4, <1>5
  <2> QED  BY <1>3, <1>11, <2>1, <2>2, <2>3
<1>13. remainder = w
  <2>1. IntMathIncrement(index) = Decimal[l + 1] /\ l + 1 \in Nat
    BY <1>4, <1>11, NatIncrement
  <2>2. Substring(x, Decimal[l + 1], <<>>) = SubSeq(x, (l + 1) + 1, n)
    BY <1>3, <1>4, <2>1, SubstringIs DEF n
  <2>3. (l + 1) + 1 = l + 2
    BY <1>4
  <2> QED  BY <1>3, <2>1, <2>2, <2>3
<1>14. index # Strlen(x)
  <2>1. Strlen(x) = Decimal[n]
    BY DEF Strlen, n
  <2> QED  BY <1>4, <1>5, <1>11, <2>1, DecimalInjective
<1> HIDE DEF quotient, remainder
<1>15. PartsAt(x, index) = IF Refused(w, u) THEN [quotient |-> ErrorText, remainder |-> ErrorText]
                            ELSE [quotient |-> u, remainder |-> w]
  BY <1>12, <1>13, <1>14 DEF PartsAt, quotient, remainder
<1> QED  BY <1>15 DEF Parts, index, x

(* Quotient and remainder are found again on both sides of the separator. *)
LEMMA PartsOf ==
  ASSUME NEW q \in Int, NEW r \in Int
  PROVE  Parts(Both(q, r)) = [quotient |-> Numeral(q), remainder |-> Numeral(r)]
<1> DEFINE u == Numeral(q)
           w == Numeral(r)
<1>1. u \in Seq(Chars) /\ w \in Seq(Chars) /\ \A i \in 1..Len(u) : u[i] # Sep
  BY NoSeparator
<1>2. ~Refused(w, u)
  BY NumeralReading DEF Refused
<1> HIDE DEF u, w
<1>3. Parts(u \o <<Sep>> \o w) = [quotient |-> u, remainder |-> w]
  BY <1>1, <1>2, PartsAre
<1> QED  BY <1>3 DEF Both, u, w

-----------------------------------------------------------------------------
(* Division of integers *)

(* The quotient rounded down, and the remainder, which has the sign of b. *)
Floored(a, b, q, r) ==
  /\ q \in Int /\ r \in Int /\ a = q * b + r
  /\ IF b > 0 THEN 0 <= r /\ r < b ELSE b < r /\ r <= 0

(* \div of the reference rounds down. *)
LEMMA DivIs ==
  ASSUME NEW a \in Int, NEW b \in Nat \ {0}, NEW q \in Int, NEW r \in Nat, a = q * b + r, r < b
  PROVE  a \div b = q
<1> DEFINE p == a \div b
           s == a % b
<1>1. p \in Int /\ s \in Nat /\ s < b /\ a = b * p + s
  OBVIOUS
<1> HIDE DEF p, s
<1>2. b * (p - q) = r - s
  BY <1>1
<1> DEFINE d == p - q
<1>3. d \in Int /\ b * d < b /\ -b < b * d
  BY <1>1, <1>2
<1>4. d = 0
  <2> HIDE DEF d
  <2>1. CASE d >= 1
    <3>1. b * d >= b
      BY <1>3, <2>1
    <3> QED  BY <1>3, <3>1
  <2>2. CASE d <= -1
    <3>1. b * d <= -b
      BY <1>3, <2>2
    <3> QED  BY <1>3, <3>1
  <2> QED  BY <1>3, <2>1, <2>2
<1>5. p = q
  BY <1>1, <1>4
<1> QED  BY <1>5 DEF p

(* The reference rounded down. *)
LEMMA FloorIs ==
  ASSUME NEW a \in Int, NEW b \in Int, b # 0, NEW q, NEW r, Floored(a, b, q, r)
  PROVE  Floor(a, b) = q
<1> USE DEF Floored
<1>1. CASE b > 0
  <2>1. b \in Nat \ {0} /\ r \in Nat /\ r < b /\ a = q * b + r /\ q \in Int
    BY <1>1
  <2>2. a \div b = q
    BY <2>1, DivIs
  <2> QED  BY <1>1, <2>2 DEF Floor
<1>2. CASE b < 0
  <2> DEFINE c == -b
             s == -r
             d == -a
  <2>1. c \in Nat \ {0} /\ s \in Nat /\ s < c /\ d \in Int /\ q \in Int
    BY <1>2
  <2>2. d = q * c + s
    <3>1. q * (-b) = -(q * b)
      BY <2>1
    <3> QED  BY <2>1, <3>1
  <2> HIDE DEF c, s, d
  <2>3. d \div c = q
    BY <2>1, <2>2, DivIs
  <2> QED  BY <1>2, <2>3 DEF Floor, c, d
<1> QED  BY <1>1, <1>2

(* The negated dividend: rounding up. *)
LEMMA CeilIs ==
  ASSUME NEW a \in Int, NEW b \in Int, b # 0, NEW q, NEW r, Floored(a, b, q, r)
  PROVE  -Floor(-a, b) = IF r = 0 THEN q ELSE q + 1
<1>1. q \in Int /\ r \in Int /\ a = q * b + r /\ IF b > 0 THEN 0 <= r /\ r < b ELSE b < r /\ r <= 0
  BY DEF Floored
<1> DEFINE d == -a
           p == IF r = 0 THEN -q ELSE (-q) - 1
           s == IF r = 0 THEN 0 ELSE b - r
<1>2. p \in Int /\ s \in Int /\ d \in Int
  BY <1>1
<1>3. d = p * b + s
  <2>1. (-q) * b = -(q * b) /\ ((-q) - 1) * b = -(q * b) - b
    BY <1>1
  <2> QED  BY <1>1, <2>1
<1>4. IF b > 0 THEN 0 <= s /\ s < b ELSE b < s /\ s <= 0
  BY <1>1
<1>5. Floored(d, b, p, s)
  <2> HIDE DEF d, p, s
  <2> QED  BY <1>2, <1>3, <1>4 DEF Floored
<1>6. Floor(d, b) = p
  <2> HIDE DEF d, p, s
  <2> QED  BY <1>2, <1>5, FloorIs
<1>7. -p = IF r = 0 THEN q ELSE q + 1
  BY <1>1
<1> HIDE DEF p
<1> QED  BY <1>6, <1>7

(* Whether the next integer is the rounded one. *)
Nearer(b, q, r) == r # 0 /\ (IF 2 * r = b THEN q < 0 ELSE (2 * r > b) # (b < 0))

(* The reference rounded to the nearest, halves towards zero. *)
LEMMA RoundIs ==
  ASSUME NEW a \in Int, NEW b \in Int, b # 0, NEW q, NEW r, Floored(a, b, q, r)
  PROVE  Round(a, b) = IF Nearer(b, q, r) THEN q + 1 ELSE q
<1>1. q \in Int /\ r \in Int /\ a = q * b + r /\ IF b > 0 THEN 0 <= r /\ r < b ELSE b < r /\ r <= 0
  BY DEF Floored
<1> DEFINE A == Magnitude(a)
           B == Magnitude(b)
           R == Magnitude(r)
           e == IF Nearer(b, q, r) THEN 1 ELSE 0
           nearest == -Floor(B - 2 * A, 2 * B)
<1>2. A \in Nat /\ B \in Nat \ {0} /\ R \in Nat /\ R < B
  BY <1>1 DEF Magnitude
<1>3. Round(a, b) = IF (a < 0) = (b < 0) THEN nearest ELSE -nearest
  BY DEF Round
<1>4. ASSUME NEW n \in Int, 0 <= 2 * (n * B) - 2 * A + B, 2 * (n * B) - 2 * A + B < 2 * B
      PROVE  nearest = n
  <2> DEFINE x == B - 2 * A
             y == 2 * B
             p == -n
             s == 2 * (n * B) - 2 * A + B
  <2> HIDE DEF A, B
  <2>1. x \in Int /\ y \in Int /\ y # 0 /\ y > 0 /\ p \in Int /\ s \in Int
    BY <1>2
  <2>2. x = p * y + s
    <3>1. (-n) * (2 * B) = -(2 * (n * B))
      BY <1>2
    <3>2. n * B \in Int
      BY <1>2
    <3> QED  BY <1>2, <3>1, <3>2
  <2>3. 0 <= s /\ s < y
    BY <1>4
  <2> HIDE DEF x, y, p, s
  <2>4. Floored(x, y, p, s)
    BY <2>1, <2>2, <2>3 DEF Floored
  <2>5. Floor(x, y) = p
    BY <2>1, <2>4, FloorIs
  <2>6. -p = n
    BY DEF p
  <2> QED  BY <2>5, <2>6 DEF x, y
<1> HIDE DEF nearest
<1>5. CASE (a < 0) = (b < 0)
  <2>1. A = q * B + R /\ q * B \in Int /\ q >= 0
    <3>1. CASE b > 0
      <4>1. A = a /\ B = b /\ R = r /\ a >= 0
        BY <1>1, <1>5, <3>1 DEF Magnitude
      <4>2. q >= 0
        <5>1. q <= -1 => q * b <= -b
          BY <1>1, <3>1
        <5> QED  BY <1>1, <3>1, <4>1, <5>1
      <4> QED  BY <1>1, <4>1, <4>2
    <3>2. CASE b < 0
      <4>1. A = -a /\ B = -b /\ R = -r /\ a < 0
        BY <1>1, <1>5, <3>2 DEF Magnitude
      <4>2. q * (-b) = -(q * b)
        BY <1>1
      <4>3. q >= 0
        <5>1. q <= -1 => q * b >= -b
          BY <1>1, <3>2
        <5> QED  BY <1>1, <3>2, <4>1, <5>1
      <4> QED  BY <1>1, <4>1, <4>2, <4>3
    <3> QED  BY <3>1, <3>2
  <2>2. e = IF 2 * R > B THEN 1 ELSE 0
    BY <1>1, <2>1 DEF Nearer, Magnitude
  <2> DEFINE n == q + e
  <2>3. n \in Int /\ n * B = q * B + e * B /\ e * B = IF 2 * R > B THEN B ELSE 0
    <3> HIDE DEF e
    <3>1. e \in Int /\ e * B = IF 2 * R > B THEN B ELSE 0
      BY <1>2, <2>2
    <3> QED  BY <1>1, <1>2, <3>1
  <2> HIDE DEF A, B, R, e, n
  <2>4. 0 <= 2 * (n * B) - 2 * A + B /\ 2 * (n * B) - 2 * A + B < 2 * B
    BY <1>2, <2>1, <2>3
  <2>5. nearest = n
    BY <1>4, <2>3, <2>4
  <2> QED  BY <1>1, <1>3, <1>5, <2>5 DEF n, e
<1>6. CASE (a < 0) # (b < 0)
  <2>1. A = (-q) * B - R /\ (-q) * B \in Int /\ (R # 0 => q < 0)
    <3>1. CASE b > 0
      <4>1. A = -a /\ B = b /\ R = r /\ a < 0
        BY <1>1, <1>6, <3>1 DEF Magnitude
      <4>2. (-q) * b = -(q * b)
        BY <1>1
      <4>3. q < 0
        <5>1. q >= 0 => q * b >= 0
          BY <1>1, <3>1
        <5> QED  BY <1>1, <4>1, <5>1
      <4> QED  BY <1>1, <4>1, <4>2, <4>3
    <3>2. CASE b < 0
      <4>1. A = a /\ B = -b /\ R = -r /\ a >= 0
        BY <1>1, <1>6, <3>2 DEF Magnitude
      <4>2. (-q) * (-b) = q * b
        BY <1>1
      <4>3. r # 0 => q < 0
        <5>1. q >= 0 => q * b <= 0
          BY <1>1, <3>2
        <5> QED  BY <1>1, <3>2, <4>1, <5>1
      <4> QED  BY <1>1, <4>1, <4>2, <4>3
    <3> QED  BY <3>1, <3>2
  <2>2. e = IF 2 * R >= B THEN 1 ELSE 0
    BY <1>1, <1>2, <2>1 DEF Nearer, Magnitude
  <2> DEFINE n == (-q) - e
  <2>3. n \in Int /\ n * B = (-q) * B - e * B /\ e * B = IF 2 * R >= B THEN B ELSE 0
    <3> HIDE DEF e
    <3>1. e \in Int /\ e * B = IF 2 * R >= B THEN B ELSE 0
      BY <1>2, <2>2
    <3> QED  BY <1>1, <1>2, <3>1
  <2> HIDE DEF A, B, R, n
  <2>4. 0 <= 2 * (n * B) - 2 * A + B /\ 2 * (n * B) - 2 * A + B < 2 * B
    BY <1>2, <2>1, <2>3
  <2>5. nearest = n
    BY <1>4, <2>3, <2>4
  <2>6. -n = q + e
    BY <1>1 DEF n
  <2> QED  BY <1>1, <1>3, <1>6, <2>5, <2>6 DEF e
<1> QED  BY <1>5, <1>6

-----------------------------------------------------------------------------
(* Division of texts *)

(* Three characters, one behind the other. *)
LEMMA ThreeChars ==
  ASSUME NEW q, NEW r, NEW s
  PROVE  <<q>> \o <<r>> \o <<s>> = <<q, r, s>>
<1> DEFINE S == {q, r, s}
           u == <<q>>
           v == <<r>>
           w == <<s>>
           a == <<q, r>>
           b == <<q, r, s>>
<1>1. u \in Seq(S) /\ v \in Seq(S) /\ w \in Seq(S) /\ r \in S /\ s \in S
  OBVIOUS
<1>2. a \in Seq(S) /\ Len(a) = 2 /\ a[1] = q /\ a[2] = r
  OBVIOUS
<1>3. b \in Seq(S) /\ Len(b) = 3 /\ b[1] = q /\ b[2] = r /\ b[3] = s
  OBVIOUS
<1> HIDE DEF S
<1>4. u \o v = a
  <2>1. u \o v = Append(u, r)
    BY <1>1, AppendIsConcat
  <2> QED  BY <2>1, TwoChars
<1> HIDE DEF u, v, a
<1> DEFINE c == Append(a, s)
<1>5. c \in Seq(S) /\ Len(c) = 3 /\ c[1] = q /\ c[2] = r /\ c[3] = s
  <2>1. c \in Seq(S) /\ Len(c) = Len(a) + 1 /\ c[Len(a) + 1] = s /\ \A i \in 1..Len(a) : c[i] = a[i]
    <3>1. a \in Seq(S) /\ s \in S
      BY <1>1, <1>2
    <3> QED  BY <3>1, AppendProperties
  <2> HIDE DEF c
  <2>2. Len(a) = 2 /\ 1 \in 1..2 /\ 2 \in 1..2 /\ 2 + 1 = 3
    BY <1>2
  <2> QED  BY <1>2, <2>1, <2>2
<1>6. a \o w = c
  BY <1>1, <1>2, AppendIsConcat
<1> HIDE DEF b, c, w
<1>7. \A i \in 1..3 : i = 1 \/ i = 2 \/ i = 3
  OBVIOUS
<1>8. b = c
  BY <1>3, <1>5, <1>7, SeqEqual
<1> QED  BY <1>4, <1>6, <1>8 DEF b, u, v, w

(* The notations for a quotient or a remainder of zero. *)
LEMMA WithZero ==
  /\ \A q \in Int : Numeral(q) \o <<Sep, 0>> = Both(q, 0)
  /\ \A r \in Int : <<0, Sep>> \o Numeral(r) = Both(0, r)
  /\ <<0, Sep, 0>> = Both(0, 0)
<1> DEFINE o == <<0>>
           s == <<Sep>>
<1>1. Sep \in Chars /\ 0 \in Chars
  BY DigitsAreChars, 0 \in 0..9
<1>2. o \in Seq(Chars) /\ s \in Seq(Chars)
  BY <1>1
<1>3. o \o s = <<0, Sep>>
  <2>1. o \o s = Append(o, Sep)
    BY <1>1, <1>2, AppendIsConcat
  <2> QED  BY <2>1, TwoChars
<1>4. s \o o = <<Sep, 0>>
  <2>1. s \o o = Append(s, 0)
    BY <1>1, <1>2, AppendIsConcat
  <2> QED  BY <2>1, TwoChars
<1>5. (o \o s) \o o = <<0, Sep, 0>>
  BY ThreeChars
<1>6. Numeral(0) = o
  BY OperandIs, 0 \in Int
<1> HIDE DEF o, s
<1>7. ASSUME NEW q \in Int
      PROVE  Numeral(q) \o <<Sep, 0>> = Both(q, 0)
  <2> DEFINE u == Numeral(q)
  <2>1. u \in Seq(Chars)
    BY NoSeparator
  <2> HIDE DEF u
  <2>2. (u \o s) \o o = u \o (s \o o)
    BY <1>2, <2>1, ConcatAssociative
  <2> QED  BY <1>4, <1>6, <2>2 DEF Both, u, s
<1>8. ASSUME NEW r \in Int
      PROVE  <<0, Sep>> \o Numeral(r) = Both(0, r)
  BY <1>3, <1>6 DEF Both, s
<1>9. <<0, Sep, 0>> = Both(0, 0)
  BY <1>5, <1>6 DEF Both, s
<1> QED  BY <1>7, <1>8, <1>9

(* Numbers without a sign, simple cases included. *)
LEMMA DirectlyIs ==
  ASSUME NEW a \in Nat, NEW b \in Nat \ {0}
  PROVE  \E q, r \in Nat : /\ DivideDirectly(Decimal[a], Decimal[b]) = Both(q, r)
                           /\ a = q * b + r /\ r < b
<1> DEFINE top == Decimal[a]
           bot == Decimal[b]
<1>1. <<1>> = Decimal[1] /\ <<0>> = Decimal[0]
  BY OneDigit, 0 \in 0..9, 1 \in 0..9
<1>2. /\ bot = <<1>> <=> b = 1
      /\ bot # <<0>>
      /\ top = <<0>> <=> a = 0
  BY <1>1, DecimalInjective, 0 \in Nat, 1 \in Nat
<1>3. Holds(IntMathLessThan(top, bot)) <=> a < b
  BY HoldsLess
<1>4. Numeral(a) = top /\ a \in Int
  BY NumeralOfNat
<1> HIDE DEF top, bot
<1>5. CASE b = 1
  <2>1. DivideDirectly(top, bot) = Both(a, 0)
    BY <1>2, <1>4, <1>5, WithZero DEF DivideDirectly
  <2>2. a = a * b + 0 /\ 0 < b /\ 0 \in Nat
    BY <1>5
  <2> QED  BY <2>1, <2>2 DEF top, bot
<1>6. CASE b # 1 /\ a = 0
  <2>1. DivideDirectly(top, bot) = Both(0, 0)
    BY <1>2, <1>6, WithZero DEF DivideDirectly
  <2>2. a = 0 * b + 0 /\ 0 < b /\ 0 \in Nat
    BY <1>6
  <2> QED  BY <2>1, <2>2 DEF top, bot
<1>7. CASE b # 1 /\ a # 0 /\ a < b
  <2>1. DivideDirectly(top, bot) = Both(0, a)
    BY <1>2, <1>3, <1>4, <1>7, WithZero DEF DivideDirectly
  <2>2. a = 0 * b + a /\ 0 \in Nat
    BY <1>7
  <2> QED  BY <1>7, <2>1, <2>2 DEF top, bot
<1>8. CASE b # 1 /\ a # 0 /\ ~(a < b)
  <2>1. DivideDirectly(top, bot) = LongDivision(top, bot)
    BY <1>2, <1>3, <1>8 DEF DivideDirectly
  <2> QED  BY <2>1, LongDivisionIs DEF top, bot
<1> QED  BY <1>5, <1>6, <1>7, <1>8

(* With signs, the quotient is rounded down. *)
LEMMA CompletedIs ==
  ASSUME NEW a \in Int, NEW b \in Int, a < 0 \/ b < 0, b # 0, a # 0, NEW p \in Nat, NEW s \in Nat,
         Magnitude(a) = p * Magnitude(b) + s, s < Magnitude(b)
  PROVE  \E q, r \in Int :
           /\ Completed(Numeral(a), Numeral(b), [quotient |-> Numeral(p), remainder |-> Numeral(s)])
                = Both(q, r)
           /\ Floored(a, b, q, r)
<1> DEFINE top == Numeral(a)
           bot == Numeral(b)
           negated == StripLeadingZeroes(<<Minus>> \o Numeral(p))
           rest == StripLeadingZeroes(<<Minus>> \o Numeral(s))
           parts == [quotient |-> Numeral(p), remainder |-> Numeral(s)]
           x == Completed(top, bot, parts)
           m == -p
           n == -s
<1>1. /\ (StartsWithNegative(top) <=> a < 0) /\ (StartsWithNegative(bot) <=> b < 0)
      /\ Numeral(s) = <<0>> <=> s = 0
      /\ StripLeadingZeroes(bot) = bot /\ StripLeadingZeroes(Numeral(s)) = Numeral(s)
  BY OperandIs
<1>2. negated = Numeral(m) /\ rest = Numeral(n) /\ m \in Int /\ n \in Int
  BY StripOfSigned, NumeralOfNat
<1>3. StripLeadingZeroes(Numeral(m)) = Numeral(m)
  BY <1>2, OperandIs
<1> HIDE DEF m, n
<1>4. IntMathDecrement(negated) = Numeral(m - 1)
  BY <1>2, <1>3, DecrementIs
<1>5. IntMathAdd(bot, Numeral(s)) = Numeral(b + s)
  BY <1>1, AddIs
<1>6. IntMathSubtract(bot, Numeral(s)) = Numeral(b - s)
  BY <1>1, SubtractIs
<1> HIDE DEF top, bot, negated, rest
<1>7. x = IF a < 0 /\ b < 0 THEN Both(p, n)
          ELSE IF s = 0 THEN Numeral(m) \o <<Sep, 0>>
          ELSE Both(m - 1, IF b < 0 THEN b + s ELSE b - s)
  <2>1. x = IF a < 0 /\ b < 0 THEN Numeral(p) \o <<Sep>> \o rest
            ELSE IF s = 0 THEN negated \o <<Sep, 0>>
            ELSE IntMathDecrement(negated) \o <<Sep>> \o
                   (IF b < 0 THEN IntMathAdd(bot, Numeral(s)) ELSE IntMathSubtract(bot, Numeral(s)))
    BY <1>1 DEF Completed, negated, rest
  <2> HIDE DEF x
  <2> QED  BY <1>2, <1>4, <1>5, <1>6, <2>1 DEF Both
<1> HIDE DEF x
<1>8. m = -p /\ n = -s /\ p * b \in Int /\ m * b = -(p * b) /\ (m - 1) * b = -(p * b) - b
  <2>1. m = -p /\ n = -s
    BY DEF m, n
  <2> QED  BY <2>1
<1>9. /\ b > 0 => Magnitude(b) = b /\ p * Magnitude(b) = p * b
      /\ b < 0 => Magnitude(b) = -b /\ p * Magnitude(b) = -(p * b)
      /\ a > 0 => Magnitude(a) = a
      /\ a < 0 => Magnitude(a) = -a
  BY DEF Magnitude
<1>10. CASE a < 0 /\ b < 0
  <2>1. a = p * b + n /\ b < n /\ n <= 0
    BY <1>8, <1>9, <1>10
  <2>2. Floored(a, b, p, n)
    BY <1>2, <1>10, <2>1 DEF Floored
  <2> QED  BY <1>2, <1>7, <1>10, <2>2 DEF x, top, bot
<1>11. CASE ~(a < 0 /\ b < 0) /\ s = 0
  <2>1. a = m * b + 0
    BY <1>8, <1>9, <1>11
  <2>2. Floored(a, b, m, 0)
    BY <1>2, <1>11, <2>1 DEF Floored
  <2>3. x = Both(m, 0)
    BY <1>2, <1>7, <1>11, WithZero
  <2> QED  BY <1>2, <2>2, <2>3 DEF x, top, bot
<1>12. CASE ~(a < 0 /\ b < 0) /\ s # 0
  <2> DEFINE q == m - 1
             r == IF b < 0 THEN b + s ELSE b - s
  <2>1. q \in Int /\ r \in Int
    BY <1>2
  <2>2. a = q * b + r
    BY <1>8, <1>9, <1>12
  <2>3. IF b > 0 THEN 0 <= r /\ r < b ELSE b < r /\ r <= 0
    BY <1>9, <1>12
  <2>4. x = Both(q, r)
    BY <1>7, <1>12
  <2> HIDE DEF q, r
  <2>5. Floored(a, b, q, r)
    BY <2>1, <2>2, <2>3 DEF Floored
  <2> QED  BY <2>1, <2>4, <2>5 DEF x, top, bot
<1> QED  BY <1>10, <1>11, <1>12

(* IntMathDivideWithRemainder rounds the quotient down, whatever the signs. *)
LEMMA DivideIs ==
  ASSUME NEW numTop, NEW numBot, NEW a \in Int, NEW b \in Int, b # 0,
         StripLeadingZeroes(numTop) = Numeral(a), StripLeadingZeroes(numBot) = Numeral(b)
  PROVE  \E q, r \in Int : IntMathDivideWithRemainder(numTop, numBot) = Both(q, r) /\ Floored(a, b, q, r)
<1> DEFINE top == Numeral(a)
           bot == Numeral(b)
           A == Magnitude(a)
           B == Magnitude(b)
           x == IntMathDivideWithRemainder(numTop, numBot)
<1>1. A \in Nat /\ B \in Nat \ {0} /\ A \in Int /\ B \in Int
  BY DEF Magnitude
<1>2. /\ IsValid(top) /\ (StartsWithNegative(top) <=> a < 0) /\ (top = <<0>> <=> a = 0)
      /\ ~(a < 0) => top = Decimal[a] /\ a \in Nat
  BY OperandIs
<1>3. /\ IsValid(bot) /\ (StartsWithNegative(bot) <=> b < 0) /\ bot # <<0>>
      /\ ~(b < 0) => bot = Decimal[b] /\ b \in Nat \ {0}
  BY OperandIs
<1>4. Unsigned(top) = Decimal[A] /\ Unsigned(bot) = Decimal[B]
  BY NumeralProperties
<1>5. <<1>> = Numeral(1)
  BY NumeralOfNat, OneDigit, 1 \in 0..9, 1 \in Nat
<1>6. bot = <<1>> <=> b = 1
  BY <1>5, NumeralInjective, 1 \in Int
<1> HIDE DEF top, bot
<1>7. x = IF (a < 0 \/ b < 0) /\ b # 1 /\ a # 0
            THEN Completed(top, bot, Parts(DivideDirectly(Decimal[A], Decimal[B])))
          ELSE DivideDirectly(top, bot)
  BY <1>2, <1>3, <1>4, <1>6 DEF IntMathDivideWithRemainder, Refused, top, bot, ThroughAbsolute, DivideStripped
<1> HIDE DEF x
<1>8. CASE (a < 0 \/ b < 0) /\ b # 1 /\ a # 0
  <2>1. PICK p, s \in Nat : /\ DivideDirectly(Decimal[A], Decimal[B]) = Both(p, s)
                            /\ A = p * B + s /\ s < B
    <3> HIDE DEF A, B
    <3> QED  BY <1>1, DirectlyIs
  <2>2. Parts(Both(p, s)) = [quotient |-> Numeral(p), remainder |-> Numeral(s)]
    BY PartsOf, NumeralOfNat
  <2>3. x = Completed(top, bot, [quotient |-> Numeral(p), remainder |-> Numeral(s)])
    BY <1>7, <1>8, <2>1, <2>2
  <2> HIDE DEF A, B
  <2> QED  BY <1>8, <2>1, <2>3, CompletedIs DEF x, top, bot, A, B
<1>9. CASE ~(a < 0) /\ ~(b < 0)
  <2>1. PICK q, r \in Nat : DivideDirectly(Decimal[a], Decimal[b]) = Both(q, r) /\ a = q * b + r /\ r < b
    BY <1>2, <1>3, <1>9, DirectlyIs
  <2>2. Floored(a, b, q, r)
    BY <1>3, <1>9, <2>1 DEF Floored
  <2>3. x = Both(q, r) /\ q \in Int /\ r \in Int
    BY <1>2, <1>3, <1>7, <1>9, <2>1
  <2> QED  BY <2>2, <2>3 DEF x
<1>10. CASE (a < 0 \/ b < 0) /\ b = 1
  <2>1. x = Both(a, 0)
    BY <1>6, <1>7, <1>10, WithZero DEF DivideDirectly, top
  <2>2. a = a * b + 0
    BY <1>10
  <2>3. Floored(a, b, a, 0)
    BY <1>10, <2>2 DEF Floored
  <2> QED  BY <2>1, <2>3, 0 \in Int DEF x
<1>11. CASE b < 0 /\ b # 1 /\ a = 0
  <2>1. x = Both(0, 0)
    BY <1>2, <1>3, <1>6, <1>7, <1>11, WithZero DEF DivideDirectly
  <2>2. a = 0 * b + 0
    BY <1>11
  <2>3. Floored(a, b, 0, 0)
    BY <1>11, <2>2 DEF Floored
  <2> QED  BY <2>1, <2>3, 0 \in Int DEF x
<1> QED  BY <1>8, <1>9, <1>10, <1>11

(* IntMathEqual is equality of integers. *)
LEMMA EqualIs ==
  ASSUME NEW numOne, NEW numTwo, NEW a \in Int, NEW b \in Int,
         StripLeadingZeroes(numOne) = Numeral(a), StripLeadingZeroes(numTwo) = Numeral(b)
  PROVE  IntMathEqual(numOne, numTwo) = Truth(a = b)
<1>1. IsValid(Numeral(a)) /\ IsValid(Numeral(b))
  BY NumeralReading
<1>2. (Numeral(a) = Numeral(b)) = (a = b)
  BY NumeralInjective
<1> QED  BY <1>1, <1>2 DEF IntMathEqual, Refused

(* The rounding decision of the code is that of the reference. *)
LEMMA NextIsNearerIs ==
  ASSUME NEW b \in Int, NEW q \in Int, NEW r \in Int, r # 0
  PROVE  NextIsNearer([quotient |-> Numeral(q), remainder |-> Numeral(r)],
                      IntMathMultiply(<<2>>, Numeral(r)), Numeral(b))
           <=> Nearer(b, q, r)
<1> DEFINE double == IntMathMultiply(<<2>>, Numeral(r))
           bot == Numeral(b)
           c == 2 * r
<1>1. c \in Int /\ c # 0 /\ 2 \in Int /\ 2 \in Nat
  OBVIOUS
<1>2. double = Numeral(c)
  <2>1. <<2>> = Decimal[2]
    BY OneDigit, 2 \in 0..9
  <2>2. StripLeadingZeroes(<<2>>) = Numeral(2)
    BY <1>1, <2>1, NatOperand
  <2>3. StripLeadingZeroes(Numeral(r)) = Numeral(r)
    BY OperandIs
  <2>4. double = IF 2 * r = 0 /\ (2 < 0 \/ r < 0) THEN <<Minus, 0>> ELSE Numeral(2 * r)
    BY <1>1, <2>2, <2>3, MultiplyIs
  <2> QED  BY <1>1, <2>4
<1> HIDE DEF double, c
<1>3. /\ StripLeadingZeroes(double) = Numeral(c) /\ StripLeadingZeroes(bot) = Numeral(b)
      /\ (StartsWithNegative(Numeral(q)) <=> q < 0) /\ (StartsWithNegative(bot) <=> b < 0)
  BY <1>1, <1>2, OperandIs
<1> HIDE DEF bot
<1>4. Holds(IntMathEqual(double, bot)) = (c = b)
  <2>1. IntMathEqual(double, bot) = Truth(c = b)
    BY <1>1, <1>3, EqualIs
  <2>2. (c = b) \in BOOLEAN
    OBVIOUS
  <2> QED  BY <2>1, <2>2, HoldsIs
<1>5. Holds(IntMathGreaterThan(double, bot)) = (b < c)
  <2>1. IntMathGreaterThan(double, bot) = Truth(b < c)
    BY <1>1, <1>3, LessThanIs DEF IntMathGreaterThan
  <2>2. (b < c) \in BOOLEAN
    OBVIOUS
  <2>3. Holds(Truth(b < c)) = (b < c)
    BY <2>2, HoldsIs
  <2> QED  BY <2>1, <2>3
<1>6. (b < c) = (c > b)
  BY <1>1
<1>7. StartsWithNegative(bot) = (b < 0) /\ StartsWithNegative(Numeral(q)) = (q < 0)
  BY <1>3 DEF StartsWithNegative
<1> QED  BY <1>4, <1>5, <1>6, <1>7 DEF NextIsNearer, Nearer, double, bot, c

(* Each division from the quotient rounded down and its remainder. *)
LEMMA RoundedIs ==
  ASSUME NEW division \in Divisions, NEW a \in Int, NEW b \in Int, b # 0,
         NEW q \in Int, NEW r \in Int, Floored(a, b, q, r)
  PROVE  Rounded(division, [quotient |-> Numeral(q), remainder |-> Numeral(r)], Numeral(b))
           = Numeral(Division(division, a, b))
<1> DEFINE parts == [quotient |-> Numeral(q), remainder |-> Numeral(r)]
           bot == Numeral(b)
           x == Rounded(division, parts, bot)
<1>1. parts.quotient = Numeral(q) /\ parts.remainder = Numeral(r)
  OBVIOUS
<1>2. Numeral(r) = <<0>> <=> r = 0
  BY OperandIs
<1>3. IntMathIncrement(Numeral(q)) = Numeral(q + 1)
  BY OperandIs, IncrementIs
<1>4. r # 0 => (NextIsNearer(parts, IntMathMultiply(<<2>>, parts.remainder), bot) <=> Nearer(b, q, r))
  BY NextIsNearerIs
<1> HIDE DEF parts, bot
<1>5. CASE division = "DivideFloor"
  <2>1. Division(division, a, b) = q
    BY <1>5, FloorIs DEF Division
  <2> QED  BY <1>1, <1>5, <2>1 DEF Rounded, parts
<1>6. CASE division = "DivideCeil"
  <2>1. Division(division, a, b) = IF r = 0 THEN q ELSE q + 1
    BY <1>6, CeilIs DEF Division
  <2>2. x = IF r = 0 THEN Numeral(q) ELSE IntMathIncrement(Numeral(q))
    BY <1>1, <1>2, <1>6 DEF Rounded
  <2> QED  BY <1>3, <2>1, <2>2 DEF parts, bot
<1>7. CASE division = "DivideRound"
  <2>1. Division(division, a, b) = IF Nearer(b, q, r) THEN q + 1 ELSE q
    BY <1>7, RoundIs DEF Division
  <2>2. Nearer(b, q, r) => r # 0
    BY DEF Nearer
  <2>3. x = IF Nearer(b, q, r) THEN IntMathIncrement(Numeral(q)) ELSE Numeral(q)
    BY <1>1, <1>2, <1>4, <1>7, <2>2 DEF Rounded
  <2> QED  BY <1>3, <2>1, <2>3 DEF parts, bot
<1>8. CASE division = "Modulus"
  <2>1. Division(division, a, b) = a - b * q
    BY <1>8, FloorIs DEF Division
  <2>2. a - b * q = r
    <3>1. a = q * b + r
      BY DEF Floored
    <3>2. b * q = q * b /\ q * b \in Int
      OBVIOUS
    <3> QED  BY <3>1, <3>2
  <2> QED  BY <1>1, <1>8, <2>1, <2>2 DEF Rounded, parts
<1> QED  BY <1>5, <1>6, <1>7, <1>8 DEF Divisions

(* Validity is that of the stripped text. *)
LEMMA StrippedIsValid ==
  ASSUME NEW num, NEW n \in Int, StripLeadingZeroes(num) = Numeral(n)
  PROVE  IsValid(num)
<1>1. StripLeadingZeroes(Numeral(n)) = Numeral(n) /\ IsValid(Numeral(n))
  BY OperandIs
<1> QED  BY <1>1 DEF IsValid, WithoutSign

(* The divisions are those of integers. *)
LEMMA DivisionIs ==
  ASSUME NEW division \in Divisions, NEW numTop, NEW numBot, NEW a \in Int, NEW b \in Int, b # 0,
         StripLeadingZeroes(numTop) = Numeral(a), StripLeadingZeroes(numBot) = Numeral(b)
  PROVE  IntMathDivision(division, numTop, numBot) = Numeral(Division(division, a, b))
<1>1. ~Refused(numTop, numBot)
  BY StrippedIsValid DEF Refused
<1>2. PICK q, r \in Int : IntMathDivideWithRemainder(numTop, numBot) = Both(q, r) /\ Floored(a, b, q, r)
  BY DivideIs
<1>3. Parts(Both(q, r)) = [quotient |-> Numeral(q), remainder |-> Numeral(r)]
  BY PartsOf
<1>4. IntMathDivision(division, numTop, numBot)
        = Rounded(division, [quotient |-> Numeral(q), remainder |-> Numeral(r)], Numeral(b))
  BY <1>1, <1>2, <1>3 DEF IntMathDivision
<1> QED  BY <1>2, <1>4, RoundedIs

(* A character that is no digit, sign or separator. *)
LEMMA OtherIsNeither ==
  Other \in Chars /\ Other \notin 0..9 /\ Sep \in Chars /\ Other # Minus /\ Other # Sep
BY CharsAssumption DEF Chars

(* A text that is no integer. *)
LEMMA OtherIsNoNumeral ==
  ~IsValid(ErrorText) /\ ~IsValid(<<Other>>)
<1>1. Other \in Chars /\ Other \notin 0..9 /\ Sep \in Chars /\ Other # Minus
  BY OtherIsNeither
<1>2. ASSUME NEW t \in Seq(Chars), Len(t) > 0, t[1] = Other
      PROVE  ~IsValid(t)
  <2>1. First(t) # <<Minus>>
    <3>1. t # <<>> /\ Head(t) = Other
      BY <1>2
    <3> QED  BY <1>1, <3>1 DEF First
  <2>2. ~IsNumeral(t)
    <3>1. Digits(t) = t
      BY <2>1 DEF Digits
    <3>2. 1 \in 1..Len(t)
      BY <1>2
    <3>3. ~AllDigits(t)
      BY <1>1, <1>2, <3>2, AllDigitsAre
    <3> QED  BY <3>1, <3>3 DEF IsNumeral
  <2>3. ~SignedTwice(t)
    BY <1>1, <1>2 DEF SignedTwice
  <2> QED  BY <2>2, <2>3, ValidIs
<1>3. ErrorText \in Seq(Chars) /\ Len(ErrorText) > 0 /\ ErrorText[1] = Other
  BY <1>1 DEF ErrorText
<1>4. <<Other>> \in Seq(Chars) /\ Len(<<Other>>) > 0 /\ <<Other>>[1] = Other
  BY <1>1
<1> QED  BY <1>2, <1>3, <1>4

(* A division by zero gives an error, in each of the divisions. *)
LEMMA DivisionByZero ==
  ASSUME NEW division \in Divisions, NEW numTop, NEW numBot, NEW a \in Int,
         StripLeadingZeroes(numTop) = Numeral(a), StripLeadingZeroes(numBot) = Numeral(0)
  PROVE  IntMathDivision(division, numTop, numBot) = ErrorText
<1> DEFINE errors == [quotient |-> ErrorText, remainder |-> ErrorText]
<1>1. ~Refused(numTop, numBot)
  BY StrippedIsValid, 0 \in Int DEF Refused
<1>2. Numeral(0) = <<0>> /\ IsValid(Numeral(0)) /\ IsValid(Numeral(a))
  BY OperandIs, 0 \in Int
<1>3. <<0>> # <<1>>
  BY OneDigit, DecimalInjective, 0 \in 0..9, 1 \in 0..9, 0 \in Nat, 1 \in Nat
<1>4. IntMathDivideWithRemainder(numTop, numBot) = ErrorText
  BY <1>2, <1>3 DEF IntMathDivideWithRemainder, DivideDirectly, Refused, ThroughAbsolute, DivideStripped
<1>5. Parts(ErrorText) = errors
  <2> DEFINE u == <<Other>>
  <2>1. u \in Seq(Chars) /\ Len(u) = 1 /\ u[1] = Other /\ Other # Sep
    BY OtherIsNeither
  <2>2. Refused(u, u)
    BY OtherIsNoNumeral DEF Refused
  <2>3. ErrorText = u \o <<Sep>> \o u
    BY ThreeChars DEF ErrorText
  <2> HIDE DEF u
  <2>4. \A i \in 1..Len(u) : u[i] # Sep
    BY <2>1
  <2> QED  BY <2>1, <2>2, <2>3, <2>4, PartsAre
<1>6. IntMathIncrement(ErrorText) = ErrorText
  <2>1. ErrorText \in Seq(Chars) /\ ~SignedTwice(ErrorText)
    BY OtherIsNeither DEF ErrorText, SignedTwice
  <2>2. ~IsValid(StripLeadingZeroes(ErrorText))
    BY <2>1, OtherIsNoNumeral, Reading
  <2> QED  BY <2>2 DEF IntMathIncrement
<1>7. IntMathDivision(division, numTop, numBot) = Rounded(division, errors, <<0>>)
  BY <1>1, <1>2, <1>4, <1>5 DEF IntMathDivision
<1> QED  BY <1>6, <1>7 DEF Rounded

-----------------------------------------------------------------------------
(* What a call leaves *)

(* The result of a call is the integer, or one of the two notations of zero, or an error. *)
Answers(name, text, number) ==
  IF number = NotANumber THEN text = ErrorText
  ELSE /\ number \in Int
       /\ \/ text = Numeral(number)
          \/ number = 0 /\ name = "Multiply" /\ text = <<Minus, 0>>
          \/ number = 0 /\ name = "Subtract" /\ text = <<>>

(* An integer answers. *)
LEMMA AnswersWith ==
  ASSUME NEW name, NEW n \in Int
  PROVE  Answers(name, Numeral(n), n)
BY OperandsAssumption DEF Answers

(* So does an error when there is no integer. *)
LEMMA AnswersError ==
  ASSUME NEW name
  PROVE  Answers(name, ErrorText, NotANumber)
BY DEF Answers

(* Every answer is a text. *)
LEMMA AnswersAreTexts ==
  ASSUME NEW name, NEW text, NEW number, Answers(name, text, number)
  PROVE  text \in Seq(Chars) /\ number \in Int \cup {NotANumber}
<1>1. ErrorText \in Seq(Chars)
  BY OtherIsNeither DEF ErrorText
<1>2. <<>> \in Seq(Chars) /\ <<Minus, 0>> \in Seq(Chars)
  BY DigitsAreChars, 0 \in 0..9
<1>3. number \in Int => Numeral(number) \in Seq(Chars)
  BY OperandIs
<1> QED  BY <1>1, <1>2, <1>3 DEF Answers

(* A call of one number. *)
LEMMA UnaryAnswers ==
  ASSUME NEW t \in Seq(Chars), ~SignedTwice(t)
  PROVE  /\ Answers("Increment", IntMathIncrement(t), IF IsNumeral(t) THEN NumberOf(t) + 1 ELSE NotANumber)
         /\ Answers("Decrement", IntMathDecrement(t), IF IsNumeral(t) THEN NumberOf(t) - 1 ELSE NotANumber)
         /\ Answers("Abs", IntMathAbs(t), IF IsNumeral(t) THEN Magnitude(NumberOf(t)) ELSE NotANumber)
<1>1. CASE IsNumeral(t)
  <2> DEFINE n == NumberOf(t)
  <2>1. n \in Int /\ StripLeadingZeroes(t) = Numeral(n)
    BY <1>1, Reading
  <2> HIDE DEF n
  <2>2. n + 1 \in Int /\ n - 1 \in Int /\ Magnitude(n) \in Int
    BY <2>1 DEF Magnitude
  <2>3. IntMathIncrement(t) = Numeral(n + 1) /\ IntMathDecrement(t) = Numeral(n - 1)
        /\ IntMathAbs(t) = Numeral(Magnitude(n))
    BY <2>1, IncrementIs, DecrementIs, AbsIs
  <2>4. /\ Answers("Increment", Numeral(n + 1), n + 1)
        /\ Answers("Decrement", Numeral(n - 1), n - 1)
        /\ Answers("Abs", Numeral(Magnitude(n)), Magnitude(n))
    BY <2>2, AnswersWith
  <2> QED  BY <1>1, <2>3, <2>4 DEF n
<1>2. CASE ~IsNumeral(t)
  <2>1. ~IsValid(StripLeadingZeroes(t))
    BY <1>2, Reading
  <2>2. IntMathIncrement(t) = ErrorText /\ IntMathDecrement(t) = ErrorText /\ IntMathAbs(t) = ErrorText
    BY <2>1 DEF IntMathIncrement, IntMathDecrement, IntMathAbs
  <2> QED  BY <1>2, <2>2, AnswersError
<1> QED  BY <1>1, <1>2

(* What is no integer is refused. *)
LEMMA Refusal ==
  ASSUME NEW s \in Seq(Chars), NEW t \in Seq(Chars), ~SignedTwice(s), ~SignedTwice(t),
         ~(IsNumeral(s) /\ IsNumeral(t))
  PROVE  /\ Refused(StripLeadingZeroes(s), StripLeadingZeroes(t)) /\ Refused(s, t)
         /\ Refused(StripLeadingZeroes(t), StripLeadingZeroes(s))
<1>1. /\ IsValid(StripLeadingZeroes(s)) <=> IsNumeral(s)
      /\ IsValid(StripLeadingZeroes(t)) <=> IsNumeral(t)
      /\ IsValid(s) <=> IsNumeral(s)
      /\ IsValid(t) <=> IsNumeral(t)
  BY Reading
<1> QED  BY <1>1 DEF Refused

(* A call of two numbers. *)
LEMMA BinaryAnswers ==
  ASSUME NEW s \in Seq(Chars), NEW t \in Seq(Chars), ~SignedTwice(s), ~SignedTwice(t)
  PROVE  LET numbers == IsNumeral(s) /\ IsNumeral(t)
         IN  /\ Answers("Add", IntMathAdd(s, t), IF numbers THEN NumberOf(s) + NumberOf(t) ELSE NotANumber)
             /\ Answers("Subtract", IntMathSubtract(s, t), IF numbers THEN NumberOf(s) - NumberOf(t) ELSE NotANumber)
             /\ Answers("Multiply", IntMathMultiply(s, t), IF numbers THEN NumberOf(s) * NumberOf(t) ELSE NotANumber)
<1>1. CASE IsNumeral(s) /\ IsNumeral(t)
  <2> DEFINE a == NumberOf(s)
             b == NumberOf(t)
  <2>1. a \in Int /\ b \in Int /\ StripLeadingZeroes(s) = Numeral(a) /\ StripLeadingZeroes(t) = Numeral(b)
    BY <1>1, Reading
  <2> HIDE DEF a, b
  <2>2. Answers("Add", IntMathAdd(s, t), a + b)
    <3>1. a + b \in Int /\ IntMathAdd(s, t) = Numeral(a + b)
      BY <2>1, AddIs
    <3> QED  BY <3>1, AnswersWith
  <2>3. Answers("Subtract", IntMathSubtract(s, t), a - b)
    <3> DEFINE d == a - b
    <3>1. d \in Int /\ (a = 0 /\ b = 0 => d = 0)
      BY <2>1
    <3>2. IntMathSubtract(s, t) = IF a = 0 /\ b = 0 THEN <<>> ELSE Numeral(d)
      BY <2>1, SubtractIs
    <3> HIDE DEF d
    <3>3. Answers("Subtract", IntMathSubtract(s, t), d)
      BY <3>1, <3>2, OperandsAssumption DEF Answers
    <3> QED  BY <3>3 DEF d
  <2>4. Answers("Multiply", IntMathMultiply(s, t), a * b)
    <3> DEFINE p == a * b
    <3>1. p \in Int /\ IntMathMultiply(s, t) = IF p = 0 /\ (a < 0 \/ b < 0) THEN <<Minus, 0>> ELSE Numeral(p)
      BY <2>1, MultiplyIs
    <3> HIDE DEF p
    <3>2. Answers("Multiply", IntMathMultiply(s, t), p)
      BY <3>1, OperandsAssumption DEF Answers
    <3> QED  BY <3>2 DEF p
  <2> QED  BY <1>1, <2>2, <2>3, <2>4 DEF a, b
<1>2. CASE ~(IsNumeral(s) /\ IsNumeral(t))
  <2>1. Refused(StripLeadingZeroes(s), StripLeadingZeroes(t))
    BY <1>2, Refusal
  <2>2. IntMathAdd(s, t) = ErrorText /\ IntMathSubtract(s, t) = ErrorText /\ IntMathMultiply(s, t) = ErrorText
    BY <2>1 DEF IntMathAdd, IntMathSubtract, IntMathMultiply
  <2> QED  BY <1>2, <2>2, AnswersError
<1> QED  BY <1>1, <1>2

(* Each division of integers gives an integer. *)
LEMMA DivisionType ==
  ASSUME NEW division \in Divisions, NEW a \in Int, NEW b \in Int, b # 0
  PROVE  Division(division, a, b) \in Int
<1>1. ASSUME NEW x \in Int, NEW y \in Int, y # 0
      PROVE  Floor(x, y) \in Int
  <2>1. CASE y < 0
    <3>1. -y \in Nat \ {0} /\ -x \in Int
      BY <1>1, <2>1
    <3> QED  BY <2>1, <3>1 DEF Floor
  <2>2. CASE ~(y < 0)
    BY <1>1, <2>2 DEF Floor
  <2> QED  BY <2>1, <2>2
<1>2. -Floor(-a, b) \in Int
  <2>1. -a \in Int
    OBVIOUS
  <2>2. Floor(-a, b) \in Int
    BY <1>1, <2>1
  <2> QED  BY <2>2
<1>3. Round(a, b) \in Int
  <2> DEFINE x == Magnitude(b) - 2 * Magnitude(a)
             y == 2 * Magnitude(b)
  <2>1. x \in Int /\ y \in Int /\ y # 0
    BY DEF Magnitude
  <2>2. Floor(x, y) \in Int
    <3> HIDE DEF x, y
    <3> QED  BY <1>1, <2>1
  <2> QED  BY <2>2 DEF Round
<1>4. a - b * Floor(a, b) \in Int
  BY <1>1
<1> QED  BY <1>1, <1>2, <1>3, <1>4 DEF Division, Divisions

(* A division. *)
LEMMA DivisionAnswers ==
  ASSUME NEW s \in Seq(Chars), NEW t \in Seq(Chars), ~SignedTwice(s), ~SignedTwice(t),
         NEW division \in Divisions
  PROVE  Answers(division, IntMathDivision(division, s, t),
                 IF IsNumeral(s) /\ IsNumeral(t) /\ NumberOf(t) # 0
                   THEN Division(division, NumberOf(s), NumberOf(t)) ELSE NotANumber)
<1>1. CASE IsNumeral(s) /\ IsNumeral(t)
  <2> DEFINE a == NumberOf(s)
             b == NumberOf(t)
  <2>1. a \in Int /\ b \in Int /\ StripLeadingZeroes(s) = Numeral(a) /\ StripLeadingZeroes(t) = Numeral(b)
    BY <1>1, Reading
  <2> HIDE DEF a, b
  <2>2. CASE b # 0
    <3>1. Division(division, a, b) \in Int /\ IntMathDivision(division, s, t) = Numeral(Division(division, a, b))
      BY <2>1, <2>2, DivisionIs, DivisionType
    <3> QED  BY <1>1, <2>2, <3>1, AnswersWith DEF a, b
  <2>3. CASE b = 0
    <3>1. IntMathDivision(division, s, t) = ErrorText
      BY <2>1, <2>3, DivisionByZero
    <3> QED  BY <2>3, <3>1, AnswersError DEF b
  <2> QED  BY <2>2, <2>3
<1>2. CASE ~(IsNumeral(s) /\ IsNumeral(t))
  <2>1. IntMathDivision(division, s, t) = ErrorText
    BY <1>2, Refusal DEF IntMathDivision
  <2> QED  BY <1>2, <2>1, AnswersError
<1> QED  BY <1>1, <1>2

(* A comparison. *)
LEMMA ComparisonAnswers ==
  ASSUME NEW s \in Seq(Chars), NEW t \in Seq(Chars), ~SignedTwice(s), ~SignedTwice(t)
  PROVE  <<IntMathLessThan(s, t), IntMathEqual(s, t), IntMathGreaterThan(s, t)>> =
           IF IsNumeral(s) /\ IsNumeral(t)
             THEN <<Truth(NumberOf(s) < NumberOf(t)), Truth(NumberOf(s) = NumberOf(t)),
                    Truth(NumberOf(s) > NumberOf(t))>>
           ELSE <<ErrorText, ErrorText, ErrorText>>
<1>1. CASE IsNumeral(s) /\ IsNumeral(t)
  <2> DEFINE a == NumberOf(s)
             b == NumberOf(t)
  <2>1. a \in Int /\ b \in Int /\ StripLeadingZeroes(s) = Numeral(a) /\ StripLeadingZeroes(t) = Numeral(b)
    BY <1>1, Reading
  <2> HIDE DEF a, b
  <2>2. IntMathLessThan(s, t) = Truth(a < b) /\ IntMathLessThan(t, s) = Truth(b < a)
    BY <2>1, LessThanIs
  <2>3. IntMathEqual(s, t) = Truth(a = b)
    BY <2>1, EqualIs
  <2>4. Truth(b < a) = Truth(a > b)
    <3>1. (b < a) = (a > b)
      BY <2>1
    <3> QED  BY <3>1 DEF Truth
  <2> QED  BY <1>1, <2>2, <2>3, <2>4 DEF a, b, IntMathGreaterThan
<1>2. CASE ~(IsNumeral(s) /\ IsNumeral(t))
  <2>1. Refused(StripLeadingZeroes(s), StripLeadingZeroes(t)) /\ Refused(StripLeadingZeroes(t), StripLeadingZeroes(s))
    BY <1>2, Refusal
  <2> QED  BY <1>2, <2>1 DEF IntMathLessThan, IntMathEqual, IntMathGreaterThan
<1> QED  BY <1>1, <1>2

-----------------------------------------------------------------------------
(* The state *)

CalculatorTypeOK == acc \in Seq(Chars) /\ exact \in Int \cup {NotANumber}

SearchTypeOK ==
  /\ str \in Seq(Chars) /\ substr \in Seq(Chars)
  /\ start \in Seq(Chars) /\ end \in Seq(Chars)
  /\ pc \in {"choose", "find", "between", "done"}

(* What every step keeps. *)
IInv == CalculatorTypeOK /\ Exact /\ SearchTypeOK /\ FindsFirst

(* It holds at first. *)
LEMMA InitInv == Init => IInv
<1> SUFFICES ASSUME Init
             PROVE  IInv
  OBVIOUS
<1>1. acc = <<0>> /\ exact = 0 /\ by = "nothing"
  BY DEF Init, InitCalculator
<1>2. str = <<>> /\ substr = <<>> /\ start = <<>> /\ end = <<>> /\ pc = "choose"
  BY DEF Init, InitSearch
<1>3. CalculatorTypeOK
  BY <1>1, DigitsAreChars, 0 \in 0..9 DEF CalculatorTypeOK
<1>4. Exact
  BY <1>1 DEF Exact
<1>5. SearchTypeOK
  BY <1>2 DEF SearchTypeOK
<1>6. FindsFirst
  BY <1>2 DEF FindsFirst
<1> QED  BY <1>3, <1>4, <1>5, <1>6 DEF IInv

(* A call whose result answers it leaves the right state. *)
LEMMA ResultInv ==
  ASSUME NEW name, NEW text, NEW ok, NEW number,
         Result(name, text, ok, number), Answers(name, text, IF ok THEN number ELSE NotANumber)
  PROVE  CalculatorTypeOK' /\ Exact'
<1>1. acc' = text /\ exact' = (IF ok THEN number ELSE NotANumber) /\ by' = name
  BY DEF Result
<1>2. Answers(name, acc', exact')
  BY <1>1
<1>3. CalculatorTypeOK'
  BY <1>2, AnswersAreTexts DEF CalculatorTypeOK
<1>4. Exact'
  BY <1>1, <1>2 DEF Exact, Answers
<1> QED  BY <1>3, <1>4

(* Calls are given texts. *)
LEMMA OperandsAreTexts ==
  Operands \cup Loaded \subseteq Seq(Chars)
BY OperandsAssumption

(* Every call on results and operands keeps the calculator's part. *)
LEMMA CalculateInv ==
  ASSUME IInv, Calculate
  PROVE  CalculatorTypeOK' /\ Exact'
<1>1. acc \in Seq(Chars)
  BY DEF IInv, CalculatorTypeOK
<1>2. ASSUME NEW t \in Operands \cup Loaded, Load(t)
      PROVE  CalculatorTypeOK' /\ Exact'
  <2>1. acc' = t /\ exact' = NumberOf(t) /\ by' = "Load"
    BY <1>2 DEF Load
  <2>2. t \in Seq(Chars)
    BY OperandsAreTexts
  <2>3. NumberOf(t) \in Int \cup {NotANumber}
    BY <2>2, NumberOfProperties
  <2>4. CalculatorTypeOK'
    BY <2>1, <2>2, <2>3 DEF CalculatorTypeOK
  <2>5. Exact'
    BY <2>1 DEF Exact
  <2> QED  BY <2>4, <2>5
<1>3. ASSUME InReach, Increment \/ Decrement \/ Abs
      PROVE  CalculatorTypeOK' /\ Exact'
  <2>1. ~SignedTwice(acc)
    BY <1>3 DEF InReach
  <2>2. CASE Increment
    BY <1>1, <2>1, <2>2, UnaryAnswers, ResultInv DEF Increment
  <2>3. CASE Decrement
    BY <1>1, <2>1, <2>3, UnaryAnswers, ResultInv DEF Decrement
  <2>4. CASE Abs
    BY <1>1, <2>1, <2>4, UnaryAnswers, ResultInv DEF Abs
  <2> QED  BY <1>3, <2>2, <2>3, <2>4
<1>4. ASSUME InReach, NEW t \in Operands, ~SignedTwice(t), Call(t)
      PROVE  CalculatorTypeOK' /\ Exact'
  <2>1. ~SignedTwice(acc) /\ t \in Seq(Chars)
    BY <1>4, OperandsAreTexts DEF InReach
  <2>2. CASE Add(t)
    BY <1>1, <1>4, <2>1, <2>2, BinaryAnswers, ResultInv DEF Add, Numbers
  <2>3. CASE Subtract(t)
    BY <1>1, <1>4, <2>1, <2>3, BinaryAnswers, ResultInv DEF Subtract, Numbers
  <2>4. CASE Multiply(t)
    BY <1>1, <1>4, <2>1, <2>4, BinaryAnswers, ResultInv DEF Multiply, Numbers
  <2>5. ASSUME NEW division \in Divisions, Divide(division, t)
        PROVE  CalculatorTypeOK' /\ Exact'
    <3> DEFINE ok == Quotients(t)
               number == Division(division, NumberOf(acc), NumberOf(t))
    <3>1. Result(division, IntMathDivision(division, acc, t), ok, number)
      BY <2>5 DEF Divide
    <3>2. Answers(division, IntMathDivision(division, acc, t), IF ok THEN number ELSE NotANumber)
      BY <1>1, <1>4, <2>1, DivisionAnswers DEF Quotients, Numbers
    <3> QED  BY <3>1, <3>2, ResultInv
  <2> QED  BY <1>4, <2>2, <2>3, <2>4, <2>5 DEF Call
<1> QED  BY <1>2, <1>3, <1>4 DEF Calculate

-----------------------------------------------------------------------------
(* The searches *)

(* The reference of Search is where the text occurs. *)
LEMMA OccurrencesAre ==
  ASSUME SearchTypeOK, NEW i
  PROVE  i \in Occurrences <=> i \in Nat /\ OccursAt(str, substr, i)
<1> DEFINE n == Len(str)
           k == Len(substr)
<1>1. n \in Nat /\ k \in Nat
  BY DEF SearchTypeOK
<1>2. i \in Occurrences <=> i \in 0..(n - k) /\ SubSeq(str, i + 1, i + k) = substr
  BY DEF Occurrences
<1>3. i \in Nat /\ OccursAt(str, substr, i) <=> i \in Nat /\ i + k <= n /\ SubSeq(str, i + 1, i + k) = substr
  BY DEF OccursAt
<1> HIDE DEF n, k
<1>4. i \in 0..(n - k) <=> i \in Nat /\ i + k <= n
  BY <1>1
<1> QED  BY <1>2, <1>3, <1>4

(* Searches are given texts. *)
LEMMA TextsAreTexts ==
  Texts \subseteq Seq(Chars) /\ Bounds \subseteq Seq(Chars)
<1>1. Texts \subseteq Seq(Chars)
  <2> SUFFICES ASSUME NEW n \in 0..MaxLen, NEW t \in [1..n -> Letters]
               PROVE  t \in Seq(Chars)
    BY DEF Texts
  <2>1. n \in Nat /\ t \in [1..n -> Chars]
    BY SearchAssumption
  <2> QED  BY <2>1
<1>2. Bounds \subseteq Seq(Chars)
  <2> SUFFICES ASSUME NEW b \in Bounds
               PROVE  b \in Seq(Chars)
    OBVIOUS
  <2>1. ASSUME NEW n \in 0..(MaxLen + 1)
        PROVE  Decimal[n] \in Seq(Chars)
    <3>1. n \in Nat
      BY SearchAssumption
    <3> QED  BY <3>1, DecimalDigits, DigitsAreChars
  <2>2. <<>> \in Seq(Chars) /\ <<Other>> \in Seq(Chars)
    BY OtherIsNeither
  <2>3. <<Minus, 1>> \in Seq(Chars)
    BY DigitsAreChars, 1 \in 0..9
  <2> QED  BY <2>1, <2>2, <2>3 DEF Bounds
<1> QED  BY <1>1, <1>2

(* What the search between the bounds returns in a state. *)
LEMMA ReturnsNow ==
  ASSUME SearchTypeOK
  PROVE  /\ From \in Nat /\ To \in Nat
         /\ \E v \in Nat : Returns(str, substr, From, To, PoiCoreFindBetween(str, substr, start, end), v)
BY FindBetweenIs DEF SearchTypeOK, From, To

(* A hit lies before the end of the text, at most at the first occurrence left; behind it *)
(* starts the next search.                                                                *)
LEMMA NextHit ==
  ASSUME SearchTypeOK, FindNext
  PROVE  \E h \in Nat : /\ From <= h /\ h < Len(str)
                        /\ start' = Decimal[h + 1] /\ From' = h + 1 /\ found' = found \cup {h}
                        /\ substr # <<>> => \A j \in Nat : Within(str, substr, From, To, j) => h <= j
<1> DEFINE index == PoiCoreFindBetween(str, substr, start, end)
           n == Len(str)
           F == From
           T == To
           to == IF T < n THEN T ELSE n
           room == IF F < to THEN to - F ELSE 0
<1>1. index # Decimal[n] /\ found' = found \cup {Value[index]} /\ start' = IntMathIncrement(index)
  BY DEF FindNext, Strlen
<1>2. F \in Nat /\ T \in Nat /\ \E v \in Nat : Returns(str, substr, F, T, index, v)
  BY ReturnsNow
<1>3. PICK v \in Nat : Returns(str, substr, F, T, index, v)
  BY <1>2
<1>4. n \in Nat
  BY DEF SearchTypeOK
<1>5. /\ index = IF v = room THEN Decimal[n] ELSE Decimal[v + F]
      /\ v <= room
      /\ substr # <<>> => \A j \in Nat : Within(str, substr, F, T, j) => v + F <= j
  BY <1>3 DEF Returns
<1> HIDE DEF index, n, F, T
<1> DEFINE h == v + F
<1>6. index = Decimal[h] /\ v # room
  BY <1>1, <1>5
<1>7. h \in Nat /\ F <= h /\ h < n
  BY <1>2, <1>4, <1>5, <1>6
<1> HIDE DEF h
<1>8. Value[index] = h /\ IntMathIncrement(index) = Decimal[h + 1] /\ h + 1 \in Nat
  BY <1>6, <1>7, ValueOfDecimal, NatIncrement
<1>9. From' = h + 1
  BY <1>1, <1>8, BoundIs DEF From
<1> QED  BY <1>1, <1>5, <1>7, <1>8, <1>9 DEF h, n, F, T

(* When the search reports the length of the text, nothing is left between the bounds. *)
LEMMA NoHit ==
  ASSUME SearchTypeOK, FindNoMore, substr # <<>>, NEW j \in Nat, Within(str, substr, From, To, j)
  PROVE  FALSE
<1> DEFINE index == PoiCoreFindBetween(str, substr, start, end)
           n == Len(str)
           k == Len(substr)
           F == From
           T == To
           to == IF T < n THEN T ELSE n
           room == IF F < to THEN to - F ELSE 0
<1>1. index = Decimal[n]
  BY DEF FindNoMore, Strlen
<1>2. F \in Nat /\ T \in Nat /\ \E v \in Nat : Returns(str, substr, F, T, index, v)
  BY ReturnsNow
<1>3. PICK v \in Nat : Returns(str, substr, F, T, index, v)
  BY <1>2
<1>4. n \in Nat /\ k \in Nat /\ k > 0
  BY DEF SearchTypeOK
<1>5. /\ index = IF v = room THEN Decimal[n] ELSE Decimal[v + F]
      /\ v <= room /\ v + F <= j
  BY <1>3 DEF Returns
<1>6. F <= j /\ j + k <= T /\ j + k <= n
  BY DEF Within, OccursAt
<1> HIDE DEF index, n, k, F, T
<1>7. CASE v = room
  BY <1>2, <1>4, <1>5, <1>6, <1>7
<1>8. CASE v # room
  <2>1. v + F = n
    <3>1. v + F \in Nat /\ Decimal[v + F] = Decimal[n]
      BY <1>1, <1>2, <1>5, <1>8
    <3> QED  BY <1>4, <3>1, DecimalInjective
  <2> QED  BY <1>2, <1>4, <1>6, <1>5, <2>1
<1> QED  BY <1>7, <1>8

(* Every step of a search keeps the search's part. *)
LEMMA LookInv ==
  ASSUME IInv, Look
  PROVE  SearchTypeOK' /\ FindsFirst'
<1> SUFFICES ASSUME SearchTypeOK, FindsFirst
             PROVE  SearchTypeOK' /\ FindsFirst'
  BY DEF IInv
<1>1. CASE Find
  <2>1. /\ first' = PoiCoreFind(str, substr) /\ pc' = "between"
        /\ UNCHANGED <<str, substr, start, end>>
    BY <1>1 DEF Find
  <2>2. SearchTypeOK'
    BY <2>1 DEF SearchTypeOK
  <2>3. str \in Seq(Chars) /\ substr \in Seq(Chars)
    BY DEF SearchTypeOK
  <2>4. PICK v \in Nat :
           /\ PoiCoreFind(str, substr) = Decimal[v] /\ v <= Len(str)
           /\ \/ OccursAt(str, substr, v) /\ \A j \in Nat : OccursAt(str, substr, j) => v <= j
              \/ v = Missed(str, substr) /\ \A j \in Nat : ~OccursAt(str, substr, j)
    BY <2>3, FindIs
  <2>5. Occurrences # {} => \E i \in Occurrences : first' = Decimal[i] /\ \A j \in Occurrences : i <= j
    <3>1. CASE OccursAt(str, substr, v) /\ \A j \in Nat : OccursAt(str, substr, j) => v <= j
      <4>1. v \in Occurrences /\ \A j \in Occurrences : v <= j
        BY <3>1, OccurrencesAre
      <4> QED  BY <2>1, <2>4, <4>1
    <3>2. CASE v = Missed(str, substr) /\ \A j \in Nat : ~OccursAt(str, substr, j)
      BY <3>2, OccurrencesAre
    <3> QED  BY <2>4, <3>1, <3>2
  <2>6. Occurrences' = Occurrences
    BY <2>1 DEF Occurrences
  <2>7. FindsFirst'
    BY <2>1, <2>5, <2>6 DEF FindsFirst
  <2> QED  BY <2>2, <2>7
<1>2. CASE FindNext
  <2>1. PICK h \in Nat : start' = Decimal[h + 1]
    BY <1>2, NextHit
  <2>2. UNCHANGED <<str, substr, end, first, pc>>
    BY <1>2 DEF FindNext
  <2>3. SearchTypeOK'
    <3>1. start' \in Seq(Chars)
      BY <2>1, h + 1 \in Nat, DecimalDigits, DigitsAreChars
    <3> QED  BY <2>2, <3>1 DEF SearchTypeOK
  <2>4. Occurrences' = Occurrences
    BY <2>2 DEF Occurrences
  <2>5. FindsFirst'
    BY <2>2, <2>4 DEF FindsFirst
  <2> QED  BY <2>3, <2>5
<1>3. CASE FindNoMore
  <2>1. UNCHANGED <<str, substr, start, end, first>> /\ pc = "between" /\ pc' = "done"
    BY <1>3 DEF FindNoMore
  <2>2. SearchTypeOK'
    BY <2>1 DEF SearchTypeOK
  <2>3. Occurrences' = Occurrences
    BY <2>1 DEF Occurrences
  <2>4. FindsFirst'
    BY <2>1, <2>3 DEF FindsFirst
  <2> QED  BY <2>2, <2>4
<1>4. ASSUME NEW s \in Texts, NEW t \in Texts, NEW b \in Bounds, NEW e \in Bounds, Choose(s, t, b, e)
      PROVE  SearchTypeOK' /\ FindsFirst'
  <2>1. str' = s /\ substr' = t /\ start' = b /\ end' = e /\ pc' = "find"
    BY <1>4 DEF Choose
  <2>2. SearchTypeOK'
    BY <2>1, TextsAreTexts DEF SearchTypeOK
  <2>3. FindsFirst'
    BY <2>1 DEF FindsFirst
  <2> QED  BY <2>2, <2>3
<1> QED  BY <1>1, <1>2, <1>3, <1>4 DEF Look

(* Every step of the program keeps the invariant. *)
LEMMA NextInv ==
  ASSUME IInv, [Next]_vars
  PROVE  IInv'
<1>1. ASSUME UNCHANGED calculated
      PROVE  CalculatorTypeOK' /\ Exact'
  <2>1. UNCHANGED <<acc, exact, by>>
    BY <1>1 DEF calculated
  <2>2. CalculatorTypeOK'
    BY <2>1 DEF IInv, CalculatorTypeOK
  <2>3. Exact'
    BY <2>1 DEF IInv, Exact
  <2> QED  BY <2>2, <2>3
<1>2. ASSUME UNCHANGED searched
      PROVE  SearchTypeOK' /\ FindsFirst'
  <2>1. UNCHANGED <<str, substr, start, end, first, pc>>
    BY <1>2 DEF searched
  <2>2. SearchTypeOK'
    BY <2>1 DEF IInv, SearchTypeOK
  <2>3. Occurrences' = Occurrences
    BY <2>1 DEF Occurrences
  <2>4. FindsFirst'
    BY <2>1, <2>3 DEF IInv, FindsFirst
  <2> QED  BY <2>2, <2>4
<1>3. CASE Calculate /\ UNCHANGED searched
  BY <1>2, <1>3, CalculateInv DEF IInv
<1>4. CASE Look /\ UNCHANGED calculated
  BY <1>1, <1>4, LookInv DEF IInv
<1>5. CASE UNCHANGED vars
  BY <1>1, <1>2, <1>5 DEF IInv, vars
<1> QED  BY <1>3, <1>4, <1>5 DEF Next

-----------------------------------------------------------------------------
(* The theorems *)

(* In every reachable state of a program that calls the library, texts are texts, *)
(* results are exact and PoiCoreFind has found the first occurrence.              *)
THEOREM InvHolds == Spec => []IInv
<1>1. IInv /\ [Next]_vars => IInv'
  BY NextInv
<1> QED  BY InitInv, <1>1, PTL DEF Spec

(* What calls return and searches keep are texts of the alphabet, for any operands, *)
(* bounds and lengths.                                                              *)
THEOREM TypesHold == Spec => [](CalculatorTypeOK /\ SearchTypeOK)
<1>1. IInv => CalculatorTypeOK /\ SearchTypeOK
  BY DEF IInv
<1> QED  BY InvHolds, <1>1, PTL

(* For integers of any size, and whatever was computed before, IntMathIncrement,       *)
(* Decrement, Abs, Add, Subtract, Multiply, DivideFloor, DivideCeil, DivideRound and   *)
(* Modulus give the integer in its only notation, with two exceptions for zero, and an *)
(* error for anything that is no integer and for a division by zero.                   *)
THEOREM ExactHolds == Spec => []Exact
<1>1. IInv => Exact
  BY DEF IInv
<1> QED  BY InvHolds, <1>1, PTL

(* IntMathLessThan, IntMathEqual and IntMathGreaterThan agree with the order of *)
(* integers, for texts of any length, and compare nothing else.                 *)
THEOREM OrderedHolds == Spec => []Ordered
<1>1. IInv => Ordered
  <2> SUFFICES ASSUME CalculatorTypeOK, NEW t \in Operands \cup Loaded, ~SignedTwice(acc), ~SignedTwice(t)
               PROVE  <<IntMathLessThan(acc, t), IntMathEqual(acc, t), IntMathGreaterThan(acc, t)>> =
                        IF Numbers(t)
                          THEN <<Truth(NumberOf(acc) < NumberOf(t)), Truth(NumberOf(acc) = NumberOf(t)),
                                 Truth(NumberOf(acc) > NumberOf(t))>>
                        ELSE <<ErrorText, ErrorText, ErrorText>>
    BY DEF IInv, Ordered
  <2>1. acc \in Seq(Chars) /\ t \in Seq(Chars)
    BY OperandsAreTexts DEF CalculatorTypeOK
  <2> QED  BY <2>1, ComparisonAnswers DEF Numbers
<1> QED  BY InvHolds, <1>1, PTL

(* IntMathIsValid, IsNonNegativeInt and IsNegativeInt tell integers from other texts, *)
(* but for zeros behind two signs.                                                    *)
THEOREM ClassifiedHolds == Spec => []Classified
<1>1. IInv => Classified
  <2> SUFFICES ASSUME CalculatorTypeOK
               PROVE  Classified
    BY DEF IInv
  <2>1. acc \in Seq(Chars)
    BY DEF CalculatorTypeOK
  <2> QED  BY <2>1, ValidIs, NonNegativeIs, NegativeIs DEF Classified, ChecksMeanIntegers
<1> QED  BY InvHolds, <1>1, PTL

(* PoiCoreFind returns the first occurrence, where there is one, in texts of any length. *)
THEOREM FindsFirstHolds == Spec => []FindsFirst
<1>1. IInv => FindsFirst
  BY DEF IInv
<1> QED  BY InvHolds, <1>1, PTL

(* A step changes the search or it is a step of the search. *)
LEMMA OutsideStays ==
  ASSUME [Next]_vars
  PROVE  Look \/ UNCHANGED searched
BY DEF Next, vars

(* No step of a search passes over an occurrence. *)
LEMMA StepSkipsNone ==
  ASSUME SearchTypeOK, Look, substr # <<>>
  PROVE  LET Inside == {i \in Occurrences : From <= i /\ i + Len(substr) <= To}
         IN  /\ pc = "between" => \A i \in Inside : i < From' => i \in found'
             /\ pc' = "done" => Inside = {}
<1> DEFINE Inside == {i \in Occurrences : From <= i /\ i + Len(substr) <= To}
<1>1. ASSUME NEW i \in Inside
      PROVE  i \in Nat /\ Within(str, substr, From, To, i)
  BY OccurrencesAre DEF Within
<1>2. CASE FindNext
  <2>1. pc = "between" /\ pc' = "between"
    BY <1>2 DEF FindNext
  <2>2. PICK h \in Nat : /\ From' = h + 1 /\ found' = found \cup {h}
                         /\ \A j \in Nat : Within(str, substr, From, To, j) => h <= j
    BY <1>2, NextHit
  <2>3. ASSUME NEW i \in Inside, i < From'
        PROVE  i \in found'
    <3>1. i \in Nat /\ h <= i
      BY <1>1, <2>2
    <3>2. i = h
      BY <2>2, <2>3, <3>1
    <3> QED  BY <2>2, <3>2
  <2> QED  BY <2>1, <2>3
<1>3. CASE FindNoMore
  <2>1. Inside = {}
    BY <1>1, <1>3, NoHit
  <2> QED  BY <2>1
<1>4. CASE Find \/ \E s, t \in Texts, b, e \in Bounds : Choose(s, t, b, e)
  BY <1>4 DEF Find, Choose
<1> QED  BY <1>2, <1>3, <1>4 DEF Look

(* Searches with PoiCoreFindBetween, each behind the last hit, pass over no occurrence *)
(* between the bounds, whatever the bounds are.                                        *)
THEOREM NoneSkippedHolds == Spec => NoneSkipped
<1>1. IInv /\ [Next]_vars =>
        [LET Inside == {i \in Occurrences : From <= i /\ i + Len(substr) <= To}
         IN  substr # <<>> =>
               /\ pc = "between" => \A i \in Inside : i < From' => i \in found'
               /\ pc' = "done" => Inside = {}]_searched
  BY OutsideStays, StepSkipsNone DEF IInv
<1> QED  BY InvHolds, <1>1, PTL DEF Spec, NoneSkipped

(* Each of these searches starts further right than the one before and within the text, *)
(* so that the loop ends.                                                               *)
THEOREM MovesRightHolds == Spec => MovesRight
<1>1. IInv /\ [Next]_vars =>
        [pc = "between" /\ pc' = "between" => From' > From /\ From' <= Len(str)]_searched
  <2> SUFFICES ASSUME SearchTypeOK, Look, pc = "between", pc' = "between"
               PROVE  From' > From /\ From' <= Len(str)
    BY OutsideStays DEF IInv
  <2>1. FindNext
    BY DEF Look, Find, FindNoMore, Choose
  <2>2. PICK h \in Nat : From <= h /\ h < Len(str) /\ From' = h + 1
    BY <2>1, NextHit
  <2>3. From \in Nat /\ Len(str) \in Nat
    BY ReturnsNow DEF SearchTypeOK
  <2> QED  BY <2>2, <2>3
<1> QED  BY InvHolds, <1>1, PTL DEF Spec, MovesRight
=============================================================================
