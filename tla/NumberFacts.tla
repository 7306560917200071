------------------------------ MODULE NumberFacts ------------------------------
(***************************************************************************)
(* Facts about natural numbers that the proofs share: induction and        *)
(* recursion in the form of sets and functions, as the proofs about        *)
(* recursive functions use them, and decimal notation.                     *)
(***************************************************************************)
EXTENDS Decimals, Integers, NaturalsInduction, WellFoundedInduction, SequenceTheorems, TLAPS

-----------------------------------------------------------------------------
(* Induction and recursion *)

(* A set of naturals that is not empty has a least member. *)
LEMMA Least ==
  ASSUME NEW T, T \subseteq Nat, T # {}
  PROVE  \E x \in T : \A y \in T : x <= y
<1>1. IsWellFoundedOn(OpToRel(<, Nat), Nat)
  BY NatLessThanWellFounded
<1>2. PICK x \in T : \A y \in T : ~(<<y, x>> \in OpToRel(<, Nat))
  BY <1>1, WFMin
<1>3. \A y \in T : ~(y < x)
  BY <1>2 DEF OpToRel
<1>4. x \in Nat /\ \A y \in T : y \in Nat
  OBVIOUS
<1>5. \A y \in T : x <= y
  BY <1>3, <1>4
<1> QED  BY <1>5

(* A set that contains zero and the successors of its members contains the  *)
(* naturals.                                                                *)
LEMMA SetInduction ==
  ASSUME NEW S, 0 \in S, \A n \in Nat : n \in S => n + 1 \in S
  PROVE  Nat \subseteq S
<1>1. SUFFICES ASSUME Nat \ S # {} PROVE FALSE
  OBVIOUS
<1>2. PICK x \in Nat \ S : \A y \in Nat \ S : x <= y
  BY <1>1, Least, Nat \ S \subseteq Nat
<1>3. x # 0 /\ x - 1 \in Nat
  BY <1>2
<1> QED  BY <1>2, <1>3

(* A set that contains a natural when it contains the smaller ones contains *)
(* the naturals.                                                            *)
LEMMA StrongInduction ==
  ASSUME NEW S, \A n \in Nat : (\A m \in Nat : m < n => m \in S) => n \in S
  PROVE  Nat \subseteq S
<1>1. SUFFICES ASSUME Nat \ S # {} PROVE FALSE
  OBVIOUS
<1>2. PICK x \in Nat \ S : \A y \in Nat \ S : x <= y
  BY <1>1, Least, Nat \ S \subseteq Nat
<1>3. \A m \in Nat : m < x => m \in S
  BY <1>2
<1> QED  BY <1>2, <1>3

(* The function with a first value, and a step from each value to the next. *)
Recursion(f, V, first, step) ==
  /\ f \in [Nat -> V] /\ f[0] = first
  /\ \A n \in Nat : f[n + 1] = step[<<n, f[n]>>]

(* A first value and a step determine a function of the naturals. *)
LEMMA PrimitiveRecursion ==
  ASSUME NEW V, NEW first \in V, NEW step \in [Nat \X V -> V]
  PROVE  \E f : Recursion(f, V, first, step)
<1> DEFINE Upto(n, f) == /\ f \in [0..n -> V] /\ f[0] = first
                         /\ \A i \in 0..(n - 1) : f[i + 1] = step[<<i, f[i]>>]
           Reached == {n \in Nat : \E f : Upto(n, f)}
           F == [n \in Nat |-> (CHOOSE f : Upto(n, f))[n]]
<1>1. 0 \in Reached
  <2>1. Upto(0, [i \in 0..0 |-> first])
    OBVIOUS
  <2> QED  BY <2>1
<1>2. ASSUME NEW n \in Nat, n \in Reached
      PROVE  n + 1 \in Reached
  <2>1. PICK f : Upto(n, f)
    BY <1>2
  <2> DEFINE g == [i \in 0..(n + 1) |-> IF i <= n THEN f[i] ELSE step[<<n, f[n]>>]]
  <2>2. f[n] \in V /\ step[<<n, f[n]>>] \in V
    BY <2>1
  <2>3. g \in [0..(n + 1) -> V] /\ g[0] = first
    BY <2>1, <2>2
  <2>4. \A i \in 0..n : i \in 0..(n + 1) /\ i + 1 \in 0..(n + 1)
    OBVIOUS
  <2>5. ASSUME NEW i \in 0..n
        PROVE  g[i + 1] = step[<<i, g[i]>>]
    <3>1. CASE i = n
      BY <2>4, <3>1
    <3>2. CASE i # n
      <4>1. i \in 0..(n - 1) /\ i + 1 <= n /\ i <= n
        BY <3>2
      <4> QED  BY <2>1, <2>4, <4>1
    <3> QED  BY <3>1, <3>2
  <2>6. Upto(n + 1, g)
    <3>1. (n + 1) - 1 = n
      OBVIOUS
    <3> HIDE DEF g
    <3> QED  BY <2>3, <2>5, <3>1
  <2>7. \E h : Upto(n + 1, h)
    <3> HIDE DEF Upto, g
    <3> QED  BY <2>6
  <2> QED  BY <2>7
<1>3. Nat \subseteq Reached
  <2> HIDE DEF Reached
  <2> QED  BY <1>1, <1>2, SetInduction
<1>4. \A n \in Nat : Upto(n, CHOOSE f : Upto(n, f))
  BY <1>3
<1>5. ASSUME NEW n \in Nat, NEW m \in Nat, n <= m, NEW f, NEW g, Upto(n, f), Upto(m, g)
      PROVE  f[n] = g[n]
  <2> DEFINE Same == {i \in Nat : i <= n => f[i] = g[i]}
  <2>1. 0 \in Same
    BY <1>5
  <2>2. ASSUME NEW i \in Nat, i \in Same
        PROVE  i + 1 \in Same
    <3>1. CASE i + 1 <= n
      <4>1. i \in 0..(n - 1) /\ i \in 0..(m - 1) /\ i <= n
        BY <1>5, <3>1
      <4>2. f[i + 1] = step[<<i, f[i]>>]
        BY <1>5, <4>1
      <4>3. g[i + 1] = step[<<i, g[i]>>]
        BY <1>5, <4>1
      <4> QED  BY <2>2, <4>1, <4>2, <4>3
    <3> QED  BY <3>1
  <2>3. Nat \subseteq Same
    <3> HIDE DEF Same
    <3> QED  BY <2>1, <2>2, SetInduction
  <2> QED  BY <2>3
<1> HIDE DEF Upto
<1>6. F \in [Nat -> V]
  <2>1. ASSUME NEW n \in Nat
        PROVE  (CHOOSE f : Upto(n, f))[n] \in V
    <3> DEFINE f == CHOOSE f : Upto(n, f)
    <3>1. Upto(n, f)
      BY <1>4
    <3> HIDE DEF f
    <3>2. f \in [0..n -> V] /\ n \in 0..n
      BY <3>1 DEF Upto
    <3>3. f[n] \in V
      BY <3>2
    <3> QED  BY <3>3 DEF f
  <2>2. \A n \in Nat : (CHOOSE f : Upto(n, f))[n] \in V
    BY <2>1
  <2> QED  BY <2>2
<1>7. F[0] = first
  BY <1>4 DEF Upto
<1>8. ASSUME NEW n \in Nat
      PROVE  F[n + 1] = step[<<n, F[n]>>]
  <2> DEFINE f == CHOOSE h : Upto(n + 1, h)
  <2>1. Upto(n + 1, f)
    BY <1>4
  <2>2. f[n] = F[n]
    <3>1. Upto(n, CHOOSE h : Upto(n, h))
      BY <1>4
    <3> HIDE DEF f
    <3> QED  BY <1>5, <2>1, <3>1
  <2>3. f[n + 1] = step[<<n, f[n]>>]
    <3>1. n \in 0..((n + 1) - 1)
      OBVIOUS
    <3> HIDE DEF f
    <3> QED  BY <2>1, <3>1 DEF Upto
  <2>4. F[n + 1] = f[n + 1]
    OBVIOUS
  <2> QED  BY <2>2, <2>3, <2>4
<1>9. Recursion(F, V, first, step)
  <2> HIDE DEF F
  <2> QED  BY <1>6, <1>7, <1>8 DEF Recursion
<1> QED  BY <1>9

(* A step that looks at values of a function only where m measures less, ... *)
Measured(D, V, m, step) ==
  \A x \in D : \A f, g \in [D -> V] :
    (\A y \in D : m[y] < m[x] => f[y] = g[y]) => step[<<x, f>>] = step[<<x, g>>]

(* ... and the function that it determines. *)
Solution(f, D, V, step) == f \in [D -> V] /\ \A x \in D : f[x] = step[<<x, f>>]

(* Such a step determines a function. *)
LEMMA MeasuredRecursion ==
  ASSUME NEW D, NEW V, NEW v0 \in V, NEW m \in [D -> Nat], NEW step \in [D \X [D -> V] -> V],
         Measured(D, V, m, step)
  PROVE  \E f : Solution(f, D, V, step)
<1> DEFINE T == [D -> V]
           first == [x \in D |-> v0]
           all == [p \in Nat \X T |-> [x \in D |-> step[<<x, p[2]>>]]]
<1>1. first \in T
  OBVIOUS
<1>2. all \in [Nat \X T -> T]
  <2>1. ASSUME NEW f \in T
        PROVE  [x \in D |-> step[<<x, f>>]] \in T
    <3>1. \A x \in D : <<x, f>> \in D \X [D -> V]
      OBVIOUS
    <3>2. \A x \in D : step[<<x, f>>] \in V
      BY <3>1
    <3> QED  BY <3>2
  <2> HIDE DEF T
  <2> QED  BY <2>1
<1>3. PICK F \in [Nat -> T] : F[0] = first /\ \A n \in Nat : F[n + 1] = all[<<n, F[n]>>]
  <2> HIDE DEF T, first, all
  <2>1. \E f : Recursion(f, T, first, all)
    BY <1>1, <1>2, PrimitiveRecursion
  <2> QED  BY <2>1 DEF Recursion
<1>4. ASSUME NEW n \in Nat, NEW x \in D
      PROVE  F[n + 1][x] = step[<<x, F[n]>>]
  <2>1. F[n] \in T
    BY <1>3
  <2> HIDE DEF T
  <2>2. <<n, F[n]>> \in Nat \X T
    BY <2>1
  <2>3. all[<<n, F[n]>>] = [y \in D |-> step[<<y, F[n]>>]]
    BY <2>2
  <2> HIDE DEF all
  <2>4. F[n + 1] = [y \in D |-> step[<<y, F[n]>>]]
    BY <1>3, <2>3
  <2> QED  BY <2>4
<1> HIDE DEF all, first
<1> DEFINE Stable == {n \in Nat : \A k \in Nat : \A x \in D :
                        m[x] < n /\ n <= k => F[n][x] = F[k][x]}
<1>5. 0 \in Stable
  BY SMT
<1>6. ASSUME NEW n \in Nat, n \in Stable
      PROVE  n + 1 \in Stable
  <2> SUFFICES ASSUME NEW k \in Nat, NEW x \in D, m[x] < n + 1, n + 1 <= k
               PROVE  F[n + 1][x] = F[k][x]
    BY n + 1 \in Nat
  <2>1. k - 1 \in Nat /\ n <= k - 1 /\ (k - 1) + 1 = k /\ m[x] \in Nat
    OBVIOUS
  <2>2. \A y \in D : m[y] < m[x] => F[n][y] = F[k - 1][y]
    <3> SUFFICES ASSUME NEW y \in D, m[y] < m[x]
                 PROVE  F[n][y] = F[k - 1][y]
      OBVIOUS
    <3>1. m[y] \in Nat
      OBVIOUS
    <3> QED  BY <1>6, <2>1, <3>1
  <2>3. F[n] \in [D -> V] /\ F[k - 1] \in [D -> V]
    BY <1>3, <2>1
  <2>4. step[<<x, F[n]>>] = step[<<x, F[k - 1]>>]
    BY <2>2, <2>3 DEF Measured
  <2>5. F[k] = F[(k - 1) + 1]
    BY <2>1
  <2> QED  BY <1>4, <2>1, <2>4, <2>5
<1>7. Nat \subseteq Stable
  <2> HIDE DEF Stable
  <2> QED  BY <1>5, <1>6, SetInduction
<1> DEFINE G == [x \in D |-> F[m[x] + 1][x]]
<1>8. G \in [D -> V]
  <2>1. \A x \in D : m[x] + 1 \in Nat
    OBVIOUS
  <2>2. \A x \in D : F[m[x] + 1] \in [D -> V]
    BY <1>3, <2>1
  <2> QED  BY <2>2
<1>9. ASSUME NEW x \in D
      PROVE  G[x] = step[<<x, G>>]
  <2>1. G[x] = step[<<x, F[m[x]]>>] /\ m[x] \in Nat
    BY <1>4
  <2>2. ASSUME NEW y \in D, m[y] < m[x]
        PROVE  F[m[x]][y] = G[y]
    <3>1. m[y] + 1 \in Nat /\ m[y] < m[y] + 1 /\ m[y] + 1 <= m[x] /\ m[x] \in Nat /\ m[y] + 1 \in Stable
      BY <1>7, <2>2
    <3>2. F[m[y] + 1][y] = F[m[x]][y]
      BY <3>1
    <3> QED  BY <3>2
  <2>3. F[m[x]] \in [D -> V]
    BY <1>3, <2>1
  <2> HIDE DEF G
  <2> QED  BY <1>8, <2>1, <2>2, <2>3 DEF Measured
<1> QED
  <2> HIDE DEF G
  <2> QED  BY <1>8, <1>9 DEF Solution

(* A function from D to sets of values whose value at x is a base value and  *)
(* all of its values at next[x].                                            *)
Accumulation(f, D, base, next) ==
  f = [x \in D |-> base[x] \cup UNION {f[y] : y \in next[x]}]

(* There is always such a function, whether or not next leads back to x: the *)
(* least one, which is the intersection of all that contain what they must. *)
LEMMA Accumulates ==
  ASSUME NEW D, NEW V, NEW base \in [D -> SUBSET V], NEW next \in [D -> SUBSET D]
  PROVE  \E f : Accumulation(f, D, base, next)
<1> DEFINE Step(f) == [x \in D |-> base[x] \cup UNION {f[y] : y \in next[x]}]
           Closed(f) == \A x \in D : Step(f)[x] \subseteq f[x]
           G == [x \in D |-> {v \in V : \A f \in [D -> SUBSET V] : Closed(f) => v \in f[x]}]
<1>1. \A f \in [D -> SUBSET V] : Step(f) \in [D -> SUBSET V]
  OBVIOUS
<1>2. G \in [D -> SUBSET V]
  OBVIOUS
<1>3. \A f \in [D -> SUBSET V] : Closed(f) => \A x \in D : G[x] \subseteq f[x]
  OBVIOUS
<1>4. \A f, g \in [D -> SUBSET V] :
        (\A x \in D : f[x] \subseteq g[x]) => \A x \in D : Step(f)[x] \subseteq Step(g)[x]
  OBVIOUS
<1>5. \A v, x : x \in D /\ v \in V /\ (\A f \in [D -> SUBSET V] : Closed(f) => v \in f[x])
               => v \in G[x]
  OBVIOUS
<1> HIDE DEF G, Step
<1>6. Closed(G)
  <2> SUFFICES ASSUME NEW x \in D, NEW v \in Step(G)[x]
               PROVE  v \in G[x]
    OBVIOUS
  <2>1. v \in V
    BY <1>1, <1>2
  <2>2. ASSUME NEW f \in [D -> SUBSET V], Closed(f)
        PROVE  v \in f[x]
    <3>1. \A y \in D : Step(G)[y] \subseteq Step(f)[y]
      BY <1>2, <1>3, <1>4, <2>2
    <3> QED  BY <2>2, <3>1
  <2> QED  BY <1>5, <2>1, <2>2
<1>7. Closed(Step(G))
  BY <1>1, <1>2, <1>4, <1>6
<1>8. \A x \in D : G[x] = Step(G)[x]
  BY <1>1, <1>2, <1>3, <1>6, <1>7
<1>9. G = Step(G)
  BY <1>1, <1>2, <1>8
<1>10. Accumulation(G, D, base, next)
  BY <1>9 DEF Accumulation, Step
<1> QED  BY <1>10

-----------------------------------------------------------------------------
(* The recursive functions of decimal notation satisfy their equations. *)

(* The powers of a number. *)
LEMMA Powers ==
  ASSUME NEW b \in Nat
  PROVE  \E f : f = [n \in Nat |-> IF n = 0 THEN 1 ELSE b * f[n - 1]]
<1> DEFINE step == [p \in Nat \X Nat |-> b * p[2]]
<1>1. step \in [Nat \X Nat -> Nat]
  OBVIOUS
<1>2. PICK F \in [Nat -> Nat] : F[0] = 1 /\ \A n \in Nat : F[n + 1] = step[<<n, F[n]>>]
  <2> HIDE DEF step
  <2>1. \E f : Recursion(f, Nat, 1, step)
    BY <1>1, PrimitiveRecursion
  <2> QED  BY <2>1 DEF Recursion
<1>3. ASSUME NEW n \in Nat
      PROVE  F[n] = IF n = 0 THEN 1 ELSE b * F[n - 1]
  <2>1. CASE n = 0
    BY <1>2, <2>1
  <2>2. CASE n # 0
    <3>1. n - 1 \in Nat /\ (n - 1) + 1 = n
      BY <2>2
    <3>2. F[(n - 1) + 1] = step[<<n - 1, F[n - 1]>>]
      BY <1>2, <3>1
    <3>3. step[<<n - 1, F[n - 1]>>] = b * F[n - 1]
      BY <3>1
    <3> HIDE DEF step
    <3> QED  BY <2>2, <3>1, <3>2, <3>3
  <2> QED  BY <2>1, <2>2
<1>4. F = [n \in Nat |-> IF n = 0 THEN 1 ELSE b * F[n - 1]]
  BY <1>3
<1> QED  BY <1>4

(* How many numbers so many digits can write. *)
LEMMA OfDigitsEquation ==
  OfDigits[0] = 1 /\ \A n \in Nat : OfDigits[n + 1] = 10 * OfDigits[n]
<1>1. \E f : f = [n \in Nat |-> IF n = 0 THEN 1 ELSE 10 * f[n - 1]]
  BY Powers, 10 \in Nat
<1>2. OfDigits = [n \in Nat |-> IF n = 0 THEN 1 ELSE 10 * OfDigits[n - 1]]
  BY <1>1 DEF OfDigits
<1>3. ASSUME NEW n \in Nat
      PROVE  OfDigits[n + 1] = 10 * OfDigits[n]
  BY <1>2, n + 1 \in Nat, n + 1 # 0, (n + 1) - 1 = n
<1> QED  BY <1>2, <1>3

(* Decimal notation: all digits but the last are those of a smaller number. *)
LEMMA DecimalEquation ==
  \A n \in Nat : IF n < 10 THEN Decimal[n] = <<n>>
                 ELSE Decimal[n] = Append(Decimal[n \div 10], n % 10)
<1> DEFINE V == Seq(Nat)
           Body(n, f) == IF n < 10 THEN <<n>> ELSE Append(f[n \div 10], n % 10)
           step == [p \in Nat \X [Nat -> V] |-> Body(p[1], p[2])]
           m == [n \in Nat |-> n]
<1>1. \A n \in Nat : n \div 10 \in Nat /\ n % 10 \in Nat /\ (~(n < 10) => n \div 10 < n)
  OBVIOUS
<1>2. ASSUME NEW n \in Nat, NEW f \in [Nat -> V]
      PROVE  Body(n, f) \in V
  <2>1. f[n \div 10] \in Seq(Nat)
    BY <1>1
  <2> QED  BY <1>1, <2>1
<1>3. step \in [Nat \X [Nat -> V] -> V]
  <2> HIDE DEF V, Body
  <2> QED  BY <1>2
<1>4. ASSUME NEW n \in Nat, NEW f \in [Nat -> V], NEW g \in [Nat -> V],
             \A k \in Nat : m[k] < m[n] => f[k] = g[k]
      PROVE  step[<<n, f>>] = step[<<n, g>>]
  <2>1. ~(n < 10) => f[n \div 10] = g[n \div 10]
    BY <1>1, <1>4
  <2>2. Body(n, f) = Body(n, g)
    BY <2>1
  <2> HIDE DEF Body, V
  <2> QED  BY <2>2
<1>5. <<>> \in V /\ m \in [Nat -> Nat]
  OBVIOUS
<1>6. PICK F : Solution(F, Nat, V, step)
  <2> HIDE DEF V, step, m
  <2>1. Measured(Nat, V, m, step)
    BY <1>4 DEF Measured
  <2> QED  BY <1>3, <1>5, <2>1, MeasuredRecursion
<1>7. F \in [Nat -> V] /\ \A n \in Nat : F[n] = Body(n, F)
  <2> HIDE DEF V, Body
  <2> QED  BY <1>6 DEF Solution
<1>8. F = [n \in Nat |-> IF n < 10 THEN <<n>> ELSE Append(F[n \div 10], n % 10)]
  <2> HIDE DEF V
  <2> QED  BY <1>7
<1>9. Decimal = [n \in Nat |-> IF n < 10 THEN <<n>> ELSE Append(Decimal[n \div 10], n % 10)]
  BY <1>8 DEF Decimal
<1> QED  BY <1>9

(* The value of a text: its last digit counts once, the others ten times.   *)
LEMMA ValueEquation ==
  \A t \in Seq(0..9) :
    Value[t] = IF t = <<>> THEN 0 ELSE Value[SubSeq(t, 1, Len(t) - 1)] * 10 + t[Len(t)]
<1> DEFINE T == Seq(0..9)
           Front(t) == SubSeq(t, 1, Len(t) - 1)
           Body(t, f) == IF t = <<>> THEN 0 ELSE f[Front(t)] * 10 + t[Len(t)]
           step == [p \in T \X [T -> Nat] |-> Body(p[1], p[2])]
           m == [t \in T |-> Len(t)]
<1>1. ASSUME NEW t \in T, t # <<>>
      PROVE  /\ Front(t) \in T /\ Len(Front(t)) < Len(t) /\ t[Len(t)] \in Nat
  <2>1. Len(t) \in Nat /\ Len(t) > 0 /\ Len(t) \in 1..Len(t) /\ Len(t) - 1 \in Nat
    BY <1>1, EmptySeq
  <2>2. t[Len(t)] \in 0..9
    BY <1>1, <2>1
  <2> DEFINE k == Len(t) - 1
  <2>3. k \in Nat /\ \A i \in 1..k : t[i] \in 0..9
    BY <1>1, <2>1
  <2> HIDE DEF k
  <2>4. SubSeq(t, 1, k) \in Seq(0..9) /\ Len(SubSeq(t, 1, k)) = k
    BY <2>3, SubSeqProperties
  <2> QED  BY <2>1, <2>2, <2>4 DEF k
<1> HIDE DEF Front
<1>2. ASSUME NEW t \in T, NEW f \in [T -> Nat]
      PROVE  Body(t, f) \in Nat
  <2>1. t # <<>> => f[Front(t)] \in Nat
    BY <1>1
  <2> QED  BY <1>1, <2>1
<1>3. step \in [T \X [T -> Nat] -> Nat]
  <2> HIDE DEF T, Body
  <2> QED  BY <1>2
<1>4. ASSUME NEW t \in T, NEW f \in [T -> Nat], NEW g \in [T -> Nat],
             \A u \in T : m[u] < m[t] => f[u] = g[u]
      PROVE  step[<<t, f>>] = step[<<t, g>>]
  <2>1. t # <<>> => f[Front(t)] = g[Front(t)]
    BY <1>1, <1>4
  <2>2. Body(t, f) = Body(t, g)
    BY <2>1
  <2> HIDE DEF Body, T
  <2> QED  BY <2>2
<1>5. 0 \in Nat /\ m \in [T -> Nat]
  OBVIOUS
<1>6. PICK F : Solution(F, T, Nat, step)
  <2> HIDE DEF T, step, m
  <2>1. Measured(T, Nat, m, step)
    BY <1>4 DEF Measured
  <2> QED  BY <1>3, <1>5, <2>1, MeasuredRecursion
<1>7. F \in [T -> Nat] /\ \A t \in T : F[t] = Body(t, F)
  <2> HIDE DEF T, Body
  <2> QED  BY <1>6 DEF Solution
<1>8. F = [t \in T |-> IF t = <<>> THEN 0 ELSE F[SubSeq(t, 1, Len(t) - 1)] * 10 + t[Len(t)]]
  <2> HIDE DEF T
  <2> QED  BY <1>7 DEF Front
<1>9. Value = [t \in T |-> IF t = <<>> THEN 0
                           ELSE Value[SubSeq(t, 1, Len(t) - 1)] * 10 + t[Len(t)]]
  BY <1>8 DEF Value
<1> QED  BY <1>9

-----------------------------------------------------------------------------
(* Digits and values *)

LEMMA Quotient ==
  ASSUME NEW n \in Nat
  PROVE  /\ n \div 10 \in Nat /\ n % 10 \in 0..9 /\ n = (n \div 10) * 10 + (n % 10)
         /\ ~(n < 10) => n \div 10 < n
  OBVIOUS

(* A number is written in digits, at least one. *)
LEMMA DecimalDigits ==
  \A n \in Nat : Decimal[n] \in Seq(0..9) /\ Decimal[n] # <<>>
<1> DEFINE S == {n \in Nat : Decimal[n] \in Seq(0..9) /\ Decimal[n] # <<>>}
<1>1. ASSUME NEW n \in Nat, \A m \in Nat : m < n => m \in S
      PROVE  n \in S
  <2>1. CASE n < 10
    <3>1. Decimal[n] = <<n>>
      BY <2>1, DecimalEquation
    <3>2. <<n>> \in Seq(0..9) /\ <<n>> # <<>>
      BY <2>1
    <3> QED  BY <3>1, <3>2
  <2>2. CASE ~(n < 10)
    <3> DEFINE d == n \div 10
               r == n % 10
    <3>1. Decimal[n] = Append(Decimal[d], r)
      BY <2>2, DecimalEquation
    <3>2. d \in Nat /\ d < n /\ r \in 0..9
      BY <2>2, Quotient
    <3> HIDE DEF d, r
    <3>3. Decimal[d] \in Seq(0..9)
      BY <1>1, <3>2
    <3>4. Append(Decimal[d], r) \in Seq(0..9) /\ Append(Decimal[d], r) # <<>>
      BY <3>2, <3>3
    <3> QED  BY <3>1, <3>4
  <2> QED  BY <2>1, <2>2
<1>2. Nat \subseteq S
  <2> HIDE DEF S
  <2> QED  BY <1>1, StrongInduction
<1> QED  BY <1>2

(* One more digit behind a text. *)
LEMMA ValueOfAppend ==
  ASSUME NEW t \in Seq(0..9), NEW r \in 0..9
  PROVE  Append(t, r) \in Seq(0..9) /\ Value[Append(t, r)] = Value[t] * 10 + r
<1> DEFINE u == Append(t, r)
<1>1. u \in Seq(0..9) /\ u # <<>> /\ Len(u) = Len(t) + 1 /\ u[Len(u)] = r
  OBVIOUS
<1>2. SubSeq(u, 1, Len(u) - 1) = t
  <2>1. Len(u) - 1 = Len(t) /\ Len(t) \in Nat /\ \A i \in 1..Len(t) : u[i] = t[i]
    BY <1>1
  <2>2. \A i \in 1..Len(t) : u[i] \in 0..9
    BY <2>1
  <2>3. /\ SubSeq(u, 1, Len(t)) \in Seq(0..9) /\ Len(SubSeq(u, 1, Len(t))) = Len(t)
        /\ \A i \in 1..Len(t) : SubSeq(u, 1, Len(t))[i] = u[i]
    <3> HIDE DEF u
    <3> QED  BY <2>1, <2>2, SubSeqProperties
  <2> HIDE DEF u
  <2> QED  BY <2>1, <2>3, SeqEqual
<1> HIDE DEF u
<1>3. Value[u] = Value[SubSeq(u, 1, Len(u) - 1)] * 10 + u[Len(u)]
  BY <1>1, ValueEquation
<1> QED  BY <1>1, <1>2, <1>3 DEF u

(* Every text is empty or one with a digit behind it. *)
LEMMA LastDigit ==
  ASSUME NEW t \in Seq(0..9), t # <<>>
  PROVE  \E u \in Seq(0..9), r \in 0..9 :
           t = Append(u, r) /\ Len(u) = Len(t) - 1 /\ Value[t] = Value[u] * 10 + r
<1> DEFINE u == SubSeq(t, 1, Len(t) - 1)
           r == t[Len(t)]
<1>1. Len(t) \in Nat /\ Len(t) > 0 /\ Len(t) - 1 \in Nat /\ r \in 0..9
  BY EmptySeq
<1>2. /\ u \in Seq(0..9) /\ Len(u) = Len(t) - 1
      /\ \A i \in 1..(Len(t) - 1) : u[i] = t[i]
  <2> DEFINE k == Len(t) - 1
  <2>1. k \in Nat /\ \A i \in 1..k : t[i] \in 0..9
    BY <1>1
  <2> HIDE DEF k
  <2>2. /\ SubSeq(t, 1, k) \in Seq(0..9) /\ Len(SubSeq(t, 1, k)) = k
        /\ \A i \in 1..k : SubSeq(t, 1, k)[i] = t[i]
    BY <2>1, SubSeqProperties
  <2> QED  BY <2>2 DEF k
<1>3. t = Append(u, r)
  <2>1. Append(u, r) \in Seq(0..9) /\ Len(Append(u, r)) = Len(t)
    BY <1>1, <1>2
  <2>2. \A i \in 1..Len(t) : Append(u, r)[i] = t[i]
    BY <1>1, <1>2
  <2> HIDE DEF u, r
  <2> QED  BY <2>1, <2>2, SeqEqual
<1> HIDE DEF u, r
<1> QED  BY <1>1, <1>2, <1>3, ValueOfAppend

LEMMA ValueIsNat ==
  \A t \in Seq(0..9) : Value[t] \in Nat
<1> DEFINE S == {k \in Nat : \A t \in Seq(0..9) : Len(t) = k => Value[t] \in Nat}
<1>1. 0 \in S
  BY ValueEquation, EmptySeq
<1>2. ASSUME NEW k \in Nat, k \in S
      PROVE  k + 1 \in S
  <2> SUFFICES ASSUME NEW t \in Seq(0..9), Len(t) = k + 1
               PROVE  Value[t] \in Nat
    OBVIOUS
  <2>1. PICK u \in Seq(0..9), r \in 0..9 : Len(u) = Len(t) - 1 /\ Value[t] = Value[u] * 10 + r
    BY LastDigit, EmptySeq
  <2>2. Value[u] \in Nat
    BY <1>2, <2>1
  <2> QED  BY <2>1, <2>2
<1>3. Nat \subseteq S
  <2> HIDE DEF S
  <2> QED  BY <1>1, <1>2, SetInduction
<1> QED  BY <1>3

(* What is written is read as the number it was written from. *)
LEMMA ValueOfDecimal ==
  \A n \in Nat : Value[Decimal[n]] = n
<1> DEFINE S == {n \in Nat : Value[Decimal[n]] = n}
<1>1. Value[<<>>] = 0
  BY ValueEquation, <<>> \in Seq(0..9)
<1>2. ASSUME NEW n \in Nat, \A m \in Nat : m < n => m \in S
      PROVE  n \in S
  <2>1. CASE n < 10
    <3>1. Decimal[n] = <<n>>
      BY <2>1, DecimalEquation
    <3>2. n \in 0..9 /\ <<>> \in Seq(0..9)
      BY <2>1
    <3>3. <<n>> = Append(<<>>, n)
      OBVIOUS
    <3>4. Value[Append(<<>>, n)] = Value[<<>>] * 10 + n
      BY <3>2, ValueOfAppend
    <3> QED  BY <1>1, <3>1, <3>3, <3>4
  <2>2. CASE ~(n < 10)
    <3> DEFINE d == n \div 10
               r == n % 10
    <3>1. Decimal[n] = Append(Decimal[d], r)
      BY <2>2, DecimalEquation
    <3>2. d \in Nat /\ d < n /\ r \in 0..9 /\ n = d * 10 + r
      BY <2>2, Quotient
    <3> HIDE DEF d, r
    <3>3. Value[Decimal[d]] = d /\ Decimal[d] \in Seq(0..9)
      BY <1>2, <3>2, DecimalDigits
    <3> QED  BY <3>1, <3>2, <3>3, ValueOfAppend
  <2> QED  BY <2>1, <2>2
<1>3. Nat \subseteq S
  <2> HIDE DEF S
  <2> QED  BY <1>2, StrongInduction
<1> QED  BY <1>3

-----------------------------------------------------------------------------
(* How long the text of a number is *)

(* Texts of at most a number of digits stay below a bound, and numbers      *)
(* below that bound are written in so many digits.                          *)
Fit(k, bound) ==
  /\ \A t \in Seq(0..9) : Len(t) <= k => Value[t] < bound
  /\ k > 0 => \A n \in Nat : n < bound => Len(Decimal[n]) <= k

LEMMA OneMoreDigit ==
  ASSUME NEW k \in Nat, NEW bound \in Nat \ {0}, Fit(k, bound), k = 0 => bound = 1
  PROVE  Fit(k + 1, 10 * bound)
<1>1. ASSUME NEW t \in Seq(0..9), Len(t) <= k + 1
      PROVE  Value[t] < 10 * bound
  <2>1. CASE t = <<>>
    <3>1. Value[t] = 0
      BY <2>1, ValueEquation
    <3> QED  BY <3>1
  <2>2. CASE t # <<>>
    <3>1. PICK u \in Seq(0..9), r \in 0..9 : Len(u) = Len(t) - 1 /\ Value[t] = Value[u] * 10 + r
      BY <2>2, LastDigit
    <3>2. Len(u) <= k
      BY <1>1, <3>1
    <3>3. Value[u] \in Nat /\ Value[u] < bound
      BY <3>2, ValueIsNat DEF Fit
    <3> QED  BY <3>1, <3>3
  <2> QED  BY <2>1, <2>2
<1>2. ASSUME NEW n \in Nat, n < 10 * bound
      PROVE  Len(Decimal[n]) <= k + 1
  <2>1. CASE n < 10
    <3>1. Decimal[n] = <<n>>
      BY <2>1, DecimalEquation
    <3> QED  BY <3>1
  <2>2. CASE ~(n < 10)
    <3> DEFINE d == n \div 10
               r == n % 10
    <3>1. Decimal[n] = Append(Decimal[d], r)
      BY <2>2, DecimalEquation
    <3>2. d \in Nat /\ r \in 0..9 /\ n = d * 10 + r
      BY <2>2, Quotient
    <3> HIDE DEF d, r
    <3>3. d < bound /\ k > 0
      BY <1>2, <2>2, <3>2
    <3>4. Len(Decimal[d]) <= k /\ Decimal[d] \in Seq(0..9)
      BY <3>2, <3>3, DecimalDigits DEF Fit
    <3> QED  BY <3>1, <3>2, <3>4
  <2> QED  BY <2>1, <2>2
<1> QED  BY <1>1, <1>2 DEF Fit

LEMMA NoDigit ==
  Fit(0, 1)
<1>1. ASSUME NEW t \in Seq(0..9), Len(t) <= 0
      PROVE  Value[t] < 1
  <2>1. t = <<>>
    BY <1>1, EmptySeq
  <2>2. Value[<<>>] = 0
    BY ValueEquation, <<>> \in Seq(0..9)
  <2> QED  BY <2>1, <2>2
<1> QED  BY <1>1 DEF Fit

LEMMA DigitsOfPowers ==
  \A k \in Nat : OfDigits[k] \in Nat \ {0} /\ Fit(k, OfDigits[k])
<1> DEFINE S == {k \in Nat : OfDigits[k] \in Nat \ {0} /\ Fit(k, OfDigits[k])}
<1>1. OfDigits[0] = 1
  BY OfDigitsEquation
<1>2. 0 \in S
  BY <1>1, NoDigit
<1>3. ASSUME NEW k \in Nat, k \in S
      PROVE  k + 1 \in S
  <2>1. OfDigits[k + 1] = 10 * OfDigits[k]
    BY OfDigitsEquation
  <2>2. k = 0 => OfDigits[k] = 1
    BY <1>1
  <2>3. Fit(k + 1, 10 * OfDigits[k])
    BY <1>3, <2>2, OneMoreDigit
  <2> QED  BY <1>3, <2>1, <2>3
<1>4. Nat \subseteq S
  <2> HIDE DEF S
  <2> QED  BY <1>2, <1>3, SetInduction
<1> QED  BY <1>4
=============================================================================
