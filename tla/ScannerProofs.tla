---------------------------- MODULE ScannerProofs ----------------------------
(***************************************************************************)
(* Proofs about Scanner, for files of every length over any characters:    *)
(* that the three passes lose nothing, keep words whole and lines exact,   *)
(* and that every token moves on.                                          *)
(***************************************************************************)
EXTENDS Scanner, NumberFacts, SequenceTheorems, FiniteSetTheorems

Chars == UNION Alphabets

States == {"code", "string", "escape", "comment"}

-----------------------------------------------------------------------------
(* The automaton of the reference. *)

LEMMA BehindValues ==
  ASSUME NEW c
  PROVE  /\ Behind("code", c) =
              IF c = Quote THEN "string" ELSE IF c = Hash THEN "comment" ELSE "code"
         /\ Behind("string", c) =
              IF c = Quote THEN "code" ELSE IF c = Backslash THEN "escape" ELSE "string"
         /\ Behind("escape", c) = "string"
         /\ Behind("comment", c) = IF c = Hash THEN "code" ELSE "comment"
<1>1. Behind("code", c) =
        IF c = Quote THEN "string" ELSE IF c = Hash THEN "comment" ELSE "code"
  BY Zenon DEF Behind
<1>2. Behind("string", c) =
        IF c = Quote THEN "code" ELSE IF c = Backslash THEN "escape" ELSE "string"
  BY Zenon DEF Behind
<1>3. Behind("escape", c) = "string"
  BY Zenon DEF Behind
<1>4. Behind("comment", c) = IF c = Hash THEN "code" ELSE "comment"
  BY Zenon DEF Behind
<1> QED  BY <1>1, <1>2, <1>3, <1>4

LEMMA BehindStates == \A state \in States : \A c : Behind(state, c) \in States
BY BehindValues DEF States

(* After, for any text. *)
Marks(t) == CHOOSE f : f = [i \in 0..Len(t) |->
                              IF i = 0 THEN "code" ELSE Behind(f[i - 1], t[i])]

LEMMA AfterIsMarks == After = Marks(text) /\ After' = Marks(text')
BY DEF After, Marks

LEMMA MarksEquation ==
  ASSUME NEW S, NEW t \in Seq(S)
  PROVE  /\ Marks(t) \in [0..Len(t) -> States]
         /\ Marks(t)[0] = "code"
         /\ \A i \in 1..Len(t) : Marks(t)[i] = Behind(Marks(t)[i - 1], t[i])
<1> DEFINE n == Len(t)
           Body(f) == [i \in 0..n |-> IF i = 0 THEN "code" ELSE Behind(f[i - 1], t[i])]
           step == [p \in Nat \X States |-> Behind(p[2], t[p[1] + 1])]
<1>0. n \in Nat
  OBVIOUS
<1>1. step \in [Nat \X States -> States]
  BY BehindStates
<1>2. PICK f : Recursion(f, States, "code", step)
  <2> HIDE DEF step
  <2> QED  BY <1>1, PrimitiveRecursion DEF States
<1>3. /\ f \in [Nat -> States] /\ f[0] = "code"
      /\ \A i \in Nat : f[i + 1] = Behind(f[i], t[i + 1])
  BY <1>2 DEF Recursion
<1> DEFINE g == [i \in 0..n |-> f[i]]
<1> HIDE DEF n
<1>4. g = Body(g)
  <2> SUFFICES ASSUME NEW i \in 0..n PROVE g[i] = Body(g)[i]
    OBVIOUS
  <2>1. CASE i = 0
    BY <1>3, <2>1
  <2>2. CASE i # 0
    <3>1. i - 1 \in 0..n /\ i - 1 \in Nat /\ (i - 1) + 1 = i
      BY <1>0, <2>2
    <3>2. f[i] = Behind(f[i - 1], t[i])
      BY <1>3, <3>1
    <3> QED  BY <2>2, <3>1, <3>2
  <2> QED  BY <2>1, <2>2
<1>5. Marks(t) = CHOOSE h : h = Body(h)
  BY DEF Marks, n
<1> DEFINE M == Marks(t)
<1>6. M = Body(M)
  <2> HIDE DEF Body, g
  <2> QED  BY <1>4, <1>5
<1> HIDE DEF M
<1>7. M[0] = "code" /\ \A i \in 1..n : M[i] = Behind(M[i - 1], t[i])
  BY <1>0, <1>6
<1>8. \A i \in 0..n : M[i] \in States
  <2> DEFINE T == {i \in Nat : i <= n => M[i] \in States}
  <2>1. 0 \in T
    BY <1>7 DEF States
  <2>2. ASSUME NEW i \in Nat, i \in T
        PROVE  i + 1 \in T
    <3>1. CASE i + 1 <= n
      <4>1. i + 1 \in 1..n /\ (i + 1) - 1 = i /\ i <= n
        BY <1>0, <3>1
      <4>2. M[i + 1] = Behind(M[i], t[i + 1])
        BY <1>7, <4>1
      <4> QED  BY <2>2, <4>1, <4>2, BehindStates
    <3> QED  BY <3>1
  <2>3. Nat \subseteq T
    <3> HIDE DEF T
    <3> QED  BY <2>1, <2>2, SetInduction
  <2> QED  BY <1>0, <2>3
<1>9. M \in [0..n -> States]
  BY <1>6, <1>8
<1> QED  BY <1>7, <1>9 DEF M, n

LEMMA MarksAppend ==
  ASSUME NEW S, NEW t \in Seq(S), NEW c \in S
  PROVE  /\ \A i \in 0..Len(t) : Marks(Append(t, c))[i] = Marks(t)[i]
         /\ Marks(Append(t, c))[Len(t) + 1] = Behind(Marks(t)[Len(t)], c)
<1> DEFINE n == Len(t)
           u == Append(t, c)
           M == Marks(t)
           K == Marks(u)
<1>1. /\ u \in Seq(S) /\ Len(u) = n + 1 /\ n \in Nat /\ u[n + 1] = c
      /\ \A i \in 1..n : u[i] = t[i]
  BY AppendProperties
<1>2. M[0] = "code" /\ \A i \in 1..n : M[i] = Behind(M[i - 1], t[i])
  BY MarksEquation
<1>3. K[0] = "code" /\ \A i \in 1..(n + 1) : K[i] = Behind(K[i - 1], u[i])
  <2> HIDE DEF u, n
  <2> QED  BY <1>1, MarksEquation
<1> HIDE DEF n, u, M, K
<1>4. \A i \in 0..n : K[i] = M[i]
  <2> DEFINE T == {i \in Nat : i <= n => K[i] = M[i]}
  <2>1. 0 \in T
    BY <1>2, <1>3
  <2>2. ASSUME NEW i \in Nat, i \in T
        PROVE  i + 1 \in T
    <3>1. CASE i + 1 <= n
      <4>1. i + 1 \in 1..n /\ i + 1 \in 1..(n + 1) /\ (i + 1) - 1 = i /\ i <= n
        BY <1>1, <3>1
      <4>2. K[i + 1] = Behind(K[i], u[i + 1]) /\ M[i + 1] = Behind(M[i], t[i + 1])
        BY <1>2, <1>3, <4>1
      <4>3. K[i] = M[i] /\ u[i + 1] = t[i + 1]
        BY <1>1, <2>2, <4>1
      <4> QED  BY <4>2, <4>3
    <3> QED  BY <3>1
  <2>3. Nat \subseteq T
    <3> HIDE DEF T
    <3> QED  BY <2>1, <2>2, SetInduction
  <2> QED  BY <1>1, <2>3
<1>5. K[n + 1] = Behind(M[n], c)
  <2>1. n + 1 \in 1..(n + 1) /\ (n + 1) - 1 = n /\ n \in 0..n
    BY <1>1
  <2> QED  BY <1>1, <1>3, <1>4, <2>1
<1> QED  BY <1>4, <1>5 DEF n, u, M, K
-----------------------------------------------------------------------------
(* Sequences of places, one behind the other. *)

(* Records of a set have places. *)
Places(P) == \A p \in P : p.from \in Nat /\ p.to \in Nat

(* The members are places from a on, below b, and each behind the last. *)
List(s, a, b) ==
  /\ \A n \in DOMAIN s : a <= s[n].from /\ s[n].from <= s[n].to /\ s[n].to < b
  /\ \A m, n \in DOMAIN s : m < n => s[m].to < s[n].from

Holds(s, i) == \E n \in DOMAIN s : i \in s[n].from..s[n].to

LEMMA ListEmpty == \A a, b : List(<<>>, a, b) /\ \A i : ~Holds(<<>>, i)
BY DEF List, Holds

LEMMA ListWider ==
  ASSUME NEW P, Places(P), NEW s \in Seq(P), NEW a \in Nat, NEW b \in Nat, List(s, a, b),
         NEW c \in Nat, NEW d \in Nat, c <= a, b <= d
  PROVE  List(s, c, d)
<1>1. \A n \in DOMAIN s : s[n].from \in Nat /\ s[n].to \in Nat
  BY DEF Places
<1> QED  BY <1>1 DEF List

LEMMA ListConcat ==
  ASSUME NEW P, Places(P), NEW s \in Seq(P), NEW t \in Seq(P),
         NEW a \in Nat, NEW b \in Nat, NEW c \in Nat, a <= b, b <= c,
         List(s, a, b), List(t, b, c)
  PROVE  /\ s \o t \in Seq(P) /\ List(s \o t, a, c)
         /\ \A i : Holds(s \o t, i) <=> Holds(s, i) \/ Holds(t, i)
<1> DEFINE w == s \o t
           k == Len(s)
           l == Len(t)
<1>1. /\ w \in Seq(P) /\ Len(w) = k + l /\ k \in Nat /\ l \in Nat
      /\ \A n \in 1..(k + l) : w[n] = IF n <= k THEN s[n] ELSE t[n - k]
      /\ DOMAIN s = 1..k /\ DOMAIN t = 1..l
  BY ConcatProperties
<1>2. DOMAIN w = 1..(k + l)
  <2> HIDE DEF w
  <2> QED  BY <1>1
<1> HIDE DEF w, k, l
<1>3. /\ \A n \in 1..k : s[n].from \in Nat /\ s[n].to \in Nat
      /\ \A n \in 1..l : t[n].from \in Nat /\ t[n].to \in Nat
  BY <1>1 DEF Places
<1>4. \A n \in 1..(k + l) : n <= k \/ n - k \in 1..l
  BY <1>1
<1>5. \A n \in 1..k : n \in 1..(k + l) /\ w[n] = s[n]
  BY <1>1
<1>6. \A n \in 1..l : k + n \in 1..(k + l) /\ w[k + n] = t[n]
  BY <1>1
<1>7. \A n \in 1..(k + l) :
        a <= w[n].from /\ w[n].from <= w[n].to /\ w[n].to < c
  <2> SUFFICES ASSUME NEW n \in 1..(k + l)
               PROVE  a <= w[n].from /\ w[n].from <= w[n].to /\ w[n].to < c
    OBVIOUS
  <2>1. CASE n <= k
    <3>1. n \in 1..k /\ w[n] = s[n]
      BY <1>1, <2>1
    <3>2. a <= s[n].from /\ s[n].from <= s[n].to /\ s[n].to < b
      BY <1>1, <3>1 DEF List
    <3> QED  BY <1>3, <3>1, <3>2
  <2>2. CASE ~(n <= k)
    <3>1. n - k \in 1..l /\ w[n] = t[n - k]
      BY <1>1, <1>4, <2>2
    <3> DEFINE m == n - k
    <3> HIDE DEF m
    <3>2. b <= t[m].from /\ t[m].from <= t[m].to /\ t[m].to < c
      BY <1>1, <3>1 DEF List, m
    <3>3. w[n] = t[m] /\ m \in 1..l
      BY <3>1 DEF m
    <3> QED  BY <1>3, <3>2, <3>3
  <2> QED  BY <2>1, <2>2
<1>8. \A m, n \in 1..(k + l) : m < n => w[m].to < w[n].from
  <2> SUFFICES ASSUME NEW m \in 1..(k + l), NEW n \in 1..(k + l), m < n
               PROVE  w[m].to < w[n].from
    OBVIOUS
  <2>1. CASE n <= k
    <3>1. n \in 1..k /\ m \in 1..k /\ w[n] = s[n] /\ w[m] = s[m]
      BY <1>1, <2>1
    <3> QED  BY <1>1, <3>1 DEF List
  <2>2. CASE m <= k /\ ~(n <= k)
    <3>1. m \in 1..k /\ w[m] = s[m] /\ n - k \in 1..l /\ w[n] = t[n - k]
      BY <1>1, <1>4, <2>2
    <3>2. s[m].to < b
      BY <1>1, <3>1 DEF List
    <3> DEFINE i == n - k
    <3> HIDE DEF i
    <3>3. b <= t[i].from
      BY <1>1, <3>1 DEF List, i
    <3>4. w[n] = t[i] /\ i \in 1..l
      BY <3>1 DEF i
    <3> QED  BY <1>3, <3>1, <3>2, <3>3, <3>4
  <2>3. CASE ~(m <= k)
    <3>1. /\ n - k \in 1..l /\ w[n] = t[n - k] /\ m - k \in 1..l /\ w[m] = t[m - k]
          /\ m - k < n - k
      BY <1>1, <1>4, <2>3
    <3> QED  BY <1>1, <3>1 DEF List
  <2> QED  BY <2>1, <2>2, <2>3
<1>9. List(w, a, c)
  BY <1>2, <1>7, <1>8 DEF List
<1>10. \A i : Holds(w, i) <=> Holds(s, i) \/ Holds(t, i)
  <2> SUFFICES ASSUME NEW i PROVE Holds(w, i) <=> Holds(s, i) \/ Holds(t, i)
    OBVIOUS
  <2>1. ASSUME Holds(w, i) PROVE Holds(s, i) \/ Holds(t, i)
    <3>1. PICK n \in 1..(k + l) : i \in w[n].from..w[n].to
      BY <1>2, <2>1 DEF Holds
    <3>2. n <= k => n \in 1..k /\ w[n] = s[n]
      BY <1>1
    <3>3. ~(n <= k) => n - k \in 1..l /\ w[n] = t[n - k]
      BY <1>1, <1>4
    <3> QED  BY <1>1, <3>1, <3>2, <3>3 DEF Holds
  <2>2. ASSUME Holds(s, i) PROVE Holds(w, i)
    BY <1>1, <1>2, <1>5, <2>2 DEF Holds
  <2>3. ASSUME Holds(t, i) PROVE Holds(w, i)
    BY <1>1, <1>2, <1>6, <2>3 DEF Holds
  <2> QED  BY <2>1, <2>2, <2>3
<1> QED  BY <1>1, <1>9, <1>10 DEF w

LEMMA ListOne ==
  ASSUME NEW P, Places(P), NEW p \in P, NEW a \in Nat, NEW c \in Nat,
         a <= p.from, p.from <= p.to, p.to < c
  PROVE  <<p>> \in Seq(P) /\ List(<<p>>, a, c) /\ \A i : Holds(<<p>>, i) <=> i \in p.from..p.to
<1> DEFINE s == <<p>>
<1>1. s \in Seq(P) /\ Len(s) = 1 /\ s[1] = p /\ DOMAIN s = 1..1
  OBVIOUS
<1> HIDE DEF s
<1>2. List(s, a, c)
  BY <1>1 DEF List
<1>3. \A i : Holds(s, i) <=> i \in p.from..p.to
  BY <1>1 DEF Holds
<1> QED  BY <1>1, <1>2, <1>3 DEF s

LEMMA ListAppend ==
  ASSUME NEW P, Places(P), NEW s \in Seq(P), NEW p \in P,
         NEW a \in Nat, NEW b \in Nat, NEW c \in Nat, a <= b, List(s, a, b),
         b <= p.from, p.from <= p.to, p.to < c
  PROVE  /\ Append(s, p) \in Seq(P) /\ List(Append(s, p), a, c)
         /\ \A i : Holds(Append(s, p), i) <=> Holds(s, i) \/ i \in p.from..p.to
<1>1. Append(s, p) = s \o <<p>>
  BY AppendIsConcat
<1>2. p.from \in Nat /\ p.to \in Nat
  BY DEF Places
<1>3. b <= c
  BY <1>2
<1>4. /\ <<p>> \in Seq(P) /\ List(<<p>>, b, c)
      /\ \A i : Holds(<<p>>, i) <=> i \in p.from..p.to
  BY ListOne
<1> DEFINE t == <<p>>
<1> HIDE DEF t
<1>5. t \in Seq(P) /\ List(t, b, c) /\ \A i : Holds(t, i) <=> i \in p.from..p.to
  BY <1>4 DEF t
<1>6. /\ s \o t \in Seq(P) /\ List(s \o t, a, c)
      /\ \A i : Holds(s \o t, i) <=> Holds(s, i) \/ Holds(t, i)
  BY <1>3, <1>5, ListConcat
<1> QED  BY <1>1, <1>5, <1>6 DEF t

LEMMA ListTail ==
  ASSUME NEW P, Places(P), NEW s \in Seq(P), s # <<>>, NEW a \in Nat, NEW b \in Nat,
         List(s, a, b)
  PROVE  /\ Head(s) \in P /\ Tail(s) \in Seq(P)
         /\ a <= Head(s).from /\ Head(s).from <= Head(s).to /\ Head(s).to < b
         /\ List(Tail(s), Head(s).to + 1, b)
         /\ \A i : Holds(s, i) <=> i \in Head(s).from..Head(s).to \/ Holds(Tail(s), i)
<1> DEFINE p == Head(s)
           t == Tail(s)
           k == Len(t)
<1>1. /\ p \in P /\ t \in Seq(P) /\ p = s[1] /\ k \in Nat /\ Len(s) = k + 1
      /\ \A n \in 1..k : t[n] = s[n + 1]
      /\ DOMAIN s = 1..(k + 1) /\ DOMAIN t = 1..k
  BY EmptySeq
<1> HIDE DEF p, t, k
<1>2. 1 \in DOMAIN s /\ \A n \in 1..k : n + 1 \in DOMAIN s /\ 1 < n + 1
  BY <1>1
<1>3. a <= p.from /\ p.from <= p.to /\ p.to < b
  BY <1>1, <1>2 DEF List
<1>4. /\ p.from \in Nat /\ p.to \in Nat
      /\ \A n \in 1..k : t[n].from \in Nat /\ t[n].to \in Nat
  BY <1>1 DEF Places
<1>5. \A n \in 1..k : p.to < t[n].from /\ t[n].from <= t[n].to /\ t[n].to < b
  BY <1>1, <1>2 DEF List
<1>6. \A m, n \in 1..k : m < n => t[m].to < t[n].from
  <2> SUFFICES ASSUME NEW m \in 1..k, NEW n \in 1..k, m < n
               PROVE  t[m].to < t[n].from
    OBVIOUS
  <2>1. m + 1 \in DOMAIN s /\ n + 1 \in DOMAIN s /\ m + 1 < n + 1
    BY <1>2
  <2> QED  BY <1>1, <2>1 DEF List
<1>7. List(t, p.to + 1, b)
  <2>1. \A n \in 1..k : p.to + 1 <= t[n].from
    BY <1>4, <1>5
  <2> QED  BY <1>1, <1>5, <1>6, <2>1 DEF List
<1>8. \A i : Holds(s, i) <=> i \in p.from..p.to \/ Holds(t, i)
  <2> SUFFICES ASSUME NEW i PROVE Holds(s, i) <=> i \in p.from..p.to \/ Holds(t, i)
    OBVIOUS
  <2>1. ASSUME Holds(s, i) PROVE i \in p.from..p.to \/ Holds(t, i)
    <3>1. PICK n \in 1..(k + 1) : i \in s[n].from..s[n].to
      BY <1>1, <2>1 DEF Holds
    <3>2. n # 1 => n - 1 \in 1..k /\ t[n - 1] = s[n]
      BY <1>1
    <3> QED  BY <1>1, <3>1, <3>2 DEF Holds
  <2>2. ASSUME i \in p.from..p.to PROVE Holds(s, i)
    BY <1>1, <1>2, <2>2 DEF Holds
  <2>3. ASSUME Holds(t, i) PROVE Holds(s, i)
    <3>1. PICK n \in 1..k : i \in t[n].from..t[n].to
      BY <1>1, <2>3 DEF Holds
    <3> QED  BY <1>1, <1>2, <3>1 DEF Holds
  <2> QED  BY <2>1, <2>2, <2>3
<1> QED  BY <1>1, <1>3, <1>7, <1>8 DEF p, t
-----------------------------------------------------------------------------
(* Lines *)

(* LineOf, for any text. *)
Lines(t, i) == Cardinality({j \in 1..(i - 1) : t[j] = Newline})

LEMMA LineOfIsLines == \A i : LineOf(i) = Lines(text, i) /\ LineOf(i)' = Lines(text', i)
BY DEF LineOf, Lines

LEMMA LinesFirst == \A t : Lines(t, 1) = 0
<1> SUFFICES ASSUME NEW t PROVE Lines(t, 1) = 0
  OBVIOUS
<1>1. {j \in 1..(1 - 1) : t[j] = Newline} = {}
  OBVIOUS
<1> QED  BY <1>1, FS_EmptySet DEF Lines

LEMMA LinesNext ==
  ASSUME NEW t, NEW i \in Nat \ {0}
  PROVE  /\ Lines(t, i) \in Nat
         /\ Lines(t, i + 1) = IF t[i] = Newline THEN Lines(t, i) + 1 ELSE Lines(t, i)
<1> DEFINE S == {j \in 1..(i - 1) : t[j] = Newline}
           T == {j \in 1..((i + 1) - 1) : t[j] = Newline}
<1>1. IsFiniteSet(1..(i - 1)) /\ S \subseteq 1..(i - 1)
  BY FS_Interval
<1>2. IsFiniteSet(S)
  BY <1>1, FS_Subset
<1>3. Cardinality(S) \in Nat
  BY <1>2, FS_CardinalityType
<1>4. T = IF t[i] = Newline THEN S \cup {i} ELSE S
  OBVIOUS
<1>5. i \notin S
  OBVIOUS
<1> HIDE DEF S, T
<1>6. Cardinality(S \cup {i}) = Cardinality(S) + 1
  BY <1>2, <1>5, FS_AddElement
<1>7. Cardinality(T) = IF t[i] = Newline THEN Cardinality(S) + 1 ELSE Cardinality(S)
  BY <1>4, <1>6
<1> QED  BY <1>3, <1>7 DEF Lines, S, T

LEMMA LinesSame ==
  ASSUME NEW t, NEW a \in Nat \ {0}, NEW b \in Nat, a <= b,
         \A j \in a..(b - 1) : t[j] # Newline
  PROVE  Lines(t, b) = Lines(t, a)
<1>1. {j \in 1..(b - 1) : t[j] = Newline} = {j \in 1..(a - 1) : t[j] = Newline}
  <2>1. \A j \in 1..(b - 1) : j \in 1..(a - 1) \/ j \in a..(b - 1)
    OBVIOUS
  <2>2. \A j \in 1..(a - 1) : j \in 1..(b - 1)
    OBVIOUS
  <2> QED  BY <2>1, <2>2
<1> QED  BY <1>1 DEF Lines

LEMMA LinesAppend ==
  ASSUME NEW S, NEW t \in Seq(S), NEW c \in S, NEW i \in 1..(Len(t) + 1)
  PROVE  Lines(Append(t, c), i) = Lines(t, i)
<1> DEFINE u == Append(t, c)
<1>1. \A j \in 1..Len(t) : u[j] = t[j]
  BY AppendProperties
<1> HIDE DEF u
<1>2. \A j \in 1..(i - 1) : j \in 1..Len(t)
  OBVIOUS
<1>3. {j \in 1..(i - 1) : u[j] = Newline} = {j \in 1..(i - 1) : t[j] = Newline}
  BY <1>1, <1>2
<1> QED  BY <1>3 DEF Lines, u

-----------------------------------------------------------------------------
(* What the candidates find at the front of a piece. *)

LEMMA RunProperties ==
  ASSUME NEW S, NEW s \in Seq(S), NEW set
  PROVE  /\ Run(s, set) \in 0..Len(s)
         /\ \A i \in 1..Run(s, set) : s[i] \in set
         /\ Run(s, set) < Len(s) => s[Run(s, set) + 1] \notin set
<1> DEFINE Good(n) == /\ \A i \in 1..n : s[i] \in set
                      /\ n < Len(s) => s[n + 1] \notin set
           T == {n \in 0..Len(s) : n = Len(s) \/ s[n + 1] \notin set}
<1>0. Len(s) \in Nat
  OBVIOUS
<1>1. T \subseteq Nat /\ Len(s) \in T
  BY <1>0
<1>2. PICK n \in T : \A m \in T : n <= m
  BY <1>1, Least
<1>3. n \in 0..Len(s) /\ (n < Len(s) => s[n + 1] \notin set)
  BY <1>0, <1>2
<1>4. ASSUME NEW i \in 1..n
      PROVE  s[i] \in set
  <2>1. i - 1 \in 0..Len(s) /\ i - 1 # Len(s) /\ ~(n <= i - 1) /\ (i - 1) + 1 = i
    BY <1>0, <1>3
  <2>2. i - 1 \notin T
    BY <1>2, <2>1
  <2> QED  BY <2>1, <2>2
<1>5. \E k \in 0..Len(s) : Good(k)
  BY <1>3, <1>4
<1>6. Run(s, set) = CHOOSE k \in 0..Len(s) : Good(k)
  BY DEF Run
<1> HIDE DEF Good
<1>7. Run(s, set) \in 0..Len(s) /\ Good(Run(s, set))
  BY <1>5, <1>6
<1> QED  BY <1>7 DEF Good

(* A keyword found is the longest there is, and made of upper case letters. *)
LEMMA KeywordProperties ==
  ASSUME NEW S, NEW s \in Seq(S)
  PROVE  /\ KeywordLength(s) \in 0..Len(s)
         /\ KeywordLength(s) > 0 => SubSeq(s, 1, KeywordLength(s)) \in Keywords
         /\ \A k \in Keywords :
              Len(k) <= Len(s) /\ SubSeq(s, 1, Len(k)) = k => Len(k) <= KeywordLength(s)
         /\ \A i \in 1..KeywordLength(s) : s[i] \in Upper
<1> DEFINE found == {k \in Keywords : Len(k) <= Len(s) /\ SubSeq(s, 1, Len(k)) = k}
           n == Len(s)
<1>0. n \in Nat /\ \A k \in Keywords : k \in Seq(Upper) /\ Len(k) \in Nat
  BY CharsAssumption
<1>1. CASE found = {}
  <2>1. KeywordLength(s) = 0
    BY <1>1 DEF KeywordLength
  <2> QED  BY <1>0, <1>1, <2>1
<1>2. CASE found # {}
  <2> DEFINE best == CHOOSE k \in found : \A l \in found : Len(l) <= Len(k)
  <2>1. KeywordLength(s) = Len(best)
    BY <1>2 DEF KeywordLength
  <2>2. \E k \in found : \A l \in found : Len(l) <= Len(k)
    <3> DEFINE T == {n - Len(k) : k \in found}
    <3>1. T \subseteq Nat /\ T # {}
      BY <1>0, <1>2
    <3>2. PICK x \in T : \A y \in T : x <= y
      BY <3>1, Least
    <3>3. PICK k \in found : x = n - Len(k)
      BY <3>2
    <3>4. \A l \in found : n - Len(k) <= n - Len(l) /\ Len(k) \in Nat /\ Len(l) \in Nat
      BY <1>0, <3>2, <3>3
    <3>5. \A l \in found : Len(l) <= Len(k)
      <4> HIDE DEF found, n
      <4> QED  BY <1>0, <3>4
    <3> QED  BY <3>5
  <2>3. best \in found /\ \A l \in found : Len(l) <= Len(best)
    <3> HIDE DEF found
    <3> QED  BY <2>2
  <2> HIDE DEF best
  <2>4. /\ best \in Keywords /\ best \in Seq(Upper) /\ Len(best) \in 0..n
        /\ SubSeq(s, 1, Len(best)) = best
    BY <1>0, <2>3
  <2>5. \A i \in 1..Len(best) : s[i] \in Upper
    <3> SUFFICES ASSUME NEW i \in 1..Len(best) PROVE s[i] \in Upper
      OBVIOUS
    <3>1. best[i] \in Upper
      BY <2>4
    <3>2. SubSeq(s, 1, Len(best))[i] = s[i]
      BY <2>4
    <3> QED  BY <2>4, <3>1, <3>2
  <2> QED  BY <1>0, <2>1, <2>3, <2>4, <2>5
<1> QED  BY <1>1, <1>2
(* The first of the longest candidates is the one that satisfies this. *)
FirstLongest(all, i) ==
  \A j \in DOMAIN all : all[j].length <= all[i].length /\ (j < i => all[j].length < all[i].length)

LEMMA CandidateFields ==
  ASSUME NEW s
  PROVE  /\ DOMAIN Candidates(s) = 1..5
         /\ Candidates(s)[1] = [kind |-> "symbol", length |-> SymbolLength(s)]
         /\ Candidates(s)[2] = [kind |-> "keyword", length |-> KeywordLength(s)]
         /\ Candidates(s)[3] = [kind |-> "variable", length |-> VariableLength(s)]
         /\ Candidates(s)[4] = [kind |-> "builtin", length |-> BuiltinLength(s)]
         /\ Candidates(s)[5] = [kind |-> "function", length |-> FunctionNameLength(s)]
BY DEF Candidates

LEMMA LongestIs ==
  ASSUME NEW s, NEW i \in 1..5, FirstLongest(Candidates(s), i),
         SymbolLength(s) \in Nat, KeywordLength(s) \in Nat, VariableLength(s) \in Nat,
         BuiltinLength(s) \in Nat, FunctionNameLength(s) \in Nat
  PROVE  Longest(s) = Candidates(s)[i]
<1> DEFINE all == Candidates(s)
           k == CHOOSE j \in DOMAIN all : FirstLongest(all, j)
<1>1. Longest(s) = all[k]
  BY DEF Longest, FirstLongest
<1>2. DOMAIN all = 1..5 /\ \A j \in 1..5 : all[j].length \in Nat
  <2>1. \A j \in 1..5 : j = 1 \/ j = 2 \/ j = 3 \/ j = 4 \/ j = 5
    OBVIOUS
  <2>2. /\ all[1].length \in Nat /\ all[2].length \in Nat /\ all[3].length \in Nat
        /\ all[4].length \in Nat /\ all[5].length \in Nat
    <3>1. /\ all[1] = [kind |-> "symbol", length |-> SymbolLength(s)]
          /\ all[2] = [kind |-> "keyword", length |-> KeywordLength(s)]
          /\ all[3] = [kind |-> "variable", length |-> VariableLength(s)]
          /\ all[4] = [kind |-> "builtin", length |-> BuiltinLength(s)]
          /\ all[5] = [kind |-> "function", length |-> FunctionNameLength(s)]
      BY CandidateFields
    <3> HIDE DEF all
    <3> QED  BY <3>1
  <2>3. DOMAIN all = 1..5
    BY CandidateFields
  <2> HIDE DEF all
  <2> QED  BY <2>1, <2>2, <2>3
<1>3. k \in 1..5 /\ FirstLongest(all, k)
  <2> HIDE DEF all
  <2> QED  BY <1>2 DEF all
<1> HIDE DEF all, k
<1>4. k = i
  <2>1. all[i].length <= all[k].length /\ (i < k => all[i].length < all[k].length)
    BY <1>2, <1>3 DEF FirstLongest
  <2>2. all[k].length <= all[i].length /\ (k < i => all[k].length < all[i].length)
    BY <1>2, <1>3 DEF FirstLongest, all
  <2> QED  BY <1>2, <1>3, <2>1, <2>2
<1> QED  BY <1>1, <1>4 DEF all

LEMMA CandidateLengths ==
  ASSUME NEW S, NEW s \in Seq(S), s # <<>>
  PROVE  /\ SymbolLength(s) \in {0, 1} /\ KeywordLength(s) \in 0..Len(s)
         /\ VariableLength(s) \in 0..Len(s) /\ BuiltinLength(s) \in 0..Len(s)
         /\ FunctionNameLength(s) \in 0..Len(s)
BY RunProperties, KeywordProperties
   DEF SymbolLength, VariableLength, BuiltinLength, FunctionNameLength

(* The kind of a word that starts with a letter. *)
KindOf(word) ==
  IF word \in Keywords THEN "keyword"
  ELSE IF word[1] \in Lower THEN "variable"
  ELSE IF \A i \in 1..Len(word) : word[i] \in Upper THEN "builtin" ELSE "function"

LEMMA LongestSymbol ==
  ASSUME NEW S, NEW s \in Seq(S), s # <<>>, s[1] \in Symbols
  PROVE  Longest(s) = [kind |-> "symbol", length |-> 1]
<1>0. Len(s) \in Nat \ {0} /\ s[1] \notin Upper /\ s[1] \notin Lower
  BY EmptySeq, ClassesAssumption DEF Letters
<1>1. SymbolLength(s) = 1 /\ VariableLength(s) = 0
  BY <1>0 DEF SymbolLength, VariableLength
<1>2. BuiltinLength(s) = 0
  <2>1. Run(s, Upper) \in 0..Len(s) /\ \A i \in 1..Run(s, Upper) : s[i] \in Upper
    BY RunProperties
  <2> QED  BY <1>0, <2>1 DEF BuiltinLength
<1>3. FunctionNameLength(s) = 0
  BY <1>0 DEF FunctionNameLength
<1>4. KeywordLength(s) = 0
  <2>1. KeywordLength(s) \in 0..Len(s) /\ \A i \in 1..KeywordLength(s) : s[i] \in Upper
    BY KeywordProperties
  <2> QED  BY <1>0, <2>1
<1> DEFINE all == Candidates(s)
<1>5. /\ DOMAIN all = 1..5 /\ all[1] = [kind |-> "symbol", length |-> 1]
      /\ all[2].length = 0 /\ all[3].length = 0 /\ all[4].length = 0 /\ all[5].length = 0
  <2>1. /\ DOMAIN all = 1..5
        /\ all[1] = [kind |-> "symbol", length |-> SymbolLength(s)]
        /\ all[2] = [kind |-> "keyword", length |-> KeywordLength(s)]
        /\ all[3] = [kind |-> "variable", length |-> VariableLength(s)]
        /\ all[4] = [kind |-> "builtin", length |-> BuiltinLength(s)]
        /\ all[5] = [kind |-> "function", length |-> FunctionNameLength(s)]
    BY CandidateFields
  <2> HIDE DEF all
  <2> QED  BY <1>1, <1>2, <1>3, <1>4, <2>1
<1>6. FirstLongest(all, 1)
  <2> HIDE DEF all
  <2> SUFFICES ASSUME NEW j \in 1..5
               PROVE  all[j].length <= all[1].length /\ ~(j < 1)
    BY <1>5 DEF FirstLongest
  <2>1. j = 1 \/ j = 2 \/ j = 3 \/ j = 4 \/ j = 5
    OBVIOUS
  <2> QED  BY <1>5, <2>1
<1>7. Longest(s) = all[1]
  <2> HIDE DEF all
  <2> QED  BY <1>1, <1>2, <1>3, <1>4, <1>6, LongestIs DEF all
<1> QED  BY <1>5, <1>7

LEMMA LongestNone ==
  ASSUME NEW S, NEW s \in Seq(S), s # <<>>, s[1] \notin Symbols, s[1] \notin Letters
  PROVE  Longest(s).length = 0
<1>0. Len(s) \in Nat \ {0} /\ s[1] \notin Upper /\ s[1] \notin Lower
  BY EmptySeq DEF Letters
<1>1. SymbolLength(s) = 0 /\ VariableLength(s) = 0
  BY <1>0 DEF SymbolLength, VariableLength
<1>2. BuiltinLength(s) = 0
  <2>1. Run(s, Upper) \in 0..Len(s) /\ \A i \in 1..Run(s, Upper) : s[i] \in Upper
    BY RunProperties
  <2> QED  BY <1>0, <2>1 DEF BuiltinLength
<1>3. FunctionNameLength(s) = 0
  BY <1>0 DEF FunctionNameLength
<1>4. KeywordLength(s) = 0
  <2>1. KeywordLength(s) \in 0..Len(s) /\ \A i \in 1..KeywordLength(s) : s[i] \in Upper
    BY KeywordProperties
  <2> QED  BY <1>0, <2>1
<1> DEFINE all == Candidates(s)
<1>5. /\ DOMAIN all = 1..5 /\ all[1].length = 0
      /\ all[2].length = 0 /\ all[3].length = 0 /\ all[4].length = 0 /\ all[5].length = 0
  <2>1. /\ DOMAIN all = 1..5
        /\ all[1] = [kind |-> "symbol", length |-> SymbolLength(s)]
        /\ all[2] = [kind |-> "keyword", length |-> KeywordLength(s)]
        /\ all[3] = [kind |-> "variable", length |-> VariableLength(s)]
        /\ all[4] = [kind |-> "builtin", length |-> BuiltinLength(s)]
        /\ all[5] = [kind |-> "function", length |-> FunctionNameLength(s)]
    BY CandidateFields
  <2> HIDE DEF all
  <2> QED  BY <1>1, <1>2, <1>3, <1>4, <2>1
<1>6. FirstLongest(all, 1)
  <2> HIDE DEF all
  <2> SUFFICES ASSUME NEW j \in 1..5
               PROVE  all[j].length <= all[1].length /\ ~(j < 1)
    BY <1>5 DEF FirstLongest
  <2>1. j = 1 \/ j = 2 \/ j = 3 \/ j = 4 \/ j = 5
    OBVIOUS
  <2> QED  BY <1>5, <2>1
<1>7. Longest(s) = all[1]
  <2> HIDE DEF all
  <2> QED  BY <1>1, <1>2, <1>3, <1>4, <1>6, LongestIs DEF all
<1> QED  BY <1>5, <1>7

(* A word is taken whole, and its spelling decides its kind. *)
LEMMA LongestWord ==
  ASSUME NEW S, NEW s \in Seq(S), s # <<>>, s[1] \in Letters
  PROVE  /\ Longest(s).length = Run(s, Letters)
         /\ Longest(s).kind = KindOf(SubSeq(s, 1, Run(s, Letters)))
         /\ Run(s, Letters) > 0
<1> DEFINE n == Run(s, Letters)
           u == Run(s, Upper)
           word == SubSeq(s, 1, n)
           all == Candidates(s)
<1>0. Len(s) \in Nat \ {0} /\ 1 \in 1..Len(s)
  BY EmptySeq
<1>1. /\ n \in 0..Len(s) /\ \A i \in 1..n : s[i] \in Letters
      /\ n < Len(s) => s[n + 1] \notin Letters
  BY RunProperties
<1>2. /\ u \in 0..Len(s) /\ \A i \in 1..u : s[i] \in Upper
      /\ u < Len(s) => s[u + 1] \notin Upper
  BY RunProperties
<1> DEFINE w == KeywordLength(s)
<1>3. /\ w \in 0..Len(s) /\ \A i \in 1..w : s[i] \in Upper
      /\ w > 0 => SubSeq(s, 1, w) \in Keywords
  BY KeywordProperties
<1>4. word \in Seq(S) /\ Len(word) = n /\ \A i \in 1..n : word[i] = s[i]
  BY <1>1
<1>19. word \in Keywords => n <= w
  <2>1. n <= Len(s) /\ SubSeq(s, 1, Len(word)) = word
    BY <1>1, <1>4
  <2>2. \A k \in Keywords :
          Len(k) <= Len(s) /\ SubSeq(s, 1, Len(k)) = k => Len(k) <= KeywordLength(s)
    BY KeywordProperties
  <2> HIDE DEF word, n
  <2>3. word \in Keywords => Len(word) <= KeywordLength(s)
    BY <1>4, <2>1, <2>2
  <2> QED  BY <1>4, <2>3
<1>5. /\ DOMAIN all = 1..5
      /\ all[1] = [kind |-> "symbol", length |-> SymbolLength(s)]
      /\ all[2] = [kind |-> "keyword", length |-> w]
      /\ all[3] = [kind |-> "variable", length |-> VariableLength(s)]
      /\ all[4] = [kind |-> "builtin", length |-> u]
      /\ all[5] = [kind |-> "function", length |-> FunctionNameLength(s)]
  BY CandidateFields DEF BuiltinLength
<1>6. SymbolLength(s) = 0
  BY ClassesAssumption DEF SymbolLength
<1>7. \A i \in 1..5 : FirstLongest(all, i) => Longest(s) = all[i]
  BY CandidateLengths, LongestIs
<1>8. VariableLength(s) = (IF s[1] \in Lower THEN n ELSE 0)
  BY DEF VariableLength
<1>9. FunctionNameLength(s) =
        (IF s[1] \in Upper /\ \E i \in 1..n : s[i] \in Lower THEN n ELSE 0)
  BY DEF FunctionNameLength
<1>13. \A j \in 1..5 : j = 1 \/ j = 2 \/ j = 3 \/ j = 4 \/ j = 5
  OBVIOUS
<1> HIDE DEF n, u, w, word, all
<1>10. n > 0
  BY <1>0, <1>1
<1>11. u <= n /\ w <= n /\ w <= u
  <2>1. ASSUME u > n PROVE FALSE
    <3>1. n < Len(s) /\ n + 1 \in 1..u
      BY <1>1, <1>2, <2>1
    <3> QED  BY <1>1, <1>2, <3>1 DEF Letters
  <2>2. ASSUME w > u PROVE FALSE
    <3>1. u < Len(s) /\ u + 1 \in 1..w
      BY <1>2, <1>3, <2>2
    <3> QED  BY <1>2, <1>3, <3>1
  <2> QED  BY <1>1, <1>2, <1>3, <2>1, <2>2
<1>12. \A i \in 1..n : s[i] \in Upper \/ s[i] \in Lower
  BY <1>1 DEF Letters
<1>14. word[1] = s[1]
  BY <1>4, <1>10, <1>1
<1>15. word \in Keywords => \A i \in 1..n : s[i] \in Upper
  BY <1>3, <1>4, <1>11, <1>19, <1>1
<1>16. CASE s[1] \in Lower
  <2>1. s[1] \notin Upper
    BY <1>16, ClassesAssumption
  <2>2. u = 0 /\ w = 0
    BY <1>1, <1>2, <1>3, <1>11, <2>1
  <2>3. /\ all[1].length = 0 /\ all[2].length = 0 /\ all[3].length = n
        /\ all[4].length = 0 /\ all[5].length = 0
    BY <1>5, <1>6, <1>8, <1>9, <1>16, <2>1, <2>2
  <2>4. FirstLongest(all, 3)
    <3> SUFFICES ASSUME NEW j \in 1..5
                 PROVE  all[j].length <= all[3].length /\ (j < 3 => all[j].length < all[3].length)
      BY <1>5 DEF FirstLongest
    <3> QED  BY <1>1, <1>10, <1>13, <2>3
  <2>5. Longest(s) = all[3]
    BY <1>7, <2>4
  <2>6. word \notin Keywords
    BY <1>1, <1>10, <1>15, <2>1
  <2>7. KindOf(word) = "variable"
    BY <1>14, <1>16, <2>6 DEF KindOf
  <2> QED  BY <1>5, <1>10, <2>3, <2>5, <2>7 DEF n, word
<1>17. CASE s[1] \notin Lower /\ \E i \in 1..n : s[i] \in Lower
  <2>1. s[1] \in Upper
    BY <1>17 DEF Letters
  <2>2. PICK i \in 1..n : s[i] \in Lower
    BY <1>17
  <2>3. s[i] \notin Upper
    BY <2>2, ClassesAssumption
  <2>4. u < n
    BY <1>1, <1>2, <1>11, <2>2, <2>3
  <2>5. /\ all[1].length = 0 /\ all[2].length = w /\ all[3].length = 0
        /\ all[4].length = u /\ all[5].length = n
    BY <1>5, <1>6, <1>8, <1>9, <1>17, <2>1
  <2>6. FirstLongest(all, 5)
    <3> SUFFICES ASSUME NEW j \in 1..5
                 PROVE  all[j].length <= all[5].length /\ (j < 5 => all[j].length < all[5].length)
      BY <1>5 DEF FirstLongest
    <3>1. w < n /\ u < n /\ 0 < n /\ n <= n
      BY <1>1, <1>2, <1>3, <1>10, <1>11, <2>4
    <3>2. w <= n /\ u <= n /\ 0 <= n
      BY <1>1, <1>2, <1>3, <1>11
    <3>3. j = 5 => ~(j < 5)
      OBVIOUS
    <3>4. CASE j = 1
      BY <2>5, <3>1, <3>2, <3>4
    <3>5. CASE j = 2
      BY <2>5, <3>1, <3>2, <3>5
    <3>6. CASE j = 3
      BY <2>5, <3>1, <3>2, <3>6
    <3>7. CASE j = 4
      BY <2>5, <3>1, <3>2, <3>7
    <3>8. CASE j = 5
      BY <2>5, <3>1, <3>3, <3>8
    <3> QED  BY <1>13, <3>4, <3>5, <3>6, <3>7, <3>8
  <2>7. Longest(s) = all[5]
    BY <1>7, <2>6
  <2>8. word \notin Keywords
    BY <1>15, <2>2, <2>3
  <2>9. KindOf(word) = "function"
    BY <1>4, <1>14, <1>17, <2>2, <2>3, <2>8 DEF KindOf
  <2> QED  BY <1>5, <1>10, <2>5, <2>7, <2>9 DEF n, word
<1>18. CASE s[1] \notin Lower /\ ~(\E i \in 1..n : s[i] \in Lower)
  <2>1. \A i \in 1..n : s[i] \in Upper
    BY <1>12, <1>18
  <2>2. u = n
    <3>1. ASSUME u < n PROVE FALSE
      <4>1. u + 1 \in 1..n /\ u < Len(s)
        BY <1>1, <1>2, <3>1
      <4> QED  BY <1>2, <2>1, <4>1
    <3> QED  BY <1>1, <1>2, <1>11, <3>1
  <2>3. /\ all[1].length = 0 /\ all[2].length = w /\ all[3].length = 0
        /\ all[4].length = n /\ all[5].length = 0
    BY <1>5, <1>6, <1>8, <1>9, <1>18, <2>2
  <2>4. CASE word \in Keywords
    <3>1. w = n
      BY <1>1, <1>3, <1>19, <1>11, <2>4
    <3>2. FirstLongest(all, 2)
      <4> SUFFICES ASSUME NEW j \in 1..5
                   PROVE  all[j].length <= all[2].length /\ (j < 2 => all[j].length < all[2].length)
        BY <1>5 DEF FirstLongest
      <4> QED  BY <1>1, <1>10, <1>13, <2>3, <3>1
    <3>3. Longest(s) = all[2]
      BY <1>7, <3>2
    <3>4. KindOf(word) = "keyword"
      BY <2>4 DEF KindOf
    <3> QED  BY <1>5, <1>10, <2>3, <3>1, <3>3, <3>4 DEF n, word
  <2>5. CASE word \notin Keywords
    <3>1. w < n
      <4>1. w = n => SubSeq(s, 1, w) = word
        BY DEF word
      <4>2. w = n => SubSeq(s, 1, w) \in Keywords
        BY <1>3, <1>10
      <4>3. w # n
        BY <2>5, <4>1, <4>2
      <4> QED  BY <1>1, <1>3, <1>11, <4>3
    <3>2. FirstLongest(all, 4)
      <4> SUFFICES ASSUME NEW j \in 1..5
                   PROVE  all[j].length <= all[4].length /\ (j < 4 => all[j].length < all[4].length)
        BY <1>5 DEF FirstLongest
      <4> QED  BY <1>1, <1>3, <1>10, <1>13, <2>3, <3>1
    <3>3. Longest(s) = all[4]
      BY <1>7, <3>2
    <3>4. KindOf(word) = "builtin"
      BY <1>4, <1>14, <1>18, <2>1, <2>5 DEF KindOf
    <3> QED  BY <1>5, <1>10, <2>3, <3>3, <3>4 DEF n, word
  <2> QED  BY <2>4, <2>5
<1> QED  BY <1>16, <1>17, <1>18
-----------------------------------------------------------------------------
(* The inductive invariant, in terms of the text and what the automaton is   *)
(* after each of its places.                                                 *)

CodeAt(t, M, i) == i \in 1..Len(t) /\ M[i - 1] = "code" /\ M[i] = "code"

StringAt(t, M, i) ==
  /\ i \in 1..Len(t)
  /\ M[i - 1] \in {"string", "escape"} \/ (M[i - 1] = "code" /\ M[i] = "string")

SolidAt(t, M, i) == CodeAt(t, M, i) /\ t[i] \notin Whitespace

LetterAt(t, M, i) == SolidAt(t, M, i) /\ t[i] \in Letters

(* The scanner looks at what comes before such a place. *)
EndAt(t, M, j) == j \in 1..Len(t) /\ M[j] = "code" /\ (t[j] = Newline \/ M[j - 1] # "code")

LookedAt(t, M, i) == \E j \in i..Len(t) : EndAt(t, M, j)

PieceRecords == [from : Nat, to : Nat, line : Nat, quoted : BOOLEAN]

(* A piece of the first pass: a string, or a part of a line, with no word    *)
(* cut at its ends.                                                          *)
RawPieces(t, M) ==
  {p \in PieceRecords :
     /\ 1 <= p.from /\ p.from <= p.to /\ p.to <= Len(t) /\ p.line = Lines(t, p.from)
     /\ p.quoted => \A i \in p.from..p.to : StringAt(t, M, i)
     /\ ~p.quoted =>
          /\ \A i \in p.from..p.to : CodeAt(t, M, i)
          /\ \A i \in p.from..(p.to - 1) : t[i] # Newline
          /\ ~SolidAt(t, M, p.from - 1)
          /\ t[p.to] = Newline \/ (p.to < Len(t) /\ ~SolidAt(t, M, p.to + 1))}

(* A piece of the second pass: a string, or what is left of a word.          *)
WordPieces(t, M) ==
  {p \in PieceRecords :
     /\ 1 <= p.from /\ p.from <= p.to /\ p.to <= Len(t) /\ p.line = Lines(t, p.from)
     /\ p.quoted => \A i \in p.from..p.to : StringAt(t, M, i)
     /\ ~p.quoted =>
          /\ \A i \in p.from..p.to : SolidAt(t, M, i)
          /\ ~SolidAt(t, M, p.to + 1)
          /\ ~(LetterAt(t, M, p.from - 1) /\ LetterAt(t, M, p.from))}

Kinds == {"string", "symbol", "keyword", "variable", "builtin", "function"}

TokenRecords == [from : Nat, to : Nat, line : Nat, kind : Kinds]

(* A token that is a whole word, or none at all. *)
GoodTokens(t, M) ==
  {k \in TokenRecords :
     /\ 1 <= k.from /\ k.from <= k.to /\ k.to <= Len(t) /\ k.line = Lines(t, k.from)
     /\ k.kind \notin {"string", "symbol"} =>
          /\ ~LetterAt(t, M, k.from - 1) /\ ~LetterAt(t, M, k.to + 1)
          /\ \A i \in k.from..k.to : t[i] \in Letters
          /\ k.kind = KindOf(SubSeq(t, k.from, k.to))}

Opened ==
  /\ from <= Len(text) /\ opened = Lines(text, from) /\ text[from] \in {Quote, Hash}
  /\ \A j \in from..Len(text) : After[j] # "code"

(* While the file is read, what is kept are the strings and the code before  *)
(* the pending piece.                                                        *)
FirstPass ==
  /\ tokens = <<>> /\ from \in 1..(Len(text) + 1) /\ line = Lines(text, Len(text) + 1)
  /\ opened \in Nat /\ slashes \in Nat
  /\ pieces \in Seq(RawPieces(text, After)) /\ List(pieces, 1, from)
  /\ \A i \in 1..(from - 1) :
       Holds(pieces, i) <=> StringAt(text, After, i) \/ CodeAt(text, After, i)
  /\ After[from - 1] = "code"
  /\ mode = "code" =>
       /\ \A i \in from..Len(text) : CodeAt(text, After, i) /\ text[i] # Newline
       /\ from > 1 => EndAt(text, After, from - 1)
  /\ mode = "comment" => Opened /\ \A j \in from..Len(text) : After[j] = "comment"
  /\ mode = "string" =>
       /\ Opened /\ \A j \in from..Len(text) : After[j] \in {"string", "escape"}
       /\ After[Len(text)] = IF slashes % 2 = 0 THEN "string" ELSE "escape"

(* Then the pieces are what the scanner looks at. *)
SecondPass ==
  /\ tokens = <<>>
  /\ pieces \in Seq(RawPieces(text, After)) /\ List(pieces, 1, Len(text) + 1)
  /\ \A i \in 1..Len(text) :
       Holds(pieces, i) <=>
         LookedAt(text, After, i) /\ (StringAt(text, After, i) \/ CodeAt(text, After, i))

(* Then the tokens and the pieces behind them are, without the whitespace.   *)
ThirdPass ==
  /\ tokens \in Seq(GoodTokens(text, After)) /\ pieces \in Seq(WordPieces(text, After))
  /\ \E b \in 1..(Len(text) + 1) : List(tokens, 1, b) /\ List(pieces, b, Len(text) + 1)
  /\ \A i \in 1..Len(text) :
       Holds(tokens, i) \/ Holds(pieces, i) <=>
         LookedAt(text, After, i) /\ (StringAt(text, After, i) \/ SolidAt(text, After, i))

(* In the end the tokens are what the scanner looks at, up to the one for    *)
(* the end of the file.                                                      *)
Finished ==
  LET list == SubSeq(tokens, 1, Len(tokens) - 1)
  IN  /\ tokens # <<>> /\ tokens \in Seq([from : Nat, to : Nat, line : Nat, kind : Kinds \cup {"eof"}])
      /\ tokens[Len(tokens)].from = Len(text) + 1 /\ tokens[Len(tokens)].to = Len(text)
      /\ list \in Seq(GoodTokens(text, After)) /\ List(list, 1, Len(text) + 1)
      /\ \A i \in 1..Len(text) :
           Holds(list, i) <=>
             LookedAt(text, After, i) /\ (StringAt(text, After, i) \/ SolidAt(text, After, i))

(* An error is about a string or comment that is not closed, or a character  *)
(* that no token contains.                                                   *)
ErrorAt(i) ==
  /\ error = Lines(text, i) + 1
  /\ \/ After[i - 1] = "code" /\ text[i] \in {Quote, Hash}
        /\ \A j \in i..Len(text) : After[j] # "code"
     \/ /\ CodeAt(text, After, i) /\ LookedAt(text, After, i)
        /\ text[i] \in Junk \cup {Backslash}

Failed ==
  /\ tokens \in Seq(GoodTokens(text, After))
  /\ \E i \in 1..Len(text) : ErrorAt(i)

Modes == {"code", "string", "comment", "strip", "parse", "done", "failed"}

IInv ==
  /\ text \in Seq(Chars) /\ mode \in Modes
  /\ mode \in {"code", "string", "comment"} => FirstPass
  /\ mode = "strip" => SecondPass
  /\ mode = "parse" => ThirdPass
  /\ mode = "done" => Finished
  /\ mode = "failed" => Failed
-----------------------------------------------------------------------------
(* A step that reads a character leaves what the automaton says of the       *)
(* earlier ones as it was.                                                   *)

LEMMA PlacesOf ==
  \A t, M : Places(RawPieces(t, M)) /\ Places(WordPieces(t, M)) /\ Places(GoodTokens(t, M))
BY DEF Places, RawPieces, WordPieces, GoodTokens, PieceRecords, TokenRecords

LEMMA Reading ==
  ASSUME text \in Seq(Chars), NEW c \in Chars, text' = Append(text, c)
  PROVE  /\ Len(text) \in Nat /\ text' \in Seq(Chars) /\ Len(text') = Len(text) + 1
         /\ text'[Len(text) + 1] = c /\ \A i \in 1..Len(text) : text'[i] = text[i]
         /\ \A i \in 0..Len(text) : After[i] \in States /\ After'[i] = After[i]
         /\ After[0] = "code" /\ After'[Len(text) + 1] = Behind(After[Len(text)], c)
         /\ \A i \in 1..(Len(text) + 1) :
              Lines(text, i) \in Nat /\ Lines(text', i) = Lines(text, i)
         /\ Lines(text', Len(text) + 2) =
              IF c = Newline THEN Lines(text, Len(text) + 1) + 1 ELSE Lines(text, Len(text) + 1)
<1> DEFINE n == Len(text)
<1>1. /\ n \in Nat /\ text' \in Seq(Chars) /\ Len(text') = n + 1 /\ text'[n + 1] = c
      /\ \A i \in 1..n : text'[i] = text[i]
  BY AppendProperties
<1>2. After = Marks(text) /\ After' = Marks(Append(text, c))
  BY AfterIsMarks
<1>3. /\ \A i \in 0..n : After[i] \in States
      /\ After[0] = "code"
  BY <1>2, MarksEquation
<1>4. /\ \A i \in 0..n : After'[i] = After[i]
      /\ After'[n + 1] = Behind(After[n], c)
  BY <1>2, MarksAppend
<1>5. \A i \in 1..(n + 1) : Lines(text, i) \in Nat
  <2>1. \A i \in 1..(n + 1) : i \in Nat \ {0}
    OBVIOUS
  <2> QED  BY <2>1, LinesNext
<1>6. \A i \in 1..(n + 1) : Lines(text', i) = Lines(text, i)
  BY LinesAppend
<1>7. Lines(text', n + 2) =
        IF c = Newline THEN Lines(text, n + 1) + 1 ELSE Lines(text, n + 1)
  <2>1. n + 1 \in Nat \ {0} /\ n + 1 \in 1..(n + 1) /\ (n + 1) + 1 = n + 2
    BY <1>1
  <2>2. Lines(text', n + 2) =
          IF text'[n + 1] = Newline THEN Lines(text', n + 1) + 1 ELSE Lines(text', n + 1)
    <3> DEFINE k == n + 1
    <3> HIDE DEF k
    <3>1. k \in Nat \ {0} /\ k + 1 = n + 2
      BY <2>1 DEF k
    <3>2. Lines(text', k + 1) =
            IF text'[k] = Newline THEN Lines(text', k) + 1 ELSE Lines(text', k)
      BY <3>1, LinesNext
    <3> QED  BY <3>1, <3>2 DEF k
  <2> QED  BY <1>1, <1>6, <2>1, <2>2
<1> QED  BY <1>1, <1>3, <1>4, <1>5, <1>6, <1>7

LEMMA Stable ==
  ASSUME text \in Seq(Chars), NEW c \in Chars, text' = Append(text, c)
  PROVE  /\ \A i \in 0..Len(text) :
              /\ CodeAt(text', After', i) <=> CodeAt(text, After, i)
              /\ StringAt(text', After', i) <=> StringAt(text, After, i)
              /\ SolidAt(text', After', i) <=> SolidAt(text, After, i)
              /\ EndAt(text', After', i) <=> EndAt(text, After, i)
         /\ RawPieces(text, After) \subseteq RawPieces(text', After')
<1> DEFINE n == Len(text)
           t == text
           u == text'
           M == After
           K == After'
<1>1. /\ n \in Nat /\ Len(u) = n + 1 /\ \A i \in 1..n : u[i] = t[i]
      /\ \A i \in 0..n : K[i] = M[i]
      /\ \A i \in 1..(n + 1) : Lines(u, i) = Lines(t, i)
  BY Reading
<1>0. Len(t) = n
  OBVIOUS
<1> HIDE DEF n, t, u, M, K
<1>2. ASSUME NEW i \in 0..n
      PROVE  /\ CodeAt(u, K, i) <=> CodeAt(t, M, i)
             /\ StringAt(u, K, i) <=> StringAt(t, M, i)
             /\ SolidAt(u, K, i) <=> SolidAt(t, M, i)
             /\ EndAt(u, K, i) <=> EndAt(t, M, i)
  <2>1. i \in 1..(n + 1) <=> i \in 1..n
    BY <1>1
  <2>2. i \in 1..n => u[i] = t[i] /\ K[i] = M[i] /\ K[i - 1] = M[i - 1]
    BY <1>1
  <2> QED  BY <1>0, <1>1, <2>1, <2>2 DEF CodeAt, StringAt, SolidAt, EndAt
<1>3. ASSUME NEW p \in RawPieces(t, M)
      PROVE  p \in RawPieces(u, K)
  <2>1. /\ p \in PieceRecords /\ p.from \in Nat /\ p.to \in Nat
        /\ 1 <= p.from /\ p.from <= p.to /\ p.to <= n
        /\ p.line = Lines(t, p.from)
    BY <1>0 DEF RawPieces, PieceRecords
  <2>2. Lines(u, p.from) = Lines(t, p.from)
    BY <1>1, <2>1
  <2>3. /\ \A i \in p.from..p.to : i \in 0..n
        /\ \A i \in p.from..(p.to - 1) : i \in 1..n
        /\ p.from - 1 \in 0..n /\ p.to \in 1..n
    BY <1>1, <2>1
  <2>4. p.quoted => \A i \in p.from..p.to : StringAt(u, K, i)
    <3>1. p.quoted => \A i \in p.from..p.to : StringAt(t, M, i)
      BY DEF RawPieces
    <3> QED  BY <1>2, <2>3, <3>1
  <2>5. ASSUME ~p.quoted
        PROVE  /\ \A i \in p.from..p.to : CodeAt(u, K, i)
               /\ \A i \in p.from..(p.to - 1) : u[i] # Newline
               /\ ~SolidAt(u, K, p.from - 1)
               /\ u[p.to] = Newline \/ (p.to < Len(u) /\ ~SolidAt(u, K, p.to + 1))
    <3>1. /\ \A i \in p.from..p.to : CodeAt(t, M, i)
          /\ \A i \in p.from..(p.to - 1) : t[i] # Newline
          /\ ~SolidAt(t, M, p.from - 1)
          /\ t[p.to] = Newline \/ (p.to < Len(t) /\ ~SolidAt(t, M, p.to + 1))
      BY <2>5 DEF RawPieces
    <3>2. p.to < Len(t) => p.to + 1 \in 0..n /\ p.to < Len(u)
      BY <1>0, <1>1, <2>1
    <3>3. \A i \in p.from..(p.to - 1) : u[i] = t[i]
      BY <1>1, <2>3
    <3>4. u[p.to] = t[p.to]
      BY <1>1, <2>3
    <3>5. \A i \in p.from..p.to : CodeAt(u, K, i)
      BY <1>2, <2>3, <3>1
    <3>6. ~SolidAt(u, K, p.from - 1)
      BY <1>2, <2>3, <3>1
    <3> QED  BY <1>2, <3>1, <3>2, <3>3, <3>4, <3>5, <3>6
  <2>6. p.to <= Len(u)
    BY <1>1, <2>1
  <2> QED  BY <2>1, <2>2, <2>4, <2>5, <2>6 DEF RawPieces
<1> QED  BY <1>2, <1>3 DEF n, t, u, M, K

LEMMA Unread ==
  ASSUME text' = text
  PROVE  After' = After
BY AfterIsMarks
-----------------------------------------------------------------------------
(* The first pass keeps its invariant. *)

(* The pending piece of a line. *)
LEMMA Pending ==
  ASSUME text \in Seq(Chars), FirstPass, mode = "code"
  PROVE  /\ After[Len(text)] = "code" /\ line = Lines(text, from)
         /\ ~SolidAt(text, After, from - 1)
<1>0. Len(text) \in Nat /\ from \in 1..(Len(text) + 1) /\ from \in Nat \ {0}
  BY DEF FirstPass
<1>1. /\ \A i \in from..Len(text) : CodeAt(text, After, i) /\ text[i] # Newline
      /\ from > 1 => EndAt(text, After, from - 1)
      /\ After[from - 1] = "code" /\ line = Lines(text, Len(text) + 1)
  BY DEF FirstPass
<1>2. After[Len(text)] = "code"
  <2>1. CASE from = Len(text) + 1
    BY <1>0, <1>1, <2>1
  <2>2. CASE from # Len(text) + 1
    <3>1. Len(text) \in from..Len(text)
      BY <1>0, <2>2
    <3> QED  BY <1>1, <3>1 DEF CodeAt
  <2> QED  BY <2>1, <2>2
<1>3. line = Lines(text, from)
  <2>1. \A j \in from..((Len(text) + 1) - 1) : text[j] # Newline
    BY <1>0, <1>1
  <2>2. Len(text) + 1 \in Nat /\ from <= Len(text) + 1
    BY <1>0
  <2>3. Lines(text, Len(text) + 1) = Lines(text, from)
    BY <1>0, <2>1, <2>2, LinesSame
  <2> QED  BY <1>1, <2>3
<1>4. ~SolidAt(text, After, from - 1)
  BY <1>0, <1>1 DEF SolidAt, CodeAt, EndAt, Whitespace
<1> QED  BY <1>2, <1>3, <1>4

LEMMA ReadCodeKeeps ==
  ASSUME text \in Seq(Chars), FirstPass, NEW c \in Chars, ReadCode(c)
  PROVE  mode' = "code" /\ FirstPass'
<1> DEFINE n == Len(text)
<1>1. /\ mode = "code" /\ c # Quote /\ c # Hash /\ text' = Append(text, c)
      /\ mode' = "code" /\ opened' = opened /\ slashes' = slashes /\ tokens' = tokens
  BY DEF ReadCode
<1>2. /\ n \in Nat /\ text' \in Seq(Chars) /\ Len(text') = n + 1 /\ text'[n + 1] = c
      /\ \A i \in 1..n : text'[i] = text[i]
      /\ \A i \in 0..n : After'[i] = After[i]
      /\ After'[n + 1] = Behind(After[n], c)
      /\ \A i \in 1..(n + 1) : Lines(text, i) \in Nat /\ Lines(text', i) = Lines(text, i)
      /\ Lines(text', n + 2) =
           IF c = Newline THEN Lines(text, n + 1) + 1 ELSE Lines(text, n + 1)
  BY <1>1, Reading
<1>3. /\ \A i \in 0..n :
           /\ CodeAt(text', After', i) <=> CodeAt(text, After, i)
           /\ StringAt(text', After', i) <=> StringAt(text, After, i)
           /\ SolidAt(text', After', i) <=> SolidAt(text, After, i)
           /\ EndAt(text', After', i) <=> EndAt(text, After, i)
      /\ RawPieces(text, After) \subseteq RawPieces(text', After')
  BY <1>1, Stable
<1>4. /\ After[n] = "code" /\ line = Lines(text, from) /\ ~SolidAt(text, After, from - 1)
  BY <1>1, Pending
<1>5. /\ tokens = <<>> /\ from \in 1..(n + 1) /\ line = Lines(text, n + 1)
      /\ opened \in Nat /\ slashes \in Nat
      /\ pieces \in Seq(RawPieces(text, After)) /\ List(pieces, 1, from)
      /\ \A i \in 1..(from - 1) :
           Holds(pieces, i) <=> StringAt(text, After, i) \/ CodeAt(text, After, i)
      /\ After[from - 1] = "code"
      /\ \A i \in from..n : CodeAt(text, After, i) /\ text[i] # Newline
      /\ from > 1 => EndAt(text, After, from - 1)
  BY <1>1 DEF FirstPass
<1>6. After'[n + 1] = "code"
  BY <1>1, <1>2, <1>4, BehindValues
<1>7. CodeAt(text', After', n + 1)
  <2>1. (n + 1) - 1 = n /\ n \in 0..n /\ n + 1 \in 1..(n + 1)
    BY <1>2
  <2> QED  BY <1>2, <1>4, <1>6, <2>1 DEF CodeAt
<1>8. pieces \in Seq(RawPieces(text', After'))
  BY <1>3, <1>5, SeqMonotonic
<1>9. \A i \in from..(n + 1) : CodeAt(text', After', i)
  <2>1. \A i \in from..(n + 1) : i = n + 1 \/ (i \in from..n /\ i \in 0..n)
    BY <1>2, <1>5
  <2> QED  BY <1>3, <1>5, <1>7, <2>1
<1> HIDE DEF n
<1>10. CASE c # Newline
  <2>1. pieces' = pieces /\ line' = line /\ from' = from
    BY <1>1, <1>10 DEF ReadCode
  <2>2. from \in 1..((n + 1) + 1) /\ from - 1 \in 0..n
    BY <1>2, <1>5
  <2>3. line' = Lines(text', (n + 1) + 1)
    <3>1. (n + 1) + 1 = n + 2
      BY <1>2
    <3> QED  BY <1>2, <1>5, <1>10, <2>1, <3>1
  <2>4. \A i \in 1..(from - 1) :
          Holds(pieces, i) <=> StringAt(text', After', i) \/ CodeAt(text', After', i)
    <3>1. \A i \in 1..(from - 1) : i \in 0..n
      BY <1>2, <1>5
    <3> QED  BY <1>3, <1>5, <3>1
  <2>5. \A i \in from..(n + 1) : text'[i] # Newline
    <3>1. \A i \in from..(n + 1) : i = n + 1 \/ (i \in from..n /\ i \in 1..n)
      BY <1>2, <1>5
    <3> QED  BY <1>2, <1>5, <1>10, <3>1
  <2>6. After'[from - 1] = "code"
    BY <1>2, <1>5, <2>2
  <2>7. from > 1 => EndAt(text', After', from - 1)
    BY <1>3, <1>5, <2>2
  <2> QED  BY <1>1, <1>2, <1>5, <1>8, <1>9, <2>1, <2>2, <2>3, <2>4, <2>5, <2>6, <2>7
           DEF FirstPass
<1>11. CASE c = Newline
  <2> DEFINE p == Piece(from, n + 1, line, FALSE)
  <2>1. pieces' = Append(pieces, p) /\ line' = line + 1 /\ from' = n + 2
    BY <1>1, <1>11 DEF ReadCode, n
  <2>2. /\ p.from = from /\ p.to = n + 1 /\ p.line = line /\ p.quoted = FALSE
        /\ p \in PieceRecords
    <3>1. from \in Nat /\ n + 1 \in Nat /\ line \in Nat
      BY <1>2, <1>5
    <3> QED  BY <3>1 DEF Piece, PieceRecords
  <2> HIDE DEF p
  <2>3. p \in RawPieces(text', After')
    <3>1. 1 <= p.from /\ p.from <= p.to /\ p.to <= Len(text')
      BY <1>2, <1>5, <2>2
    <3>2. p.line = Lines(text', p.from)
      BY <1>2, <1>4, <1>5, <2>2
    <3>3. \A i \in p.from..p.to : CodeAt(text', After', i)
      BY <1>9, <2>2
    <3>4. \A i \in p.from..(p.to - 1) : text'[i] # Newline
      <4>1. \A i \in p.from..(p.to - 1) : i \in from..n /\ i \in 1..n
        BY <1>2, <1>5, <2>2
      <4> QED  BY <1>2, <1>5, <4>1
    <3>5. ~SolidAt(text', After', p.from - 1)
      <4>1. from - 1 \in 0..n
        BY <1>2, <1>5
      <4> QED  BY <1>3, <1>4, <2>2, <4>1
    <3>6. text'[p.to] = Newline
      BY <1>2, <1>11, <2>2
    <3> QED  BY <2>2, <3>1, <3>2, <3>3, <3>4, <3>5, <3>6 DEF RawPieces
  <2>4. /\ pieces' \in Seq(RawPieces(text', After')) /\ List(pieces', 1, n + 2)
        /\ \A i : Holds(pieces', i) <=> Holds(pieces, i) \/ i \in from..(n + 1)
    <3>1. /\ 1 \in Nat /\ from \in Nat /\ n + 2 \in Nat /\ 1 <= from /\ from <= p.from
          /\ p.from <= p.to /\ p.to < n + 2
      BY <1>2, <1>5, <2>2
    <3>2. Places(RawPieces(text', After'))
      BY PlacesOf
    <3>3. List(pieces, 1, from)
      BY <1>5
    <3> DEFINE P == RawPieces(text', After')
    <3> HIDE DEF P
    <3>4. Places(P) /\ pieces \in Seq(P) /\ p \in P
      BY <1>8, <2>3, <3>2 DEF P
    <3>5. /\ Append(pieces, p) \in Seq(P) /\ List(Append(pieces, p), 1, n + 2)
          /\ \A i : Holds(Append(pieces, p), i) <=> Holds(pieces, i) \/ i \in p.from..p.to
      BY <3>1, <3>3, <3>4, ListAppend
    <3> QED  BY <2>1, <2>2, <3>5 DEF P
  <2>5. \A i \in 1..((n + 2) - 1) :
          Holds(pieces', i) <=> StringAt(text', After', i) \/ CodeAt(text', After', i)
    <3> SUFFICES ASSUME NEW i \in 1..((n + 2) - 1)
                 PROVE  Holds(pieces', i) <=> StringAt(text', After', i) \/ CodeAt(text', After', i)
      OBVIOUS
    <3>1. CASE i < from
      <4>1. i \in 1..(from - 1) /\ i \in 0..n /\ i \notin from..(n + 1)
        BY <1>2, <1>5, <3>1
      <4> QED  BY <1>3, <1>5, <2>4, <4>1
    <3>2. CASE ~(i < from)
      <4>1. i \in from..(n + 1)
        BY <1>2, <1>5, <3>2
      <4> QED  BY <1>9, <2>4, <4>1
    <3> QED  BY <3>1, <3>2
  <2>6. /\ n + 2 \in 1..((n + 1) + 1) /\ (n + 2) - 1 = n + 1 /\ (n + 1) + 1 = n + 2
        /\ (n + 2)..(n + 1) = {}
    BY <1>2
  <2>7. line + 1 = Lines(text', n + 2)
    BY <1>2, <1>5, <1>11
  <2>8. EndAt(text', After', n + 1)
    <3>1. n + 1 \in 1..(n + 1)
      BY <1>2
    <3> QED  BY <1>2, <1>6, <1>11, <3>1 DEF EndAt
  <2> QED  BY <1>1, <1>2, <1>5, <1>6, <2>1, <2>4, <2>5, <2>6, <2>7, <2>8 DEF FirstPass
<1> QED  BY <1>1, <1>10, <1>11
(* What the other steps of the first pass keep. *)
LEMMA Kept ==
  ASSUME text \in Seq(Chars), FirstPass, NEW c \in Chars, text' = Append(text, c)
  PROVE  /\ pieces \in Seq(RawPieces(text', After'))
         /\ \A i \in 1..(from - 1) :
              Holds(pieces, i) <=> StringAt(text', After', i) \/ CodeAt(text', After', i)
         /\ After'[from - 1] = "code"
<1>1. /\ RawPieces(text, After) \subseteq RawPieces(text', After')
      /\ \A i \in 0..Len(text) :
           /\ CodeAt(text', After', i) <=> CodeAt(text, After, i)
           /\ StringAt(text', After', i) <=> StringAt(text, After, i)
  BY Stable
<1>2. Len(text) \in Nat /\ \A i \in 0..Len(text) : After'[i] = After[i]
  BY Reading
<1>3. /\ from \in 1..(Len(text) + 1) /\ After[from - 1] = "code"
      /\ pieces \in Seq(RawPieces(text, After))
      /\ \A i \in 1..(from - 1) :
           Holds(pieces, i) <=> StringAt(text, After, i) \/ CodeAt(text, After, i)
  BY DEF FirstPass
<1>4. pieces \in Seq(RawPieces(text', After'))
  BY <1>1, <1>3, SeqMonotonic
<1>5. \A i \in 1..(from - 1) : i \in 0..Len(text)
  BY <1>2, <1>3
<1>6. from - 1 \in 0..Len(text)
  BY <1>2, <1>3
<1>7. \A i \in 1..(from - 1) :
        Holds(pieces, i) <=> StringAt(text', After', i) \/ CodeAt(text', After', i)
  BY <1>1, <1>3, <1>5
<1> QED  BY <1>2, <1>3, <1>4, <1>6, <1>7

LEMMA ReadMarkKeeps ==
  ASSUME text \in Seq(Chars), FirstPass, NEW c \in Chars, ReadMark(c)
  PROVE  mode' \in {"string", "comment"} /\ FirstPass'
<1> DEFINE n == Len(text)
<1>1. /\ mode = "code" /\ c \in {Quote, Hash} /\ text' = Append(text, c)
      /\ mode' = IF c = Quote THEN "string" ELSE "comment"
      /\ from' = n + 1 /\ opened' = line /\ slashes' = 0 /\ line' = line /\ tokens' = tokens
      /\ pieces' = IF from > n THEN pieces ELSE Append(pieces, Piece(from, n, line, FALSE))
  BY DEF ReadMark
<1>2. /\ n \in Nat /\ text' \in Seq(Chars) /\ Len(text') = n + 1 /\ text'[n + 1] = c
      /\ \A i \in 1..n : text'[i] = text[i]
      /\ \A i \in 0..n : After'[i] = After[i]
      /\ After'[n + 1] = Behind(After[n], c)
      /\ \A i \in 1..(n + 1) : Lines(text, i) \in Nat /\ Lines(text', i) = Lines(text, i)
      /\ Lines(text', n + 2) =
           IF c = Newline THEN Lines(text, n + 1) + 1 ELSE Lines(text, n + 1)
  BY <1>1, Reading
<1>3. /\ \A i \in 0..n :
           /\ CodeAt(text', After', i) <=> CodeAt(text, After, i)
           /\ SolidAt(text', After', i) <=> SolidAt(text, After, i)
  BY <1>1, Stable
<1>4. /\ After[n] = "code" /\ line = Lines(text, from) /\ ~SolidAt(text, After, from - 1)
  BY <1>1, Pending
<1>5. /\ tokens = <<>> /\ from \in 1..(n + 1) /\ line = Lines(text, n + 1)
      /\ List(pieces, 1, from)
      /\ \A i \in from..n : CodeAt(text, After, i) /\ text[i] # Newline
  BY <1>1 DEF FirstPass
<1>6. /\ pieces \in Seq(RawPieces(text', After'))
      /\ \A i \in 1..(from - 1) :
           Holds(pieces, i) <=> StringAt(text', After', i) \/ CodeAt(text', After', i)
  BY <1>1, Kept
<1>7. After'[n + 1] = IF c = Quote THEN "string" ELSE "comment"
  BY <1>1, <1>2, <1>4, BehindValues
<1>8. ~SolidAt(text', After', n + 1)
  BY <1>7 DEF SolidAt, CodeAt
<1> HIDE DEF n
<1>9. /\ pieces' \in Seq(RawPieces(text', After')) /\ List(pieces', 1, n + 1)
      /\ \A i \in 1..n :
           Holds(pieces', i) <=> StringAt(text', After', i) \/ CodeAt(text', After', i)
  <2>1. CASE from > n
    <3>1. from = n + 1 /\ from - 1 = n /\ pieces' = pieces
      BY <1>1, <1>2, <1>5, <2>1
    <3> QED  BY <1>5, <1>6, <3>1
  <2>2. CASE ~(from > n)
    <3> DEFINE p == Piece(from, n, line, FALSE)
               P == RawPieces(text', After')
    <3>1. pieces' = Append(pieces, p)
      BY <1>1, <2>2
    <3>2. /\ p.from = from /\ p.to = n /\ p.line = line /\ p.quoted = FALSE
          /\ p \in PieceRecords
      <4>1. from \in Nat /\ n \in Nat /\ line \in Nat
        BY <1>2, <1>5
      <4> QED  BY <4>1 DEF Piece, PieceRecords
    <3> HIDE DEF p
    <3>3. p \in P
      <4>1. 1 <= p.from /\ p.from <= p.to /\ p.to <= Len(text')
        BY <1>2, <1>5, <2>2, <3>2
      <4>2. p.line = Lines(text', p.from)
        BY <1>2, <1>4, <1>5, <3>2
      <4>3. \A i \in p.from..p.to : i \in from..n /\ i \in 0..n
        BY <1>2, <1>5, <3>2
      <4>4. \A i \in p.from..p.to : CodeAt(text', After', i)
        BY <1>3, <1>5, <4>3
      <4>5. \A i \in p.from..(p.to - 1) : text'[i] # Newline
        <5>1. \A i \in p.from..(p.to - 1) : i \in from..n /\ i \in 1..n
          BY <1>2, <1>5, <3>2
        <5> QED  BY <1>2, <1>5, <5>1
      <4>6. ~SolidAt(text', After', p.from - 1)
        <5>1. from - 1 \in 0..n
          BY <1>2, <1>5
        <5> QED  BY <1>3, <1>4, <3>2, <5>1
      <4>7. p.to < Len(text') /\ ~SolidAt(text', After', p.to + 1)
        BY <1>2, <1>8, <3>2
      <4> QED  BY <3>2, <4>1, <4>2, <4>4, <4>5, <4>6, <4>7 DEF RawPieces
    <3>4. /\ 1 \in Nat /\ from \in Nat /\ n + 1 \in Nat /\ 1 <= from /\ from <= p.from
          /\ p.from <= p.to /\ p.to < n + 1
      BY <1>2, <1>5, <2>2, <3>2
    <3>5. Places(P)
      BY PlacesOf
    <3>6. pieces \in Seq(P)
      BY <1>6
    <3> HIDE DEF P
    <3>7. /\ Append(pieces, p) \in Seq(P) /\ List(Append(pieces, p), 1, n + 1)
          /\ \A i : Holds(Append(pieces, p), i) <=> Holds(pieces, i) \/ i \in p.from..p.to
      BY <1>5, <3>3, <3>4, <3>5, <3>6, ListAppend
    <3>8. ASSUME NEW i \in 1..n
          PROVE  Holds(pieces', i) <=> StringAt(text', After', i) \/ CodeAt(text', After', i)
      <4>1. CASE i < from
        <5>1. i \in 1..(from - 1) /\ i \notin from..n
          BY <1>2, <1>5, <4>1
        <5> QED  BY <1>6, <3>1, <3>2, <3>7, <5>1
      <4>2. CASE ~(i < from)
        <5>1. i \in from..n /\ i \in 0..n
          BY <1>2, <1>5, <4>2
        <5> QED  BY <1>3, <1>5, <3>1, <3>2, <3>7, <5>1
      <4> QED  BY <4>1, <4>2
    <3> QED  BY <3>1, <3>7, <3>8 DEF P
  <2> QED  BY <2>1, <2>2
<1>10. /\ n + 1 \in 1..((n + 1) + 1) /\ (n + 1) - 1 = n /\ (n + 1) + 1 = n + 2
       /\ (n + 1)..(n + 1) = {n + 1} /\ n \in 0..n /\ n + 1 \in 1..(n + 1)
  BY <1>2
<1>11. line = Lines(text', n + 2) /\ line = Lines(text', n + 1) /\ line \in Nat
  <2>1. c # Newline
    BY <1>1 DEF Quote, Hash, Newline
  <2> QED  BY <1>2, <1>5, <1>10, <2>1
<1>12. After'[n] = "code"
  BY <1>2, <1>4, <1>10
<1>13. Opened'
  BY <1>1, <1>2, <1>7, <1>10, <1>11 DEF Opened
<1>14. 0 % 2 = 0
  OBVIOUS
<1> QED  BY <1>1, <1>2, <1>5, <1>7, <1>9, <1>10, <1>11, <1>12, <1>13, <1>14 DEF FirstPass

(* Nothing is kept of what follows the mark that opens a comment. *)
LEMMA ReadCommentKeeps ==
  ASSUME text \in Seq(Chars), FirstPass, NEW c \in Chars, ReadComment(c)
  PROVE  mode' \in {"code", "comment"} /\ FirstPass'
<1> DEFINE n == Len(text)
<1>1. /\ mode = "comment" /\ text' = Append(text, c)
      /\ line' = IF c = Newline THEN line + 1 ELSE line
      /\ c = Hash => mode' = "code" /\ from' = n + 2
      /\ c # Hash => mode' = mode /\ from' = from
      /\ opened' = opened /\ slashes' = slashes /\ pieces' = pieces /\ tokens' = tokens
  BY DEF ReadComment
<1>2. /\ n \in Nat /\ text' \in Seq(Chars) /\ Len(text') = n + 1 /\ text'[n + 1] = c
      /\ \A i \in 1..n : text'[i] = text[i]
      /\ \A i \in 0..n : After'[i] = After[i]
      /\ After'[n + 1] = Behind(After[n], c)
      /\ \A i \in 1..(n + 1) : Lines(text, i) \in Nat /\ Lines(text', i) = Lines(text, i)
      /\ Lines(text', n + 2) =
           IF c = Newline THEN Lines(text, n + 1) + 1 ELSE Lines(text, n + 1)
  BY <1>1, Reading
<1>3. /\ tokens = <<>> /\ from \in 1..(n + 1) /\ line = Lines(text, n + 1)
      /\ opened \in Nat /\ slashes \in Nat /\ List(pieces, 1, from)
      /\ from <= n /\ opened = Lines(text, from) /\ text[from] \in {Quote, Hash}
      /\ \A j \in from..n : After[j] = "comment"
  BY <1>1 DEF FirstPass, Opened
<1>4. /\ pieces \in Seq(RawPieces(text', After'))
      /\ \A i \in 1..(from - 1) :
           Holds(pieces, i) <=> StringAt(text', After', i) \/ CodeAt(text', After', i)
      /\ After'[from - 1] = "code"
  BY <1>1, Kept
<1> HIDE DEF n
<1>5. After'[n + 1] = IF c = Hash THEN "code" ELSE "comment"
  <2>1. n \in from..n
    BY <1>2, <1>3
  <2> QED  BY <1>2, <1>3, <2>1, BehindValues
<1>6. \A j \in from..n : After'[j] = "comment"
  <2>1. \A j \in from..n : j \in 0..n
    BY <1>2, <1>3
  <2> QED  BY <1>2, <1>3, <2>1
<1>7. line' = Lines(text', (n + 1) + 1) /\ (n + 1) + 1 = n + 2
  BY <1>1, <1>2, <1>3
<1>8. CASE c # Hash
  <2>1. \A j \in from..(n + 1) : After'[j] = "comment"
    <3>1. \A j \in from..(n + 1) : j = n + 1 \/ j \in from..n
      BY <1>2, <1>3
    <3> QED  BY <1>5, <1>6, <1>8, <3>1
  <2>2. from <= n + 1 /\ from \in 1..((n + 1) + 1) /\ from \in 1..n
    BY <1>2, <1>3
  <2>3. opened = Lines(text', from) /\ text'[from] \in {Quote, Hash}
    BY <1>2, <1>3, <2>2
  <2>4. Opened'
    BY <1>1, <1>2, <1>8, <2>1, <2>2, <2>3 DEF Opened
  <2> QED  BY <1>1, <1>2, <1>3, <1>4, <1>7, <1>8, <2>1, <2>2, <2>4 DEF FirstPass
<1>9. CASE c = Hash
  <2>1. List(pieces, 1, n + 2)
    <3>1. Places(RawPieces(text', After'))
      BY PlacesOf
    <3>2. 1 \in Nat /\ from \in Nat /\ n + 2 \in Nat /\ from <= n + 2 /\ 1 <= 1
      BY <1>2, <1>3
    <3> QED  BY <1>3, <1>4, <3>1, <3>2, ListWider
  <2>2. ASSUME NEW i \in from..(n + 1)
        PROVE  ~Holds(pieces, i) /\ ~StringAt(text', After', i) /\ ~CodeAt(text', After', i)
    <3>1. ~Holds(pieces, i)
      <4>1. \A k \in DOMAIN pieces : pieces[k].to < from /\ pieces[k].to \in Nat
        <5>1. \A k \in DOMAIN pieces : pieces[k] \in RawPieces(text', After')
          BY <1>4
        <5> QED  BY <1>3, <5>1 DEF List, RawPieces, PieceRecords
      <4> QED  BY <1>2, <1>3, <4>1 DEF Holds
    <3>2. CASE i = from
      <4>1. After'[i] = "comment"
        BY <1>2, <1>3, <1>6, <3>2
      <4> QED  BY <1>4, <3>1, <3>2, <4>1 DEF StringAt, CodeAt
    <3>3. CASE i # from
      <4>1. i - 1 \in from..n
        BY <1>2, <1>3, <3>3
      <4>2. After'[i - 1] = "comment"
        BY <1>6, <4>1
      <4> QED  BY <3>1, <4>2 DEF StringAt, CodeAt
    <3> QED  BY <3>2, <3>3
  <2>3. \A i \in 1..((n + 2) - 1) :
          Holds(pieces, i) <=> StringAt(text', After', i) \/ CodeAt(text', After', i)
    <3>1. \A i \in 1..((n + 2) - 1) : i \in 1..(from - 1) \/ i \in from..(n + 1)
      BY <1>2, <1>3
    <3> QED  BY <1>4, <2>2, <3>1
  <2>4. /\ n + 2 \in 1..((n + 1) + 1) /\ (n + 2) - 1 = n + 1 /\ (n + 2)..(n + 1) = {}
        /\ (n + 1) - 1 = n /\ n \in from..n /\ n + 1 \in 1..(n + 1)
    BY <1>2, <1>3
  <2>5. EndAt(text', After', n + 1)
    <3>1. After'[(n + 1) - 1] # "code"
      BY <1>6, <2>4
    <3> QED  BY <1>2, <1>5, <1>9, <2>4, <3>1 DEF EndAt
  <2> QED  BY <1>1, <1>2, <1>3, <1>4, <1>5, <1>7, <1>9, <2>1, <2>3, <2>4, <2>5 DEF FirstPass
<1> QED  BY <1>1, <1>8, <1>9
(* A string is kept with its quotes; the parity of the backslashes says what *)
(* the automaton says.                                                       *)
LEMMA ReadStringKeeps ==
  ASSUME text \in Seq(Chars), FirstPass, NEW c \in Chars, ReadString(c)
  PROVE  mode' \in {"code", "string"} /\ FirstPass'
<1> DEFINE n == Len(text)
           closes == c = Quote /\ slashes % 2 = 0
<1>1. /\ mode = "string" /\ text' = Append(text, c)
      /\ line' = IF c = Newline THEN line + 1 ELSE line
      /\ closes => /\ mode' = "code" /\ from' = n + 2 /\ slashes' = slashes
                   /\ pieces' = Append(pieces, Piece(from, n + 1, opened, TRUE))
      /\ ~closes => /\ mode' = mode /\ from' = from /\ pieces' = pieces
                    /\ slashes' = IF c = Backslash THEN slashes + 1 ELSE 0
      /\ opened' = opened /\ tokens' = tokens
  BY DEF ReadString
<1>2. /\ n \in Nat /\ text' \in Seq(Chars) /\ Len(text') = n + 1 /\ text'[n + 1] = c
      /\ \A i \in 1..n : text'[i] = text[i]
      /\ \A i \in 0..n : After'[i] = After[i]
      /\ After'[n + 1] = Behind(After[n], c)
      /\ \A i \in 1..(n + 1) : Lines(text, i) \in Nat /\ Lines(text', i) = Lines(text, i)
      /\ Lines(text', n + 2) =
           IF c = Newline THEN Lines(text, n + 1) + 1 ELSE Lines(text, n + 1)
  BY <1>1, Reading
<1>3. /\ tokens = <<>> /\ from \in 1..(n + 1) /\ line = Lines(text, n + 1)
      /\ opened \in Nat /\ slashes \in Nat /\ List(pieces, 1, from)
      /\ from <= n /\ opened = Lines(text, from) /\ text[from] \in {Quote, Hash}
      /\ \A j \in from..n : After[j] \in {"string", "escape"}
      /\ After[n] = IF slashes % 2 = 0 THEN "string" ELSE "escape"
  BY <1>1 DEF FirstPass, Opened
<1>4. /\ pieces \in Seq(RawPieces(text', After'))
      /\ \A i \in 1..(from - 1) :
           Holds(pieces, i) <=> StringAt(text', After', i) \/ CodeAt(text', After', i)
      /\ After'[from - 1] = "code"
  BY <1>1, Kept
<1>5. \A j \in from..n : After'[j] \in {"string", "escape"}
  <2>1. \A j \in from..n : j \in 0..n
    BY <1>2, <1>3
  <2> QED  BY <1>2, <1>3, <2>1
<1>6. line' = Lines(text', (n + 1) + 1) /\ (n + 1) + 1 = n + 2
  BY <1>1, <1>2, <1>3
<1>7. closes => After'[n + 1] = "code"
  BY <1>2, <1>3, BehindValues
<1>8. ~closes => After'[n + 1] = IF slashes' % 2 = 0 THEN "string" ELSE "escape"
  <2> SUFFICES ASSUME ~closes
               PROVE  After'[n + 1] = IF slashes' % 2 = 0 THEN "string" ELSE "escape"
    OBVIOUS
  <2>1. slashes' = IF c = Backslash THEN slashes + 1 ELSE 0
    BY <1>1
  <2>2. 0 % 2 = 0
    OBVIOUS
  <2>3. slashes % 2 = 0 => (slashes + 1) % 2 # 0
    BY <1>3
  <2>4. slashes % 2 # 0 => (slashes + 1) % 2 = 0
    BY <1>3
  <2>5. Quote # Backslash
    BY DEF Quote, Backslash
  <2>6. CASE slashes % 2 = 0
    <3>1. After'[n + 1] = Behind("string", c) /\ c # Quote
      BY <1>2, <1>3, <2>6
    <3>2. After'[n + 1] = IF c = Backslash THEN "escape" ELSE "string"
      BY <3>1, BehindValues
    <3> QED  BY <2>1, <2>2, <2>3, <2>6, <3>2
  <2>7. CASE slashes % 2 # 0
    <3>1. After'[n + 1] = Behind("escape", c)
      BY <1>2, <1>3, <2>7
    <3>2. After'[n + 1] = "string"
      BY <3>1, BehindValues
    <3> QED  BY <2>1, <2>2, <2>4, <2>7, <3>2
  <2> QED  BY <2>6, <2>7
<1> HIDE DEF n, closes
<1>9. CASE ~closes
  <2>1. \A j \in from..(n + 1) : After'[j] \in {"string", "escape"}
    <3>1. \A j \in from..(n + 1) : j = n + 1 \/ j \in from..n
      BY <1>2, <1>3
    <3> QED  BY <1>5, <1>8, <1>9, <3>1
  <2>2. from <= n + 1 /\ from \in 1..((n + 1) + 1) /\ from \in 1..n
    BY <1>2, <1>3
  <2>3. opened = Lines(text', from) /\ text'[from] \in {Quote, Hash}
    BY <1>2, <1>3, <2>2
  <2>4. Opened'
    BY <1>1, <1>2, <1>9, <2>1, <2>2, <2>3 DEF Opened
  <2>5. slashes' \in Nat
    BY <1>1, <1>3, <1>9
  <2> QED  BY <1>1, <1>2, <1>3, <1>4, <1>6, <1>8, <1>9, <2>1, <2>2, <2>4, <2>5 DEF FirstPass
<1>10. CASE closes
  <2> DEFINE p == Piece(from, n + 1, opened, TRUE)
             P == RawPieces(text', After')
  <2>1. \A i \in from..(n + 1) : StringAt(text', After', i)
    <3> SUFFICES ASSUME NEW i \in from..(n + 1) PROVE StringAt(text', After', i)
      OBVIOUS
    <3>1. i \in 1..(n + 1)
      BY <1>2, <1>3
    <3>2. CASE i = from
      <4>1. After'[from] \in {"string", "escape"} /\ from \in 1..n /\ from - 1 \in 0..n
        BY <1>2, <1>3, <1>5
      <4>2. After[from - 1] = "code" /\ After[0] = "code" /\ After'[from] = Behind("code", text[from])
        <5>1. After = Marks(text) /\ After'[from] = After[from] /\ After'[from - 1] = After[from - 1]
          BY <1>2, <4>1, AfterIsMarks
        <5>2. After[from] = Behind(After[from - 1], text[from]) /\ After[0] = "code"
          BY <4>1, <5>1, MarksEquation DEF n
        <5> QED  BY <1>4, <5>1, <5>2
      <4>3. After'[from] # "escape"
        BY <4>2, BehindValues
      <4> QED  BY <1>2, <1>4, <3>1, <3>2, <4>1, <4>3 DEF StringAt
    <3>3. CASE i # from
      <4>1. i - 1 \in from..n
        BY <1>2, <1>3, <3>3
      <4> QED  BY <1>2, <1>5, <3>1, <4>1 DEF StringAt
    <3> QED  BY <3>2, <3>3
  <2>2. /\ p.from = from /\ p.to = n + 1 /\ p.line = opened /\ p.quoted = TRUE
        /\ p \in PieceRecords
    <3>1. from \in Nat /\ n + 1 \in Nat /\ opened \in Nat
      BY <1>2, <1>3
    <3> QED  BY <3>1 DEF Piece, PieceRecords
  <2>3. pieces' = Append(pieces, p)
    BY <1>1, <1>10
  <2> HIDE DEF p
  <2>4. p \in P
    <3>1. 1 <= p.from /\ p.from <= p.to /\ p.to <= Len(text')
      BY <1>2, <1>3, <2>2
    <3>2. p.line = Lines(text', p.from)
      BY <1>2, <1>3, <2>2
    <3> QED  BY <2>1, <2>2, <3>1, <3>2 DEF RawPieces
  <2>5. /\ 1 \in Nat /\ from \in Nat /\ n + 2 \in Nat /\ 1 <= from /\ from <= p.from
        /\ p.from <= p.to /\ p.to < n + 2
    BY <1>2, <1>3, <2>2
  <2>6. Places(P)
    BY PlacesOf
  <2>7. pieces \in Seq(P)
    BY <1>4
  <2> HIDE DEF P
  <2>8. /\ pieces' \in Seq(P) /\ List(pieces', 1, n + 2)
        /\ \A i : Holds(pieces', i) <=> Holds(pieces, i) \/ i \in from..(n + 1)
    <3>1. /\ Append(pieces, p) \in Seq(P) /\ List(Append(pieces, p), 1, n + 2)
          /\ \A i : Holds(Append(pieces, p), i) <=> Holds(pieces, i) \/ i \in p.from..p.to
      BY <1>3, <2>4, <2>5, <2>6, <2>7, ListAppend
    <3> QED  BY <2>2, <2>3, <3>1
  <2>9. \A i \in 1..((n + 2) - 1) :
          Holds(pieces', i) <=> StringAt(text', After', i) \/ CodeAt(text', After', i)
    <3> SUFFICES ASSUME NEW i \in 1..((n + 2) - 1)
                 PROVE  Holds(pieces', i) <=> StringAt(text', After', i) \/ CodeAt(text', After', i)
      OBVIOUS
    <3>1. CASE i < from
      <4>1. i \in 1..(from - 1) /\ i \notin from..(n + 1)
        BY <1>2, <1>3, <3>1
      <4> QED  BY <1>4, <2>8, <4>1
    <3>2. CASE ~(i < from)
      <4>1. i \in from..(n + 1)
        BY <1>2, <1>3, <3>2
      <4> QED  BY <2>1, <2>8, <4>1
    <3> QED  BY <3>1, <3>2
  <2>10. /\ n + 2 \in 1..((n + 1) + 1) /\ (n + 2) - 1 = n + 1 /\ (n + 2)..(n + 1) = {}
         /\ (n + 1) - 1 = n /\ n \in from..n /\ n + 1 \in 1..(n + 1)
    BY <1>2, <1>3
  <2>11. EndAt(text', After', n + 1)
    <3>1. After'[(n + 1) - 1] # "code"
      BY <1>5, <2>10
    <3> QED  BY <1>2, <1>7, <1>10, <2>10, <3>1 DEF EndAt
  <2> QED  BY <1>1, <1>2, <1>3, <1>6, <1>7, <1>10, <2>8, <2>9, <2>10, <2>11 DEF FirstPass, P
<1> QED  BY <1>1, <1>9, <1>10
(* A place that a sequence of places from a to below b holds is one of them. *)
LEMMA HoldsWithin ==
  ASSUME NEW P, Places(P), NEW s \in Seq(P), NEW a \in Nat, NEW b \in Nat, List(s, a, b)
  PROVE  \A i : Holds(s, i) => i \in a..(b - 1)
<1>1. \A n \in DOMAIN s : s[n].from \in Nat /\ s[n].to \in Nat
  BY DEF Places
<1> QED  BY <1>1 DEF List, Holds

(* At the end of the file the pending piece is dropped, which is behind all  *)
(* that the scanner looks at.                                                *)
LEMMA EndOfTextKeeps ==
  ASSUME text \in Seq(Chars), FirstPass, EndOfText
  PROVE  (mode' = "strip" /\ SecondPass') \/ (mode' = "failed" /\ Failed')
<1> DEFINE n == Len(text)
<1>1. /\ mode \in {"code", "string", "comment"} /\ text' = text /\ tokens' = tokens
      /\ pieces' = pieces /\ After' = After
  BY Unread DEF EndOfText
<1>2. n \in Nat
  OBVIOUS
<1>3. /\ tokens = <<>> /\ from \in 1..(n + 1) /\ List(pieces, 1, from)
      /\ pieces \in Seq(RawPieces(text, After))
      /\ \A i \in 1..(from - 1) :
           Holds(pieces, i) <=> StringAt(text, After, i) \/ CodeAt(text, After, i)
      /\ After[from - 1] = "code"
  BY DEF FirstPass
<1> HIDE DEF n
<1>4. CASE mode = "code"
  <2>1. mode' = "strip"
    BY <1>4 DEF EndOfText
  <2>2. /\ \A i \in from..n : CodeAt(text, After, i) /\ text[i] # Newline
        /\ from > 1 => EndAt(text, After, from - 1)
    BY <1>4 DEF FirstPass, n
  <2>3. List(pieces, 1, n + 1)
    <3>1. 1 \in Nat /\ from \in Nat /\ n + 1 \in Nat /\ from <= n + 1 /\ 1 <= 1
      BY <1>2, <1>3
    <3> QED  BY <1>3, <3>1, PlacesOf, ListWider
  <2>4. \A i : Holds(pieces, i) => i \in 1..(from - 1)
    <3>1. 1 \in Nat /\ from \in Nat
      BY <1>2, <1>3
    <3> QED  BY <1>3, <3>1, PlacesOf, HoldsWithin
  <2>5. ASSUME NEW i \in 1..n
        PROVE  Holds(pieces, i) <=>
                 LookedAt(text, After, i) /\ (StringAt(text, After, i) \/ CodeAt(text, After, i))
    <3>1. CASE i < from
      <4>1. i \in 1..(from - 1) /\ from > 1 /\ from - 1 \in i..n
        BY <1>2, <1>3, <3>1
      <4>2. LookedAt(text, After, i)
        BY <2>2, <4>1 DEF LookedAt, n
      <4> QED  BY <1>3, <4>1, <4>2
    <3>2. CASE ~(i < from)
      <4>1. i \notin 1..(from - 1) /\ \A j \in i..n : j \in from..n
        BY <1>2, <1>3, <3>2
      <4>2. ~LookedAt(text, After, i)
        <5>1. \A j \in i..n : ~EndAt(text, After, j)
          BY <2>2, <4>1 DEF EndAt, CodeAt
        <5> QED  BY <5>1 DEF LookedAt, n
      <4> QED  BY <2>4, <4>1, <4>2
    <3> QED  BY <3>1, <3>2
  <2>6. SecondPass'
    BY <1>1, <1>3, <2>3, <2>5 DEF SecondPass, n
  <2> QED  BY <2>1, <2>6
<1>5. CASE mode # "code"
  <2>1. mode' = "failed" /\ error' = opened + 1
    BY <1>5 DEF EndOfText
  <2>2. Opened
    BY <1>1, <1>5 DEF FirstPass
  <2>3. from \in 1..n
    BY <1>2, <1>3, <2>2 DEF Opened, n
  <2>4. tokens \in Seq(GoodTokens(text, After))
    BY <1>3
  <2>5. Failed'
    <3> DEFINE k == from
    <3>1. /\ error' = Lines(text, k) + 1 /\ After[k - 1] = "code"
          /\ text[k] \in {Quote, Hash} /\ \A j \in k..Len(text) : After[j] # "code"
          /\ k \in 1..Len(text)
      BY <1>3, <2>1, <2>2, <2>3 DEF Opened, n
    <3> HIDE DEF k
    <3> QED  BY <1>1, <2>4, <3>1 DEF Failed, ErrorAt
  <2> QED  BY <2>1, <2>5
<1> QED  BY <1>4, <1>5
-----------------------------------------------------------------------------
(* The third pass keeps its invariant. *)

(* The last token ends before the first piece starts. *)
LEMMA LastBefore ==
  ASSUME NEW P, Places(P), NEW s \in Seq(P), NEW a \in Nat, NEW b \in Nat, List(s, a, b),
         s # <<>>
  PROVE  s[Len(s)].to < b
<1>1. Len(s) \in DOMAIN s
  BY EmptySeq
<1> QED  BY <1>1 DEF List

LEMMA TakeStringKeeps ==
  ASSUME text \in Seq(Chars), ThirdPass, TakeString
  PROVE  /\ mode' = "parse" /\ ThirdPass'
         /\ tokens # <<>> => tokens'[Len(tokens')].to > tokens[Len(tokens)].to
         /\ tokens'[Len(tokens')].to > 0
<1> DEFINE p == Head(pieces)
           k == Token(p.from, p.to, p.line, "string")
           W == WordPieces(text, After)
           G == GoodTokens(text, After)
           n == Len(text)
<1>1. /\ mode = "parse" /\ pieces # <<>> /\ p.quoted /\ tokens' = Append(tokens, k)
      /\ pieces' = Tail(pieces) /\ text' = text /\ mode' = mode /\ After' = After
  BY Unread DEF TakeString, reading
<1>2. /\ tokens \in Seq(G) /\ pieces \in Seq(W) /\ n \in Nat
      /\ \A i \in 1..n :
           Holds(tokens, i) \/ Holds(pieces, i) <=>
             LookedAt(text, After, i) /\ (StringAt(text, After, i) \/ SolidAt(text, After, i))
  BY DEF ThirdPass
<1>3. PICK b \in 1..(n + 1) : List(tokens, 1, b) /\ List(pieces, b, n + 1)
  BY DEF ThirdPass
<1>4. Places(W) /\ Places(G)
  BY PlacesOf
<1>5. b \in Nat /\ n + 1 \in Nat /\ 1 \in Nat /\ 1 <= b /\ b <= n + 1
  BY <1>2, <1>3
<1>6. /\ p \in W /\ Tail(pieces) \in Seq(W)
      /\ b <= p.from /\ p.from <= p.to /\ p.to < n + 1
      /\ List(Tail(pieces), p.to + 1, n + 1)
      /\ \A i : Holds(pieces, i) <=> i \in p.from..p.to \/ Holds(Tail(pieces), i)
  <2> HIDE DEF W
  <2> QED  BY <1>1, <1>2, <1>3, <1>4, <1>5, ListTail
<1>7. /\ k.from = p.from /\ k.to = p.to /\ k.kind = "string" /\ k.line = p.line
      /\ p.from \in Nat /\ p.to \in Nat /\ k \in G
  <2> HIDE DEF p
  <2>1. p \in PieceRecords /\ 1 <= p.from /\ p.from <= p.to /\ p.to <= n /\ p.line = Lines(text, p.from)
    BY <1>6 DEF WordPieces
  <2>2. k \in TokenRecords
    BY <2>1 DEF Token, TokenRecords, PieceRecords, Kinds
  <2> QED  BY <2>1, <2>2 DEF Token, GoodTokens, PieceRecords
<1> HIDE DEF k, p, W, G, n
<1>8. /\ tokens' \in Seq(G) /\ List(tokens', 1, p.to + 1)
      /\ \A i : Holds(tokens', i) <=> Holds(tokens, i) \/ i \in p.from..p.to
  <2>1. p.to + 1 \in Nat /\ k.to < p.to + 1 /\ k.from <= k.to /\ b <= k.from
    BY <1>6, <1>7
  <2>2. /\ Append(tokens, k) \in Seq(G) /\ List(Append(tokens, k), 1, p.to + 1)
        /\ \A i : Holds(Append(tokens, k), i) <=> Holds(tokens, i) \/ i \in k.from..k.to
    BY <1>2, <1>3, <1>4, <1>5, <1>7, <2>1, ListAppend
  <2> QED  BY <1>1, <1>7, <2>2
<1>9. p.to + 1 \in 1..(n + 1)
  BY <1>2, <1>5, <1>6, <1>7
<1>10. ThirdPass'
  BY <1>1, <1>2, <1>6, <1>8, <1>9 DEF ThirdPass, W, G, n
<1>11. tokens'[Len(tokens')] = k
  BY <1>1, <1>2, <1>7, AppendProperties
<1>12. tokens # <<>> => tokens[Len(tokens)].to < b /\ tokens[Len(tokens)].to \in Nat
  <2>1. tokens # <<>> => Len(tokens) \in 1..Len(tokens)
    BY <1>2, EmptySeq
  <2>2. tokens # <<>> => tokens[Len(tokens)].to \in Nat
    BY <1>2, <1>4, <2>1 DEF Places
  <2> QED  BY <1>2, <1>3, <1>4, <1>5, <2>2, LastBefore
<1>13. k.to \in Nat /\ k.to >= b
  BY <1>5, <1>6, <1>7
<1> QED  BY <1>1, <1>5, <1>10, <1>11, <1>12, <1>13

(* The end of the file is behind all the tokens. *)
LEMMA FinishKeeps ==
  ASSUME text \in Seq(Chars), ThirdPass, Finish
  PROVE  mode' = "done" /\ Finished'
<1> DEFINE e == Token(Len(text) + 1, Len(text), 0, "eof")
           G == GoodTokens(text, After)
           n == Len(text)
           R == [from : Nat, to : Nat, line : Nat, kind : Kinds \cup {"eof"}]
           list == SubSeq(tokens', 1, Len(tokens') - 1)
<1>1. /\ pieces = <<>> /\ tokens' = Append(tokens, e) /\ text' = text /\ mode' = "done"
      /\ After' = After
  BY Unread DEF Finish
<1>2. /\ tokens \in Seq(G) /\ n \in Nat
      /\ \A i \in 1..n :
           Holds(tokens, i) \/ Holds(pieces, i) <=>
             LookedAt(text, After, i) /\ (StringAt(text, After, i) \/ SolidAt(text, After, i))
  BY DEF ThirdPass
<1>3. List(tokens, 1, n + 1)
  <2>1. PICK b \in 1..(n + 1) : List(tokens, 1, b)
    BY DEF ThirdPass
  <2>2. 1 \in Nat /\ b \in Nat /\ n + 1 \in Nat /\ 1 <= 1 /\ b <= n + 1
    BY <1>2, <2>1
  <2> QED  BY <1>2, <2>1, <2>2, PlacesOf, ListWider
<1>4. e \in R /\ e.from = n + 1 /\ e.to = n
  BY <1>2 DEF Token
<1>5. tokens \in Seq(R)
  <2>1. G \subseteq R
    BY DEF GoodTokens, TokenRecords
  <2> HIDE DEF G, R
  <2> QED  BY <1>2, <2>1, SeqMonotonic
<1> HIDE DEF e, G, n, R
<1>6. /\ Append(tokens, e) \in Seq(R) /\ Len(Append(tokens, e)) = Len(tokens) + 1
      /\ Append(tokens, e)[Len(tokens) + 1] = e /\ Append(tokens, e) # <<>>
      /\ \A i \in 1..Len(tokens) : Append(tokens, e)[i] = tokens[i]
  <2>1. /\ Append(tokens, e) \in Seq(R) /\ Len(Append(tokens, e)) = Len(tokens) + 1
        /\ Append(tokens, e)[Len(tokens) + 1] = e
        /\ \A i \in 1..Len(tokens) : Append(tokens, e)[i] = tokens[i]
    BY <1>4, <1>5, AppendProperties
  <2>2. Append(tokens, e) # <<>>
    BY <1>4, <1>5, AppendProperties
  <2> QED  BY <2>1, <2>2
<1>7. list = tokens
  <2> DEFINE k == Len(tokens)
  <2>1. k \in Nat /\ Len(tokens') - 1 = k /\ \A i \in 1..k : tokens'[i] = tokens[i]
    BY <1>1, <1>5, <1>6
  <2>2. \A i \in 1..k : tokens'[i] \in R
    BY <1>5, <2>1
  <2> DEFINE l == SubSeq(tokens', 1, k)
  <2> HIDE DEF k
  <2>3. /\ l \in Seq(R) /\ Len(l) = IF 1 <= k THEN k - 1 + 1 ELSE 0
        /\ \A i \in 1..(k - 1 + 1) : l[i] = tokens'[1 + i - 1]
    BY <2>1, <2>2, SubSeqProperties
  <2> HIDE DEF l
  <2>4. Len(l) = k /\ \A i \in 1..k : l[i] = tokens[i]
    BY <2>1, <2>3
  <2>5. l = tokens
    BY <1>5, <2>3, <2>4, SeqEqual DEF k
  <2> QED  BY <2>1, <2>5 DEF l
<1>8. \A i \in 1..n :
        Holds(tokens, i) <=>
          LookedAt(text, After, i) /\ (StringAt(text, After, i) \/ SolidAt(text, After, i))
  BY <1>1, <1>2, ListEmpty
<1>9. Len(tokens') = Len(tokens) + 1 /\ tokens'[Len(tokens')] = e
  BY <1>1, <1>6
<1>10. Finished'
  <2> HIDE DEF list
  <2>1. /\ list \in Seq(G) /\ List(list, 1, n + 1)
        /\ \A i \in 1..n :
             Holds(list, i) <=>
               LookedAt(text, After, i) /\ (StringAt(text, After, i) \/ SolidAt(text, After, i))
    BY <1>2, <1>3, <1>7, <1>8
  <2>2. tokens' # <<>> /\ tokens' \in Seq(R)
    BY <1>1, <1>6
  <2>3. tokens'[Len(tokens')].from = Len(text') + 1 /\ tokens'[Len(tokens')].to = Len(text')
    BY <1>1, <1>4, <1>9 DEF n
  <2> QED  BY <1>1, <2>1, <2>2, <2>3 DEF Finished, list, n, G, R
<1> QED  BY <1>1, <1>10
(* What the front of a piece looks like, cut out of the text. *)
LEMMA Cut ==
  ASSUME text \in Seq(Chars), NEW p \in WordPieces(text, After), ~p.quoted,
         NEW s, s = SubSeq(text, p.from, p.to)
  PROVE  /\ s \in Seq(Chars) /\ s # <<>> /\ Len(s) = p.to - p.from + 1
         /\ \A i \in 1..Len(s) : s[i] = text[p.from + i - 1]
         /\ s[1] = text[p.from]
         /\ p.from \in Nat \ {0} /\ p.to \in Nat /\ p.from <= p.to /\ p.to <= Len(text)
         /\ \A i \in p.from..p.to : SolidAt(text, After, i)
         /\ p.line = Lines(text, p.from)
<1>1. /\ p.from \in Nat \ {0} /\ p.to \in Nat /\ p.from <= p.to /\ p.to <= Len(text)
      /\ p.line = Lines(text, p.from)
      /\ \A i \in p.from..p.to : SolidAt(text, After, i)
  BY DEF WordPieces, PieceRecords
<1> DEFINE a == p.from
           b == p.to
<1> HIDE DEF a, b
<1>2. a \in Nat \ {0} /\ b \in Nat /\ a <= b /\ b <= Len(text) /\ a \in Int /\ b \in Int
  BY <1>1 DEF a, b
<1>3. \A i \in a..b : text[i] \in Chars
  BY <1>2
<1> DEFINE u == SubSeq(text, a, b)
<1>4. /\ u \in Seq(Chars) /\ Len(u) = IF a <= b THEN b - a + 1 ELSE 0
      /\ \A i \in 1..(b - a + 1) : u[i] = text[a + i - 1]
  BY <1>2, <1>3, SubSeqProperties
<1> HIDE DEF u
<1>5. Len(u) = b - a + 1 /\ 1 \in 1..Len(u) /\ a + 1 - 1 = a /\ Len(u) # 0
  BY <1>2, <1>4
<1>6. u # <<>>
  BY <1>5, EmptySeq
<1>7. u = s
  BY DEF u, a, b
<1>8. \A i \in 1..Len(u) : u[i] = text[a + i - 1]
  BY <1>4, <1>5
<1>9. u[1] = text[a]
  BY <1>5, <1>8
<1> QED  BY <1>1, <1>4, <1>5, <1>6, <1>7, <1>8, <1>9 DEF a, b

(* What cannot be taken is a character that no token contains. *)
LEMMA NotTaken ==
  ASSUME text \in Seq(Chars), NEW p \in WordPieces(text, After), ~p.quoted,
         Longest(SubSeq(text, p.from, p.to)).length = 0
  PROVE  text[p.from] \in Junk \cup {Backslash}
<1> DEFINE s == SubSeq(text, p.from, p.to)
           c == text[p.from]
<1>1. /\ s \in Seq(Chars) /\ s # <<>> /\ s[1] = c
      /\ p.from \in Nat \ {0} /\ p.to \in Nat /\ p.from <= p.to /\ p.to <= Len(text)
      /\ \A i \in p.from..p.to : SolidAt(text, After, i)
  BY Cut
<1>2. p.from \in p.from..p.to /\ p.from \in 1..Len(text)
  BY <1>1
<1>3. c \in Chars /\ c \notin Whitespace
      /\ After[p.from - 1] = "code" /\ After[p.from] = "code"
  BY <1>1, <1>2 DEF SolidAt, CodeAt
<1>4. After[p.from] = Behind(After[p.from - 1], c)
  BY <1>2, AfterIsMarks, MarksEquation
<1>5. c # Quote /\ c # Hash
  BY <1>3, <1>4, BehindValues
<1>6. Longest(s).length = 0
  OBVIOUS
<1> HIDE DEF s, c
<1>7. c \notin Symbols
  <2>1. ASSUME c \in Symbols PROVE FALSE
    <3>1. Longest(s) = [kind |-> "symbol", length |-> 1]
      BY <1>1, <2>1, LongestSymbol
    <3> QED  BY <1>6, <3>1
  <2> QED  BY <2>1
<1>8. c \notin Letters
  <2>1. ASSUME c \in Letters PROVE FALSE
    <3>1. Longest(s).length = Run(s, Letters) /\ Run(s, Letters) > 0
      BY <1>1, <2>1, LongestWord
    <3>2. Run(s, Letters) \in 0..Len(s)
      BY <1>1, RunProperties
    <3> QED  BY <1>1, <1>6, <3>1, <3>2
  <2> QED  BY <2>1
<1>9. c \in Letters \cup Symbols \cup Junk \cup {Quote, Hash, Backslash, Newline, Space}
  BY <1>3, CharsAssumption DEF Chars
<1>10. c \in Junk \cup {Backslash}
  BY <1>3, <1>5, <1>7, <1>8, <1>9 DEF Whitespace
<1> QED  BY <1>10 DEF c

(* The token taken off a piece, and what is left of the piece. *)
LEMMA Taken ==
  ASSUME text \in Seq(Chars), NEW p \in WordPieces(text, After), ~p.quoted,
         NEW token, token = Longest(SubSeq(text, p.from, p.to)), token.length # 0,
         NEW next, next = p.from + token.length
  PROVE  /\ next \in (p.from + 1)..(p.to + 1)
         /\ Token(p.from, next - 1, p.line, token.kind) \in GoodTokens(text, After)
         /\ next <= p.to => [p EXCEPT !.from = next] \in WordPieces(text, After)
<1> DEFINE s == SubSeq(text, p.from, p.to)
           c == text[p.from]
           a == p.from
           b == p.to
           r == token.length
<1>1. /\ s \in Seq(Chars) /\ s # <<>> /\ s[1] = c /\ Len(s) = b - a + 1
      /\ \A i \in 1..Len(s) : s[i] = text[a + i - 1]
      /\ a \in Nat \ {0} /\ b \in Nat /\ a <= b /\ b <= Len(text)
      /\ \A i \in a..b : SolidAt(text, After, i)
      /\ p.line = Lines(text, a)
  BY Cut
<1>2. /\ ~SolidAt(text, After, b + 1)
      /\ ~(LetterAt(text, After, a - 1) /\ LetterAt(text, After, a))
      /\ p \in PieceRecords
  BY DEF WordPieces
<1>3. token = Longest(s) /\ r # 0 /\ next = a + r
  OBVIOUS
<1>20. p.from = a /\ p.to = b /\ token.length = r
  OBVIOUS
<1>4. /\ SymbolLength(s) \in {0, 1} /\ KeywordLength(s) \in 0..Len(s) /\ Len(s) \in Nat \ {0}
  BY <1>1, CandidateLengths, EmptySeq
<1> HIDE DEF s, c, a, b, r
<1>21. a \in Nat \ {0} /\ b \in Nat /\ a <= b /\ Len(s) = b - a + 1
  BY <1>1
<1>22. next = a + r
  BY <1>3
<1>5. c \in Symbols \/ c \in Letters
  <2>1. ASSUME c \notin Symbols, c \notin Letters PROVE FALSE
    <3>1. Longest(s).length = 0
      BY <1>1, <2>1, LongestNone
    <3> QED  BY <1>3, <3>1 DEF r
  <2> QED  BY <2>1
<1>6. ASSUME c \in Symbols
      PROVE  r = 1 /\ token.kind = "symbol" /\ ~LetterAt(text, After, a)
  <2>1. token = [kind |-> "symbol", length |-> 1]
    BY <1>1, <1>3, <1>6, LongestSymbol
  <2>2. c \notin Letters
    BY <1>6, ClassesAssumption
  <2> QED  BY <2>1, <2>2 DEF r, LetterAt, c, a
<1>7. ASSUME c \in Letters
      PROVE  /\ r \in 1..Len(s) /\ token.kind = KindOf(SubSeq(text, a, next - 1))
             /\ \A i \in a..(next - 1) : text[i] \in Letters
             /\ ~LetterAt(text, After, next)
  <2>1. /\ r = Run(s, Letters) /\ token.kind = KindOf(SubSeq(s, 1, r)) /\ r > 0
    BY <1>1, <1>3, <1>7, LongestWord DEF r
  <2>2. /\ r \in 0..Len(s) /\ \A i \in 1..r : s[i] \in Letters
        /\ r < Len(s) => s[r + 1] \notin Letters
    BY <1>1, <2>1, RunProperties
  <2>3. r \in 1..Len(s) /\ next - 1 \in a..b
    BY <1>1, <1>3, <2>1, <2>2
  <2>4. SubSeq(s, 1, r) = SubSeq(text, a, next - 1)
    <3> DEFINE v == SubSeq(s, 1, r)
               w == SubSeq(text, a, next - 1)
    <3>1. /\ v \in Seq(Chars) /\ Len(v) = IF 1 <= r THEN r - 1 + 1 ELSE 0
          /\ \A i \in 1..(r - 1 + 1) : v[i] = s[1 + i - 1]
      <4>1. \A i \in 1..r : s[i] \in Chars
        BY <1>1, <2>3
      <4> QED  BY <2>3, <4>1, SubSeqProperties
    <3> DEFINE d == next - 1
    <3>2. d \in a..b /\ d = a + r - 1 /\ d \in Int /\ a \in Int
      <4>1. r \in 1..(b - a + 1)
        BY <1>21, <2>3
      <4> QED  BY <1>21, <1>22, <4>1
    <3> DEFINE x == SubSeq(text, a, d)
    <3> HIDE DEF d
    <3>3. /\ x \in Seq(Chars) /\ Len(x) = IF a <= d THEN d - a + 1 ELSE 0
          /\ \A i \in 1..(d - a + 1) : x[i] = text[a + i - 1]
      <4>1. \A i \in a..d : text[i] \in Chars
        BY <1>1, <3>2
      <4> QED  BY <3>2, <4>1, SubSeqProperties
    <3> HIDE DEF v, x
    <3>4. Len(v) = r /\ \A i \in 1..r : v[i] = s[i]
      BY <2>3, <3>1
    <3>5. d - a + 1 = r /\ a <= d
      BY <1>1, <2>3, <3>2
    <3>6. Len(x) = r /\ \A i \in 1..r : x[i] = text[a + i - 1]
      BY <3>3, <3>5
    <3>7. \A i \in 1..r : v[i] = x[i]
      <4>1. \A i \in 1..r : i \in 1..Len(s)
        BY <1>4, <2>3
      <4>2. \A i \in 1..Len(s) : s[i] = text[a + i - 1]
        BY <1>1
      <4> QED  BY <3>4, <3>6, <4>1, <4>2
    <3>8. v = x
      BY <3>1, <3>3, <3>4, <3>6, <3>7, SeqEqual
    <3> QED  BY <3>8 DEF v, x, d
  <2>5. \A i \in a..(next - 1) : text[i] \in Letters
    <3> SUFFICES ASSUME NEW i \in a..(next - 1) PROVE text[i] \in Letters
      OBVIOUS
    <3> DEFINE j == i - a + 1
    <3>1. j \in 1..r /\ j \in 1..Len(s) /\ a + j - 1 = i
      BY <1>1, <1>3, <2>3
    <3> HIDE DEF j
    <3> QED  BY <1>1, <2>2, <3>1
  <2>6. ~LetterAt(text, After, next)
    <3>1. CASE r < Len(s)
      <4>1. r + 1 \in 1..Len(s) /\ a + (r + 1) - 1 = next
        <5>1. r \in 1..(b - a + 1) /\ r < b - a + 1
          BY <1>21, <2>3, <3>1
        <5>2. r + 1 \in 1..(b - a + 1) /\ a + (r + 1) - 1 = next
          BY <1>21, <1>22, <5>1
        <5> QED  BY <1>21, <5>2
      <4>2. s[r + 1] = text[next]
        BY <1>1, <4>1
      <4> QED  BY <2>2, <3>1, <4>2 DEF LetterAt
    <3>2. CASE ~(r < Len(s))
      <4>1. next = b + 1
        <5>1. r \in 1..(b - a + 1) /\ ~(r < b - a + 1)
          BY <1>21, <2>3, <3>2
        <5> QED  BY <1>21, <1>22, <5>1
      <4> QED  BY <1>2, <4>1 DEF LetterAt
    <3> QED  BY <3>1, <3>2
  <2> QED  BY <2>1, <2>3, <2>4, <2>5, <2>6
<1>8. r \in 1..Len(s)
  BY <1>4, <1>5, <1>6, <1>7
<1>9. next \in (a + 1)..(b + 1) /\ next \in Nat \ {0} /\ next - 1 \in a..b
  BY <1>1, <1>3, <1>8
<1>10. Token(a, next - 1, p.line, token.kind) \in GoodTokens(text, After)
  <2> DEFINE k == Token(a, next - 1, p.line, token.kind)
  <2>1. k.from = a /\ k.to = next - 1 /\ k.line = p.line /\ k.kind = token.kind
    BY DEF Token
  <2>2. token.kind \in Kinds
    BY <1>5, <1>6, <1>7 DEF Kinds, KindOf
  <2>3. k \in TokenRecords
    <3>1. a \in Nat /\ next - 1 \in Nat /\ p.line \in Nat
      BY <1>1, <1>2, <1>9 DEF PieceRecords
    <3> QED  BY <2>2, <3>1 DEF Token, TokenRecords
  <2>4. 1 <= a /\ a <= next - 1 /\ next - 1 <= Len(text)
    BY <1>1, <1>9
  <2>5. ASSUME token.kind \notin {"string", "symbol"}
        PROVE  /\ ~LetterAt(text, After, a - 1) /\ ~LetterAt(text, After, next)
               /\ \A i \in a..(next - 1) : text[i] \in Letters
               /\ token.kind = KindOf(SubSeq(text, a, next - 1))
    <3>1. c \in Letters
      BY <1>5, <1>6, <2>5
    <3>2. LetterAt(text, After, a)
      <4>1. a \in a..b
        BY <1>1
      <4> QED  BY <1>1, <3>1, <4>1 DEF LetterAt, c, a
    <3> QED  BY <1>2, <1>7, <3>1, <3>2
  <2>6. (next - 1) + 1 = next
    BY <1>9
  <2> HIDE DEF k
  <2> QED  BY <1>1, <2>1, <2>3, <2>4, <2>5, <2>6 DEF GoodTokens, k
<1>11. ASSUME next <= b
       PROVE  [p EXCEPT !.from = next] \in WordPieces(text, After)
  <2> DEFINE q == [p EXCEPT !.from = next]
  <2>1. /\ q \in PieceRecords /\ q.from = next /\ q.to = b /\ q.line = p.line
        /\ q.quoted = p.quoted
    BY <1>2, <1>9 DEF PieceRecords, b
  <2>2. Lines(text, next) = Lines(text, a)
    <3>1. \A j \in a..(next - 1) : j \in a..b
      BY <1>1, <1>9
    <3>2. \A j \in a..(next - 1) : text[j] # Newline
      BY <1>1, <3>1 DEF SolidAt, Whitespace
    <3>3. a <= next
      BY <1>1, <1>9
    <3> QED  BY <1>1, <1>9, <3>2, <3>3, LinesSame
  <2>3. \A i \in next..b : i \in a..b
    BY <1>1, <1>9
  <2>4. ~(LetterAt(text, After, next - 1) /\ LetterAt(text, After, next))
    <3>1. c \in Symbols => next - 1 = a
      BY <1>1, <1>3, <1>6
    <3> QED  BY <1>5, <1>6, <1>7, <3>1
  <2>5. 1 <= next /\ b <= Len(text)
    BY <1>1, <1>9
  <2> HIDE DEF q
  <2> QED  BY <1>1, <1>2, <1>11, <2>1, <2>2, <2>3, <2>4, <2>5 DEF WordPieces, q
<1> QED  BY <1>9, <1>10, <1>11 DEF a, b
(* What is left of a piece stays in front of the other pieces.               *)
LEMMA InFront ==
  ASSUME NEW W, Places(W), NEW q \in W, NEW t \in Seq(W), NEW c \in Nat,
         q.from <= q.to, q.to < c, List(t, q.to + 1, c)
  PROVE  /\ <<q>> \o t \in Seq(W) /\ List(<<q>> \o t, q.from, c)
         /\ \A i : Holds(<<q>> \o t, i) <=> i \in q.from..q.to \/ Holds(t, i)
<1> DEFINE o == <<q>>
           a == q.from
           b == q.to + 1
<1>1. a \in Nat /\ b \in Nat /\ a <= b /\ b <= c /\ q.to < b /\ a <= q.from
  BY DEF Places
<1>2. /\ o \in Seq(W) /\ List(o, a, b) /\ \A i : Holds(o, i) <=> i \in q.from..q.to
  <2> HIDE DEF a, b
  <2> QED  BY <1>1, ListOne
<1>3. List(t, b, c)
  OBVIOUS
<1> HIDE DEF o, a, b
<1>4. /\ o \o t \in Seq(W) /\ List(o \o t, a, c)
      /\ \A i : Holds(o \o t, i) <=> Holds(o, i) \/ Holds(t, i)
  BY <1>1, <1>2, <1>3, ListConcat
<1> QED  BY <1>2, <1>4 DEF o, a

LEMMA ParseSingleTokenKeeps ==
  ASSUME text \in Seq(Chars), ThirdPass, ParseSingleToken
  PROVE  /\ (mode' = "parse" /\ ThirdPass') \/ (mode' = "failed" /\ Failed')
         /\ mode' = "parse" /\ tokens # <<>> => tokens'[Len(tokens')].to > tokens[Len(tokens)].to
         /\ mode' = "parse" => tokens'[Len(tokens')].to > 0
<1> DEFINE p == Head(pieces)
           token == Longest(SubSeq(text, p.from, p.to))
           next == p.from + token.length
           k == Token(p.from, next - 1, p.line, token.kind)
           W == WordPieces(text, After)
           G == GoodTokens(text, After)
           n == Len(text)
<1>1. /\ mode = "parse" /\ pieces # <<>> /\ ~p.quoted /\ text' = text /\ After' = After
      /\ token.length = 0 =>
           mode' = "failed" /\ error' = p.line + 1 /\ tokens' = tokens /\ pieces' = pieces
      /\ token.length # 0 =>
           /\ tokens' = Append(tokens, k) /\ mode' = mode
           /\ pieces' = IF next > p.to THEN Tail(pieces)
                        ELSE <<[p EXCEPT !.from = next]>> \o Tail(pieces)
  BY Unread DEF ParseSingleToken
<1>2. /\ tokens \in Seq(G) /\ pieces \in Seq(W) /\ n \in Nat
      /\ \A i \in 1..n :
           Holds(tokens, i) \/ Holds(pieces, i) <=>
             LookedAt(text, After, i) /\ (StringAt(text, After, i) \/ SolidAt(text, After, i))
  BY DEF ThirdPass
<1>3. PICK b \in 1..(n + 1) : List(tokens, 1, b) /\ List(pieces, b, n + 1)
  BY DEF ThirdPass
<1>4. Places(W) /\ Places(G)
  BY PlacesOf
<1>5. b \in Nat /\ n + 1 \in Nat /\ 1 \in Nat /\ 1 <= b /\ b <= n + 1
  BY <1>2, <1>3
<1>6. /\ p \in W /\ b <= p.from /\ p.from <= p.to /\ p.to < n + 1
      /\ \A i : Holds(pieces, i) <=> i \in p.from..p.to \/ Holds(Tail(pieces), i)
  <2> HIDE DEF W
  <2> QED  BY <1>1, <1>2, <1>3, <1>4, <1>5, ListTail
<1>7. p.from \in Nat /\ p.to \in Nat
  <2> HIDE DEF p, W
  <2> QED  BY <1>4, <1>6 DEF Places
<1>8. CASE token.length = 0
  <2>1. text[p.from] \in Junk \cup {Backslash}
    <3>1. p \in WordPieces(text, After)
      BY <1>6
    <3> HIDE DEF p
    <3> QED  BY <1>1, <1>8, <3>1, NotTaken
  <2>2. /\ p.line = Lines(text, p.from) /\ p.from \in 1..n /\ CodeAt(text, After, p.from)
    <3>1. /\ p.line = Lines(text, p.from) /\ SolidAt(text, After, p.from)
      <4>1. p \in WordPieces(text, After) /\ ~p.quoted
        BY <1>1, <1>6
      <4>2. p.from \in p.from..p.to
        BY <1>6, <1>7
      <4> HIDE DEF p
      <4> QED  BY <4>1, <4>2 DEF WordPieces
    <3> QED  BY <3>1 DEF SolidAt, CodeAt
  <2>3. LookedAt(text, After, p.from)
    <3>1. Holds(pieces, p.from)
      BY <1>6, <1>7
    <3> QED  BY <1>2, <2>2, <3>1
  <2>4. mode' = "failed" /\ error' = p.line + 1 /\ tokens' = tokens
    BY <1>1, <1>8
  <2> DEFINE i == p.from
  <2>5. /\ i \in 1..Len(text) /\ error' = Lines(text, i) + 1
        /\ CodeAt(text, After, i) /\ LookedAt(text, After, i)
        /\ text[i] \in Junk \cup {Backslash}
    BY <2>1, <2>2, <2>3, <2>4
  <2> HIDE DEF i, p
  <2>6. Failed'
    BY <1>1, <1>2, <2>4, <2>5 DEF Failed, ErrorAt
  <2> QED  BY <2>4, <2>6
<1>9. CASE token.length # 0
  <2>1. /\ tokens' = Append(tokens, k) /\ mode' = "parse"
        /\ pieces' = IF next > p.to THEN Tail(pieces)
                     ELSE <<[p EXCEPT !.from = next]>> \o Tail(pieces)
    BY <1>1, <1>9
  <2>2. /\ next \in (p.from + 1)..(p.to + 1) /\ k \in G
        /\ next <= p.to => [p EXCEPT !.from = next] \in W
    <3>1. p \in WordPieces(text, After) /\ ~p.quoted
      BY <1>1, <1>6
    <3>2. token = Longest(SubSeq(text, p.from, p.to)) /\ next = p.from + token.length
      OBVIOUS
    <3> HIDE DEF p, token, next
    <3>3. /\ next \in (p.from + 1)..(p.to + 1)
          /\ Token(p.from, next - 1, p.line, token.kind) \in GoodTokens(text, After)
          /\ next <= p.to => [p EXCEPT !.from = next] \in WordPieces(text, After)
      BY <1>9, <3>1, <3>2, Taken
    <3> QED  BY <3>3
  <2>3. k.from = p.from /\ k.to = next - 1
    BY DEF Token
  <2> HIDE DEF k, next, token, W, G, n
  <2>4. /\ pieces' \in Seq(W) /\ List(pieces', next, n + 1) /\ next <= n + 1 /\ next \in Nat
        /\ \A i : Holds(pieces, i) <=> i \in p.from..(next - 1) \/ Holds(pieces', i)
    <3> DEFINE t == Tail(pieces)
               q == [p EXCEPT !.from = next]
    <3>1. /\ t \in Seq(W) /\ List(t, p.to + 1, n + 1)
          /\ \A i : Holds(pieces, i) <=> i \in p.from..p.to \/ Holds(t, i)
      BY <1>1, <1>2, <1>3, <1>4, <1>5, ListTail
    <3>2. next \in Nat /\ p.from < next /\ next <= p.to + 1 /\ next <= n + 1 /\ p.to < n + 1
      <4> HIDE DEF p
      <4> QED  BY <1>5, <1>6, <1>7, <2>2
    <3>3. pieces' = IF next > p.to THEN t ELSE <<q>> \o t
      BY <2>1
    <3>4. next <= p.to => q \in W /\ q.from = next /\ q.to = p.to
      <4>1. p \in PieceRecords
        BY <1>6 DEF WordPieces, W
      <4> HIDE DEF p
      <4> QED  BY <2>2, <4>1 DEF PieceRecords
    <3> HIDE DEF p, t, q
    <3>5. CASE next > p.to
      <4>1. next = p.to + 1 /\ next - 1 = p.to /\ pieces' = t
        BY <1>7, <3>2, <3>3, <3>5
      <4> QED  BY <3>1, <3>2, <4>1
    <3>6. CASE ~(next > p.to)
      <4>1. next <= p.to /\ pieces' = <<q>> \o t
        BY <1>7, <3>2, <3>3, <3>6
      <4>2. q \in W /\ q.from = next /\ q.to = p.to
        BY <3>4, <4>1
      <4>3. /\ <<q>> \o t \in Seq(W) /\ List(<<q>> \o t, q.from, n + 1)
            /\ \A i : Holds(<<q>> \o t, i) <=> i \in q.from..q.to \/ Holds(t, i)
        BY <1>4, <1>5, <3>1, <3>2, <4>1, <4>2, InFront
      <4>4. \A i : i \in p.from..p.to <=> i \in p.from..(next - 1) \/ i \in next..p.to
        BY <1>7, <3>2, <4>1
      <4> QED  BY <3>1, <3>2, <4>1, <4>2, <4>3, <4>4
    <3> QED  BY <3>5, <3>6
  <2> HIDE DEF p
  <2>5. k.to < next /\ k.from <= k.to /\ b <= k.from
    BY <1>6, <1>7, <2>2, <2>3, <2>4
  <2>6. /\ tokens' \in Seq(G) /\ List(tokens', 1, next)
        /\ \A i : Holds(tokens', i) <=> Holds(tokens, i) \/ i \in p.from..(next - 1)
    <3>1. /\ Append(tokens, k) \in Seq(G) /\ List(Append(tokens, k), 1, next)
          /\ \A i : Holds(Append(tokens, k), i) <=> Holds(tokens, i) \/ i \in k.from..k.to
      BY <1>2, <1>3, <1>4, <1>5, <2>2, <2>4, <2>5, ListAppend
    <3> QED  BY <2>1, <2>3, <3>1
  <2>7. next \in 1..(n + 1)
    BY <1>5, <1>6, <1>7, <2>2, <2>4
  <2>8. ThirdPass'
    <3>1. \A i \in 1..n :
            Holds(tokens', i) \/ Holds(pieces', i) <=>
              LookedAt(text, After, i) /\ (StringAt(text, After, i) \/ SolidAt(text, After, i))
      BY <1>2, <2>4, <2>6
    <3> QED  BY <1>1, <2>4, <2>6, <2>7, <3>1 DEF ThirdPass, W, G, n
  <2>9. tokens'[Len(tokens')] = k
    BY <1>2, <2>1, <2>2, AppendProperties
  <2>10. tokens # <<>> => tokens[Len(tokens)].to < b
    BY <1>2, <1>3, <1>4, <1>5, LastBefore
  <2>11. tokens # <<>> => tokens[Len(tokens)].to \in Nat
    <3>1. tokens # <<>> => Len(tokens) \in 1..Len(tokens)
      BY <1>2, EmptySeq
    <3> QED  BY <1>2, <1>4, <3>1 DEF Places
  <2>12. k.to \in Nat /\ k.to >= b
    BY <1>5, <1>6, <1>7, <2>2, <2>3, <2>4
  <2> QED  BY <1>5, <2>1, <2>8, <2>9, <2>10, <2>11, <2>12
<1> QED  BY <1>8, <1>9
-----------------------------------------------------------------------------
(* The second pass: the words of a piece. *)

WalkValues == [words : Seq(PieceRecords), start : Nat]

(* One step of the walk. *)
WalkStep(v, i, at) ==
  IF text[i] \in Whitespace THEN [words |-> Closed(v, i - 1, at), start |-> i + 1] ELSE v

LEMMA WalkStepValues ==
  ASSUME NEW v \in WalkValues, NEW i \in Nat \ {0}, NEW at \in Nat
  PROVE  WalkStep(v, i, at) \in WalkValues
<1>1. Piece(v.start, i - 1, at, FALSE) \in PieceRecords
  BY DEF WalkValues, Piece, PieceRecords
<1>2. v.words \in Seq(PieceRecords)
  BY DEF WalkValues
<1>3. Closed(v, i - 1, at) \in Seq(PieceRecords)
  BY <1>1, <1>2, AppendProperties DEF Closed
<1> QED  BY <1>3 DEF WalkStep, WalkValues

LEMMA WalkEquation ==
  ASSUME NEW p \in PieceRecords, p.from # 0, p.from <= p.to
  PROVE  /\ Walk(p)[p.from - 1] = [words |-> <<>>, start |-> p.from]
         /\ \A i \in p.from..p.to : Walk(p)[i] = WalkStep(Walk(p)[i - 1], i, p.line)
         /\ \A i \in (p.from - 1)..p.to : Walk(p)[i] \in WalkValues
<1> DEFINE a == p.from
           b == p.to
           at == p.line
           first == [words |-> <<>>, start |-> a]
           step == [q \in Nat \X WalkValues |-> WalkStep(q[2], q[1] + a, at)]
           Body(f) == [i \in (a - 1)..b |->
                         IF i < a THEN first
                         ELSE IF text[i] \in Whitespace
                                THEN [words |-> Closed(f[i - 1], i - 1, at), start |-> i + 1]
                         ELSE f[i - 1]]
<1>1. a \in Nat \ {0} /\ b \in Nat /\ a <= b /\ at \in Nat
  BY DEF PieceRecords
<1>2. Walk(p) = CHOOSE f : f = Body(f)
  BY DEF Walk
<1> HIDE DEF a, b, at
<1>3. first \in WalkValues
  BY <1>1, EmptySeq DEF WalkValues
<1>4. step \in [Nat \X WalkValues -> WalkValues]
  <2>1. ASSUME NEW q \in Nat \X WalkValues
        PROVE  WalkStep(q[2], q[1] + a, at) \in WalkValues
    <3>1. q[2] \in WalkValues /\ q[1] + a \in Nat \ {0}
      BY <1>1
    <3> QED  BY <1>1, <3>1, WalkStepValues
  <2> QED  BY <2>1
<1>5. PICK f : Recursion(f, WalkValues, first, step)
  <2> HIDE DEF first, step
  <2> QED  BY <1>3, <1>4, PrimitiveRecursion
<1>6. /\ f \in [Nat -> WalkValues] /\ f[0] = first
      /\ \A n \in Nat : f[n + 1] = WalkStep(f[n], n + a, at)
  <2>1. /\ f \in [Nat -> WalkValues] /\ f[0] = first
        /\ \A n \in Nat : f[n + 1] = step[<<n, f[n]>>]
    BY <1>5 DEF Recursion
  <2>2. \A n \in Nat : f[n] \in WalkValues
    BY <2>1
  <2> QED  BY <2>1, <2>2
<1> DEFINE g == [i \in (a - 1)..b |-> f[i - (a - 1)]]
<1>7. g = Body(g)
  <2> SUFFICES ASSUME NEW i \in (a - 1)..b PROVE g[i] = Body(g)[i]
    OBVIOUS
  <2>1. CASE i < a
    <3>1. i - (a - 1) = 0
      BY <1>1, <2>1
    <3> QED  BY <1>6, <2>1, <3>1
  <2>2. CASE ~(i < a)
    <3> DEFINE n == (i - 1) - (a - 1)
    <3>1. n \in Nat /\ i - (a - 1) = n + 1 /\ n + a = i /\ i - 1 \in (a - 1)..b
      BY <1>1, <2>2
    <3>2. g[i - 1] = f[n]
      BY <3>1
    <3>3. g[i] = f[n + 1]
      BY <3>1
    <3> HIDE DEF n, g
    <3>4. g[i] = WalkStep(g[i - 1], i, at)
      BY <1>6, <3>1, <3>2, <3>3
    <3> QED  BY <2>2, <3>4 DEF WalkStep
  <2> QED  BY <2>1, <2>2
<1> DEFINE w == Walk(p)
<1>8. w = Body(w)
  <2> HIDE DEF g, Body
  <2> QED  BY <1>2, <1>7
<1> HIDE DEF w
<1>9. w[a - 1] = first
  <2>1. a - 1 \in (a - 1)..b /\ a - 1 < a
    BY <1>1
  <2> HIDE DEF first
  <2> QED  BY <1>8, <2>1
<1>10. \A i \in a..b : w[i] = WalkStep(w[i - 1], i, at)
  <2> SUFFICES ASSUME NEW i \in a..b PROVE w[i] = WalkStep(w[i - 1], i, at)
    OBVIOUS
  <2>1. i \in (a - 1)..b /\ ~(i < a)
    BY <1>1
  <2>2. w[i] = Body(w)[i]
    <3> HIDE DEF Body
    <3> QED  BY <1>8
  <2> HIDE DEF first
  <2> QED  BY <2>1, <2>2 DEF WalkStep
<1>11. \A i \in (a - 1)..b : w[i] \in WalkValues
  <2> DEFINE T == {n \in Nat : n + (a - 1) <= b => w[n + (a - 1)] \in WalkValues}
  <2>1. 0 \in T
    <3>1. 0 + (a - 1) = a - 1
      BY <1>1
    <3> HIDE DEF first
    <3> QED  BY <1>3, <1>9, <3>1
  <2>2. ASSUME NEW n \in Nat, n \in T
        PROVE  n + 1 \in T
    <3>1. CASE (n + 1) + (a - 1) <= b
      <4>1. /\ n + (a - 1) <= b /\ (n + 1) + (a - 1) = n + a /\ n + a \in a..b
            /\ (n + a) - 1 = n + (a - 1) /\ n + a \in Nat \ {0}
        BY <1>1, <3>1
      <4>2. w[n + a] = WalkStep(w[n + (a - 1)], n + a, at)
        BY <1>10, <4>1
      <4>3. w[n + (a - 1)] \in WalkValues
        BY <2>2, <4>1
      <4>4. w[n + a] \in WalkValues
        BY <1>1, <4>1, <4>2, <4>3, WalkStepValues
      <4> QED  BY <4>1, <4>4
    <3> QED  BY <3>1
  <2>3. Nat \subseteq T
    <3> HIDE DEF T
    <3> QED  BY <2>1, <2>2, SetInduction
  <2>4. \A i \in (a - 1)..b : i - (a - 1) \in Nat /\ (i - (a - 1)) + (a - 1) = i /\ i <= b
    BY <1>1
  <2> QED  BY <2>3, <2>4
<1> QED  BY <1>9, <1>10, <1>11 DEF w, a, b, at
(* What the walk has closed before a place of the piece, and the word that   *)
(* is open there.                                                            *)
Walked(v, p, i) ==
  /\ v.start \in p.from..(i + 1)
  /\ v.words \in Seq(WordPieces(text, After)) /\ List(v.words, p.from, v.start)
  /\ \A j \in p.from..(v.start - 1) : Holds(v.words, j) <=> text[j] \notin Whitespace
  /\ \A j \in v.start..i : text[j] \notin Whitespace
  /\ ~SolidAt(text, After, v.start - 1)

(* Where no word goes on, the open word is closed as a piece.                *)
LEMMA ClosedWords ==
  ASSUME text \in Seq(Chars), NEW p \in RawPieces(text, After), ~p.quoted,
         NEW v, NEW i \in (p.from - 1)..p.to, Walked(v, p, i), ~SolidAt(text, After, i + 1)
  PROVE  /\ Closed(v, i, p.line) \in Seq(WordPieces(text, After))
         /\ List(Closed(v, i, p.line), p.from, i + 1)
         /\ \A j \in p.from..i : Holds(Closed(v, i, p.line), j) <=> text[j] \notin Whitespace
<1> DEFINE W == WordPieces(text, After)
           a == p.from
           b == v.start
           k == Piece(b, i, p.line, FALSE)
<1>1. /\ a \in Nat \ {0} /\ p.to \in Nat /\ a <= p.to /\ p.to <= Len(text) /\ p \in PieceRecords
      /\ p.line = Lines(text, a) /\ p.line \in Nat
      /\ \A j \in a..p.to : CodeAt(text, After, j)
      /\ \A j \in a..(p.to - 1) : text[j] # Newline
  BY DEF RawPieces, PieceRecords
<1>2. /\ b \in a..(i + 1) /\ v.words \in Seq(W) /\ List(v.words, a, b)
      /\ \A j \in a..(b - 1) : Holds(v.words, j) <=> text[j] \notin Whitespace
      /\ \A j \in b..i : text[j] \notin Whitespace
      /\ ~SolidAt(text, After, b - 1)
  BY DEF Walked
<1>3. Places(W)
  BY PlacesOf
<1> HIDE DEF W, a
<1>4. i \in (a - 1)..p.to
  BY DEF a
<1>5. i \in Nat /\ b \in Nat \ {0} /\ a <= b /\ b <= i + 1 /\ i <= p.to
  BY <1>1, <1>2, <1>4
<1>6. CASE b > i
  <2>1. b = i + 1 /\ b - 1 = i
    BY <1>5, <1>6
  <2>2. Closed(v, i, p.line) = v.words
    BY <1>6 DEF Closed
  <2> QED  BY <1>2, <2>1, <2>2 DEF a, W
<1>7. CASE ~(b > i)
  <2>1. Closed(v, i, p.line) = Append(v.words, k)
    BY <1>7 DEF Closed
  <2>2. /\ k.from = b /\ k.to = i /\ k.line = p.line /\ k.quoted = FALSE /\ k \in PieceRecords
    BY <1>1, <1>5 DEF Piece, PieceRecords
  <2> HIDE DEF k, b
  <2>3. k \in W
    <3>1. 1 <= k.from /\ k.from <= k.to /\ k.to <= Len(text)
      BY <1>1, <1>5, <1>7, <2>2
    <3>2. k.line = Lines(text, k.from)
      <4>1. \A j \in a..(b - 1) : j \in a..(p.to - 1)
        BY <1>1, <1>5, <1>7
      <4>2. \A j \in a..(b - 1) : text[j] # Newline
        BY <1>1, <4>1
      <4>3. Lines(text, b) = Lines(text, a)
        BY <1>1, <1>5, <4>2, LinesSame
      <4> QED  BY <1>1, <2>2, <4>3
    <3>3. \A j \in k.from..k.to : SolidAt(text, After, j)
      <4>1. \A j \in b..i : j \in a..p.to
        BY <1>1, <1>5
      <4> QED  BY <1>1, <1>2, <2>2, <4>1 DEF SolidAt
    <3>4. ~SolidAt(text, After, k.to + 1)
      BY <2>2
    <3>5. ~LetterAt(text, After, k.from - 1)
      BY <1>2, <2>2 DEF LetterAt
    <3> QED  BY <2>2, <3>1, <3>2, <3>3, <3>4, <3>5 DEF WordPieces, W
  <2>4. i + 1 \in Nat /\ a \in Nat /\ b <= k.from /\ k.from <= k.to /\ k.to < i + 1
    BY <1>1, <1>5, <1>7, <2>2
  <2>5. /\ Append(v.words, k) \in Seq(W) /\ List(Append(v.words, k), a, i + 1)
        /\ \A j : Holds(Append(v.words, k), j) <=> Holds(v.words, j) \/ j \in k.from..k.to
    BY <1>2, <1>3, <1>5, <2>3, <2>4, ListAppend
  <2>6. ASSUME NEW j \in a..i
        PROVE  Holds(Append(v.words, k), j) <=> text[j] \notin Whitespace
    <3>1. CASE j < b
      <4>1. j \in a..(b - 1) /\ j \notin b..i
        BY <1>1, <1>5, <3>1
      <4> QED  BY <1>2, <2>2, <2>5, <4>1
    <3>2. CASE ~(j < b)
      <4>1. j \in b..i
        BY <1>1, <1>5, <3>2
      <4> QED  BY <1>2, <2>2, <2>5, <4>1
    <3> QED  BY <3>1, <3>2
  <2> QED  BY <2>1, <2>5, <2>6 DEF a, W
<1> QED  BY <1>6, <1>7

LEMMA WalkedAll ==
  ASSUME text \in Seq(Chars), NEW p \in RawPieces(text, After), ~p.quoted
  PROVE  \A i \in (p.from - 1)..p.to : Walked(Walk(p)[i], p, i)
<1> DEFINE a == p.from
           w == Walk(p)
           W == WordPieces(text, After)
<1>1. /\ a \in Nat \ {0} /\ p.to \in Nat /\ a <= p.to /\ p \in PieceRecords
      /\ ~SolidAt(text, After, a - 1)
  BY DEF RawPieces, PieceRecords
<1>2. /\ w[a - 1] = [words |-> <<>>, start |-> a]
      /\ \A i \in a..p.to : w[i] = WalkStep(w[i - 1], i, p.line)
  BY <1>1, WalkEquation
<1> HIDE DEF w, W
<1>3. Walked(w[a - 1], p, a - 1)
  <2>1. w[a - 1].words = <<>> /\ w[a - 1].start = a
    BY <1>2
  <2>2. <<>> \in Seq(W) /\ List(<<>>, a, a)
    BY EmptySeq, ListEmpty
  <2>3. a \in a..((a - 1) + 1) /\ a..(a - 1) = {}
    BY <1>1
  <2> QED  BY <1>1, <2>1, <2>2, <2>3 DEF Walked, W
<1>4. ASSUME NEW i \in a..p.to, Walked(w[i - 1], p, i - 1)
      PROVE  Walked(w[i], p, i)
  <2> DEFINE v == w[i - 1]
  <2>1. w[i] = WalkStep(v, i, p.line)
    BY <1>2
  <2>2. Walked(v, p, i - 1)
    BY <1>4
  <2> HIDE DEF v
  <2>3. i \in Nat \ {0} /\ a <= i /\ i <= p.to /\ (i - 1) + 1 = i /\ i - 1 \in (a - 1)..p.to
    BY <1>1
  <2>4. CASE text[i] \in Whitespace
    <3> DEFINE c == Closed(v, i - 1, p.line)
    <3>1. w[i] = [words |-> c, start |-> i + 1]
      BY <2>1, <2>4 DEF WalkStep
    <3>2. ~SolidAt(text, After, (i - 1) + 1)
      BY <2>3, <2>4 DEF SolidAt
    <3>3. /\ c \in Seq(W) /\ List(c, a, i)
          /\ \A j \in a..(i - 1) : Holds(c, j) <=> text[j] \notin Whitespace
      BY <2>2, <2>3, <3>2, ClosedWords DEF W
    <3> HIDE DEF c
    <3>4. List(c, a, i + 1)
      <4>1. a \in Nat /\ i \in Nat /\ i + 1 \in Nat /\ a <= a /\ i <= i + 1
        BY <1>1, <2>3
      <4> QED  BY <3>3, <4>1, PlacesOf, ListWider DEF W
    <3>5. ~Holds(c, i)
      <4>1. a \in Nat /\ i \in Nat /\ i \notin a..(i - 1)
        BY <1>1, <2>3
      <4> QED  BY <3>3, <4>1, PlacesOf, HoldsWithin DEF W
    <3>6. /\ i + 1 \in a..(i + 1) /\ (i + 1) - 1 = i /\ (i + 1)..i = {}
          /\ \A j \in a..i : j = i \/ j \in a..(i - 1)
      BY <1>1, <2>3
    <3>7. ~SolidAt(text, After, i)
      BY <2>4 DEF SolidAt
    <3>8. w[i].words = c /\ w[i].start = i + 1
      BY <3>1
    <3> QED  BY <2>4, <3>3, <3>4, <3>5, <3>6, <3>7, <3>8 DEF Walked, W
  <2>5. CASE text[i] \notin Whitespace
    <3>1. w[i] = v
      BY <2>1, <2>5 DEF WalkStep
    <3>2. v.start \in a..i
      BY <2>2, <2>3 DEF Walked
    <3>3. v.start \in a..(i + 1) /\ \A j \in v.start..i : j = i \/ j \in v.start..(i - 1)
      BY <1>1, <2>3, <3>2
    <3> QED  BY <2>2, <2>5, <3>1, <3>3 DEF Walked
  <2> QED  BY <2>4, <2>5
<1> DEFINE T == {n \in Nat : n + (a - 1) <= p.to => Walked(w[n + (a - 1)], p, n + (a - 1))}
<1>5. 0 \in T
  <2>1. 0 + (a - 1) = a - 1
    BY <1>1
  <2> QED  BY <1>3, <2>1
<1>6. ASSUME NEW n \in Nat, n \in T
      PROVE  n + 1 \in T
  <2>1. CASE (n + 1) + (a - 1) <= p.to
    <3> DEFINE i == n + a
    <3>1. /\ n + (a - 1) <= p.to /\ (n + 1) + (a - 1) = i /\ i \in a..p.to
          /\ i - 1 = n + (a - 1)
      BY <1>1, <2>1
    <3>2. Walked(w[i - 1], p, i - 1)
      BY <1>6, <3>1
    <3> HIDE DEF i, a
    <3>3. Walked(w[i], p, i)
      BY <1>4, <3>1, <3>2
    <3> QED  BY <3>1, <3>3
  <2> QED  BY <2>1
<1>7. Nat \subseteq T
  <2> HIDE DEF T
  <2> QED  BY <1>5, <1>6, SetInduction
<1>8. ASSUME NEW i \in (a - 1)..p.to
      PROVE  Walked(w[i], p, i)
  <2> DEFINE n == i - (a - 1)
  <2>1. n \in Nat /\ n + (a - 1) = i /\ i <= p.to
    BY <1>1
  <2> HIDE DEF n
  <2> QED  BY <1>7, <2>1
<1> QED  BY <1>8 DEF w

LEMMA WordsOf ==
  ASSUME text \in Seq(Chars), NEW p \in RawPieces(text, After), ~p.quoted
  PROVE  /\ Words(p) \in Seq(WordPieces(text, After))
         /\ List(Words(p), p.from, p.to + 1)
         /\ \A j \in p.from..p.to : Holds(Words(p), j) <=> text[j] \notin Whitespace
<1> DEFINE v == Walk(p)[p.to]
<1>1. /\ p.from \in Nat \ {0} /\ p.to \in Nat /\ p.from <= p.to
      /\ p.to \in (p.from - 1)..p.to
  BY DEF RawPieces, PieceRecords
<1>2. Walked(v, p, p.to)
  BY <1>1, WalkedAll
<1>3. Words(p) = Closed(v, p.to, p.line)
  BY DEF Words
<1> HIDE DEF v
<1>4. CASE ~SolidAt(text, After, p.to + 1)
  BY <1>1, <1>2, <1>3, <1>4, ClosedWords
<1>5. CASE SolidAt(text, After, p.to + 1)
  <2>1. text[p.to] = Newline
    BY <1>5 DEF RawPieces
  <2>2. /\ v.start \in p.from..(p.to + 1) /\ v.words \in Seq(WordPieces(text, After))
        /\ List(v.words, p.from, v.start)
        /\ \A j \in p.from..(v.start - 1) : Holds(v.words, j) <=> text[j] \notin Whitespace
        /\ \A j \in v.start..p.to : text[j] \notin Whitespace
    BY <1>2 DEF Walked
  <2>3. v.start > p.to /\ v.start = p.to + 1 /\ v.start - 1 = p.to
    BY <1>1, <2>1, <2>2 DEF Whitespace
  <2>4. Closed(v, p.to, p.line) = v.words
    BY <2>3 DEF Closed
  <2> QED  BY <1>3, <2>2, <2>3, <2>4
<1> QED  BY <1>4, <1>5
-----------------------------------------------------------------------------
(* The second pass: the words of all the pieces. *)

LEMMA FlattenEquation ==
  ASSUME NEW S, NEW F \in Seq(Seq(S)), Len(F) # 0
  PROVE  \E g : /\ g[1] = F[1] /\ \A i \in 2..Len(F) : g[i] = g[i - 1] \o F[i]
                /\ FlattenSeq(F) = g[Len(F)]
<1> DEFINE k == Len(F)
           V == Seq(S)
           Body(f) == [i \in 1..k |-> IF i = 1 THEN F[i] ELSE f[i - 1] \o F[i]]
           step == [q \in Nat \X V |-> IF q[1] + 2 <= k THEN q[2] \o F[q[1] + 2] ELSE q[2]]
           w == CHOOSE f : f = Body(f)
<1>1. k \in Nat \ {0} /\ \A i \in 1..k : F[i] \in V
  OBVIOUS
<1>2. FlattenSeq(F) = w[k]
  BY DEF FlattenSeq
<1> HIDE DEF k
<1>3. step \in [Nat \X V -> V]
  <2>1. ASSUME NEW q \in Nat \X V
        PROVE  (IF q[1] + 2 <= k THEN q[2] \o F[q[1] + 2] ELSE q[2]) \in V
    <3>1. q[2] \in V /\ q[1] \in Nat
      OBVIOUS
    <3>2. CASE q[1] + 2 <= k
      <4>1. F[q[1] + 2] \in V
        BY <1>1, <3>1, <3>2
      <4> QED  BY <3>1, <3>2, <4>1, ConcatProperties
    <3> QED  BY <3>1, <3>2
  <2> QED  BY <2>1
<1>4. 1 \in 1..k /\ F[1] \in V
  BY <1>1
<1>5. PICK f : Recursion(f, V, F[1], step)
  <2> HIDE DEF step, V
  <2> QED  BY <1>3, <1>4, PrimitiveRecursion
<1>6. /\ f \in [Nat -> V] /\ f[0] = F[1]
      /\ \A n \in Nat : n + 2 <= k => f[n + 1] = f[n] \o F[n + 2]
  <2>1. /\ f \in [Nat -> V] /\ f[0] = F[1]
        /\ \A n \in Nat : f[n + 1] = step[<<n, f[n]>>]
    BY <1>5 DEF Recursion
  <2>2. \A n \in Nat : f[n] \in V
    BY <2>1
  <2> HIDE DEF V
  <2>3. \A n \in Nat : step[<<n, f[n]>>] = IF n + 2 <= k THEN f[n] \o F[n + 2] ELSE f[n]
    BY <2>2
  <2> HIDE DEF step
  <2> QED  BY <2>1, <2>3
<1> DEFINE g == [i \in 1..k |-> f[i - 1]]
<1>7. g = Body(g)
  <2> SUFFICES ASSUME NEW i \in 1..k PROVE g[i] = Body(g)[i]
    OBVIOUS
  <2>1. CASE i = 1
    BY <1>6, <2>1
  <2>2. CASE i # 1
    <3>1. (i - 2) \in Nat /\ (i - 2) + 1 = i - 1 /\ (i - 2) + 2 = i /\ i - 1 \in 1..k
          /\ (i - 1) - 1 = i - 2
      BY <1>1, <2>2
    <3>2. f[i - 1] = f[i - 2] \o F[i]
      <4> DEFINE n == i - 2
      <4>1. n \in Nat /\ n + 1 = i - 1 /\ n + 2 = i /\ n + 2 <= k
        BY <1>1, <3>1
      <4> HIDE DEF n
      <4>2. f[n + 1] = f[n] \o F[n + 2]
        BY <1>6, <4>1
      <4> QED  BY <4>1, <4>2 DEF n
    <3>3. g[i] = f[i - 1] /\ g[i - 1] = f[i - 2]
      BY <3>1
    <3> HIDE DEF g
    <3> QED  BY <2>2, <3>2, <3>3
  <2> QED  BY <2>1, <2>2
<1>8. w = Body(w)
  <2> HIDE DEF g, Body
  <2> QED  BY <1>7
<1> HIDE DEF w
<1>9. w[1] = F[1] /\ \A i \in 2..k : w[i] = w[i - 1] \o F[i]
  <2>1. \A i \in 1..k : w[i] = Body(w)[i]
    <3> HIDE DEF Body
    <3> QED  BY <1>8
  <2>2. \A i \in 1..k : Body(w)[i] = IF i = 1 THEN F[i] ELSE w[i - 1] \o F[i]
    OBVIOUS
  <2>3. 1 \in 1..k /\ \A i \in 2..k : i \in 1..k /\ i # 1
    BY <1>1
  <2> HIDE DEF Body
  <2> QED  BY <2>1, <2>2, <2>3
<1> QED  BY <1>2, <1>9 DEF k
(* When each member of s is replaced by a list within its place, the result  *)
(* is a list.                                                                *)
LEMMA Flattened ==
  ASSUME NEW P, Places(P), NEW W, Places(W), NEW s \in Seq(P), NEW c \in Nat \ {0}, List(s, 1, c),
         NEW F \in Seq(Seq(W)), Len(F) = Len(s),
         \A n \in 1..Len(s) : List(F[n], s[n].from, s[n].to + 1)
  PROVE  /\ FlattenSeq(F) \in Seq(W) /\ List(FlattenSeq(F), 1, c)
         /\ \A i : Holds(FlattenSeq(F), i) <=> \E n \in 1..Len(s) : Holds(F[n], i)
<1> DEFINE k == Len(s)
<1>1. /\ k \in Nat /\ DOMAIN s = 1..k /\ Len(F) = k
      /\ \A n \in 1..k : F[n] \in Seq(W) /\ s[n] \in P /\ List(F[n], s[n].from, s[n].to + 1)
  OBVIOUS
<1>2. /\ \A n \in 1..k : /\ s[n].from \in Nat /\ s[n].to \in Nat
                         /\ 1 <= s[n].from /\ s[n].from <= s[n].to /\ s[n].to < c
      /\ \A m, n \in 1..k : m < n => s[m].to < s[n].from
  BY <1>1 DEF Places, List
<1> HIDE DEF k
<1>3. CASE k = 0
  <2>1. FlattenSeq(F) = F
    BY <1>1, <1>3 DEF FlattenSeq
  <2>2. F = <<>>
    BY <1>1, <1>3, EmptySeq
  <2>3. <<>> \in Seq(W) /\ 1..k = {}
    BY <1>3, EmptySeq
  <2> QED  BY <2>1, <2>2, <2>3, ListEmpty DEF k
<1>4. CASE k # 0
  <2>1. PICK g : /\ g[1] = F[1] /\ \A i \in 2..k : g[i] = g[i - 1] \o F[i]
                 /\ FlattenSeq(F) = g[k]
    BY <1>1, <1>4, FlattenEquation
  <2> DEFINE Good(i) == /\ g[i] \in Seq(W) /\ List(g[i], 1, s[i].to + 1)
                        /\ \A j : Holds(g[i], j) <=> \E n \in 1..i : Holds(F[n], j)
             T == {m \in Nat : m + 1 <= k => Good(m + 1)}
  <2>2. Good(1)
    <3>1. 1 \in 1..k /\ 1..1 = {1} /\ 1 \in Nat
      BY <1>1, <1>4
    <3>2. /\ F[1] \in Seq(W) /\ List(F[1], s[1].from, s[1].to + 1)
          /\ s[1].from \in Nat /\ s[1].to + 1 \in Nat /\ 1 <= s[1].from /\ s[1].to + 1 <= s[1].to + 1
      BY <1>1, <1>2, <3>1
    <3>3. List(F[1], 1, s[1].to + 1)
      BY <3>1, <3>2, ListWider
    <3> QED  BY <2>1, <3>1, <3>2, <3>3
  <2>3. ASSUME NEW i \in 2..k, Good(i - 1)
        PROVE  Good(i)
    <3> DEFINE h == i - 1
    <3>1. h \in 1..k /\ i \in 1..k /\ h < i /\ i = h + 1
      BY <1>1
    <3>2. g[h] \in Seq(W) /\ List(g[h], 1, s[h].to + 1)
          /\ \A j : Holds(g[h], j) <=> \E n \in 1..h : Holds(F[n], j)
      BY <2>3
    <3>3. g[i] = g[h] \o F[i]
      BY <2>1
    <3> HIDE DEF h
    <3> DEFINE a == s[h].to + 1
               b == s[i].from
               d == s[i].to + 1
               t == F[i]
               l == g[h]
    <3>4. /\ a \in Nat /\ b \in Nat /\ d \in Nat /\ a <= b /\ b <= d /\ 1 \in Nat /\ 1 <= 1 /\ 1 <= b
      BY <1>2, <3>1
    <3>5. l \in Seq(W) /\ List(l, 1, a) /\ t \in Seq(W) /\ List(t, b, d)
      BY <1>1, <3>1, <3>2
    <3> HIDE DEF a, b, d, t, l
    <3>6. List(l, 1, b)
      BY <3>4, <3>5, ListWider
    <3>7. /\ l \o t \in Seq(W) /\ List(l \o t, 1, d)
          /\ \A j : Holds(l \o t, j) <=> Holds(l, j) \/ Holds(t, j)
      BY <3>4, <3>5, <3>6, ListConcat
    <3>8. \A j : Holds(l \o t, j) <=> \E n \in 1..i : Holds(F[n], j)
      <4>1. \A n : n \in 1..i <=> n \in 1..h \/ n = i
        BY <3>1
      <4>2. \A j : Holds(l, j) <=> \E n \in 1..h : Holds(F[n], j)
        BY <3>2 DEF l
      <4> QED  BY <3>7, <4>1, <4>2 DEF t
    <3>9. g[i] = l \o t
      BY <3>3 DEF l, t
    <3> QED  BY <3>7, <3>8, <3>9 DEF d
  <2> HIDE DEF Good
  <2>4. 0 \in T
    BY <2>2
  <2>5. ASSUME NEW m \in Nat, m \in T
        PROVE  m + 1 \in T
    <3>1. CASE (m + 1) + 1 <= k
      <4> DEFINE i == (m + 1) + 1
      <4>1. i \in 2..k /\ i - 1 = m + 1 /\ m + 1 <= k
        BY <1>1, <3>1
      <4>2. Good(i - 1)
        BY <2>5, <4>1
      <4> HIDE DEF i
      <4>3. Good(i)
        BY <2>3, <4>1, <4>2
      <4> QED  BY <4>3 DEF i
    <3> QED  BY <3>1
  <2>6. Nat \subseteq T
    <3> HIDE DEF T
    <3> QED  BY <2>4, <2>5, SetInduction
  <2>7. Good(k)
    <3> DEFINE m == k - 1
    <3>1. m \in Nat /\ m + 1 = k
      BY <1>1, <1>4
    <3> HIDE DEF m
    <3> QED  BY <2>6, <3>1
  <2>8. /\ g[k] \in Seq(W) /\ List(g[k], 1, s[k].to + 1)
        /\ \A j : Holds(g[k], j) <=> \E n \in 1..k : Holds(F[n], j)
    BY <2>7 DEF Good
  <2>9. List(g[k], 1, c)
    <3>1. k \in 1..k
      BY <1>1, <1>4
    <3>2. s[k].to + 1 \in Nat /\ s[k].to + 1 <= c /\ 1 \in Nat /\ 1 <= 1 /\ c \in Nat
      BY <1>2, <3>1
    <3> QED  BY <2>8, <3>2, ListWider
  <2> QED  BY <2>1, <2>8, <2>9 DEF k
<1> QED  BY <1>3, <1>4

LEMMA StripKeeps ==
  ASSUME text \in Seq(Chars), SecondPass, StripWhitespaceFromLines
  PROVE  mode' = "parse" /\ ThirdPass'
<1> DEFINE n == Len(text)
           R == RawPieces(text, After)
           W == WordPieces(text, After)
           F == [m \in DOMAIN pieces |->
                   IF pieces[m].quoted THEN <<pieces[m]>> ELSE Words(pieces[m])]
           k == Len(pieces)
<1>1. /\ pieces' = FlattenSeq(F) /\ mode' = "parse" /\ text' = text /\ tokens' = tokens
      /\ After' = After
  BY Unread DEF StripWhitespaceFromLines
<1>2. /\ tokens = <<>> /\ pieces \in Seq(R) /\ List(pieces, 1, n + 1) /\ n \in Nat
      /\ \A i \in 1..n :
           Holds(pieces, i) <=>
             LookedAt(text, After, i) /\ (StringAt(text, After, i) \/ CodeAt(text, After, i))
  BY DEF SecondPass
<1>3. Places(R) /\ Places(W)
  BY PlacesOf
<1>4. k \in Nat /\ DOMAIN pieces = 1..k /\ \A m \in 1..k : pieces[m] \in R
  BY <1>2
<1>5. ASSUME NEW m \in 1..k
      PROVE  /\ F[m] \in Seq(W) /\ List(F[m], pieces[m].from, pieces[m].to + 1)
             /\ \A i : Holds(F[m], i) <=>
                         /\ i \in pieces[m].from..pieces[m].to
                         /\ StringAt(text, After, i) \/ SolidAt(text, After, i)
  <2> DEFINE p == pieces[m]
  <2>1. p \in R
    BY <1>4
  <2>2. F[m] = IF p.quoted THEN <<p>> ELSE Words(p)
    BY <1>4
  <2> HIDE DEF p, F
  <2>3. /\ p.from \in Nat \ {0} /\ p.to \in Nat /\ p.from <= p.to /\ p.to <= Len(text)
        /\ p \in PieceRecords /\ p.line = Lines(text, p.from)
        /\ p.quoted => \A i \in p.from..p.to : StringAt(text, After, i)
        /\ ~p.quoted => \A i \in p.from..p.to : CodeAt(text, After, i)
    BY <2>1 DEF RawPieces, PieceRecords
  <2>4. p.from \in Nat /\ p.to + 1 \in Nat /\ p.from <= p.from /\ p.to < p.to + 1
    BY <2>3
  <2>5. CASE p.quoted
    <3>1. p \in W
      BY <2>3, <2>5 DEF WordPieces
    <3> HIDE DEF W
    <3>2. /\ <<p>> \in Seq(W) /\ List(<<p>>, p.from, p.to + 1)
          /\ \A i : Holds(<<p>>, i) <=> i \in p.from..p.to
      BY <1>3, <2>3, <2>4, <3>1, ListOne
    <3> QED  BY <2>2, <2>3, <2>5, <3>2 DEF p
  <2>6. CASE ~p.quoted
    <3>1. /\ Words(p) \in Seq(W) /\ List(Words(p), p.from, p.to + 1)
          /\ \A j \in p.from..p.to : Holds(Words(p), j) <=> text[j] \notin Whitespace
      BY <2>1, <2>6, WordsOf
    <3>2. \A j : Holds(Words(p), j) => j \in p.from..p.to
      <4>1. (p.to + 1) - 1 = p.to
        BY <2>3
      <4> QED  BY <1>3, <2>4, <3>1, <4>1, HoldsWithin
    <3>3. \A j \in p.from..p.to :
            /\ CodeAt(text, After, j) /\ ~StringAt(text, After, j)
            /\ SolidAt(text, After, j) <=> text[j] \notin Whitespace
      BY <2>3, <2>6 DEF CodeAt, StringAt, SolidAt
    <3> QED  BY <2>2, <2>6, <3>1, <3>2, <3>3 DEF p
  <2> QED  BY <2>5, <2>6
<1>6. F \in Seq(Seq(W)) /\ Len(F) = k
  <2>1. F \in [1..k -> Seq(W)]
    <3>1. \A m \in 1..k : (IF pieces[m].quoted THEN <<pieces[m]>> ELSE Words(pieces[m])) \in Seq(W)
      <4>1. \A m \in 1..k : F[m] = IF pieces[m].quoted THEN <<pieces[m]>> ELSE Words(pieces[m])
        BY <1>4
      <4> HIDE DEF F, W
      <4> QED  BY <1>5, <4>1
    <3> HIDE DEF W, k
    <3> QED  BY <1>4, <3>1
  <2> HIDE DEF F, W
  <2>2. F \in Seq(Seq(W))
    BY <1>4, <2>1, SeqDef
  <2> QED  BY <1>4, <2>1, <2>2, LenProperties
<1> HIDE DEF F, R, W, n
<1>7. /\ FlattenSeq(F) \in Seq(W) /\ List(FlattenSeq(F), 1, n + 1)
      /\ \A i : Holds(FlattenSeq(F), i) <=> \E m \in 1..k : Holds(F[m], i)
  <2>1. n + 1 \in Nat \ {0}
    BY <1>2
  <2> QED  BY <1>2, <1>3, <1>5, <1>6, <2>1, Flattened
<1>8. ASSUME NEW i \in 1..n
      PROVE  Holds(pieces', i) <=>
               LookedAt(text, After, i) /\ (StringAt(text, After, i) \/ SolidAt(text, After, i))
  <2>1. Holds(pieces', i) <=>
          /\ \E m \in 1..k : i \in pieces[m].from..pieces[m].to
          /\ StringAt(text, After, i) \/ SolidAt(text, After, i)
    BY <1>1, <1>5, <1>7
  <2>2. Holds(pieces, i) <=> \E m \in 1..k : i \in pieces[m].from..pieces[m].to
    BY <1>4 DEF Holds
  <2>3. SolidAt(text, After, i) => CodeAt(text, After, i)
    BY DEF SolidAt
  <2> QED  BY <1>2, <2>1, <2>2, <2>3
<1>9. tokens' \in Seq(GoodTokens(text, After)) /\ List(tokens', 1, 1)
      /\ \A i : ~Holds(tokens', i)
  BY <1>1, <1>2, ListEmpty, EmptySeq
<1>10. 1 \in 1..(n + 1)
  BY <1>2
<1> QED  BY <1>1, <1>7, <1>8, <1>9, <1>10 DEF ThirdPass, W, n
-----------------------------------------------------------------------------
(* The invariant is inductive. *)

LEMMA InitIInv == Init => IInv
<1> SUFFICES ASSUME Init PROVE IInv
  OBVIOUS
<1>1. /\ text = <<>> /\ mode = "code" /\ from = 1 /\ line = 0 /\ opened = 0 /\ slashes = 0
      /\ pieces = <<>> /\ tokens = <<>>
  BY DEF Init
<1>2. text \in Seq(Chars) /\ Len(text) = 0 /\ <<>> \in Seq(RawPieces(text, After))
  BY <1>1, EmptySeq
<1>3. After[0] = "code"
  BY <1>2, AfterIsMarks, MarksEquation
<1>4. Lines(text, 0 + 1) = 0
  BY LinesFirst
<1>5. /\ 1 \in 1..(0 + 1) /\ 1..(1 - 1) = {} /\ 1 - 1 = 0 /\ 1..0 = {}
  OBVIOUS
<1>6. List(pieces, 1, from)
  BY <1>1, ListEmpty
<1>7. FirstPass
  BY <1>1, <1>2, <1>3, <1>4, <1>5, <1>6 DEF FirstPass
<1> QED  BY <1>1, <1>2, <1>7 DEF IInv, Modes

LEMMA NextIInv == IInv /\ [Next]_vars => IInv'
<1> SUFFICES ASSUME IInv, [Next]_vars PROVE IInv'
  OBVIOUS
<1>1. /\ text \in Seq(Chars) /\ mode \in Modes
      /\ mode \in {"code", "string", "comment"} => FirstPass
      /\ mode = "strip" => SecondPass
      /\ mode = "parse" => ThirdPass
  BY DEF IInv
<1>2. ASSUME NEW alphabet \in Alphabets, NEW c \in alphabet, Read(c)
      PROVE  IInv'
  <2>1. c \in Chars
    BY DEF Chars
  <2>2. text' = Append(text, c) /\ mode \in {"code", "string", "comment"}
    BY <1>2 DEF Read, ReadCode, ReadMark, ReadComment, ReadString
  <2>3. text' \in Seq(Chars)
    BY <1>1, <2>1, <2>2, AppendProperties
  <2>4. FirstPass
    BY <1>1, <2>2
  <2>5. mode' \in {"code", "string", "comment"} /\ FirstPass'
    <3>1. CASE ReadCode(c)
      BY <1>1, <2>1, <2>4, <3>1, ReadCodeKeeps
    <3>2. CASE ReadMark(c)
      BY <1>1, <2>1, <2>4, <3>2, ReadMarkKeeps
    <3>3. CASE ReadComment(c)
      BY <1>1, <2>1, <2>4, <3>3, ReadCommentKeeps
    <3>4. CASE ReadString(c)
      BY <1>1, <2>1, <2>4, <3>4, ReadStringKeeps
    <3> QED  BY <1>2, <3>1, <3>2, <3>3, <3>4 DEF Read
  <2> QED  BY <2>3, <2>5 DEF IInv, Modes
<1>3. CASE EndOfText
  <2>1. text' = text /\ FirstPass
    BY <1>1, <1>3 DEF EndOfText
  <2>2. (mode' = "strip" /\ SecondPass') \/ (mode' = "failed" /\ Failed')
    BY <1>1, <1>3, <2>1, EndOfTextKeeps
  <2> QED  BY <1>1, <2>1, <2>2 DEF IInv, Modes
<1>4. CASE StripWhitespaceFromLines
  <2>1. text' = text /\ SecondPass
    BY <1>1, <1>4 DEF StripWhitespaceFromLines
  <2>2. mode' = "parse" /\ ThirdPass'
    BY <1>1, <1>4, <2>1, StripKeeps
  <2> QED  BY <1>1, <2>1, <2>2 DEF IInv, Modes
<1>5. CASE TakeString
  <2>1. text' = text /\ ThirdPass
    BY <1>1, <1>5 DEF TakeString
  <2>2. mode' = "parse" /\ ThirdPass'
    BY <1>1, <1>5, <2>1, TakeStringKeeps
  <2> QED  BY <1>1, <2>1, <2>2 DEF IInv, Modes
<1>6. CASE ParseSingleToken
  <2>1. text' = text /\ ThirdPass
    BY <1>1, <1>6 DEF ParseSingleToken
  <2>2. (mode' = "parse" /\ ThirdPass') \/ (mode' = "failed" /\ Failed')
    BY <1>1, <1>6, <2>1, ParseSingleTokenKeeps
  <2> QED  BY <1>1, <2>1, <2>2 DEF IInv, Modes
<1>7. CASE Finish
  <2>1. text' = text /\ ThirdPass
    BY <1>1, <1>7 DEF Finish
  <2>2. mode' = "done" /\ Finished'
    BY <1>1, <1>7, <2>1, FinishKeeps
  <2> QED  BY <1>1, <2>1, <2>2 DEF IInv, Modes
<1>8. CASE UNCHANGED vars
  <2>1. /\ text' = text /\ mode' = mode /\ from' = from /\ line' = line /\ opened' = opened
        /\ slashes' = slashes /\ pieces' = pieces /\ tokens' = tokens /\ error' = error
        /\ After' = After
    BY <1>8, Unread DEF vars, reading
  <2>2. FirstPass => FirstPass'
    BY <2>1 DEF FirstPass, Opened
  <2>3. SecondPass => SecondPass'
    BY <2>1 DEF SecondPass
  <2>4. ThirdPass => ThirdPass'
    BY <2>1 DEF ThirdPass
  <2>5. Finished => Finished'
    BY <2>1 DEF Finished
  <2>6. Failed => Failed'
    BY <2>1 DEF Failed, ErrorAt
  <2> QED  BY <2>1, <2>2, <2>3, <2>4, <2>5, <2>6 DEF IInv
<1> QED  BY <1>2, <1>3, <1>4, <1>5, <1>6, <1>7, <1>8 DEF Next

LEMMA Invariance == Spec => []IInv
BY InitIInv, NextIInv, PTL DEF Spec

-----------------------------------------------------------------------------
(* What the invariant means. *)

(* The predicates of the reference are those of the invariant. *)
LEMMA Reference ==
  ASSUME text \in Seq(Chars)
  PROVE  /\ \A i \in DOMAIN text : /\ InCode(i) <=> CodeAt(text, After, i)
                                   /\ InString(i) <=> StringAt(text, After, i)
                                   /\ Looked(i) <=> LookedAt(text, After, i)
         /\ \A i : IsLetterAt(i) <=> LetterAt(text, After, i)
<1>1. DOMAIN text = 1..Len(text) /\ Len(text) \in Nat
  OBVIOUS
<1>2. ASSUME NEW i \in 1..Len(text)
      PROVE  /\ InCode(i) <=> CodeAt(text, After, i)
             /\ InString(i) <=> StringAt(text, After, i)
  BY DEF InCode, InString, CodeAt, StringAt
<1>3. ASSUME NEW i \in 1..Len(text)
      PROVE  Looked(i) <=> LookedAt(text, After, i)
  <2>1. \A j \in i..Len(text) : j \in 1..Len(text)
    BY <1>1
  <2> QED  BY <2>1 DEF Looked, LookedAt, EndAt
<1>4. ASSUME NEW i
      PROVE  IsLetterAt(i) <=> LetterAt(text, After, i)
  <2>1. \A x \in Letters : x \notin Whitespace
    BY ClassesAssumption
  <2>2. LetterAt(text, After, i) => i \in 1..Len(text)
    BY DEF LetterAt, SolidAt, CodeAt
  <2> QED  BY <1>1, <1>2, <2>1, <2>2 DEF IsLetterAt, LetterAt, SolidAt
<1> QED  BY <1>1, <1>2, <1>3, <1>4

(* The tokens that were scanned are good ones. *)
LEMMA ScannedGood ==
  ASSUME IInv
  PROVE  \A n \in DOMAIN Scanned :
           /\ n \in DOMAIN tokens /\ tokens[n] \in GoodTokens(text, After)
<1>1. CASE mode = "done"
  <2> DEFINE list == SubSeq(tokens, 1, Len(tokens) - 1)
             R == [from : Nat, to : Nat, line : Nat, kind : Kinds \cup {"eof"}]
  <2>1. Scanned = list
    BY <1>1 DEF Scanned
  <2>2. list \in Seq(GoodTokens(text, After)) /\ tokens \in Seq(R) /\ tokens # <<>>
    BY <1>1 DEF IInv, Finished
  <2> DEFINE k == Len(tokens) - 1
  <2> HIDE DEF R
  <2>3. k \in Nat /\ \A n \in 1..k : n \in DOMAIN tokens /\ tokens[n] \in R
    BY <2>2, EmptySeq
  <2> HIDE DEF k
  <2>4. /\ Len(SubSeq(tokens, 1, k)) = IF 1 <= k THEN k - 1 + 1 ELSE 0
        /\ \A n \in 1..(k - 1 + 1) : SubSeq(tokens, 1, k)[n] = tokens[1 + n - 1]
    BY <2>3, SubSeqProperties
  <2>5. list = SubSeq(tokens, 1, k)
    BY DEF k
  <2> HIDE DEF list
  <2>6. Len(list) = k /\ \A n \in 1..k : list[n] = tokens[n]
    BY <2>3, <2>4, <2>5
  <2> QED  BY <2>1, <2>2, <2>3, <2>6
<1>2. CASE mode # "done"
  <2>1. tokens \in Seq(GoodTokens(text, After))
    <3>1. <<>> \in Seq(GoodTokens(text, After))
      BY EmptySeq
    <3> QED  BY <1>2, <3>1 DEF IInv, Modes, FirstPass, SecondPass, ThirdPass, Failed
  <2>2. Scanned = SubSeq(tokens, 1, Len(tokens))
    BY <1>2 DEF Scanned
  <2>3. Scanned = tokens
    BY <2>1, <2>2, SubSeqFull
  <2> QED  BY <2>1, <2>3
<1> QED  BY <1>1, <1>2

(* As far as the scanner looks, whatever the file, every character of code   *)
(* and of strings is in one token, and nothing else is: StripWhitespaceFrom- *)
(* Lines and ParseSingleToken agree with the first pass on every place.      *)
THEOREM NothingIsLost == Spec => []NothingLost
<1>1. IInv => NothingLost
  <2> SUFFICES ASSUME IInv, mode = "done" PROVE NothingLost
    BY DEF NothingLost
  <2> DEFINE list == SubSeq(tokens, 1, Len(tokens) - 1)
             R == [from : Nat, to : Nat, line : Nat, kind : Kinds \cup {"eof"}]
             k == Len(tokens) - 1
             n == Len(text)
  <2>1. /\ tokens # <<>> /\ tokens \in Seq(R)
        /\ tokens[Len(tokens)].from = n + 1 /\ tokens[Len(tokens)].to = n
        /\ list \in Seq(GoodTokens(text, After)) /\ List(list, 1, n + 1)
        /\ \A i \in 1..n :
             Holds(list, i) <=>
               LookedAt(text, After, i) /\ (StringAt(text, After, i) \/ SolidAt(text, After, i))
        /\ text \in Seq(Chars)
    BY DEF IInv, Finished
  <2>2. DOMAIN text = 1..n /\ n \in Nat
    BY <2>1
  <2> HIDE DEF R, n
  <2>3. k \in Nat /\ Len(tokens) = k + 1 /\ DOMAIN tokens = 1..(k + 1)
        /\ \A m \in 1..k : tokens[m] \in R
    BY <2>1, EmptySeq
  <2> DEFINE l == SubSeq(tokens, 1, k)
  <2> HIDE DEF k
  <2>4. /\ Len(l) = IF 1 <= k THEN k - 1 + 1 ELSE 0
        /\ \A m \in 1..(k - 1 + 1) : l[m] = tokens[1 + m - 1]
    BY <2>3, SubSeqProperties
  <2>5. list = l
    BY DEF k
  <2> HIDE DEF list, l
  <2>6. Len(list) = k /\ DOMAIN list = 1..k /\ \A m \in 1..k : list[m] = tokens[m]
    BY <2>1, <2>3, <2>4, <2>5
  <2>7. ASSUME NEW i \in 1..n
        PROVE  Covered(i) <=> Holds(list, i)
    <3>1. \A m \in 1..(k + 1) : m \in 1..k \/ m = k + 1
      BY <2>3
    <3>2. \A m \in 1..k : m \in 1..(k + 1)
      BY <2>3
    <3>3. i \notin tokens[k + 1].from..tokens[k + 1].to
      BY <2>1, <2>2, <2>3
    <3> QED  BY <2>3, <2>6, <3>1, <3>2, <3>3 DEF Covered, Holds
  <2>8. ASSUME NEW i \in DOMAIN text
        PROVE  Covered(i) <=>
                 Looked(i) /\ (InString(i) \/ (InCode(i) /\ text[i] \notin Whitespace))
    <3>1. /\ InCode(i) <=> CodeAt(text, After, i)
          /\ InString(i) <=> StringAt(text, After, i)
          /\ Looked(i) <=> LookedAt(text, After, i)
      BY <2>1, Reference
    <3> QED  BY <2>1, <2>2, <2>7, <3>1 DEF SolidAt
  <2>9. ASSUME NEW m \in 1..(Len(tokens) - 1)
        PROVE  tokens[m].to < tokens[m + 1].from
    <3>1. m \in 1..k
      BY DEF k
    <3>2. list[m] = tokens[m] /\ tokens[m].to < n + 1
      BY <2>1, <2>6, <3>1 DEF List
    <3>3. CASE m = k
      BY <2>1, <2>3, <3>2, <3>3
    <3>4. CASE m # k
      <4>1. m + 1 \in 1..k /\ m < m + 1
        BY <2>3, <3>1, <3>4
      <4>2. list[m + 1] = tokens[m + 1]
        BY <2>6, <4>1
      <4> QED  BY <2>1, <2>6, <3>1, <3>2, <4>1, <4>2 DEF List
    <3> QED  BY <3>3, <3>4
  <2> QED  BY <2>8, <2>9 DEF NothingLost
<1> QED  BY <1>1, Invariance, PTL

(* Every token, and every error, is on the line on which it starts.          *)
THEOREM LinesAreExact == Spec => []LinesExact
<1>1. IInv => LinesExact
  <2> SUFFICES ASSUME IInv PROVE LinesExact
    OBVIOUS
  <2>1. text \in Seq(Chars)
    BY DEF IInv
  <2>2. ASSUME NEW n \in DOMAIN Scanned
        PROVE  tokens[n].line = LineOf(tokens[n].from)
    <3>1. tokens[n] \in GoodTokens(text, After)
      BY ScannedGood
    <3>2. tokens[n].line = Lines(text, tokens[n].from)
      BY <3>1 DEF GoodTokens
    <3> QED  BY <3>2, LineOfIsLines
  <2>3. ASSUME mode = "failed"
        PROVE  \E i \in DOMAIN text :
                 /\ error = LineOf(i) + 1
                 /\ \/ After[i - 1] = "code" /\ text[i] \in {Quote, Hash}
                       /\ \A j \in i..Len(text) : After[j] # "code"
                    \/ InCode(i) /\ Looked(i) /\ text[i] \in Junk \cup {Backslash}
    <3>1. PICK i \in 1..Len(text) : ErrorAt(i)
      BY <2>3 DEF IInv, Failed
    <3>2. i \in DOMAIN text /\ LineOf(i) = Lines(text, i)
      BY <2>1, LineOfIsLines
    <3>3. /\ InCode(i) <=> CodeAt(text, After, i)
          /\ Looked(i) <=> LookedAt(text, After, i)
      BY <2>1, <3>2, Reference
    <3> QED  BY <3>1, <3>2, <3>3 DEF ErrorAt
  <2> QED  BY <2>2, <2>3 DEF LinesExact
<1> QED  BY <1>1, Invariance, PTL

(* No word is cut in two, and its spelling decides what it is.               *)
THEOREM WordsAreWhole == Spec => []WholeWords
<1>1. IInv => WholeWords
  <2> SUFFICES ASSUME IInv, NEW n \in DOMAIN Scanned, tokens[n].kind \notin {"string", "symbol"}
               PROVE  LET t == tokens[n]
                          word == SubSeq(text, t.from, t.to)
                      IN  /\ ~IsLetterAt(t.from - 1) /\ ~IsLetterAt(t.to + 1)
                          /\ Spelled(t, Letters)
                          /\ t.kind = IF word \in Keywords THEN "keyword"
                                      ELSE IF text[t.from] \in Lower THEN "variable"
                                      ELSE IF Spelled(t, Upper) THEN "builtin" ELSE "function"
    BY DEF WholeWords
  <2> DEFINE t == tokens[n]
             word == SubSeq(text, t.from, t.to)
  <2>1. text \in Seq(Chars)
    BY DEF IInv
  <2>2. t \in GoodTokens(text, After)
    BY ScannedGood
  <2>3. t.kind \notin {"string", "symbol"}
    OBVIOUS
  <2> HIDE DEF t
  <2>4. /\ 1 <= t.from /\ t.from <= t.to /\ t.to <= Len(text) /\ t.from \in Nat /\ t.to \in Nat
        /\ ~LetterAt(text, After, t.from - 1) /\ ~LetterAt(text, After, t.to + 1)
        /\ \A i \in t.from..t.to : text[i] \in Letters
        /\ t.kind = KindOf(word)
    BY <2>2, <2>3 DEF GoodTokens, TokenRecords
  <2>5. ~IsLetterAt(t.from - 1) /\ ~IsLetterAt(t.to + 1)
    BY <2>1, <2>4, Reference
  <2> DEFINE a == t.from
             b == t.to
  <2>6. /\ a \in Int /\ b \in Int /\ a <= b /\ \A i \in a..b : text[i] \in Chars
    BY <2>1, <2>4
  <2> HIDE DEF a, b
  <2>7. /\ Len(SubSeq(text, a, b)) = IF a <= b THEN b - a + 1 ELSE 0
        /\ \A i \in 1..(b - a + 1) : SubSeq(text, a, b)[i] = text[a + i - 1]
    BY <2>6, SubSeqProperties
  <2>8. word = SubSeq(text, a, b)
    BY DEF a, b
  <2> HIDE DEF word
  <2>9. Len(word) = b - a + 1 /\ \A i \in 1..Len(word) : word[i] = text[a + i - 1]
    BY <2>6, <2>7, <2>8
  <2>10. word[1] = text[a]
    <3>1. 1 \in 1..Len(word) /\ a + 1 - 1 = a
      BY <2>6, <2>9
    <3> QED  BY <2>9, <3>1
  <2>11. (\A i \in 1..Len(word) : word[i] \in Upper) <=> \A i \in a..b : text[i] \in Upper
    <3>1. \A i \in a..b : i - a + 1 \in 1..Len(word) /\ a + (i - a + 1) - 1 = i
      BY <2>6, <2>9
    <3>2. \A i \in 1..Len(word) : a + i - 1 \in a..b
      BY <2>6, <2>9
    <3>3. ASSUME \A i \in 1..Len(word) : word[i] \in Upper, NEW i \in a..b
          PROVE  text[i] \in Upper
      <4> DEFINE j == i - a + 1
      <4>1. j \in 1..Len(word) /\ a + j - 1 = i
        BY <3>1
      <4> HIDE DEF j
      <4> QED  BY <2>9, <3>3, <4>1
    <3> QED  BY <2>9, <3>2, <3>3
  <2>12. Spelled(t, Letters) /\ (Spelled(t, Upper) <=> \A i \in a..b : text[i] \in Upper)
    BY <2>4 DEF Spelled, a, b
  <2>13. t.kind = IF word \in Keywords THEN "keyword"
                  ELSE IF text[a] \in Lower THEN "variable"
                  ELSE IF Spelled(t, Upper) THEN "builtin" ELSE "function"
    BY <2>4, <2>10, <2>11, <2>12 DEF KindOf
  <2> QED  BY <2>5, <2>12, <2>13 DEF t, word, a
<1> QED  BY <1>1, Invariance, PTL

(* Every token taken in the third pass ends behind the one before it.        *)
THEOREM TokensMoveOn == Spec => EveryTokenMovesOn
<1> DEFINE last == IF tokens = <<>> THEN 0 ELSE tokens[Len(tokens)].to
           A == mode' = "parse" /\ tokens' # tokens => tokens'[Len(tokens')].to > last
<1>1. IInv /\ [Next]_vars => [A]_vars
  <2> SUFFICES ASSUME IInv, Next, mode' = "parse", tokens' # tokens
               PROVE  tokens'[Len(tokens')].to > last
    OBVIOUS
  <2>1. text \in Seq(Chars) /\ (mode = "parse" => ThirdPass)
        /\ (mode \in {"code", "string", "comment"} => FirstPass)
    BY DEF IInv
  <2>2. CASE TakeString
    <3>1. mode = "parse"
      BY <2>2 DEF TakeString
    <3> QED  BY <2>1, <2>2, <3>1, TakeStringKeeps
  <2>3. CASE ParseSingleToken
    <3>1. mode = "parse"
      BY <2>3 DEF ParseSingleToken
    <3> QED  BY <2>1, <2>3, <3>1, ParseSingleTokenKeeps
  <2>4. ASSUME NEW c, Read(c) PROVE FALSE
    BY <2>4 DEF Read, ReadCode, ReadMark, ReadComment, ReadString
  <2>5. ~EndOfText /\ ~StripWhitespaceFromLines /\ ~Finish
    BY DEF EndOfText, StripWhitespaceFromLines, Finish
  <2> QED  BY <2>2, <2>3, <2>4, <2>5 DEF Next
<1>2. EveryTokenMovesOn <=> [][A]_vars
  BY DEF EveryTokenMovesOn
<1> QED  BY <1>1, <1>2, Invariance, PTL DEF Spec
=============================================================================
